------------------------------ MODULE MCStrings ------------------------------
(* Three strings of up to three characters, of two kinds; buffers come in two *)
(* sizes, so that a shorter text often finds room where a longer one was.     *)
EXTENDS Strings, TLC

CONSTANTS x

MCChars == {x, Space}
MCTexts == {<< >>, <<x>>, <<Space, Space>>, <<x, Space, x>>}
MCActualSize == [n \in 1..(MaxLength + 2) |-> IF n <= 3 THEN 3 ELSE n + 1]

\* Any buffer that is free is as good as the one Unique takes.
Symmetry == Permutations(Strings) \cup Permutations(Buffers)
=============================================================================
