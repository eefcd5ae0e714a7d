--------------------------- MODULE MCAudioPlayback ---------------------------
(* Two sounds without a place, one that loops with a delay and one of higher *)
(* priority, and a sound in the world that loops twice; one sample of each   *)
(* kind and a cache that holds two small files or the large one.             *)
EXTENDS AudioPlayback

CONSTANTS e1, e2, e3, f1, f2, f3

\* An address is as good as any other.
Symmetry == Permutations(Buffers)

MCEvents == {e1, e2, e3}
MCFiles == {f1, f2, f3}
MCSize == [f \in MCFiles |-> IF f = f3 THEN 2 ELSE 1]
MCSamples == [K \in Kinds |-> IF K = "global" THEN <<"2d1">> ELSE <<"3d1">>]

Sound(kind, priority, attack, names, decay, loop, loops, delay) ==
  [kind |-> kind, priority |-> priority, attack |-> attack, sounds |-> names,
   decay |-> decay, loop |-> loop, loops |-> loops, delay |-> delay]
MCInfo == [e \in MCEvents |->
  IF e = e1 THEN Sound("global", 1, Null, {f1}, f2, TRUE, 0, 1)
  ELSE IF e = e2 THEN Sound("global", 2, f1, {f3}, Null, FALSE, 0, 0)
  ELSE Sound("positional", 1, Null, {f2}, Null, TRUE, 2, 0)]
=============================================================================
