--------------------------- MODULE MCTextureLoader ---------------------------
(* TLC instances of TextureLoader. *)
EXTENDS TextureLoader, TLC

CONSTANTS t1, t2, k1, k2, k3, k4, main, c1, l1, l2

Sym == Permutations(Tasks)

=============================================================================
