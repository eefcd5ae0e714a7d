----------------------------- MODULE MCRefPack -----------------------------
(* Small limits, and a hash that does not see the byte in the middle.      *)
EXTENDS RefPack

MCHashOf == [b \in Byte \X Byte \X Byte |-> b[1] + b[3]]
=============================================================================
