----------------------------- MODULE MCTransport -----------------------------
(* Two peers, three slots of buffers and two of statistics, so that a third   *)
(* period takes over a slot and a search could run off the end of a buffer.   *)
EXTENDS Transport
=============================================================================
