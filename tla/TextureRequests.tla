--------------------------- MODULE TextureRequests ---------------------------
(***************************************************************************)
(* What the texture loader promises of one texture, whatever threads and   *)
(* queues it takes: a texture that is asked for is pending until it is     *)
(* ready, it never goes back to idle with its request forgotten, and, as   *)
(* long as loading is not suspended for good, it does become ready.        *)
(***************************************************************************)
CONSTANT Textures

VARIABLE status

Statuses == {"idle", "pending", "ready"}

Init == status = [t \in Textures |-> "idle"]

Move(t, from, to) ==
  /\ status[t] = from
  /\ status' = [status EXCEPT ![t] = to]

\* A load task is created for the texture.
Request(t) == Move(t, "idle", "pending")

\* The task has given the texture its surface, or the missing texture.
Complete(t) == Move(t, "pending", "ready")

\* The main thread loads the texture on the spot, without a task that waits.
LoadNow(t) == Move(t, "idle", "ready")

\* The texture lets go of its surface; it may be asked for again.
Release(t) == Move(t, "ready", "idle")

Next == \E t \in Textures : Request(t) \/ Complete(t) \/ LoadNow(t) \/ Release(t)

Spec == Init /\ [][Next]_status

\* Every request is answered.
Answered == \A t \in Textures : (status[t] = "pending") ~> (status[t] = "ready")

=============================================================================
