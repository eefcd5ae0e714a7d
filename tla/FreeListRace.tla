---------------------------- MODULE FreeListRace ----------------------------
(***************************************************************************)
(* g_freeList between its two users, one C++ statement at a time.  The     *)
(* foreground and background queues have a mutex of their own, the free    *)
(* list is a plain TextureLoadTaskListClass: TextureLoadTaskClass::Create  *)
(* pops it under g_foregroundCritSec, and TextureLoader::Deinit empties it *)
(* (Delete_Free_Pool) under g_backgroundCritSec.  TextureLoader takes each *)
(* of these pops as one step; this module shows what the two pops do to    *)
(* each other.                                                             *)
(*                                                                         *)
(* Two actors: the thread that runs Deinit, and whichever other thread     *)
(* holds g_foregroundCritSec in a request.  Textures are left out.         *)
(***************************************************************************)
EXTENDS TaskList

CONSTANT FreeList

Actors == {"deinit", "create"}

VARIABLES
  pc, hand,     \* where an actor is, and its local `task'
  used,         \* tasks that Create has handed out and Destroy not taken back
  deleted       \* tasks that were deleted

raceVars == <<links, returned, pc, hand, used, deleted>>

RaceInit ==
  /\ Init
  /\ pc = [a \in Actors |-> "idle"]
  /\ hand = [a \in Actors |-> Null]
  /\ used = {} /\ deleted = {}

At(a, label) == pc[a] = label
Goto(a, label) == pc' = [pc EXCEPT ![a] = label]

\* Memory that no task has been in yet.
Fresh(t) == owner[t] = Null /\ \A a \in Actors : hand[a] # t
            /\ t \notin used \cup deleted

-----------------------------------------------------------------------------
(* Destroy, on the thread that will run Deinit: it holds the foreground    *)
(* section, so no other thread is inside Create.                           *)

DestroyTask(t) ==
  /\ At("deinit", "idle") /\ At("create", "idle")
  /\ t \in used
  /\ PushFront(FreeList, t)
  /\ used' = used \ {t}
  /\ UNCHANGED <<returned, pc, hand, deleted>>

\* Delete_Free_Pool starts, or a request reaches Create.
BeginPop(a) ==
  /\ At(a, "idle")
  /\ Goto(a, "pop")
  /\ UNCHANGED <<links, returned, hand, used, deleted>>

-----------------------------------------------------------------------------
(* Pop_Front and the Remove it calls.  m_head is read once.                *)

ReadHead(a) ==
  /\ At(a, "pop") /\ succ[FreeList] \in Tasks
  /\ hand' = [hand EXCEPT ![a] = succ[FreeList]]
  /\ Goto(a, "remove")
  /\ UNCHANGED <<links, returned, used, deleted>>

\* Remove does nothing with a task whose m_parent is not this list.
TestParent(a) ==
  /\ At(a, "remove")
  /\ Goto(a, IF owner[hand[a]] = FreeList THEN "unlink_succ" ELSE "popped")
  /\ UNCHANGED <<links, returned, hand, used, deleted>>

\* Its assignments.  An actor that meets a null link dereferences it and is not
\* followed further.
UnlinkSucc(a) ==
  /\ At(a, "unlink_succ") /\ prev[hand[a]] # Null
  /\ succ' = [succ EXCEPT ![prev[hand[a]]] = succ[hand[a]]]
  /\ Goto(a, "unlink_prev")
  /\ UNCHANGED <<prev, owner, returned, hand, used, deleted>>

UnlinkPrev(a) ==
  /\ At(a, "unlink_prev") /\ succ[hand[a]] # Null
  /\ prev' = [prev EXCEPT ![succ[hand[a]]] = prev[hand[a]]]
  /\ Goto(a, "clear")
  /\ UNCHANGED <<succ, owner, returned, hand, used, deleted>>

ClearLinks(a) ==
  /\ At(a, "clear")
  /\ succ'  = [succ EXCEPT ![hand[a]] = Null]
  /\ prev'  = [prev EXCEPT ![hand[a]] = Null]
  /\ owner' = [owner EXCEPT ![hand[a]] = Null]
  /\ Goto(a, "popped")
  /\ UNCHANGED <<returned, hand, used, deleted>>

-----------------------------------------------------------------------------
(* What the callers do with the task.                                      *)

\* Delete_Free_Pool deletes it and pops the next ...
DeletePopped ==
  /\ At("deinit", "popped")
  /\ deleted' = deleted \cup {hand["deinit"]}
  /\ hand' = [hand EXCEPT !["deinit"] = Null]
  /\ Goto("deinit", "pop")
  /\ UNCHANGED <<links, returned, used>>

\* ... until Pop_Front finds the list empty.
DeletePoolEnds ==
  /\ At("deinit", "pop") /\ IsEmpty(FreeList)
  /\ Goto("deinit", "idle")
  /\ UNCHANGED <<links, returned, hand, used, deleted>>

\* Create uses the task ...
CreatePopped ==
  /\ At("create", "popped")
  /\ used' = used \cup {hand["create"]}
  /\ hand' = [hand EXCEPT !["create"] = Null]
  /\ Goto("create", "idle")
  /\ UNCHANGED <<links, returned, deleted>>

\* ... or a new one if Pop_Front has found none.
CreateNew(t) ==
  /\ At("create", "pop") /\ IsEmpty(FreeList) /\ Fresh(t)
  /\ used' = used \cup {t}
  /\ Goto("create", "idle")
  /\ UNCHANGED <<links, returned, hand, deleted>>

RaceNext ==
  \/ \E t \in Tasks : DestroyTask(t) \/ CreateNew(t)
  \/ \E a \in Actors : BeginPop(a) \/ ReadHead(a) \/ TestParent(a)
                       \/ UnlinkSucc(a) \/ UnlinkPrev(a) \/ ClearLinks(a)
  \/ DeletePopped \/ DeletePoolEnds \/ CreatePopped

RaceSpec == RaceInit /\ [][RaceNext]_raceVars

-----------------------------------------------------------------------------

\* "Deletes all TextureLoadTaskClass objects from the free lists": what is deleted
\* is free, and no request has it in its hands or goes on to use it.
DeletesFreeTasksOnly ==
  deleted \cap (used \cup {hand["create"]}) = {}
=============================================================================
