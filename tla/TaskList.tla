------------------------------ MODULE TaskList ------------------------------
(***************************************************************************)
(* TextureLoadTaskListClass (w3d/renderer/textureloadtasklist.cpp): the    *)
(* doubly linked rings that the foreground, the background and the free    *)
(* list are.  A node is a task's m_listNode, or a list itself, which the   *)
(* code reads as a node whose succ is m_head and whose prev is m_tail: a   *)
(* ring with no tasks is a list that points at itself.                     *)
(*                                                                         *)
(* One action is one call: the foreground and background queues are        *)
(* SynchronizedTextureLoadTaskListClass, whose every call locks a mutex of *)
(* the list.  The free list has no mutex; FreeListRace takes its Pop_Front *)
(* apart.                                                                  *)
(***************************************************************************)
EXTENDS Naturals, Sequences, FiniteSets

CONSTANTS Lists, Tasks, Null

ASSUME NodesAssumption ==
  /\ Lists \cap Tasks = {} /\ IsFiniteSet(Tasks)
  /\ Null \notin Lists \cup Tasks

VARIABLES succ,       \* m_listNode.succ, m_head
          prev,       \* m_listNode.prev, m_tail
          owner,      \* m_parent
          returned    \* what the last call handed back

links == <<succ, prev, owner>>
vars  == <<links, returned>>

Nodes == Lists \cup Tasks

Init ==
  /\ succ  = [n \in Nodes |-> IF n \in Lists THEN n ELSE Null]
  /\ prev  = [n \in Nodes |-> IF n \in Lists THEN n ELSE Null]
  /\ owner = [t \in Tasks |-> Null]
  /\ returned = Null

\* Every caller pushes a task it has created, popped or removed.
Unlinked(t) == owner[t] = Null

PushFrontOneWay(L, t) ==      \* mutant: the old head keeps its way back
  /\ succ'  = [succ EXCEPT ![t] = succ[L], ![L] = t]
  /\ prev'  = [prev EXCEPT ![t] = L]
  /\ owner' = [owner EXCEPT ![t] = L]

PushFront(L, t) ==
  /\ succ'  = [succ EXCEPT ![t] = succ[L], ![L] = t]
  /\ prev'  = [prev EXCEPT ![t] = L, ![succ[L]] = t]
  /\ owner' = [owner EXCEPT ![t] = L]

PushBack(L, t) ==
  /\ succ'  = [succ EXCEPT ![t] = L, ![prev[L]] = t]
  /\ prev'  = [prev EXCEPT ![t] = prev[L], ![L] = t]
  /\ owner' = [owner EXCEPT ![t] = L]

Unlink(L, t) ==
  IF owner[t] = L
    THEN /\ succ'  = [succ EXCEPT ![prev[t]] = succ[t], ![t] = Null]
         /\ prev'  = [prev EXCEPT ![succ[t]] = prev[t], ![t] = Null]
         /\ owner' = [owner EXCEPT ![t] = Null]
    ELSE UNCHANGED links

IsEmpty(L) == succ[L] = L

Push(L, t) ==
  /\ Unlinked(t)
  /\ PushFront(L, t) \/ PushBack(L, t)
  /\ returned' = Null

PopFront(L) ==
  /\ ~IsEmpty(L)
  /\ Unlink(L, succ[L])
  /\ returned' = succ[L]

PopBackMixed(L) ==            \* mutant: hands back the task at the other end
  /\ ~IsEmpty(L)
  /\ Unlink(L, prev[L])
  /\ returned' = succ[L]

PopBack(L) ==
  /\ ~IsEmpty(L)
  /\ Unlink(L, prev[L])
  /\ returned' = prev[L]

PopNothing(L) ==
  /\ IsEmpty(L)
  /\ returned' = Null
  /\ UNCHANGED links

Remove(L, t) ==
  /\ Unlink(L, t)
  /\ returned' = Null

Next ==
  \E L \in Lists :
    \/ PopFront(L) \/ PopBack(L) \/ PopNothing(L)
    \/ \E t \in Tasks : Push(L, t) \/ Remove(L, t)

Spec == Init /\ [][Next]_vars

-----------------------------------------------------------------------------

TypeOK ==
  /\ succ \in [Nodes -> Nodes \cup {Null}]
  /\ prev \in [Nodes -> Nodes \cup {Null}]
  /\ owner \in [Tasks -> Lists \cup {Null}]
  /\ returned \in Tasks \cup {Null}

\* The list a node belongs to, by what m_parent says.
ListOf(n) == IF n \in Lists THEN n ELSE owner[n]

Linked(n) == ListOf(n) # Null

\* Going there and back from a linked node ends where it started, and a task's
\* neighbours are of the list its m_parent names; a task that is not linked
\* points nowhere.  Every call keeps this, Remove of a task that is in another
\* list and pushes to an empty ring included.
RingsIntact ==
  \A n \in Nodes :
    IF Linked(n)
      THEN /\ succ[n] \in Nodes /\ prev[n] \in Nodes
           /\ prev[succ[n]] = n /\ succ[prev[n]] = n
           /\ ListOf(succ[n]) = ListOf(n) /\ ListOf(prev[n]) = ListOf(n)
      ELSE succ[n] = Null /\ prev[n] = Null

-----------------------------------------------------------------------------
(* The sequence a ring stands for.                                         *)

\* The first i tasks on the way along the successors.
Along(L) ==
  LET node[i \in 0..Cardinality(Tasks)] ==
        IF i = 0 THEN L ELSE succ[node[i - 1]]
      walk[i \in 0..Cardinality(Tasks)] ==
        IF i = 0 THEN << >>
        ELSE IF \E j \in 1..i : node[j] \in Lists \cup {Null}
               THEN walk[i - 1] ELSE Append(walk[i - 1], node[i])
  IN  walk[Cardinality(Tasks)]

Queues == INSTANCE TaskQueues WITH queue <- [L \in Lists |-> Along(L)]

\* The links behave as the sequences the callers think of: a push puts the task
\* at its end and leaves the others in order, a pop hands back the task at its
\* end, and a task is never in two lists or lost from one it was put into.
ImplementsQueues == Queues!Spec
=============================================================================
