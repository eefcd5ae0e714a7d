----------------------------- MODULE TaskQueues -----------------------------
(***************************************************************************)
(* What the intrusive task lists promise their callers: every list is a    *)
(* sequence of tasks, a task is in at most one of them, and a call that    *)
(* takes a task out hands back the one at that end.  TaskList, the ring of *)
(* links the code keeps, is shown to implement it.                         *)
(***************************************************************************)
EXTENDS Naturals, Sequences

CONSTANTS Lists, Tasks, Null

VARIABLES queue,      \* the tasks of each list, front first
          returned    \* what the last call handed back

vars == <<queue, returned>>

Elements(q) == {q[i] : i \in 1..Len(q)}

Unlinked(t) == \A L \in Lists : t \notin Elements(queue[L])

Init == queue = [L \in Lists |-> << >>] /\ returned = Null

PushFront(L, t) ==
  /\ Unlinked(t)
  /\ queue' = [queue EXCEPT ![L] = <<t>> \o @]
  /\ returned' = Null

PushBack(L, t) ==
  /\ Unlinked(t)
  /\ queue' = [queue EXCEPT ![L] = Append(@, t)]
  /\ returned' = Null

PopFront(L) ==
  /\ queue[L] # << >>
  /\ queue' = [queue EXCEPT ![L] = Tail(@)]
  /\ returned' = Head(queue[L])

PopBack(L) ==
  /\ queue[L] # << >>
  /\ queue' = [queue EXCEPT ![L] = SubSeq(@, 1, Len(@) - 1)]
  /\ returned' = queue[L][Len(queue[L])]

PopNothing(L) ==
  /\ queue[L] = << >>
  /\ returned' = Null
  /\ UNCHANGED queue

\* A task that is not in the list stays wherever it is.
Remove(L, t) ==
  /\ IF t \in Elements(queue[L])
       THEN \E i \in 1..Len(queue[L]) :
              /\ queue[L][i] = t
              /\ queue' = [queue EXCEPT ![L] = SubSeq(@, 1, i - 1) \o SubSeq(@, i + 1, Len(@))]
       ELSE UNCHANGED queue
  /\ returned' = Null

Next ==
  \E L \in Lists :
    \/ PopFront(L) \/ PopBack(L) \/ PopNothing(L)
    \/ \E t \in Tasks : PushFront(L, t) \/ PushBack(L, t) \/ Remove(L, t)

Spec == Init /\ [][Next]_vars
=============================================================================
