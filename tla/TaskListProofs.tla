--------------------------- MODULE TaskListProofs ---------------------------
(* The links of the intrusive task lists stay a set of rings and stand for  *)
(* sequences, whatever the number of lists and tasks.                       *)
EXTENDS TaskList, FiniteSetTheorems, SequenceTheorems, WellFoundedInduction, TLAPS

Inv == TypeOK /\ RingsIntact

\* A ring with something in it starts and ends with a task of its own, which is
\* what makes the tasks that Pop_Front and Pop_Back take safe to remove.
LEMMA EndsAreTasks ==
  ASSUME Inv, NEW L \in Lists, ~IsEmpty(L)
  PROVE  /\ succ[L] \in Tasks /\ owner[succ[L]] = L
         /\ prev[L] \in Tasks /\ owner[prev[L]] = L
<1>1. L \in Nodes /\ ListOf(L) = L /\ L # Null
  BY NodesAssumption DEF Nodes, ListOf
<1>2. /\ succ[L] \in Nodes /\ prev[L] \in Nodes
      /\ prev[succ[L]] = L /\ succ[prev[L]] = L
      /\ ListOf(succ[L]) = L /\ ListOf(prev[L]) = L
  BY <1>1 DEF Inv, RingsIntact, Linked
<1>3. succ[L] # L /\ prev[L] # L
  BY <1>2 DEF IsEmpty
<1>. QED
  BY <1>2, <1>3 DEF Nodes, ListOf

\* Unlinking a task closes the gap between its two neighbours, and a call for a
\* task of another list changes nothing (Remove).
LEMMA UnlinkKeepsRings ==
  ASSUME Inv, NEW L \in Lists, NEW t \in Tasks, Unlink(L, t),
         returned' \in Tasks \cup {Null}
  PROVE  Inv'
<1>1. CASE owner[t] # L
  BY <1>1 DEF Unlink, links, Inv, TypeOK, RingsIntact, Linked, ListOf
<1>2. CASE owner[t] = L
  <2>. DEFINE p == prev[t]
              s == succ[t]
  <2>1. /\ t \in Nodes /\ L \in Nodes /\ t \notin Lists /\ L # Null
        /\ \A n \in Nodes : n # Null
    BY NodesAssumption DEF Nodes
  <2>2. /\ p \in Nodes /\ s \in Nodes /\ prev[s] = t /\ succ[p] = t
        /\ ListOf(p) = L /\ ListOf(s) = L
    BY <1>2, <2>1 DEF Inv, RingsIntact, Linked, ListOf
  <2>3. /\ succ' = [succ EXCEPT ![p] = s, ![t] = Null]
        /\ prev' = [prev EXCEPT ![s] = p, ![t] = Null]
        /\ owner' = [owner EXCEPT ![t] = Null]
    BY <1>2 DEF Unlink
  <2>. HIDE DEF p, s
  <2>4. TypeOK'
    BY <2>1, <2>2, <2>3 DEF Inv, TypeOK
  <2>5. /\ \A n \in Nodes : succ'[n] = IF n = t THEN Null ELSE IF n = p THEN s ELSE succ[n]
        /\ \A n \in Nodes : prev'[n] = IF n = t THEN Null ELSE IF n = s THEN p ELSE prev[n]
        /\ \A u \in Tasks : owner'[u] = IF u = t THEN Null ELSE owner[u]
    BY <2>1, <2>2, <2>3 DEF Inv, TypeOK
  <2>6. \A n \in Nodes : n # t => ListOf(n)' = ListOf(n)
    BY <2>1, <2>5 DEF ListOf, Nodes
  <2>7. ASSUME NEW n \in Nodes, n # t, ListOf(n) # Null
        PROVE  /\ succ'[n] \in Nodes /\ succ'[n] # t
               /\ prev'[succ'[n]] = n /\ ListOf(succ'[n]) = ListOf(n)
    <3>1. /\ succ[n] \in Nodes /\ prev[succ[n]] = n /\ ListOf(succ[n]) = ListOf(n)
      BY <2>7 DEF Inv, RingsIntact, Linked
    <3>2. CASE n = p
      <4>1. s # t
        BY <2>2, <2>7, <3>2 DEF p, s
      <4>. QED
        BY <2>2, <2>5, <2>7, <3>2, <4>1
    <3>3. CASE n # p
      <4>1. succ[n] # t
        BY <3>1, <3>3 DEF p
      <4>2. succ[n] # s
        BY <2>2, <2>7, <3>1
      <4>. QED
        BY <2>5, <2>7, <3>1, <3>3, <4>1, <4>2
    <3>. QED
      BY <3>2, <3>3
  <2>8. ASSUME NEW n \in Nodes, n # t, ListOf(n) # Null
        PROVE  /\ prev'[n] \in Nodes /\ prev'[n] # t
               /\ succ'[prev'[n]] = n /\ ListOf(prev'[n]) = ListOf(n)
    <3>1. /\ prev[n] \in Nodes /\ succ[prev[n]] = n /\ ListOf(prev[n]) = ListOf(n)
      BY <2>8 DEF Inv, RingsIntact, Linked
    <3>2. CASE n = s
      <4>1. p # t
        BY <2>2, <2>8, <3>2 DEF p, s
      <4>. QED
        BY <2>2, <2>5, <2>8, <3>2, <4>1
    <3>3. CASE n # s
      <4>1. prev[n] # t
        BY <3>1, <3>3 DEF s
      <4>2. prev[n] # p
        BY <2>2, <2>8, <3>1
      <4>. QED
        BY <2>5, <2>8, <3>1, <3>3, <4>1, <4>2
    <3>. QED
      BY <3>2, <3>3
  <2>9. RingsIntact'
    <3>. SUFFICES ASSUME NEW n \in Nodes
                  PROVE  IF ListOf(n)' # Null
                         THEN /\ succ'[n] \in Nodes /\ prev'[n] \in Nodes
                              /\ prev'[succ'[n]] = n /\ succ'[prev'[n]] = n
                              /\ ListOf(succ[n])' = ListOf(n)'
                              /\ ListOf(prev[n])' = ListOf(n)'
                         ELSE succ'[n] = Null /\ prev'[n] = Null
      BY DEF RingsIntact, Linked, Nodes
    <3>1. CASE n = t
      BY <2>1, <2>5, <3>1 DEF ListOf
    <3>2. CASE n # t /\ ListOf(n) = Null
      <4>1. n # p /\ n # s /\ succ[n] = Null /\ prev[n] = Null
        BY <2>1, <2>2, <3>2 DEF Inv, RingsIntact, Linked
      <4>. QED
        BY <2>5, <2>6, <3>2, <4>1
    <3>3. CASE n # t /\ ListOf(n) # Null
      <4>1. ListOf(succ[n])' = ListOf(n)'
        BY <2>5, <2>7, <3>3 DEF ListOf, Nodes
      <4>2. ListOf(prev[n])' = ListOf(n)'
        BY <2>5, <2>8, <3>3 DEF ListOf, Nodes
      <4>. QED
        BY <2>6, <2>7, <2>8, <3>3, <4>1, <4>2
    <3>. QED
      BY <3>1, <3>2, <3>3
  <2>. QED
    BY <2>4, <2>9 DEF Inv
<1>. QED
  BY <1>1, <1>2

\* A push puts an unlinked task between the list and its old head (Push_Front)
\* or its old tail (Push_Back): between two neighbours of one ring, a and b.
LEMMA InsertKeepsRings ==
  ASSUME Inv, NEW L \in Lists, NEW t \in Tasks, Unlinked(t),
         NEW a \in Nodes, NEW b \in Nodes,
         succ[a] = b, prev[b] = a, ListOf(a) = L, ListOf(b) = L,
         succ' = [succ EXCEPT ![t] = b, ![a] = t],
         prev' = [prev EXCEPT ![t] = a, ![b] = t],
         owner' = [owner EXCEPT ![t] = L],
         returned' = Null
  PROVE  Inv'
<1>1. /\ t \in Nodes /\ L \in Nodes /\ t \notin Lists /\ L # Null /\ t # a /\ t # b
      /\ \A n \in Nodes : n # Null
  BY NodesAssumption DEF Nodes, ListOf, Unlinked
<1>2. TypeOK'
  BY <1>1 DEF Inv, TypeOK
<1>3. /\ \A n \in Nodes : succ'[n] = IF n = t THEN b ELSE IF n = a THEN t ELSE succ[n]
      /\ \A n \in Nodes : prev'[n] = IF n = t THEN a ELSE IF n = b THEN t ELSE prev[n]
      /\ \A u \in Tasks : owner'[u] = IF u = t THEN L ELSE owner[u]
  BY <1>1 DEF Inv, TypeOK
<1>4. ListOf(t)' = L /\ \A n \in Nodes : n # t => ListOf(n)' = ListOf(n)
  BY <1>1, <1>3 DEF ListOf, Nodes
<1>5. RingsIntact'
  <2>. SUFFICES ASSUME NEW n \in Nodes
                PROVE  IF ListOf(n)' # Null
                       THEN /\ succ'[n] \in Nodes /\ prev'[n] \in Nodes
                            /\ prev'[succ'[n]] = n /\ succ'[prev'[n]] = n
                            /\ ListOf(succ[n])' = ListOf(n)'
                            /\ ListOf(prev[n])' = ListOf(n)'
                       ELSE succ'[n] = Null /\ prev'[n] = Null
    BY DEF RingsIntact, Linked, Nodes
  <2>1. CASE n = t
    <3>1. succ'[t] = b /\ prev'[b] = t /\ prev'[t] = a /\ succ'[a] = t
      BY <1>1, <1>3
    <3>2. ListOf(succ[t])' = L /\ ListOf(prev[t])' = L
      BY <1>1, <1>3, <3>1 DEF ListOf, Nodes
    <3>. QED
      BY <1>1, <1>4, <2>1, <3>1, <3>2
  <2>2. CASE n # t /\ ListOf(n) = Null
    <3>1. n # a /\ n # b /\ succ[n] = Null /\ prev[n] = Null
      BY <1>1, <2>2 DEF Inv, RingsIntact, Linked
    <3>. QED
      BY <1>3, <1>4, <2>2, <3>1
  <2>3. CASE n # t /\ ListOf(n) # Null
    <3>1. /\ succ[n] \in Nodes /\ prev[n] \in Nodes
          /\ prev[succ[n]] = n /\ succ[prev[n]] = n
          /\ ListOf(succ[n]) = ListOf(n) /\ ListOf(prev[n]) = ListOf(n)
      BY <2>3 DEF Inv, RingsIntact, Linked
    <3>2. ListOf(t) = Null
      BY <1>1 DEF ListOf, Unlinked
    <3>3. succ[n] # t /\ prev[n] # t
      BY <2>3, <3>1, <3>2
    <3>4. succ'[n] \in Nodes /\ prev'[succ'[n]] = n /\ ListOf(succ[n])' = ListOf(n)'
      <4>1. CASE n = a
        <5>1. succ'[n] = t /\ prev'[t] = a
          BY <1>1, <1>3, <4>1
        <5>2. ListOf(succ[n])' = L
          BY <1>1, <1>3, <5>1 DEF ListOf
        <5>. QED
          BY <1>1, <1>4, <4>1, <5>1, <5>2
      <4>2. CASE n # a
        <5>1. succ[n] # b
          BY <3>1, <4>2
        <5>2. succ'[n] = succ[n] /\ prev'[succ[n]] = n
          BY <1>3, <2>3, <3>1, <3>3, <4>2, <5>1
        <5>3. ListOf(succ[n])' = ListOf(succ[n])
          BY <1>3, <3>1, <3>3, <5>2 DEF ListOf, Nodes
        <5>. QED
          BY <1>4, <2>3, <3>1, <5>2, <5>3
      <4>. QED
        BY <4>1, <4>2
    <3>5. prev'[n] \in Nodes /\ succ'[prev'[n]] = n /\ ListOf(prev[n])' = ListOf(n)'
      <4>1. CASE n = b
        <5>1. prev'[n] = t /\ succ'[t] = b
          BY <1>1, <1>3, <4>1
        <5>2. ListOf(prev[n])' = L
          BY <1>1, <1>3, <5>1 DEF ListOf
        <5>. QED
          BY <1>1, <1>4, <4>1, <5>1, <5>2
      <4>2. CASE n # b
        <5>1. prev[n] # a
          BY <3>1, <4>2
        <5>2. prev'[n] = prev[n] /\ succ'[prev[n]] = n
          BY <1>3, <2>3, <3>1, <3>3, <4>2, <5>1
        <5>3. ListOf(prev[n])' = ListOf(prev[n])
          BY <1>3, <3>1, <3>3, <5>2 DEF ListOf, Nodes
        <5>. QED
          BY <1>4, <2>3, <3>1, <5>2, <5>3
      <4>. QED
        BY <4>1, <4>2
    <3>. QED
      BY <1>1, <1>4, <2>3, <3>4, <3>5
  <2>. QED
    BY <2>1, <2>2, <2>3
<1>. QED
  BY <1>2, <1>5 DEF Inv

LEMMA PushKeepsRings ==
  ASSUME Inv, NEW L \in Lists, NEW t \in Tasks, Push(L, t)
  PROVE  Inv'
<1>1. /\ L \in Nodes /\ ListOf(L) = L /\ L # Null /\ t # L /\ t \in Nodes
      /\ succ[L] \in Nodes /\ prev[succ[L]] = L /\ ListOf(succ[L]) = L
      /\ prev[L] \in Nodes /\ succ[prev[L]] = L /\ ListOf(prev[L]) = L
  BY NodesAssumption DEF Inv, RingsIntact, Linked, ListOf, Nodes
<1>2. CASE PushFront(L, t)
  BY <1>1, <1>2, InsertKeepsRings DEF Push, PushFront
<1>3. CASE PushBack(L, t)
  BY <1>1, <1>3, InsertKeepsRings DEF Push, PushBack
<1>. QED
  BY <1>2, <1>3 DEF Push

\* Types and rings together are inductive: a call that finds the links in order
\* leaves them in order.
THEOREM InvAlways == Spec => []Inv
<1>1. Init => Inv
  BY NodesAssumption DEF Init, Inv, TypeOK, RingsIntact, Linked, ListOf, Nodes
<1>2. Inv /\ [Next]_vars => Inv'
  <2>. SUFFICES ASSUME Inv, [Next]_vars PROVE Inv'
    OBVIOUS
  <2>1. CASE UNCHANGED vars
    BY <2>1 DEF vars, links, Inv, TypeOK, RingsIntact, Linked, ListOf
  <2>2. ASSUME NEW L \in Lists, PopFront(L) PROVE Inv'
    BY <2>2, EndsAreTasks, UnlinkKeepsRings DEF PopFront
  <2>3. ASSUME NEW L \in Lists, PopBack(L) PROVE Inv'
    BY <2>3, EndsAreTasks, UnlinkKeepsRings DEF PopBack
  <2>4. ASSUME NEW L \in Lists, PopNothing(L) PROVE Inv'
    BY <2>4 DEF PopNothing, links, Inv, TypeOK, RingsIntact, Linked, ListOf
  <2>5. ASSUME NEW L \in Lists, NEW t \in Tasks, Push(L, t) PROVE Inv'
    BY <2>5, PushKeepsRings
  <2>6. ASSUME NEW L \in Lists, NEW t \in Tasks, Remove(L, t) PROVE Inv'
    BY <2>6, UnlinkKeepsRings DEF Remove
  <2>. QED
    BY <2>1, <2>2, <2>3, <2>4, <2>5, <2>6 DEF Next
<1>. QED
  BY <1>1, <1>2, PTL DEF Spec

\* At every moment of every sequence of calls the links form rings: each node's
\* neighbours point back at it and are of the list that m_parent names.
THEOREM LinksStayRings == Spec => []RingsIntact
<1>1. Inv => RingsIntact
  BY DEF Inv
<1>. QED
  BY <1>1, InvAlways, PTL

-----------------------------------------------------------------------------
(* The sequence a ring stands for.  Holds(L, q) says that going along the    *)
(* successors from the list L leads through the tasks of q and back to L,    *)
(* and that these are the tasks which m_parent says are in L.                *)

\* Position 0 of a ring and the one after the last are the list itself.
At(L, q, i) == IF i \in 1..Len(q) THEN q[i] ELSE L

Holds(L, q) ==
  /\ q \in Seq(Tasks)
  /\ \A i, j \in 1..Len(q) : q[i] = q[j] => i = j
  /\ \A i \in 0..Len(q) : succ[At(L, q, i)] = At(L, q, i + 1)
  /\ \A i \in 1..Len(q) : owner[q[i]] = L
  /\ \A t \in Tasks : owner[t] = L => \E i \in 1..Len(q) : q[i] = t

SequencesInv == \A L \in Lists : Holds(L, Along(L))

IInv == Inv /\ SequencesInv

\* The sequence with t after its first k tasks, and without its k-th task.
Inserted(q, k, t) ==
  [i \in 1..(Len(q) + 1) |-> IF i <= k THEN q[i] ELSE IF i = k + 1 THEN t ELSE q[i - 1]]
Cut(q, k) == [i \in 1..(Len(q) - 1) |-> IF i < k THEN q[i] ELSE q[i + 1]]

\* The nodes of a ring are nodes, and all different.
LEMMA AtNodes ==
  ASSUME NEW L \in Lists, NEW q \in Seq(Tasks),
         \A i, j \in 1..Len(q) : q[i] = q[j] => i = j
  PROVE  /\ \A i \in Nat : At(L, q, i) \in Nodes
         /\ \A i, j \in 0..Len(q) : At(L, q, i) = At(L, q, j) => i = j
         /\ At(L, q, 0) = L /\ At(L, q, Len(q) + 1) = L
<1>1. Len(q) \in Nat /\ \A i \in 1..Len(q) : q[i] \in Tasks
  OBVIOUS
<1>2. L \notin Tasks
  BY NodesAssumption
<1>3. \A i \in Nat : At(L, q, i) \in Nodes
  BY <1>1 DEF At, Nodes
<1>4. ASSUME NEW i \in 0..Len(q), NEW j \in 0..Len(q), At(L, q, i) = At(L, q, j) PROVE i = j
  <2>1. CASE i = 0 /\ j = 0
    BY <2>1
  <2>2. CASE i = 0 /\ j # 0
    <3>1. At(L, q, i) = L /\ At(L, q, j) \in Tasks
      BY <1>1, <2>2 DEF At
    <3> QED BY <1>2, <1>4, <3>1
  <2>3. CASE i # 0 /\ j = 0
    <3>1. At(L, q, j) = L /\ At(L, q, i) \in Tasks
      BY <1>1, <2>3 DEF At
    <3> QED BY <1>2, <1>4, <3>1
  <2>4. CASE i # 0 /\ j # 0
    <3>1. i \in 1..Len(q) /\ j \in 1..Len(q)
      BY <1>1, <2>4
    <3>2. q[i] = q[j]
      BY <1>4, <3>1 DEF At
    <3> QED BY <3>1, <3>2
  <2> QED BY <2>1, <2>2, <2>3, <2>4
<1>5. At(L, q, 0) = L /\ At(L, q, Len(q) + 1) = L
  BY <1>1 DEF At
<1> QED BY <1>3, <1>4, <1>5

LEMMA InsertedIs ==
  ASSUME NEW L \in Lists, NEW q \in Seq(Tasks), NEW t \in Tasks, NEW k \in 0..Len(q),
         NEW r, r = Inserted(q, k, t)
  PROVE  /\ r \in Seq(Tasks) /\ Len(r) = Len(q) + 1
         /\ \A i \in 0..(Len(q) + 2) :
              At(L, r, i) = IF i <= k THEN At(L, q, i) ELSE IF i = k + 1 THEN t ELSE At(L, q, i - 1)
         /\ \A i \in 1..Len(r) : r[i] = IF i <= k THEN q[i] ELSE IF i = k + 1 THEN t ELSE q[i - 1]
<1>1. Len(q) \in Nat /\ \A i \in 1..Len(q) : q[i] \in Tasks
  OBVIOUS
<1>2. /\ r \in Seq(Tasks) /\ Len(r) = Len(q) + 1
      /\ \A i \in 1..Len(r) : r[i] = IF i <= k THEN q[i] ELSE IF i = k + 1 THEN t ELSE q[i - 1]
  BY <1>1 DEF Inserted
<1>3. ASSUME NEW i \in 0..(Len(q) + 2)
      PROVE  At(L, r, i) = IF i <= k THEN At(L, q, i) ELSE IF i = k + 1 THEN t ELSE At(L, q, i - 1)
  <2>1. CASE i \in 1..Len(r)
    <3>1. At(L, r, i) = r[i]
      BY <2>1 DEF At
    <3>2. i <= k => At(L, q, i) = q[i]
      BY <1>1, <1>2, <2>1 DEF At
    <3>3. i > k + 1 => At(L, q, i - 1) = q[i - 1]
      BY <1>1, <1>2, <2>1 DEF At
    <3> QED BY <1>1, <1>2, <2>1, <3>1, <3>2, <3>3
  <2>2. CASE i \notin 1..Len(r)
    <3>1. i = 0 \/ i = Len(q) + 2
      BY <1>1, <1>2, <2>2
    <3> QED BY <1>1, <1>2, <3>1 DEF At
  <2> QED BY <2>1, <2>2
<1> QED BY <1>2, <1>3

LEMMA CutIs ==
  ASSUME NEW L \in Lists, NEW q \in Seq(Tasks), NEW k \in 1..Len(q), NEW r, r = Cut(q, k)
  PROVE  /\ r \in Seq(Tasks) /\ Len(r) = Len(q) - 1
         /\ \A i \in 0..Len(q) : At(L, r, i) = IF i < k THEN At(L, q, i) ELSE At(L, q, i + 1)
         /\ \A i \in 1..Len(r) : r[i] = IF i < k THEN q[i] ELSE q[i + 1]
<1>1. Len(q) \in Nat /\ \A i \in 1..Len(q) : q[i] \in Tasks
  OBVIOUS
<1>2. /\ r \in Seq(Tasks) /\ Len(r) = Len(q) - 1
      /\ \A i \in 1..Len(r) : r[i] = IF i < k THEN q[i] ELSE q[i + 1]
  BY <1>1 DEF Cut
<1>3. ASSUME NEW i \in 0..Len(q)
      PROVE  At(L, r, i) = IF i < k THEN At(L, q, i) ELSE At(L, q, i + 1)
  <2>1. CASE i \in 1..Len(r)
    <3>1. At(L, r, i) = r[i]
      BY <2>1 DEF At
    <3>2. i < k => At(L, q, i) = q[i]
      BY <1>1, <1>2, <2>1 DEF At
    <3>3. i >= k => At(L, q, i + 1) = q[i + 1]
      BY <1>1, <1>2, <2>1 DEF At
    <3> QED BY <1>1, <1>2, <2>1, <3>1, <3>2, <3>3
  <2>2. CASE i \notin 1..Len(r)
    <3>1. i = 0 \/ i = Len(q)
      BY <1>1, <1>2, <2>2
    <3> QED BY <1>1, <1>2, <3>1 DEF At
  <2> QED BY <2>1, <2>2
<1> QED BY <1>2, <1>3

\* The two in terms of sequences.
LEMMA InsertedForms ==
  ASSUME NEW q \in Seq(Tasks), NEW t \in Tasks, NEW k \in 0..Len(q)
  PROVE  (k = 0 => Inserted(q, k, t) = <<t>> \o q) /\ (k = Len(q) => Inserted(q, k, t) = Append(q, t))
<1>1. Len(q) \in Nat /\ \A i \in 1..Len(q) : q[i] \in Tasks
  OBVIOUS
<1>2. PICK r : r = Inserted(q, k, t)
  OBVIOUS
<1>3. /\ r \in Seq(Tasks) /\ Len(r) = Len(q) + 1
      /\ \A i \in 1..Len(r) : r[i] = IF i <= k THEN q[i] ELSE IF i = k + 1 THEN t ELSE q[i - 1]
  BY <1>1, <1>2 DEF Inserted
<1>4. ASSUME k = 0 PROVE r = <<t>> \o q
  <2>1. PICK s : s = <<t>> \o q
    OBVIOUS
  <2>2. s \in Seq(Tasks) /\ Len(s) = Len(q) + 1 /\ \A i \in 1..Len(s) : s[i] = IF i = 1 THEN t ELSE q[i - 1]
    BY <1>1, <2>1
  <2>3. \A i \in 1..Len(r) : r[i] = s[i]
    BY <1>1, <1>3, <1>4, <2>2
  <2> QED BY <1>3, <2>1, <2>2, <2>3, SeqEqual
<1>5. ASSUME k = Len(q) PROVE r = Append(q, t)
  <2>1. PICK s : s = Append(q, t)
    OBVIOUS
  <2>2. s \in Seq(Tasks) /\ Len(s) = Len(q) + 1 /\ \A i \in 1..Len(s) : s[i] = IF i = Len(q) + 1 THEN t ELSE q[i]
    BY <1>1, <2>1
  <2>3. \A i \in 1..Len(r) : r[i] = s[i]
    BY <1>1, <1>3, <1>5, <2>2
  <2> QED BY <1>3, <2>1, <2>2, <2>3, SeqEqual
<1> QED BY <1>2, <1>4, <1>5

LEMMA CutForms ==
  ASSUME NEW q \in Seq(Tasks), NEW k \in 1..Len(q)
  PROVE  /\ Cut(q, k) = SubSeq(q, 1, k - 1) \o SubSeq(q, k + 1, Len(q))
         /\ k = 1 => Cut(q, k) = Tail(q)
         /\ k = Len(q) => Cut(q, k) = SubSeq(q, 1, Len(q) - 1)
<1>1. Len(q) \in Nat /\ \A i \in 1..Len(q) : q[i] \in Tasks
  OBVIOUS
<1>2. PICK r : r = Cut(q, k)
  OBVIOUS
<1>3. /\ r \in Seq(Tasks) /\ Len(r) = Len(q) - 1
      /\ \A i \in 1..Len(r) : r[i] = IF i < k THEN q[i] ELSE q[i + 1]
  BY <1>1, <1>2 DEF Cut
<1>4. r = SubSeq(q, 1, k - 1) \o SubSeq(q, k + 1, Len(q))
  <2>1. PICK a : a = SubSeq(q, 1, k - 1)
    OBVIOUS
  <2>2. PICK b : b = SubSeq(q, k + 1, Len(q))
    OBVIOUS
  <2>3. a \in Seq(Tasks) /\ Len(a) = k - 1 /\ \A i \in 1..(k - 1) : a[i] = q[i]
    BY <1>1, <2>1
  <2>4. b \in Seq(Tasks) /\ Len(b) = Len(q) - k /\ \A i \in 1..(Len(q) - k) : b[i] = q[k + i]
    BY <1>1, <2>2
  <2>5. PICK s : s = a \o b
    OBVIOUS
  <2>6. /\ s \in Seq(Tasks) /\ Len(s) = Len(a) + Len(b)
        /\ \A i \in 1..(Len(a) + Len(b)) : s[i] = IF i <= Len(a) THEN a[i] ELSE b[i - Len(a)]
    BY <2>3, <2>4, <2>5, ConcatProperties
  <2>7. ASSUME NEW i \in 1..Len(r) PROVE r[i] = s[i]
    <3>1. CASE i < k
      BY <1>1, <1>3, <2>3, <2>4, <2>6, <3>1
    <3>2. CASE i >= k
      <4>1. i - (k - 1) \in 1..(Len(q) - k) /\ k + (i - (k - 1)) = i + 1
        BY <1>1, <1>3, <3>2
      <4>2. s[i] = b[i - (k - 1)]
        <5>1. i \in 1..(Len(a) + Len(b)) /\ ~(i <= Len(a)) /\ i - Len(a) = i - (k - 1)
          BY <1>1, <1>3, <2>3, <2>4, <3>2
        <5> QED BY <2>6, <5>1
      <4> QED BY <1>1, <1>3, <2>4, <3>2, <4>1, <4>2
    <3> QED BY <1>1, <1>3, <3>1, <3>2
  <2>8. Len(r) = Len(s)
    BY <1>1, <1>3, <2>3, <2>4, <2>6
  <2> QED BY <1>3, <2>1, <2>2, <2>5, <2>6, <2>7, <2>8, SeqEqual
<1>5. ASSUME k = 1 PROVE r = Tail(q)
  <2>1. PICK s : s = Tail(q)
    OBVIOUS
  <2>2. s \in Seq(Tasks) /\ Len(s) = Len(q) - 1 /\ \A i \in 1..Len(s) : s[i] = q[i + 1]
    BY <1>1, <2>1, HeadTailProperties
  <2>3. \A i \in 1..Len(r) : r[i] = s[i]
    BY <1>1, <1>3, <1>5, <2>2
  <2> QED BY <1>3, <2>1, <2>2, <2>3, SeqEqual
<1>6. ASSUME k = Len(q) PROVE r = SubSeq(q, 1, Len(q) - 1)
  <2>1. PICK s : s = SubSeq(q, 1, Len(q) - 1)
    OBVIOUS
  <2>2. s \in Seq(Tasks) /\ Len(s) = Len(q) - 1 /\ \A i \in 1..Len(s) : s[i] = q[i]
    <3>1. PICK n \in Nat : n = Len(q) - 1
      <4>1. Len(q) - 1 \in Nat
        BY <1>1, <1>6
      <4> QED BY <4>1
    <3>2. \A i \in 1..n : q[i] \in Tasks
      BY <1>1, <3>1
    <3>3. /\ SubSeq(q, 1, n) \in Seq(Tasks) /\ Len(SubSeq(q, 1, n)) = IF 1 <= n THEN n - 1 + 1 ELSE 0
          /\ \A i \in 1..(n - 1 + 1) : SubSeq(q, 1, n)[i] = q[1 + i - 1]
      BY <3>2, SubSeqProperties
    <3> QED BY <2>1, <3>1, <3>3
  <2>3. \A i \in 1..Len(r) : r[i] = s[i]
    BY <1>1, <1>3, <1>6, <2>2
  <2> QED BY <1>3, <2>1, <2>2, <2>3, SeqEqual
<1> QED BY <1>2, <1>4, <1>5, <1>6

\* A ring which a step does not touch stands for what it stood for.
LEMMA FrameHolds ==
  ASSUME Inv, NEW M \in Lists, NEW q, Holds(M, q), NEW t \in Tasks, owner[t] # M, owner'[t] # M,
         \A n \in Nodes : n # t /\ ListOf(n) = M => succ'[n] = succ[n],
         \A u \in Tasks : u # t => owner'[u] = owner[u]
  PROVE  Holds(M, q)'
<1>1. /\ q \in Seq(Tasks) /\ \A i, j \in 1..Len(q) : q[i] = q[j] => i = j
      /\ \A i \in 0..Len(q) : succ[At(M, q, i)] = At(M, q, i + 1)
      /\ \A i \in 1..Len(q) : owner[q[i]] = M
      /\ \A u \in Tasks : owner[u] = M => \E i \in 1..Len(q) : q[i] = u
  BY DEF Holds
<1>2. ASSUME NEW i \in 0..Len(q) PROVE succ'[At(M, q, i)] = At(M, q, i + 1)
  <2>1. At(M, q, i) \in Nodes
    BY <1>1, AtNodes
  <2>2. At(M, q, i) # t /\ ListOf(At(M, q, i)) = M
    <3>1. CASE i = 0
      <4>1. At(M, q, i) = M
        BY <1>1, <3>1, AtNodes
      <4> QED BY <4>1, NodesAssumption DEF ListOf
    <3>2. CASE i \in 1..Len(q)
      <4>1. At(M, q, i) = q[i] /\ q[i] \in Tasks /\ owner[q[i]] = M
        BY <1>1, <3>2 DEF At
      <4> QED BY <4>1, NodesAssumption DEF ListOf
    <3> QED BY <1>1, <3>1, <3>2
  <2> QED BY <1>1, <2>1, <2>2
<1>3. ASSUME NEW i \in 1..Len(q) PROVE owner'[q[i]] = M
  <2>1. q[i] \in Tasks /\ owner[q[i]] = M
    BY <1>1
  <2> QED BY <2>1
<1>4. ASSUME NEW u \in Tasks, owner'[u] = M PROVE \E i \in 1..Len(q) : q[i] = u
  <2>1. owner[u] = M
    BY <1>4
  <2> QED BY <1>1, <2>1
<1> QED BY <1>1, <1>2, <1>3, <1>4 DEF Holds

\* Linking a task in between two neighbours of a ring puts it there in the sequence.
Insertion(L, a, t, b) ==
  /\ \A n \in Nodes : succ'[n] = IF n = a THEN t ELSE IF n = t THEN b ELSE succ[n]
  /\ \A u \in Tasks : owner'[u] = IF u = t THEN L ELSE owner[u]

LEMMA InsertHolds ==
  ASSUME Inv, NEW L \in Lists, NEW q, Holds(L, q), NEW t \in Tasks, owner[t] = Null,
         NEW k \in 0..Len(q), NEW r, r = Inserted(q, k, t),
         Insertion(L, At(L, q, k), t, At(L, q, k + 1))
  PROVE  Holds(L, r)'
<1>0. /\ \A n \in Nodes : succ'[n] = IF n = At(L, q, k) THEN t ELSE IF n = t THEN At(L, q, k + 1) ELSE succ[n]
      /\ \A u \in Tasks : owner'[u] = IF u = t THEN L ELSE owner[u]
  BY DEF Insertion
<1>1. /\ q \in Seq(Tasks) /\ \A i, j \in 1..Len(q) : q[i] = q[j] => i = j
      /\ \A i \in 0..Len(q) : succ[At(L, q, i)] = At(L, q, i + 1)
      /\ \A i \in 1..Len(q) : owner[q[i]] = L
      /\ \A u \in Tasks : owner[u] = L => \E i \in 1..Len(q) : q[i] = u
  BY DEF Holds
<1>2. Len(q) \in Nat /\ \A i \in 1..Len(q) : q[i] \in Tasks /\ q[i] # t
  <2>1. L # Null
    BY NodesAssumption
  <2> QED BY <1>1, <2>1
<1>3. /\ r \in Seq(Tasks) /\ Len(r) = Len(q) + 1
      /\ \A i \in 0..(Len(q) + 2) :
           At(L, r, i) = IF i <= k THEN At(L, q, i) ELSE IF i = k + 1 THEN t ELSE At(L, q, i - 1)
      /\ \A i \in 1..Len(r) : r[i] = IF i <= k THEN q[i] ELSE IF i = k + 1 THEN t ELSE q[i - 1]
  BY <1>1, InsertedIs
<1>4. /\ \A i \in Nat : At(L, q, i) \in Nodes
      /\ \A i, j \in 0..Len(q) : At(L, q, i) = At(L, q, j) => i = j
  BY <1>1, AtNodes
<1>5. t \in Nodes /\ \A i \in 0..Len(q) : At(L, q, i) # t
  <2>1. t \in Nodes /\ t # L
    BY NodesAssumption DEF Nodes
  <2> QED BY <1>2, <2>1 DEF At
<1>6. ASSUME NEW i \in 0..Len(r) PROVE succ'[At(L, r, i)] = At(L, r, i + 1)
  <2>1. CASE i < k
    <3>0. i \in 0..(Len(q) + 2) /\ i + 1 \in 0..(Len(q) + 2) /\ i <= k /\ i + 1 <= k
      BY <1>2, <1>3, <2>1
    <3>1. At(L, r, i) = At(L, q, i) /\ At(L, r, i + 1) = At(L, q, i + 1)
      BY <1>3, <2>1, <3>0
    <3>2. At(L, q, i) # At(L, q, k) /\ At(L, q, i) # t /\ At(L, q, i) \in Nodes
      BY <1>2, <1>3, <1>4, <1>5, <2>1
    <3>3. succ[At(L, q, i)] = At(L, q, i + 1)
      BY <1>1, <1>2, <2>1
    <3> QED BY <1>0, <3>1, <3>2, <3>3
  <2>2. CASE i = k
    <3>0. i \in 0..(Len(q) + 2) /\ i + 1 \in 0..(Len(q) + 2) /\ i <= k /\ ~(i + 1 <= k)
      BY <1>2, <1>3, <2>2
    <3>1. At(L, r, i) = At(L, q, k) /\ At(L, r, i + 1) = t /\ At(L, q, k) \in Nodes
      BY <1>3, <2>2, <3>0, <1>4
    <3> QED BY <1>0, <3>1
  <2>3. CASE i = k + 1
    <3>0. i \in 0..(Len(q) + 2) /\ i + 1 \in 0..(Len(q) + 2) /\ ~(i <= k) /\ ~(i + 1 <= k) /\ i + 1 # k + 1 /\ (i + 1) - 1 = k + 1
      BY <1>2, <1>3, <2>3
    <3>1. At(L, r, i) = t /\ At(L, r, i + 1) = At(L, q, k + 1)
      BY <1>3, <2>3, <3>0
    <3> QED BY <1>0, <1>2, <1>5, <3>1
  <2>4. CASE i > k + 1
    <3>0. i \in 0..(Len(q) + 2) /\ i + 1 \in 0..(Len(q) + 2) /\ ~(i <= k) /\ i # k + 1 /\ ~(i + 1 <= k) /\ i + 1 # k + 1 /\ (i + 1) - 1 = i
      BY <1>2, <1>3, <2>4
    <3>1. At(L, r, i) = At(L, q, i - 1) /\ At(L, r, i + 1) = At(L, q, i)
      BY <1>3, <2>4, <3>0
    <3>2. At(L, q, i - 1) # At(L, q, k) /\ At(L, q, i - 1) # t /\ At(L, q, i - 1) \in Nodes
      BY <1>2, <1>3, <1>4, <1>5, <2>4
    <3>3. succ[At(L, q, i - 1)] = At(L, q, i)
      <4>1. i - 1 \in 0..Len(q) /\ (i - 1) + 1 = i
        BY <1>2, <1>3, <2>4
      <4> QED BY <1>1, <4>1
    <3> QED BY <1>0, <3>1, <3>2, <3>3
  <2> QED BY <1>2, <1>3, <2>1, <2>2, <2>3, <2>4
<1>7. ASSUME NEW i \in 1..Len(r)
      PROVE  \/ i = k + 1 /\ r[i] = t
             \/ i <= k /\ i \in 1..Len(q) /\ r[i] = q[i]
             \/ i > k + 1 /\ i - 1 \in 1..Len(q) /\ r[i] = q[i - 1]
  <2>1. i \in Nat /\ k \in Nat /\ i >= 1 /\ i <= Len(q) + 1 /\ k <= Len(q)
    BY <1>2, <1>3
  <2>2. CASE i = k + 1
    BY <1>3, <2>1, <2>2
  <2>3. CASE i <= k
    BY <1>2, <1>3, <2>1, <2>3
  <2>4. CASE i > k + 1
    <3>1. i - 1 \in 1..Len(q)
      BY <1>2, <2>1, <2>4
    <3> QED BY <1>3, <2>1, <2>4, <3>1
  <2> QED BY <2>1, <2>2, <2>3, <2>4
<1>10. ASSUME NEW i \in 1..Len(r), NEW j \in 1..Len(r), r[i] = r[j] PROVE i = j
  <2>1. i \in Nat /\ j \in Nat /\ k \in Nat
    BY <1>2, <1>3
  <2>2. CASE i = k + 1 /\ r[i] = t
    BY <1>2, <1>7, <1>10, <2>1, <2>2
  <2>3. CASE i <= k /\ i \in 1..Len(q) /\ r[i] = q[i]
    <3>1. CASE j = k + 1 /\ r[j] = t
      BY <1>2, <1>10, <2>3, <3>1
    <3>2. CASE j <= k /\ j \in 1..Len(q) /\ r[j] = q[j]
      <4>1. q[i] = q[j]
        BY <1>10, <2>3, <3>2
      <4>2. \A x, y \in 1..Len(q) : q[x] = q[y] => x = y
        BY <1>1
      <4> QED BY <2>3, <3>2, <4>1, <4>2, Zenon
    <3>3. CASE j > k + 1 /\ j - 1 \in 1..Len(q) /\ r[j] = q[j - 1]
      <4>1. i = j - 1
        <5>1. q[i] = q[j - 1]
          BY <1>10, <2>3, <3>3
        <5> QED BY <1>1, <2>3, <3>3, <5>1
      <4> QED BY <2>1, <2>3, <3>3, <4>1
    <3> QED BY <1>7, <3>1, <3>2, <3>3
  <2>4. CASE i > k + 1 /\ i - 1 \in 1..Len(q) /\ r[i] = q[i - 1]
    <3>1. CASE j = k + 1 /\ r[j] = t
      BY <1>2, <1>10, <2>4, <3>1
    <3>2. CASE j <= k /\ j \in 1..Len(q) /\ r[j] = q[j]
      <4>1. i - 1 = j
        BY <1>1, <1>10, <2>4, <3>2
      <4> QED BY <2>1, <2>4, <3>2, <4>1
    <3>3. CASE j > k + 1 /\ j - 1 \in 1..Len(q) /\ r[j] = q[j - 1]
      <4>1. i - 1 = j - 1
        <5>1. q[i - 1] = q[j - 1]
          BY <1>10, <2>4, <3>3
        <5>2. i - 1 \in 1..Len(q) /\ j - 1 \in 1..Len(q)
          BY <2>4, <3>3
        <5>3. \A x, y \in 1..Len(q) : q[x] = q[y] => x = y
          BY <1>1
        <5> QED BY <5>1, <5>2, <5>3, Zenon
      <4> QED BY <2>1, <4>1
    <3> QED BY <1>7, <3>1, <3>2, <3>3
  <2> QED BY <1>7, <2>2, <2>3, <2>4
<1>8. ASSUME NEW i \in 1..Len(r) PROVE owner'[r[i]] = L
  <2>1. r[i] = t \/ \E j \in 1..Len(q) : r[i] = q[j]
    BY <1>7
  <2> QED BY <1>0, <1>1, <1>2, <2>1
<1>9. ASSUME NEW u \in Tasks, owner'[u] = L PROVE \E i \in 1..Len(r) : r[i] = u
  <2>1. CASE u = t
    <3>1. k + 1 \in 1..Len(r) /\ r[k + 1] = t
      BY <1>2, <1>3
    <3> QED BY <2>1, <3>1
  <2>2. CASE u # t
    <3>1. PICK i \in 1..Len(q) : q[i] = u
      BY <1>0, <1>1, <1>9, <2>2
    <3>2. CASE i <= k
      <4>1. i \in 1..Len(r) /\ r[i] = q[i]
        BY <1>2, <1>3, <3>2
      <4> QED BY <3>1, <4>1
    <3>3. CASE i > k
      <4>1. i + 1 \in 1..Len(r) /\ ~(i + 1 <= k) /\ i + 1 # k + 1 /\ (i + 1) - 1 = i
        BY <1>2, <1>3, <3>3
      <4>2. r[i + 1] = q[i]
        BY <1>3, <4>1
      <4> QED BY <3>1, <4>1, <4>2
    <3> QED BY <1>2, <3>2, <3>3
  <2> QED BY <2>1, <2>2
<1> QED BY <1>3, <1>6, <1>8, <1>9, <1>10 DEF Holds

\* The predecessors lead back along the sequence.
LEMMA PrevAt ==
  ASSUME Inv, NEW L \in Lists, NEW q, Holds(L, q), NEW i \in 0..Len(q)
  PROVE  prev[At(L, q, i + 1)] = At(L, q, i)
<1>1. /\ q \in Seq(Tasks) /\ \A x, y \in 1..Len(q) : q[x] = q[y] => x = y
      /\ succ[At(L, q, i)] = At(L, q, i + 1) /\ \A x \in 1..Len(q) : owner[q[x]] = L
  BY DEF Holds
<1>2. At(L, q, i) \in Nodes
  BY <1>1, AtNodes
<1>3. ListOf(At(L, q, i)) = L /\ L # Null
  <2>1. CASE At(L, q, i) = L
    BY <2>1, NodesAssumption DEF ListOf
  <2>2. CASE At(L, q, i) # L
    <3>1. i \in 1..Len(q) /\ At(L, q, i) = q[i]
      BY <2>2 DEF At
    <3>2. q[i] \in Tasks /\ owner[q[i]] = L
      BY <1>1, <3>1
    <3> QED BY <3>1, <3>2, NodesAssumption DEF ListOf
  <2> QED BY <2>1, <2>2
<1>4. prev[succ[At(L, q, i)]] = At(L, q, i)
  BY <1>2, <1>3 DEF Inv, RingsIntact, Linked
<1> QED BY <1>1, <1>4

\* Closing the gap between the neighbours of a task takes it out of the sequence.
LEMMA CutHolds ==
  ASSUME Inv, NEW L \in Lists, NEW q, Holds(L, q), NEW k \in 1..Len(q), NEW r, r = Cut(q, k),
         \A n \in Nodes : succ'[n] = IF n = q[k] THEN Null
                                     ELSE IF n = At(L, q, k - 1) THEN At(L, q, k + 1) ELSE succ[n],
         \A u \in Tasks : owner'[u] = IF u = q[k] THEN Null ELSE owner[u]
  PROVE  Holds(L, r)'
<1>1. /\ q \in Seq(Tasks) /\ \A i, j \in 1..Len(q) : q[i] = q[j] => i = j
      /\ \A i \in 0..Len(q) : succ[At(L, q, i)] = At(L, q, i + 1)
      /\ \A i \in 1..Len(q) : owner[q[i]] = L
      /\ \A u \in Tasks : owner[u] = L => \E i \in 1..Len(q) : q[i] = u
  BY DEF Holds
<1>2. Len(q) \in Nat /\ L # Null /\ \A i \in 1..Len(q) : q[i] \in Tasks
  BY <1>1, NodesAssumption
<1>3. /\ r \in Seq(Tasks) /\ Len(r) = Len(q) - 1
      /\ \A i \in 0..Len(q) : At(L, r, i) = IF i < k THEN At(L, q, i) ELSE At(L, q, i + 1)
      /\ \A i \in 1..Len(r) : r[i] = IF i < k THEN q[i] ELSE q[i + 1]
  BY <1>1, CutIs
<1>4. /\ \A i \in Nat : At(L, q, i) \in Nodes
      /\ \A i, j \in 0..Len(q) : At(L, q, i) = At(L, q, j) => i = j
      /\ At(L, q, k) = q[k]
  <2>1. At(L, q, k) = q[k]
    BY DEF At
  <2> QED BY <1>1, <2>1, AtNodes
<1>5. ASSUME NEW i \in 0..Len(r) PROVE succ'[At(L, r, i)] = At(L, r, i + 1)
  <2>1. CASE i < k - 1
    <3>1. At(L, r, i) = At(L, q, i) /\ At(L, r, i + 1) = At(L, q, i + 1)
      BY <1>2, <1>3, <2>1
    <3>2. At(L, q, i) # At(L, q, k - 1) /\ At(L, q, i) # q[k] /\ At(L, q, i) \in Nodes
      BY <1>2, <1>3, <1>4, <2>1
    <3>3. succ[At(L, q, i)] = At(L, q, i + 1)
      BY <1>1, <1>2, <2>1
    <3> QED BY <3>1, <3>2, <3>3
  <2>2. CASE i = k - 1
    <3>1. At(L, r, i) = At(L, q, k - 1) /\ At(L, r, i + 1) = At(L, q, k + 1)
      BY <1>2, <1>3, <2>2
    <3>2. At(L, q, k - 1) # q[k] /\ At(L, q, k - 1) \in Nodes
      BY <1>2, <1>4
    <3> QED BY <3>1, <3>2
  <2>3. CASE i >= k
    <3>1. At(L, r, i) = At(L, q, i + 1) /\ At(L, r, i + 1) = At(L, q, i + 2)
      <4>1. i \in 0..Len(q) /\ i + 1 \in 0..Len(q) /\ ~(i < k) /\ ~(i + 1 < k) /\ (i + 1) + 1 = i + 2
        BY <1>2, <1>3, <2>3
      <4> QED BY <1>3, <4>1
    <3>2. At(L, q, i + 1) # At(L, q, k - 1) /\ At(L, q, i + 1) # q[k] /\ At(L, q, i + 1) \in Nodes
      BY <1>2, <1>3, <1>4, <2>3
    <3>3. succ[At(L, q, i + 1)] = At(L, q, i + 2)
      <4>1. i + 1 \in 0..Len(q) /\ (i + 1) + 1 = i + 2
        BY <1>2, <1>3
      <4> QED BY <1>1, <4>1
    <3> QED BY <3>1, <3>2, <3>3
  <2> QED BY <1>2, <1>3, <2>1, <2>2, <2>3
<1>6. \A i, j \in 1..Len(r) : r[i] = r[j] => i = j
  <2> SUFFICES ASSUME NEW i \in 1..Len(r), NEW j \in 1..Len(r), r[i] = r[j] PROVE i = j
    OBVIOUS
  <2>1. \A x \in 1..Len(r) : \/ x < k /\ x \in 1..Len(q) /\ r[x] = q[x]
                             \/ x >= k /\ x + 1 \in 1..Len(q) /\ r[x] = q[x + 1]
    BY <1>2, <1>3
  <2> QED BY <1>1, <1>2, <1>3, <2>1
<1>7. ASSUME NEW i \in 1..Len(r) PROVE owner'[r[i]] = L
  <2>1. PICK x \in 1..Len(q) : r[i] = q[x] /\ x # k
    <3>1. CASE i < k
      BY <1>2, <1>3, <3>1
    <3>2. CASE i >= k
      <4>1. i + 1 \in 1..Len(q) /\ r[i] = q[i + 1] /\ i + 1 # k
        BY <1>2, <1>3, <3>2
      <4> QED BY <4>1
    <3> QED BY <1>2, <3>1, <3>2
  <2> QED BY <1>1, <1>2, <2>1, SMTT(20)
<1>8. ASSUME NEW u \in Tasks, owner'[u] = L PROVE \E i \in 1..Len(r) : r[i] = u
  <2>1. u # q[k] /\ owner[u] = L
    BY <1>2, <1>8
  <2>2. PICK i \in 1..Len(q) : q[i] = u
    BY <1>1, <2>1
  <2>3. CASE i < k
    <3>1. i \in 1..Len(r) /\ r[i] = q[i]
      BY <1>2, <1>3, <2>3
    <3> QED BY <2>2, <3>1
  <2>4. CASE i > k
    <3>1. i - 1 \in 1..Len(r) /\ i - 1 >= k
      BY <1>2, <1>3, <2>4
    <3>2. r[i - 1] = q[(i - 1) + 1]
      BY <1>2, <1>3, <3>1
    <3>3. (i - 1) + 1 = i
      BY <1>2
    <3> QED BY <2>2, <3>1, <3>2, <3>3
  <2> QED BY <1>2, <2>1, <2>2, <2>3, <2>4
<1> QED BY <1>3, <1>5, <1>6, <1>7, <1>8 DEF Holds

-----------------------------------------------------------------------------
(* The sequence of a ring is the one that Along gathers.                     *)

\* What the recursive functions in Along are said to be, for any successors s.
IsNode(f, s, L, n) == f = [i \in 0..n |-> IF i = 0 THEN L ELSE s[f[i - 1]]]
IsWalk(w, f, n) ==
  w = [i \in 0..n |->
         IF i = 0 THEN << >>
         ELSE IF \E j \in 1..i : f[j] \in Lists \cup {Null}
                THEN w[i - 1] ELSE Append(w[i - 1], f[i])]
Walk(s, L, n) == (CHOOSE w : IsWalk(w, CHOOSE f : IsNode(f, s, L, n), n))[n]

LEMMA AlongIsWalk ==
  ASSUME NEW L \in Lists
  PROVE  Along(L) = Walk(succ, L, Cardinality(Tasks)) /\ Along(L)' = Walk(succ', L, Cardinality(Tasks))
BY DEF Along, Walk, IsNode, IsWalk

\* A set of numbers that is not empty has a least one.
LEMMA Least ==
  ASSUME NEW T, T \subseteq Nat, T # {}
  PROVE  \E x \in T : \A y \in T : x <= y
<1>1. PICK R : R = OpToRel(<, Nat)
  OBVIOUS
<1>2. IsWellFoundedOn(R, Nat)
  BY <1>1, NatLessThanWellFounded
<1>3. PICK x \in T : \A y \in T : ~(<<y, x>> \in R)
  BY <1>2, WFMin
<1>4. \A y \in T : ~(y < x)
  <2> SUFFICES ASSUME NEW y \in T, y < x PROVE FALSE
    OBVIOUS
  <2>1. R = {ss \in Nat \X Nat : ss[1] < ss[2]}
    BY <1>1 DEF OpToRel
  <2>2. <<y, x>> \in Nat \X Nat
    OBVIOUS
  <2>3. <<y, x>>[1] = y /\ <<y, x>>[2] = x
    OBVIOUS
  <2> QED BY <1>3, <2>1, <2>2, <2>3
<1> QED BY <1>4, SMT

\* There is a function that goes n nodes along any successors.
LEMMA NodeExists ==
  ASSUME NEW s, NEW L, NEW n \in Nat
  PROVE  \E f : IsNode(f, s, L, n)
<1> DEFINE T == {m \in Nat : ~\E f : IsNode(f, s, L, m)}
<1> SUFFICES ASSUME T # {} PROVE FALSE
  OBVIOUS
<1>1. PICK m \in T : \A y \in T : m <= y
  <2>1. T \subseteq Nat
    OBVIOUS
  <2> HIDE DEF T
  <2> QED BY <2>1, Least
<1>2. CASE m = 0
  <2>1. PICK f : f = [i \in 0..0 |-> L]
    OBVIOUS
  <2>2. f = [i \in 0..m |-> IF i = 0 THEN L ELSE s[f[i - 1]]]
    BY <1>2, <2>1
  <2> QED BY <2>2 DEF IsNode
<1>3. CASE m # 0
  <2>1. m - 1 \in Nat /\ ~(m - 1 \in T)
    BY <1>1, <1>3
  <2>2. PICK f : f = [i \in 0..(m - 1) |-> IF i = 0 THEN L ELSE s[f[i - 1]]]
    BY <2>1 DEF IsNode
  <2>3. PICK g : g = [i \in 0..m |-> IF i = m THEN s[f[m - 1]] ELSE f[i]]
    OBVIOUS
  <2>4. \A i \in 0..m : g[i] = IF i = 0 THEN L ELSE s[g[i - 1]]
    <3> SUFFICES ASSUME NEW i \in 0..m PROVE g[i] = IF i = 0 THEN L ELSE s[g[i - 1]]
      OBVIOUS
    <3>1. CASE i = 0
      BY <1>3, <2>1, <2>2, <2>3, <3>1
    <3>2. CASE i # 0
      <4>1. i - 1 \in 0..(m - 1) /\ g[i - 1] = f[i - 1]
        BY <1>3, <2>1, <2>3, <3>2
      <4>2. CASE i = m
        BY <2>3, <3>2, <4>1, <4>2
      <4>3. CASE i # m
        <5>1. i \in 0..(m - 1)
          BY <2>1, <4>3
        <5>2. f[i] = s[f[i - 1]]
          BY <2>2, <3>2, <5>1
        <5> QED BY <2>3, <3>2, <4>1, <4>3, <5>2
      <4> QED BY <4>2, <4>3
    <3> QED BY <3>1, <3>2
  <2>5. g = [i \in 0..m |-> IF i = 0 THEN L ELSE s[g[i - 1]]]
    BY <2>3, <2>4
  <2> QED BY <2>5 DEF IsNode
<1> QED BY <1>2, <1>3

LEMMA WalkIs ==
  ASSUME NEW s, NEW L \in Lists, NEW q \in Seq(Tasks),
         \A i, j \in 1..Len(q) : q[i] = q[j] => i = j,
         \A i \in 0..Len(q) : s[At(L, q, i)] = At(L, q, i + 1)
  PROVE  Walk(s, L, Cardinality(Tasks)) = q
<1>1. PICK n : n = Cardinality(Tasks)
  OBVIOUS
<1>2. Len(q) \in Nat /\ \A i \in 1..Len(q) : q[i] \in Tasks /\ q[i] \notin Lists \cup {Null}
  BY NodesAssumption
<1>3. n \in Nat /\ Len(q) <= n
  <2>1. q \in Injection(1..Len(q), Tasks)
    BY <1>2 DEF Injection, IsInjective
  <2>2. Cardinality(1..Len(q)) <= Cardinality(Tasks) /\ Cardinality(Tasks) \in Nat
    BY <2>1, NodesAssumption, FS_Injection, FS_CardinalityType
  <2>3. Cardinality(1..Len(q)) = Len(q)
    <3>1. 1 \in Int /\ Len(q) \in Int
      BY <1>2
    <3>2. Cardinality(1..Len(q)) = IF 1 > Len(q) THEN 0 ELSE Len(q) - 1 + 1
      BY <3>1, FS_Interval
    <3> QED BY <1>2, <3>2
  <2> QED BY <1>1, <2>2, <2>3
<1>4. PICK f : f = (CHOOSE g : IsNode(g, s, L, n)) /\ IsNode(f, s, L, n)
  <2>1. \E g : IsNode(g, s, L, n)
    BY <1>3, NodeExists
  <2>2. IsNode(CHOOSE g : IsNode(g, s, L, n), s, L, n)
    BY <2>1
  <2> QED BY <2>2
<1>5. \A i \in 0..n : f[i] = IF i = 0 THEN L ELSE s[f[i - 1]]
  <2>1. f = [i \in 0..n |-> IF i = 0 THEN L ELSE s[f[i - 1]]]
    BY <1>4 DEF IsNode
  <2> QED BY <2>1
<1>6. \A i \in 0..n : i <= Len(q) + 1 => f[i] = At(L, q, i)
  <2> DEFINE T == {i \in 0..n : i <= Len(q) + 1 /\ f[i] # At(L, q, i)}
  <2> SUFFICES ASSUME T # {} PROVE FALSE
    OBVIOUS
  <2>1. PICK m \in T : \A y \in T : m <= y
    <3>1. T \subseteq Nat
      BY <1>3
    <3> HIDE DEF T
    <3> QED BY <3>1, Least
  <2>2. CASE m = 0
    <3>1. f[0] = L /\ At(L, q, 0) = L
      BY <1>2, <1>3, <1>5 DEF At
    <3> QED BY <2>1, <2>2, <3>1
  <2>3. CASE m # 0
    <3>1. m - 1 \in 0..Len(q) /\ m - 1 \in 0..n /\ ~(m - 1 \in T)
      BY <1>2, <1>3, <2>1, <2>3
    <3>2. f[m - 1] = At(L, q, m - 1)
      BY <1>2, <3>1
    <3>3. f[m] = s[f[m - 1]]
      BY <1>5, <2>1, <2>3
    <3>4. s[At(L, q, m - 1)] = At(L, q, (m - 1) + 1) /\ (m - 1) + 1 = m
      BY <1>2, <2>1, <3>1
    <3>5. f[m] = At(L, q, m)
      BY <3>2, <3>3, <3>4
    <3> QED BY <2>1, <3>5
  <2> QED BY <2>2, <2>3
<1>7. \A i \in 1..n : (\E j \in 1..i : f[j] \in Lists \cup {Null}) <=> i > Len(q)
  <2> SUFFICES ASSUME NEW i \in 1..n PROVE (\E j \in 1..i : f[j] \in Lists \cup {Null}) <=> i > Len(q)
    OBVIOUS
  <2>1. CASE i > Len(q)
    <3>1. Len(q) + 1 \in 1..i /\ Len(q) + 1 \in 0..n
      BY <1>2, <1>3, <2>1
    <3>2. f[Len(q) + 1] = At(L, q, Len(q) + 1)
      BY <1>2, <1>6, <3>1
    <3>3. At(L, q, Len(q) + 1) = L
      BY <1>2 DEF At
    <3> QED BY <2>1, <3>1, <3>2, <3>3
  <2>2. CASE i <= Len(q)
    <3>1. \A j \in 1..i : f[j] = q[j] /\ q[j] \notin Lists \cup {Null}
      <4> SUFFICES ASSUME NEW j \in 1..i PROVE f[j] = q[j] /\ q[j] \notin Lists \cup {Null}
        OBVIOUS
      <4>1. j \in 1..Len(q) /\ j \in 0..n /\ j <= Len(q) + 1
        BY <1>2, <1>3, <2>2
      <4>2. f[j] = At(L, q, j)
        BY <1>6, <4>1
      <4>3. At(L, q, j) = q[j]
        BY <4>1 DEF At
      <4> QED BY <1>2, <4>1, <4>2, <4>3
    <3> QED BY <1>2, <1>3, <2>2, <3>1
  <2> QED BY <1>2, <1>3, <2>1, <2>2
<1>8. PICK v : v = [i \in 0..n |-> SubSeq(q, 1, IF i <= Len(q) THEN i ELSE Len(q))]
  OBVIOUS
<1>9. \A i \in 0..n : v[i] = IF i = 0 THEN << >>
                             ELSE IF i > Len(q) THEN v[i - 1] ELSE Append(v[i - 1], q[i])
  <2> SUFFICES ASSUME NEW i \in 0..n
               PROVE  v[i] = IF i = 0 THEN << >>
                             ELSE IF i > Len(q) THEN v[i - 1] ELSE Append(v[i - 1], q[i])
    OBVIOUS
  <2>1. CASE i = 0
    <3>1. v[i] = SubSeq(q, 1, 0)
      BY <1>2, <1>8, <2>1
    <3> QED BY <2>1, <3>1
  <2>2. CASE i # 0 /\ i > Len(q)
    <3>1. v[i] = SubSeq(q, 1, Len(q)) /\ v[i - 1] = SubSeq(q, 1, Len(q))
      <4>1. i - 1 \in 0..n
        BY <1>3, <2>2
      <4>2. v[i] = SubSeq(q, 1, Len(q))
        BY <1>2, <1>8, <2>2
      <4>3. (IF i - 1 <= Len(q) THEN i - 1 ELSE Len(q)) = Len(q)
        BY <1>2, <2>2
      <4> QED BY <1>8, <4>1, <4>2, <4>3
    <3> QED BY <2>2, <3>1
  <2>3. CASE i # 0 /\ i <= Len(q)
    <3>1. v[i] = SubSeq(q, 1, i) /\ v[i - 1] = SubSeq(q, 1, i - 1)
      <4>1. i - 1 \in 0..n /\ i - 1 <= Len(q)
        BY <1>2, <1>3, <2>3
      <4> QED BY <1>8, <2>3, <4>1
    <3>2. SubSeq(q, 1, i) = Append(SubSeq(q, 1, i - 1), q[i])
      BY <1>2, <2>3
    <3>3. ~(i > Len(q))
      BY <1>2, <2>3
    <3> QED BY <2>3, <3>1, <3>2, <3>3, Zenon
  <2> QED BY <1>2, <1>3, <2>1, <2>2, <2>3
<1>10. \A i \in 1..n : i <= Len(q) => f[i] = q[i]
  <2> SUFFICES ASSUME NEW i \in 1..n, i <= Len(q) PROVE f[i] = q[i]
    OBVIOUS
  <2>1. i \in 1..Len(q) /\ i \in 0..n /\ i <= Len(q) + 1
    BY <1>2, <1>3
  <2> QED BY <1>6, <2>1 DEF At
<1>11. IsWalk(v, f, n)
  <2>1. \A i \in 0..n : v[i] = IF i = 0 THEN << >>
                               ELSE IF \E j \in 1..i : f[j] \in Lists \cup {Null}
                                 THEN v[i - 1] ELSE Append(v[i - 1], f[i])
    <3> SUFFICES ASSUME NEW i \in 0..n, i # 0
                 PROVE  v[i] = IF \E j \in 1..i : f[j] \in Lists \cup {Null}
                                 THEN v[i - 1] ELSE Append(v[i - 1], f[i])
      BY <1>3, <1>9
    <3>1. i \in 1..n
      BY <1>3
    <3>2. CASE i > Len(q)
      BY <1>7, <1>9, <3>1, <3>2
    <3>3. CASE ~(i > Len(q))
      <4>1. i <= Len(q)
        BY <1>2, <3>1, <3>3
      <4> QED BY <1>7, <1>9, <1>10, <3>1, <3>3, <4>1
    <3> QED BY <3>2, <3>3
  <2>2. v = [i \in 0..n |-> v[i]]
    BY <1>8
  <2>3. v = [i \in 0..n |-> IF i = 0 THEN << >>
                            ELSE IF \E j \in 1..i : f[j] \in Lists \cup {Null}
                              THEN v[i - 1] ELSE Append(v[i - 1], f[i])]
    BY <2>1, <2>2
  <2> QED BY <2>3 DEF IsWalk
<1>12. PICK w : w = (CHOOSE x : IsWalk(x, f, n)) /\ IsWalk(w, f, n)
  <2>1. IsWalk(CHOOSE x : IsWalk(x, f, n), f, n)
    BY <1>11
  <2> QED BY <2>1
<1>13. \A i \in 0..n : w[i] = IF i = 0 THEN << >>
                              ELSE IF i > Len(q) THEN w[i - 1] ELSE Append(w[i - 1], q[i])
  <2>1. w = [i \in 0..n |-> IF i = 0 THEN << >>
                            ELSE IF \E j \in 1..i : f[j] \in Lists \cup {Null}
                              THEN w[i - 1] ELSE Append(w[i - 1], f[i])]
    BY <1>12 DEF IsWalk
  <2>2. \A i \in 0..n : w[i] = IF i = 0 THEN << >>
                               ELSE IF \E j \in 1..i : f[j] \in Lists \cup {Null}
                                 THEN w[i - 1] ELSE Append(w[i - 1], f[i])
    BY <2>1
  <2> SUFFICES ASSUME NEW i \in 0..n, i # 0
               PROVE  w[i] = IF i > Len(q) THEN w[i - 1] ELSE Append(w[i - 1], q[i])
    BY <1>3, <2>2
  <2>3. i \in 1..n
    BY <1>3
  <2>4. CASE i > Len(q)
    BY <1>7, <2>2, <2>3, <2>4
  <2>5. CASE ~(i > Len(q))
    <3>1. i <= Len(q)
      BY <1>2, <2>3, <2>5
    <3> QED BY <1>7, <1>10, <2>2, <2>3, <2>5, <3>1
  <2> QED BY <2>4, <2>5
<1>14. \A i \in 0..n : w[i] = v[i]
  <2> DEFINE T == {i \in 0..n : w[i] # v[i]}
  <2> SUFFICES ASSUME T # {} PROVE FALSE
    OBVIOUS
  <2>1. PICK m \in T : \A y \in T : m <= y
    <3>1. T \subseteq Nat
      BY <1>3
    <3> HIDE DEF T
    <3> QED BY <3>1, Least
  <2>2. CASE m = 0
    <3>1. w[m] = << >> /\ v[m] = << >>
      BY <1>9, <1>13, <2>1, <2>2
    <3> QED BY <2>1, <3>1
  <2>3. CASE m # 0
    <3>1. m - 1 \in 0..n /\ ~(m - 1 \in T)
      BY <1>3, <2>1, <2>3
    <3>2. w[m - 1] = v[m - 1]
      BY <3>1
    <3>3. w[m] = v[m]
      BY <1>9, <1>13, <2>1, <2>3, <3>2
    <3> QED BY <2>1, <3>3
  <2> QED BY <2>2, <2>3
<1>15. w[n] = q
  <2>1. n \in 0..n
    BY <1>3
  <2>2. v[n] = SubSeq(q, 1, Len(q))
    <3>1. (IF n <= Len(q) THEN n ELSE Len(q)) = Len(q)
      BY <1>2, <1>3
    <3> QED BY <1>8, <2>1, <3>1
  <2>3. SubSeq(q, 1, Len(q)) = q
    OBVIOUS
  <2> QED BY <1>14, <2>1, <2>2, <2>3
<1> QED BY <1>1, <1>4, <1>12, <1>15 DEF Walk

\* A sequence that a ring stands for is the one that Along gathers, before and after a step.
LEMMA HoldsIsAlong ==
  ASSUME NEW L \in Lists, NEW q
  PROVE  (Holds(L, q) => Along(L) = q) /\ (Holds(L, q)' => Along(L)' = q)
<1>1. Holds(L, q) => Along(L) = q
  <2> SUFFICES ASSUME Holds(L, q) PROVE Along(L) = q
    OBVIOUS
  <2>1. /\ q \in Seq(Tasks) /\ \A i, j \in 1..Len(q) : q[i] = q[j] => i = j
        /\ \A i \in 0..Len(q) : succ[At(L, q, i)] = At(L, q, i + 1)
    BY DEF Holds
  <2>2. PICK s : s = succ
    OBVIOUS
  <2>3. \A i \in 0..Len(q) : s[At(L, q, i)] = At(L, q, i + 1)
    BY <2>1, <2>2
  <2>4. Walk(s, L, Cardinality(Tasks)) = q
    BY <2>1, <2>3, WalkIs
  <2> QED BY <2>2, <2>4, AlongIsWalk
<1>2. Holds(L, q)' => Along(L)' = q
  <2> SUFFICES ASSUME Holds(L, q)' PROVE Along(L)' = q
    OBVIOUS
  <2>1. /\ q \in Seq(Tasks) /\ \A i, j \in 1..Len(q) : q[i] = q[j] => i = j
        /\ \A i \in 0..Len(q) : succ'[At(L, q, i)] = At(L, q, i + 1)
    BY DEF Holds
  <2>2. PICK s : s = succ'
    OBVIOUS
  <2>3. \A i \in 0..Len(q) : s[At(L, q, i)] = At(L, q, i + 1)
    BY <2>1, <2>2
  <2>4. Walk(s, L, Cardinality(Tasks)) = q
    BY <2>1, <2>3, WalkIs
  <2> QED BY <2>2, <2>4, AlongIsWalk
<1> QED BY <1>1, <1>2

-----------------------------------------------------------------------------
(* Each call does to the sequences what TaskQueues says.                     *)

\* The sequences after a step that leaves all rings but that of L alone.
LEMMA SequencesAfter ==
  ASSUME IInv, NEW L \in Lists, NEW t \in Tasks, NEW r, Holds(L, r)',
         owner[t] \in {L, Null}, owner'[t] \in {L, Null},
         \A n \in Nodes : n # t /\ ListOf(n) # L => succ'[n] = succ[n],
         \A u \in Tasks : u # t => owner'[u] = owner[u]
  PROVE  /\ SequencesInv'
         /\ \A M \in Lists : Along(M)' = IF M = L THEN r ELSE Along(M)
<1>1. ASSUME NEW M \in Lists PROVE Holds(M, Along(M))' /\ Along(M)' = IF M = L THEN r ELSE Along(M)
  <2>1. CASE M = L
    <3>1. Along(L)' = r
      BY HoldsIsAlong
    <3> QED BY <2>1, <3>1 DEF Holds
  <2>2. CASE M # L
    <3>1. PICK q : q = Along(M)
      OBVIOUS
    <3>2. Inv /\ Holds(M, q)
      BY <3>1 DEF IInv, SequencesInv
    <3>3. owner[t] # M /\ owner'[t] # M
      BY <2>2, NodesAssumption
    <3>4. \A n \in Nodes : n # t /\ ListOf(n) = M => succ'[n] = succ[n]
      BY <2>2
    <3>5. Holds(M, q)'
      BY <3>2, <3>3, <3>4, FrameHolds
    <3>6. Along(M)' = q
      BY <3>5, HoldsIsAlong
    <3> QED BY <2>2, <3>1, <3>5, <3>6 DEF Holds
  <2> QED BY <2>1, <2>2
<1> QED BY <1>1 DEF SequencesInv

\* The tasks of a ring, and none that is not linked.
LEMMA AlongHolds ==
  ASSUME IInv, NEW L \in Lists, NEW q, q = Along(L)
  PROVE  /\ Inv /\ Holds(L, q) /\ q \in Seq(Tasks) /\ Len(q) \in Nat
         /\ \A i, j \in 1..Len(q) : q[i] = q[j] => i = j
         /\ \A i \in 0..Len(q) : succ[At(L, q, i)] = At(L, q, i + 1)
         /\ \A i \in 1..Len(q) : q[i] \in Tasks /\ owner[q[i]] = L
         /\ \A t \in Tasks : owner[t] = L => \E i \in 1..Len(q) : q[i] = t
         /\ At(L, q, 0) = L /\ At(L, q, Len(q) + 1) = L
         /\ IsEmpty(L) <=> q = << >>
<1>1. /\ Inv /\ Holds(L, q) /\ q \in Seq(Tasks) /\ Len(q) \in Nat
      /\ \A i, j \in 1..Len(q) : q[i] = q[j] => i = j
      /\ \A i \in 0..Len(q) : succ[At(L, q, i)] = At(L, q, i + 1)
      /\ \A i \in 1..Len(q) : q[i] \in Tasks /\ owner[q[i]] = L
      /\ \A t \in Tasks : owner[t] = L => \E i \in 1..Len(q) : q[i] = t
  BY DEF IInv, SequencesInv, Holds
<1>2. At(L, q, 0) = L /\ At(L, q, Len(q) + 1) = L
  BY <1>1, AtNodes
<1>3. succ[L] = At(L, q, 1)
  BY <1>1, <1>2
<1>4. CASE Len(q) = 0
  <2>1. q = << >>
    BY <1>1, <1>4
  <2> QED BY <1>1, <1>2, <1>3, <1>4, <2>1 DEF IsEmpty
<1>5. CASE Len(q) # 0
  <2>1. At(L, q, 1) = q[1] /\ q[1] \in Tasks
    BY <1>1, <1>5 DEF At
  <2>2. q # << >> /\ ~IsEmpty(L)
    BY <1>3, <1>5, <2>1, NodesAssumption DEF IsEmpty
  <2> QED BY <1>1, <1>2, <2>2
<1> QED BY <1>4, <1>5

\* A push.
LEMMA InsertRefines ==
  ASSUME IInv, NEW L \in Lists, NEW t \in Tasks, owner[t] = Null, NEW q, q = Along(L), NEW k \in 0..Len(q),
         succ' = [succ EXCEPT ![t] = At(L, q, k + 1), ![At(L, q, k)] = t],
         owner' = [owner EXCEPT ![t] = L]
  PROVE  /\ SequencesInv'
         /\ \A M \in Lists : Along(M)' = IF M = L THEN Inserted(q, k, t) ELSE Along(M)
<1>1. /\ Inv /\ Holds(L, q) /\ q \in Seq(Tasks) /\ Len(q) \in Nat
      /\ \A i, j \in 1..Len(q) : q[i] = q[j] => i = j
      /\ \A i \in 1..Len(q) : q[i] \in Tasks /\ owner[q[i]] = L
  BY AlongHolds
<1>2. PICK a : a = At(L, q, k)
  OBVIOUS
<1>3. PICK b : b = At(L, q, k + 1)
  OBVIOUS
<1>4. a \in Nodes /\ b \in Nodes /\ t \in Nodes /\ L # Null /\ t # L /\ L \in Nodes
  BY <1>1, <1>2, <1>3, AtNodes, NodesAssumption DEF Nodes
<1>5. a # t /\ ListOf(a) = L
  <2>1. CASE k = 0
    <3>1. a = L
      BY <1>1, <1>2, <2>1 DEF At
    <3> QED BY <1>4, <3>1 DEF ListOf
  <2>2. CASE k # 0
    <3>1. k \in 1..Len(q) /\ a = q[k]
      BY <1>1, <1>2, <2>2 DEF At
    <3>2. a \in Tasks /\ owner[a] = L
      BY <1>1, <3>1
    <3> QED BY <1>4, <3>2, NodesAssumption DEF ListOf
  <2> QED BY <2>1, <2>2
<1>6. \A n \in Nodes : succ'[n] = IF n = a THEN t ELSE IF n = t THEN b ELSE succ[n]
  <2>1. succ' = [succ EXCEPT ![t] = b, ![a] = t] /\ succ \in [Nodes -> Nodes \cup {Null}]
    BY <1>1, <1>2, <1>3 DEF Inv, TypeOK
  <2> QED BY <1>4, <1>5, <2>1
<1>7. \A u \in Tasks : owner'[u] = IF u = t THEN L ELSE owner[u]
  BY <1>1 DEF Inv, TypeOK
<1>8. PICK r : r = Inserted(q, k, t)
  OBVIOUS
<1>9. Holds(L, r)'
  <2>1. Insertion(L, At(L, q, k), t, At(L, q, k + 1))
    BY <1>2, <1>3, <1>6, <1>7 DEF Insertion
  <2> QED BY <1>1, <1>8, <2>1, InsertHolds
<1>10. owner'[t] = L
  BY <1>7
<1>11. \A n \in Nodes : n # t /\ ListOf(n) # L => succ'[n] = succ[n]
  BY <1>5, <1>6
<1>12. /\ SequencesInv'
       /\ \A M \in Lists : Along(M)' = IF M = L THEN r ELSE Along(M)
  <2>1. owner[t] \in {L, Null} /\ owner'[t] \in {L, Null}
    BY <1>10
  <2>2. \A u \in Tasks : u # t => owner'[u] = owner[u]
    BY <1>7
  <2> QED BY <1>9, <1>11, <2>1, <2>2, SequencesAfter, Zenon
<1> QED BY <1>8, <1>12

LEMMA PushRefines ==
  ASSUME IInv, NEW L \in Lists, NEW t \in Tasks, Push(L, t)
  PROVE  SequencesInv' /\ (Queues!PushFront(L, t) \/ Queues!PushBack(L, t))
<1>1. PICK q : q = Along(L)
  OBVIOUS
<1>2. /\ Inv /\ Holds(L, q) /\ q \in Seq(Tasks) /\ Len(q) \in Nat
      /\ succ[L] = At(L, q, 1) /\ prev[L] = At(L, q, Len(q))
      /\ At(L, q, 0) = L /\ At(L, q, Len(q) + 1) = L
  <2>1. /\ Inv /\ Holds(L, q) /\ q \in Seq(Tasks) /\ Len(q) \in Nat
        /\ \A i \in 0..Len(q) : succ[At(L, q, i)] = At(L, q, i + 1)
        /\ At(L, q, 0) = L /\ At(L, q, Len(q) + 1) = L
    BY <1>1, AlongHolds
  <2>2. prev[At(L, q, Len(q) + 1)] = At(L, q, Len(q))
    BY <2>1, PrevAt
  <2> QED BY <2>1, <2>2
<1>3. owner[t] = Null /\ returned' = Null
  BY DEF Push, Unlinked
<1>4. ASSUME NEW M \in Lists PROVE t \notin Queues!Elements(Along(M))
  <2>1. PICK p : p = Along(M)
    OBVIOUS
  <2>2. \A i \in 1..Len(p) : owner[p[i]] = M
    BY <2>1 DEF IInv, SequencesInv, Holds
  <2>3. M # Null
    BY NodesAssumption
  <2> QED BY <1>3, <2>1, <2>2, <2>3 DEF Queues!Elements
<1>5. Queues!Unlinked(t)
  BY <1>4 DEF Queues!Unlinked
<1>6. CASE PushFront(L, t)
  <2>1. PICK k \in 0..Len(q) : k = 0
    BY <1>2
  <2>2. succ' = [succ EXCEPT ![t] = At(L, q, k + 1), ![At(L, q, k)] = t] /\ owner' = [owner EXCEPT ![t] = L]
    <3>1. At(L, q, k + 1) = succ[L] /\ At(L, q, k) = L
      BY <1>2, <2>1
    <3>2. succ' = [succ EXCEPT ![t] = succ[L], ![L] = t] /\ owner' = [owner EXCEPT ![t] = L]
      BY <1>6 DEF PushFront
    <3>3. PICK a : a = At(L, q, k)
      OBVIOUS
    <3>4. PICK b : b = At(L, q, k + 1)
      OBVIOUS
    <3>5. succ' = [succ EXCEPT ![t] = b, ![a] = t]
      BY <3>1, <3>2, <3>3, <3>4
    <3> QED BY <3>2, <3>3, <3>4, <3>5
  <2>3. /\ SequencesInv'
        /\ \A M \in Lists : Along(M)' = IF M = L THEN Inserted(q, k, t) ELSE Along(M)
    BY <1>1, <1>3, <2>2, InsertRefines
  <2>4. Inserted(q, k, t) = <<t>> \o q
    BY <1>2, <2>1, InsertedForms
  <2>5. Queues!PushFront(L, t)
    <3>1. [M \in Lists |-> Along(M)]' = [[M \in Lists |-> Along(M)] EXCEPT ![L] = <<t>> \o @]
      BY <1>1, <2>3, <2>4
    <3> QED BY <1>3, <1>5, <3>1 DEF Queues!PushFront
  <2> QED BY <2>3, <2>5
<1>7. CASE PushBack(L, t)
  <2>1. PICK k \in 0..Len(q) : k = Len(q)
    BY <1>2
  <2>2. succ' = [succ EXCEPT ![t] = At(L, q, k + 1), ![At(L, q, k)] = t] /\ owner' = [owner EXCEPT ![t] = L]
    <3>1. At(L, q, k + 1) = L /\ At(L, q, k) = prev[L]
      BY <1>2, <2>1
    <3>2. succ' = [succ EXCEPT ![t] = L, ![prev[L]] = t] /\ owner' = [owner EXCEPT ![t] = L]
      BY <1>7 DEF PushBack
    <3>3. PICK a : a = At(L, q, k)
      OBVIOUS
    <3>4. PICK b : b = At(L, q, k + 1)
      OBVIOUS
    <3>5. succ' = [succ EXCEPT ![t] = b, ![a] = t]
      BY <3>1, <3>2, <3>3, <3>4
    <3> QED BY <3>2, <3>3, <3>4, <3>5
  <2>3. /\ SequencesInv'
        /\ \A M \in Lists : Along(M)' = IF M = L THEN Inserted(q, k, t) ELSE Along(M)
    BY <1>1, <1>3, <2>2, InsertRefines
  <2>4. Inserted(q, k, t) = Append(q, t)
    BY <1>2, <2>1, InsertedForms
  <2>5. Queues!PushBack(L, t)
    <3>1. [M \in Lists |-> Along(M)]' = [[M \in Lists |-> Along(M)] EXCEPT ![L] = Append(@, t)]
      BY <1>1, <2>3, <2>4
    <3> QED BY <1>3, <1>5, <3>1 DEF Queues!PushBack
  <2> QED BY <2>3, <2>5
<1> QED BY <1>6, <1>7 DEF Push

\* Taking the k-th task out.
LEMMA UnlinkRefines ==
  ASSUME IInv, NEW L \in Lists, NEW q, q = Along(L), NEW k \in 1..Len(q), NEW t, t = q[k], Unlink(L, t)
  PROVE  /\ SequencesInv'
         /\ \A M \in Lists : Along(M)' = IF M = L THEN Cut(q, k) ELSE Along(M)
<1>1. /\ Inv /\ Holds(L, q) /\ q \in Seq(Tasks) /\ Len(q) \in Nat
      /\ \A i, j \in 1..Len(q) : q[i] = q[j] => i = j
      /\ \A i \in 0..Len(q) : succ[At(L, q, i)] = At(L, q, i + 1)
      /\ \A i \in 1..Len(q) : q[i] \in Tasks /\ owner[q[i]] = L
  BY AlongHolds
<1>2. PICK a : a = At(L, q, k - 1)
  OBVIOUS
<1>3. PICK b : b = At(L, q, k + 1)
  OBVIOUS
<1>4. /\ t \in Tasks /\ t \in Nodes /\ owner[t] = L /\ a \in Nodes /\ L # Null
      /\ At(L, q, k) = t
  <2>1. k - 1 \in Nat
    BY <1>1
  <2> QED BY <1>1, <1>2, <2>1, AtNodes, NodesAssumption DEF Nodes, At
<1>5. succ[t] = b /\ prev[t] = a
  <2>1. k \in 0..Len(q) /\ k - 1 \in 0..Len(q) /\ (k - 1) + 1 = k
    BY <1>1
  <2>2. succ[At(L, q, k)] = At(L, q, k + 1)
    BY <1>1, <2>1
  <2>3. prev[At(L, q, (k - 1) + 1)] = At(L, q, k - 1)
    BY <1>1, <2>1, PrevAt
  <2> QED BY <1>2, <1>3, <1>4, <2>1, <2>2, <2>3
<1>6. ListOf(a) = L
  <2>1. CASE k - 1 = 0
    <3>1. a = L
      BY <1>1, <1>2, <2>1 DEF At
    <3> QED BY <3>1 DEF ListOf
  <2>2. CASE k - 1 # 0
    <3>1. k - 1 \in 1..Len(q) /\ a = q[k - 1]
      BY <1>1, <1>2, <2>2 DEF At
    <3>2. a \in Tasks /\ owner[a] = L
      BY <1>1, <3>1
    <3> QED BY <3>2, NodesAssumption DEF ListOf
  <2> QED BY <2>1, <2>2
<1>7. \A n \in Nodes : succ'[n] = IF n = t THEN Null ELSE IF n = a THEN b ELSE succ[n]
  <2>1. succ' = [succ EXCEPT ![a] = b, ![t] = Null] /\ succ \in [Nodes -> Nodes \cup {Null}]
    BY <1>1, <1>4, <1>5 DEF Inv, TypeOK, Unlink
  <2> QED BY <1>4, <2>1
<1>8. \A u \in Tasks : owner'[u] = IF u = t THEN Null ELSE owner[u]
  <2>1. owner' = [owner EXCEPT ![t] = Null] /\ owner \in [Tasks -> Lists \cup {Null}]
    BY <1>1, <1>4 DEF Inv, TypeOK, Unlink
  <2> QED BY <1>4, <2>1
<1>9. PICK r : r = Cut(q, k)
  OBVIOUS
<1>10. Holds(L, r)'
  <2>1. \A n \in Nodes : succ'[n] = IF n = q[k] THEN Null
                                    ELSE IF n = At(L, q, k - 1) THEN At(L, q, k + 1) ELSE succ[n]
    BY <1>2, <1>3, <1>7
  <2>2. \A u \in Tasks : owner'[u] = IF u = q[k] THEN Null ELSE owner[u]
    BY <1>8
  <2> QED BY <1>1, <1>9, <2>1, <2>2, CutHolds
<1>11. owner'[t] = Null
  BY <1>4, <1>8
<1>12. \A n \in Nodes : n # t /\ ListOf(n) # L => succ'[n] = succ[n]
  BY <1>6, <1>7
<1> QED BY <1>4, <1>8, <1>9, <1>10, <1>11, <1>12, SequencesAfter

\* A call that leaves the links alone leaves the sequences alone.
LEMMA SameSequences ==
  ASSUME IInv, UNCHANGED links
  PROVE  SequencesInv' /\ \A M \in Lists : Along(M)' = Along(M)
<1>1. \A M \in Lists : Along(M)' = Along(M)
  BY AlongIsWalk DEF links
<1>2. ASSUME NEW M \in Lists PROVE Holds(M, Along(M))'
  <2>1. Holds(M, Along(M))
    BY DEF IInv, SequencesInv
  <2>2. Along(M)' = Along(M) /\ succ' = succ /\ owner' = owner
    BY <1>1 DEF links
  <2> QED BY <2>1, <2>2 DEF Holds
<1> QED BY <1>1, <1>2 DEF SequencesInv

LEMMA PopRefines ==
  ASSUME IInv, NEW L \in Lists, PopFront(L) \/ PopBack(L) \/ PopNothing(L)
  PROVE  SequencesInv' /\ (Queues!PopFront(L) \/ Queues!PopBack(L) \/ Queues!PopNothing(L))
<1>1. PICK q : q = Along(L)
  OBVIOUS
<1>2. /\ Inv /\ Holds(L, q) /\ q \in Seq(Tasks) /\ Len(q) \in Nat
      /\ succ[L] = At(L, q, 1) /\ prev[L] = At(L, q, Len(q))
      /\ IsEmpty(L) <=> q = << >>
  <2>1. /\ Inv /\ Holds(L, q) /\ q \in Seq(Tasks) /\ Len(q) \in Nat
        /\ \A i \in 0..Len(q) : succ[At(L, q, i)] = At(L, q, i + 1)
        /\ At(L, q, 0) = L /\ At(L, q, Len(q) + 1) = L
        /\ IsEmpty(L) <=> q = << >>
    BY <1>1, AlongHolds
  <2>2. prev[At(L, q, Len(q) + 1)] = At(L, q, Len(q))
    BY <2>1, PrevAt
  <2> QED BY <2>1, <2>2
<1>3. q # << >> => 1 \in 1..Len(q) /\ Len(q) \in 1..Len(q) /\ succ[L] = q[1] /\ prev[L] = q[Len(q)]
  <2> SUFFICES ASSUME q # << >> PROVE 1 \in 1..Len(q) /\ Len(q) \in 1..Len(q) /\ succ[L] = q[1] /\ prev[L] = q[Len(q)]
    OBVIOUS
  <2>1. Len(q) # 0
    BY <1>2
  <2>2. 1 \in 1..Len(q) /\ Len(q) \in 1..Len(q)
    BY <1>2, <2>1
  <2> QED BY <1>2, <2>2 DEF At
<1>4. CASE PopFront(L)
  <2>1. q # << >> /\ 1 \in 1..Len(q) /\ Unlink(L, q[1]) /\ returned' = q[1]
    BY <1>2, <1>3, <1>4 DEF PopFront
  <2>2. PICK k \in 1..Len(q) : k = 1
    BY <2>1
  <2>3. SequencesInv' /\ \A M \in Lists : Along(M)' = IF M = L THEN Cut(q, k) ELSE Along(M)
    <3>1. Unlink(L, q[k])
      BY <2>1, <2>2
    <3> QED BY <1>1, <3>1, UnlinkRefines
  <2>4. Cut(q, k) = Tail(q)
    BY <1>2, <2>2, CutForms
  <2>5. Head(q) = q[1]
    BY <1>2, <2>1
  <2>6. [M \in Lists |-> Along(M)]' = [[M \in Lists |-> Along(M)] EXCEPT ![L] = Tail(@)]
    BY <1>1, <2>3, <2>4
  <2>7. Queues!PopFront(L)
    BY <1>1, <2>1, <2>5, <2>6 DEF Queues!PopFront
  <2> QED BY <2>3, <2>7
<1>5. CASE PopBack(L)
  <2>1. q # << >> /\ Len(q) \in 1..Len(q) /\ Unlink(L, q[Len(q)]) /\ returned' = q[Len(q)]
    BY <1>2, <1>3, <1>5 DEF PopBack
  <2>2. PICK k \in 1..Len(q) : k = Len(q)
    BY <2>1
  <2>3. SequencesInv' /\ \A M \in Lists : Along(M)' = IF M = L THEN Cut(q, k) ELSE Along(M)
    <3>1. Unlink(L, q[k])
      BY <2>1, <2>2
    <3> QED BY <1>1, <3>1, UnlinkRefines
  <2>4. Cut(q, k) = SubSeq(q, 1, Len(q) - 1)
    BY <1>2, <2>2, CutForms
  <2>5. [M \in Lists |-> Along(M)]' = [[M \in Lists |-> Along(M)] EXCEPT ![L] = SubSeq(@, 1, Len(@) - 1)]
    BY <1>1, <2>3, <2>4
  <2>6. Queues!PopBack(L)
    BY <1>1, <2>1, <2>5 DEF Queues!PopBack
  <2> QED BY <2>3, <2>6
<1>6. CASE PopNothing(L)
  <2>1. q = << >> /\ returned' = Null /\ UNCHANGED links
    BY <1>2, <1>6 DEF PopNothing
  <2>2. SequencesInv' /\ \A M \in Lists : Along(M)' = Along(M)
    BY <2>1, SameSequences
  <2>3. Queues!PopNothing(L)
    BY <1>1, <2>1, <2>2 DEF Queues!PopNothing
  <2> QED BY <2>2, <2>3
<1> QED BY <1>4, <1>5, <1>6

LEMMA RemoveRefines ==
  ASSUME IInv, NEW L \in Lists, NEW t \in Tasks, Remove(L, t)
  PROVE  SequencesInv' /\ Queues!Remove(L, t)
<1>1. PICK q : q = Along(L)
  OBVIOUS
<1>2. /\ q \in Seq(Tasks) /\ Len(q) \in Nat
      /\ \A i \in 1..Len(q) : q[i] \in Tasks /\ owner[q[i]] = L
      /\ \A u \in Tasks : owner[u] = L => \E i \in 1..Len(q) : q[i] = u
  BY <1>1, AlongHolds
<1>3. Unlink(L, t) /\ returned' = Null
  BY DEF Remove
<1>4. CASE owner[t] = L
  <2>1. PICK k \in 1..Len(q) : q[k] = t
    BY <1>2, <1>4
  <2>2. SequencesInv' /\ \A M \in Lists : Along(M)' = IF M = L THEN Cut(q, k) ELSE Along(M)
    BY <1>1, <1>3, <2>1, UnlinkRefines
  <2>3. Cut(q, k) = SubSeq(q, 1, k - 1) \o SubSeq(q, k + 1, Len(q))
    BY <1>2, CutForms
  <2>4. [M \in Lists |-> Along(M)]' =
          [[M \in Lists |-> Along(M)] EXCEPT ![L] = SubSeq(@, 1, k - 1) \o SubSeq(@, k + 1, Len(@))]
    BY <1>1, <2>2, <2>3
  <2>5. Queues!Remove(L, t)
    BY <1>1, <1>3, <2>1, <2>4 DEF Queues!Remove, Queues!Elements
  <2> QED BY <2>2, <2>5
<1>5. CASE owner[t] # L
  <2>1. UNCHANGED links
    BY <1>3, <1>5 DEF Unlink
  <2>2. SequencesInv' /\ \A M \in Lists : Along(M)' = Along(M)
    BY <2>1, SameSequences
  <2>3. \A i \in 1..Len(q) : q[i] # t
    BY <1>2, <1>5
  <2>4. Queues!Remove(L, t)
    BY <1>1, <1>3, <2>2, <2>3 DEF Queues!Remove, Queues!Elements
  <2> QED BY <2>2, <2>4
<1> QED BY <1>4, <1>5

\* The rings implement the sequences of TaskQueues, for any lists and tasks: pushes and pops
\* act at the ends, removing a task closes the gap, and no task is in two lists or lost.
THEOREM RingsImplementQueues == Spec => ImplementsQueues
<1>1. Init => Queues!Init /\ SequencesInv
  <2> SUFFICES ASSUME Init PROVE Queues!Init /\ SequencesInv
    OBVIOUS
  <2>1. ASSUME NEW L \in Lists PROVE Holds(L, << >>) /\ Along(L) = << >>
    <3>0. << >> \in Seq(Tasks)
      OBVIOUS
    <3>1. PICK q \in Seq(Tasks) : q = << >>
      BY <3>0, Zenon
    <3>2. Len(q) = 0 /\ succ[L] = L /\ L # Null /\ \A t \in Tasks : owner[t] = Null
      BY <3>1, NodesAssumption DEF Init, Nodes
    <3>3. \A i \in Nat : At(L, q, i) = L
      BY <3>2 DEF At
    <3>4. Holds(L, q)
      BY <3>2, <3>3 DEF Holds
    <3> QED BY <3>1, <3>4, HoldsIsAlong
  <2>2. [L \in Lists |-> Along(L)] = [L \in Lists |-> << >>]
    BY <2>1
  <2>3. returned = Null
    BY DEF Init
  <2> QED BY <2>1, <2>2, <2>3 DEF Queues!Init, SequencesInv
<1>2. IInv /\ [Next]_vars => SequencesInv' /\ [Queues!Next]_Queues!vars
  <2>. SUFFICES ASSUME IInv, [Next]_vars PROVE SequencesInv' /\ [Queues!Next]_Queues!vars
    OBVIOUS
  <2>1. CASE UNCHANGED vars
    <3>1. UNCHANGED links /\ UNCHANGED returned
      BY <2>1 DEF vars
    <3>2. SequencesInv' /\ \A M \in Lists : Along(M)' = Along(M)
      BY <3>1, SameSequences
    <3> QED BY <3>1, <3>2 DEF Queues!vars
  <2>2. ASSUME NEW L \in Lists, PopFront(L) \/ PopBack(L) \/ PopNothing(L)
        PROVE  SequencesInv' /\ Queues!Next
    BY <2>2, PopRefines DEF Queues!Next
  <2>3. ASSUME NEW L \in Lists, NEW t \in Tasks, Push(L, t) PROVE SequencesInv' /\ Queues!Next
    BY <2>3, PushRefines DEF Queues!Next
  <2>4. ASSUME NEW L \in Lists, NEW t \in Tasks, Remove(L, t) PROVE SequencesInv' /\ Queues!Next
    BY <2>4, RemoveRefines DEF Queues!Next
  <2>. QED
    BY <2>1, <2>2, <2>3, <2>4 DEF Next
<1>. QED
  BY <1>1, <1>2, InvAlways, PTL DEF Spec, IInv, ImplementsQueues, Queues!Spec
=============================================================================
