---------------------------- MODULE MessageProofs ----------------------------
(* The messages of the game and the packets of its transport: every translator  *)
(* sees every message once and in order, and the messages keep theirs, for any   *)
(* messages, priorities and number of translators; the transport's buffers and   *)
(* statistics stand for any number of peers, slots and periods.                  *)
EXTENDS MessageStream, Transport, FiniteSetTheorems, SequenceTheorems, WellFoundedInduction, TLAPS

-----------------------------------------------------------------------------
(* Sequences: the places of the entries, and sequences within others.        *)

Distinct(q) == \A i, j \in 1..Len(q) : q[i] = q[j] => i = j

\* x stands in front of y.
Ahead(q, x, y) == \E i, j \in 1..Len(q) : i < j /\ q[i] = x /\ q[j] = y

\* f says at which places of r the entries of q stand.
Places(q, r, f) ==
  /\ f \in [1..Len(q) -> 1..Len(r)]
  /\ \A i, j \in 1..Len(q) : i < j => f[i] < f[j]
  /\ \A i \in 1..Len(q) : r[f[i]] = q[i]

\* q is r with some entries left out.
Within(q, r) == \E f : Places(q, r, f)

\* Place finds the one place of an entry.
LEMMA PlaceIs ==
  ASSUME NEW q, Distinct(q), NEW i \in 1..Len(q)
  PROVE  Place(q, q[i]) = i
BY DEF Place, Distinct

\* What stands in front of something is not behind it, nor the same.
LEMMA AheadOneWay ==
  ASSUME NEW S, NEW q \in Seq(S), Distinct(q), NEW x, NEW y, Ahead(q, x, y)
  PROVE  x # y /\ ~Ahead(q, y, x) /\ x \in Entries(q) /\ y \in Entries(q)
<1>1. PICK i, j \in 1..Len(q) : i < j /\ q[i] = x /\ q[j] = y
  BY DEF Ahead
<1>2. x # y
  BY <1>1 DEF Distinct
<1>3. ASSUME Ahead(q, y, x) PROVE FALSE
  <2>1. PICK k, l \in 1..Len(q) : k < l /\ q[k] = y /\ q[l] = x
    BY <1>3 DEF Ahead
  <2>2. l = i /\ k = j
    BY <1>1, <2>1 DEF Distinct
  <2> QED BY <1>1, <2>1, <2>2
<1> QED BY <1>1, <1>2, <1>3 DEF Entries

\* A sequence with entries left out keeps the order of the others.
LEMMA WithinKeeps ==
  ASSUME NEW S, NEW q \in Seq(S), NEW r \in Seq(S), Within(q, r)
  PROVE  /\ Entries(q) \subseteq Entries(r)
         /\ Distinct(r) => Distinct(q) /\ \A x, y \in Entries(q) : Ahead(q, x, y) <=> Ahead(r, x, y)
<1>1. PICK f : Places(q, r, f)
  BY DEF Within
<1>2. /\ \A i \in 1..Len(q) : f[i] \in 1..Len(r) /\ r[f[i]] = q[i]
      /\ \A i, j \in 1..Len(q) : i < j => f[i] < f[j]
      /\ Len(q) \in Nat /\ Len(r) \in Nat
  BY <1>1 DEF Places
<1>3. Entries(q) \subseteq Entries(r)
  <2> SUFFICES ASSUME NEW x \in Entries(q) PROVE x \in Entries(r)
    OBVIOUS
  <2>1. PICK i \in 1..Len(q) : x = q[i]
    BY DEF Entries
  <2>2. f[i] \in 1..Len(r) /\ r[f[i]] = x
    BY <1>2, <2>1
  <2> QED BY <2>2 DEF Entries
<1>4. \A i, j \in 1..Len(q) : f[i] = f[j] => i = j
  <2> SUFFICES ASSUME NEW i \in 1..Len(q), NEW j \in 1..Len(q), f[i] = f[j], i # j PROVE FALSE
    OBVIOUS
  <2>1. i < j \/ j < i
    OBVIOUS
  <2> QED BY <1>2, <2>1
<1>5. ASSUME Distinct(r) PROVE Distinct(q)
  BY <1>2, <1>4, <1>5 DEF Distinct
<1>6. ASSUME Distinct(r), NEW x \in Entries(q), NEW y \in Entries(q)
      PROVE  Ahead(q, x, y) <=> Ahead(r, x, y)
  <2>1. ASSUME Ahead(q, x, y) PROVE Ahead(r, x, y)
    <3>1. PICK i, j \in 1..Len(q) : i < j /\ q[i] = x /\ q[j] = y
      BY <2>1 DEF Ahead
    <3>2. f[i] \in 1..Len(r) /\ f[j] \in 1..Len(r) /\ f[i] < f[j] /\ r[f[i]] = x /\ r[f[j]] = y
      BY <1>2, <3>1
    <3> QED BY <3>2 DEF Ahead
  <2>2. ASSUME Ahead(r, x, y) PROVE Ahead(q, x, y)
    <3>1. PICK i \in 1..Len(q) : q[i] = x
      BY DEF Entries
    <3>2. PICK j \in 1..Len(q) : q[j] = y
      BY DEF Entries
    <3>3. PICK k, l \in 1..Len(r) : k < l /\ r[k] = x /\ r[l] = y
      BY <2>2 DEF Ahead
    <3>4. k = f[i] /\ l = f[j]
      BY <1>2, <1>6, <3>1, <3>2, <3>3 DEF Distinct
    <3>5. ~(j < i) /\ i # j
      BY <1>2, <3>3, <3>4
    <3>6. i < j
      BY <3>5
    <3> QED BY <3>1, <3>2, <3>6 DEF Ahead
  <2> QED BY <2>1, <2>2
<1> QED BY <1>3, <1>5, <1>6

-----------------------------------------------------------------------------
(* What the operations on a list leave of it.                                *)

\* The list q with x in between, at place k.
LEMMA InsertIs ==
  ASSUME NEW S, NEW q \in Seq(S), NEW x \in S, NEW k \in 1..(Len(q) + 1), NEW r, r = InsertAt(q, k, x)
  PROVE  /\ r \in Seq(S) /\ Len(r) = Len(q) + 1
         /\ \A i \in 1..Len(r) : r[i] = IF i < k THEN q[i] ELSE IF i = k THEN x ELSE q[i - 1]
<1>1. Len(q) \in Nat /\ k \in Nat /\ k - 1 \in 0..Len(q)
  OBVIOUS
<1> DEFINE a == SubSeq(q, 1, k - 1)
           b == SubSeq(q, k, Len(q))
<1>2. /\ a \in Seq(S) /\ Len(a) = k - 1 /\ \A i \in 1..(k - 1) : a[i] = q[i]
  BY <1>1
<1>3. /\ b \in Seq(S) /\ Len(b) = Len(q) + 1 - k /\ \A i \in 1..(Len(q) + 1 - k) : b[i] = q[k + i - 1]
  BY <1>1
<1>4. r = (a \o <<x>>) \o b
  BY DEF InsertAt
<1> HIDE DEF a, b
<1>5. /\ a \o <<x>> \in Seq(S) /\ Len(a \o <<x>>) = k
      /\ \A i \in 1..k : (a \o <<x>>)[i] = IF i < k THEN q[i] ELSE x
  BY <1>1, <1>2
<1>6. r \in Seq(S) /\ Len(r) = Len(q) + 1
  BY <1>1, <1>3, <1>4, <1>5, ConcatProperties
<1>7. ASSUME NEW i \in 1..Len(r)
      PROVE  r[i] = IF i < k THEN q[i] ELSE IF i = k THEN x ELSE q[i - 1]
  <2>1. CASE i <= k
    BY <1>1, <1>3, <1>4, <1>5, <2>1
  <2>2. CASE i > k
    <3>1. i - k \in 1..(Len(q) + 1 - k) /\ k + (i - k) - 1 = i - 1
      BY <1>1, <1>6, <2>2
    <3>2. r[i] = b[i - k]
      BY <1>1, <1>3, <1>4, <1>5, <1>6, <2>2
    <3>3. b[i - k] = q[k + (i - k) - 1]
      BY <1>3, <3>1
    <3> QED BY <1>1, <2>2, <3>1, <3>2, <3>3
  <2> QED BY <1>1, <2>1, <2>2
<1> QED BY <1>6, <1>7

\* The list q without its entry at place k.
LEMMA RemoveIs ==
  ASSUME NEW S, NEW q \in Seq(S), NEW k \in 1..Len(q), NEW r, r = RemoveAt(q, k)
  PROVE  /\ r \in Seq(S) /\ Len(r) = Len(q) - 1
         /\ \A i \in 1..Len(r) : r[i] = IF i < k THEN q[i] ELSE q[i + 1]
<1>1. Len(q) \in Nat /\ k \in Nat /\ k - 1 \in 0..Len(q)
  OBVIOUS
<1> DEFINE a == SubSeq(q, 1, k - 1)
           b == SubSeq(q, k + 1, Len(q))
<1>2. /\ a \in Seq(S) /\ Len(a) = k - 1 /\ \A i \in 1..(k - 1) : a[i] = q[i]
  BY <1>1
<1>3. /\ b \in Seq(S) /\ Len(b) = Len(q) - k /\ \A i \in 1..(Len(q) - k) : b[i] = q[k + i]
  BY <1>1
<1>4. r = a \o b
  BY DEF RemoveAt
<1> HIDE DEF a, b
<1>5. r \in Seq(S) /\ Len(r) = Len(q) - 1
  BY <1>1, <1>2, <1>3, <1>4, ConcatProperties
<1>6. ASSUME NEW i \in 1..Len(r)
      PROVE  r[i] = IF i < k THEN q[i] ELSE q[i + 1]
  <2>1. CASE i < k
    BY <1>1, <1>2, <1>3, <1>4, <1>5, <2>1
  <2>2. CASE i >= k
    <3>1. i - (k - 1) \in 1..(Len(q) - k) /\ k + (i - (k - 1)) = i + 1
      BY <1>1, <1>5, <2>2
    <3>2. r[i] = b[i - (k - 1)]
      BY <1>1, <1>2, <1>3, <1>4, <1>5, <2>2
    <3> QED BY <1>1, <1>3, <2>2, <3>1, <3>2
  <2> QED BY <1>1, <2>1, <2>2
<1> QED BY <1>5, <1>6

\* Inserting leaves the list within the new one, which has the entry and no other in addition.
LEMMA InsertKeeps ==
  ASSUME NEW S, NEW q \in Seq(S), NEW x \in S, NEW k \in 1..(Len(q) + 1), NEW r, r = InsertAt(q, k, x)
  PROVE  /\ r \in Seq(S) /\ Within(q, r) /\ Entries(r) = Entries(q) \cup {x}
         /\ Distinct(q) /\ x \notin Entries(q) => Distinct(r)
<1>1. /\ r \in Seq(S) /\ Len(r) = Len(q) + 1
      /\ \A i \in 1..Len(r) : r[i] = IF i < k THEN q[i] ELSE IF i = k THEN x ELSE q[i - 1]
  BY InsertIs
<1>2. Len(q) \in Nat /\ k \in 1..Len(r)
  BY <1>1
<1>3. PICK f : f = [i \in 1..Len(q) |-> IF i < k THEN i ELSE i + 1]
  OBVIOUS
<1>4. Places(q, r, f)
  <2>1. f \in [1..Len(q) -> 1..Len(r)]
    BY <1>1, <1>2, <1>3
  <2>2. \A i, j \in 1..Len(q) : i < j => f[i] < f[j]
    BY <1>2, <1>3
  <2>3. ASSUME NEW i \in 1..Len(q) PROVE r[f[i]] = q[i]
    <3>1. CASE i < k
      BY <1>1, <1>2, <1>3, <2>1, <3>1
    <3>2. CASE ~(i < k)
      <4>1. f[i] = i + 1 /\ i + 1 \in 1..Len(r) /\ ~(i + 1 < k) /\ i + 1 # k /\ (i + 1) - 1 = i
        BY <1>1, <1>2, <1>3, <3>2
      <4> QED BY <1>1, <4>1
    <3> QED BY <3>1, <3>2
  <2> QED BY <2>1, <2>2, <2>3 DEF Places
<1>5. Within(q, r)
  BY <1>4 DEF Within
<1>6. r[k] = x
  BY <1>1, <1>2
<1>7. Entries(r) = Entries(q) \cup {x}
  <2>1. Entries(q) \subseteq Entries(r)
    BY <1>1, <1>5, WithinKeeps
  <2>2. x \in Entries(r)
    BY <1>2, <1>6 DEF Entries
  <2>3. ASSUME NEW y \in Entries(r) PROVE y \in Entries(q) \cup {x}
    <3>1. PICK i \in 1..Len(r) : y = r[i]
      BY DEF Entries
    <3>2. CASE i < k
      BY <1>1, <1>2, <3>1, <3>2 DEF Entries
    <3>3. CASE i > k
      <4>1. i - 1 \in 1..Len(q) /\ y = q[i - 1]
        BY <1>1, <1>2, <3>1, <3>3
      <4> QED BY <4>1 DEF Entries
    <3>4. CASE i = k
      BY <1>6, <3>1, <3>4
    <3> QED BY <1>2, <3>2, <3>3, <3>4
  <2> QED BY <2>1, <2>2, <2>3
<1>8. ASSUME Distinct(q), x \notin Entries(q) PROVE Distinct(r)
  <2> SUFFICES ASSUME NEW i \in 1..Len(r), NEW j \in 1..Len(r), i < j, r[i] = r[j] PROVE FALSE
    BY <1>1 DEF Distinct
  <2>1. CASE i = k
    <3>1. j - 1 \in 1..Len(q) /\ x = q[j - 1]
      BY <1>1, <1>2, <2>1
    <3> QED BY <1>8, <3>1 DEF Entries
  <2>2. CASE j = k
    <3>1. i \in 1..Len(q) /\ x = q[i]
      BY <1>1, <1>2, <2>2
    <3> QED BY <1>8, <3>1 DEF Entries
  <2>3. CASE i # k /\ j # k
    <3>1. PICK a \in 1..Len(q) : a = IF i < k THEN i ELSE i - 1
      BY <1>1, <1>2, <2>3
    <3>2. PICK b \in 1..Len(q) : b = IF j < k THEN j ELSE j - 1
      BY <1>1, <1>2, <2>3
    <3>3. q[a] = r[i] /\ q[b] = r[j] /\ a # b
      BY <1>1, <1>2, <2>3, <3>1, <3>2
    <3> QED BY <1>8, <3>3 DEF Distinct
  <2> QED BY <2>1, <2>2, <2>3
<1> QED BY <1>1, <1>5, <1>7, <1>8

\* So does appending.
Appended(q, x) == Append(q, x)

LEMMA AppendKeeps ==
  ASSUME NEW S, NEW q \in Seq(S), NEW x \in S, NEW r, r = Appended(q, x)
  PROVE  /\ r \in Seq(S) /\ Within(q, r) /\ Entries(r) = Entries(q) \cup {x}
         /\ Distinct(q) /\ x \notin Entries(q) => Distinct(r)
<1>1. r \in Seq(S) /\ Len(r) = Len(q) + 1 /\ \A i \in 1..Len(r) : r[i] = IF i <= Len(q) THEN q[i] ELSE x
  BY DEF Appended
<1>2. Len(q) \in Nat
  OBVIOUS
<1>3. PICK f : f = [i \in 1..Len(q) |-> i]
  OBVIOUS
<1>4. Places(q, r, f)
  BY <1>1, <1>2, <1>3 DEF Places
<1>5. Within(q, r)
  BY <1>4 DEF Within
<1>6. Entries(r) = Entries(q) \cup {x}
  <2>1. Entries(q) \subseteq Entries(r)
    BY <1>1, <1>5, WithinKeeps
  <2>2. x \in Entries(r)
    BY <1>1, <1>2 DEF Entries
  <2>3. ASSUME NEW y \in Entries(r) PROVE y \in Entries(q) \cup {x}
    BY <1>1, <1>2 DEF Entries
  <2> QED BY <2>1, <2>2, <2>3
<1>7. ASSUME Distinct(q), x \notin Entries(q) PROVE Distinct(r)
  <2> SUFFICES ASSUME NEW i \in 1..Len(r), NEW j \in 1..Len(r), i < j, r[i] = r[j] PROVE FALSE
    BY <1>1 DEF Distinct
  <2>1. i \in 1..Len(q) /\ r[i] = q[i]
    BY <1>1, <1>2
  <2>2. CASE j <= Len(q)
    <3>1. j \in 1..Len(q) /\ r[j] = q[j]
      BY <1>1, <1>2, <2>2
    <3>2. q[i] = q[j]
      BY <2>1, <3>1, Zenon
    <3>3. i # j
      BY <2>1, <3>1
    <3> QED BY <1>7, <2>1, <3>1, <3>2, <3>3 DEF Distinct
  <2>3. CASE j > Len(q)
    <3>1. r[j] = x
      BY <1>1, <1>2, <2>3
    <3>2. q[i] = x
      BY <2>1, <3>1
    <3> QED BY <1>7, <2>1, <3>2 DEF Entries
  <2> QED BY <1>1, <1>2, <2>2, <2>3
<1> QED BY <1>1, <1>5, <1>6, <1>7

\* Removing leaves the new list within the old one, which has the entry removed and no other in addition.
LEMMA RemoveKeeps ==
  ASSUME NEW S, NEW q \in Seq(S), NEW k \in 1..Len(q), NEW r, r = RemoveAt(q, k)
  PROVE  /\ r \in Seq(S) /\ Within(r, q)
         /\ Distinct(q) => Entries(r) = Entries(q) \ {q[k]}
<1>1. /\ r \in Seq(S) /\ Len(r) = Len(q) - 1
      /\ \A i \in 1..Len(r) : r[i] = IF i < k THEN q[i] ELSE q[i + 1]
  BY RemoveIs
<1>2. Len(q) \in Nat
  OBVIOUS
<1>3. PICK f : f = [i \in 1..Len(r) |-> IF i < k THEN i ELSE i + 1]
  OBVIOUS
<1>4. /\ f \in [1..Len(r) -> 1..Len(q)]
      /\ \A i \in 1..Len(r) : f[i] # k /\ r[i] = q[f[i]]
  BY <1>1, <1>2, <1>3
<1>5. \A i, j \in 1..Len(r) : i < j => f[i] < f[j]
  BY <1>1, <1>2, <1>3
<1>6. Within(r, q)
  BY <1>4, <1>5 DEF Places, Within
<1>7. ASSUME Distinct(q) PROVE Entries(r) = Entries(q) \ {q[k]}
  <2>1. ASSUME NEW y \in Entries(r) PROVE y \in Entries(q) \ {q[k]}
    <3>1. PICK i \in 1..Len(r) : y = r[i]
      BY DEF Entries
    <3>2. f[i] \in 1..Len(q) /\ f[i] # k /\ y = q[f[i]]
      BY <1>4, <3>1
    <3> QED BY <1>7, <3>2 DEF Entries, Distinct
  <2>2. ASSUME NEW y \in Entries(q) \ {q[k]} PROVE y \in Entries(r)
    <3>1. PICK j \in 1..Len(q) : y = q[j] /\ j # k
      BY DEF Entries
    <3>2. CASE j < k
      BY <1>1, <1>2, <3>1, <3>2 DEF Entries
    <3>3. CASE j > k
      <4>1. j - 1 \in 1..Len(r) /\ r[j - 1] = y
        BY <1>1, <1>2, <3>1, <3>3
      <4> QED BY <4>1 DEF Entries
    <3> QED BY <3>1, <3>2, <3>3
  <2> QED BY <2>1, <2>2
<1> QED BY <1>1, <1>6, <1>7

\* Two lists that share nothing, one behind the other.
Joined(c, q) == c \o q

LEMMA ConcatKeeps ==
  ASSUME NEW S, NEW c \in Seq(S), NEW q \in Seq(S), NEW b, b = Joined(c, q)
  PROVE  /\ b \in Seq(S) /\ Entries(b) = Entries(c) \cup Entries(q)
         /\ Distinct(c) /\ Distinct(q) /\ Entries(c) \cap Entries(q) = {} => Distinct(b)
<1>1. /\ Len(c) \in Nat /\ Len(q) \in Nat /\ b \in Seq(S)
      /\ Len(b) = Len(c) + Len(q) /\ \A i \in 1..Len(b) : b[i] = IF i <= Len(c) THEN c[i] ELSE q[i - Len(c)]
  BY ConcatProperties DEF Joined
<1>2. ASSUME NEW i \in 1..Len(c) PROVE i \in 1..Len(b) /\ b[i] = c[i]
  BY <1>1
<1>3. ASSUME NEW i \in 1..Len(q) PROVE Len(c) + i \in 1..Len(b) /\ b[Len(c) + i] = q[i]
  <2>1. Len(c) + i \in 1..Len(b) /\ ~(Len(c) + i <= Len(c)) /\ (Len(c) + i) - Len(c) = i
    BY <1>1
  <2> QED BY <1>1, <2>1
<1>4. ASSUME NEW i \in 1..Len(b)
      PROVE  \/ i \in 1..Len(c) /\ b[i] = c[i]
             \/ i > Len(c) /\ i - Len(c) \in 1..Len(q) /\ b[i] = q[i - Len(c)]
  BY <1>1
<1>5. Entries(b) = Entries(c) \cup Entries(q)
  <2>1. ASSUME NEW x \in Entries(b) PROVE x \in Entries(c) \cup Entries(q)
    <3>1. PICK i \in 1..Len(b) : x = b[i]
      BY DEF Entries
    <3> QED BY <1>4, <3>1 DEF Entries
  <2>2. ASSUME NEW x \in Entries(c) PROVE x \in Entries(b)
    BY <1>2 DEF Entries
  <2>3. ASSUME NEW x \in Entries(q) PROVE x \in Entries(b)
    <3>1. PICK i \in 1..Len(q) : x = q[i]
      BY DEF Entries
    <3> QED BY <1>3, <3>1 DEF Entries
  <2> QED BY <2>1, <2>2, <2>3
<1>6. ASSUME Distinct(c), Distinct(q), Entries(c) \cap Entries(q) = {} PROVE Distinct(b)
  <2> SUFFICES ASSUME NEW i \in 1..Len(b), NEW j \in 1..Len(b), b[i] = b[j] PROVE i = j
    BY DEF Distinct
  <2>1. CASE i \in 1..Len(c) /\ b[i] = c[i] /\ j \in 1..Len(c) /\ b[j] = c[j]
    BY <1>6, <2>1 DEF Distinct
  <2>2. CASE /\ i > Len(c) /\ i - Len(c) \in 1..Len(q) /\ b[i] = q[i - Len(c)]
             /\ j > Len(c) /\ j - Len(c) \in 1..Len(q) /\ b[j] = q[j - Len(c)]
    <3>1. i - Len(c) = j - Len(c)
      BY <1>6, <2>2 DEF Distinct
    <3> QED BY <1>1, <3>1
  <2>3. CASE i \in 1..Len(c) /\ b[i] = c[i] /\ j - Len(c) \in 1..Len(q) /\ b[j] = q[j - Len(c)]
    <3>1. b[i] \in Entries(c) /\ b[j] \in Entries(q)
      BY <2>3 DEF Entries
    <3> QED BY <1>6, <3>1
  <2>4. CASE j \in 1..Len(c) /\ b[j] = c[j] /\ i - Len(c) \in 1..Len(q) /\ b[i] = q[i - Len(c)]
    <3>1. b[j] \in Entries(c) /\ b[i] \in Entries(q)
      BY <2>4 DEF Entries
    <3> QED BY <1>6, <3>1
  <2> QED BY <1>4, <2>1, <2>2, <2>3, <2>4
<1> QED BY <1>1, <1>5, <1>6

-----------------------------------------------------------------------------
(* The inductive invariant.                                                  *)

\* The ids of the translators of a list.
IdsOf(l) == [i \in 1..Len(l) |-> l[i].id]
Order == IdsOf(translators)

Data == [id : Nat, priority : Nat]

StreamTypeOK ==
  /\ stream \in Seq(Messages) /\ commands \in Seq(Messages)
  /\ translators \in Seq(Data) /\ nextId \in Nat \ {0}
  /\ phase \in {"idle", "next", "translating"} /\ tdata \in Nat
  /\ msg \in Messages \cup {None} /\ msgNext \in Messages \cup {None}
  /\ offered \in [Messages -> Seq(Nat)]
  /\ started \in [messages : SUBSET Messages, translators : SUBSET Nat]

\* A message is in one list, once.
ListsApart ==
  /\ Distinct(stream) /\ Distinct(commands)
  /\ Entries(stream) \cap Entries(commands) = {}

\* Ids are handed out once, 0 is none of them, and the list of translators is sorted.
TranslatorsKept ==
  /\ Distinct(Order)
  /\ \A i \in 1..Len(translators) : 0 < translators[i].id /\ translators[i].id < nextId
  /\ TranslatorsSorted

\* What a message was offered to, the list q, is in the order o of the translators, and all ids are below n.
OfferedTo(q, o, n) ==
  /\ Distinct(q) /\ \A i \in 1..Len(q) : q[i] < n
  /\ \A i, j \in 1..Len(q) : i < j /\ q[i] \in Entries(o) /\ q[j] \in Entries(o) => Ahead(o, q[i], q[j])
OffersOrdered == \A m \in Messages : OfferedTo(offered[m], Order, nextId)

\* With the loops at translator d and next coming to message c, translator t has been through message m.
Done(o, q, c, d, t, m) == d = 0 \/ Ahead(o, t, d) \/ (t = d /\ (c = None \/ Ahead(q, m, c)))

\* What the loops hold is in the lists o and q; a translator that was there when they began has been offered
\* every message it has been through that was; a message was offered only to those that have been through it.
LoopAt(o, q, c, d, off, st) ==
  /\ d # 0 => d \in Entries(o)
  /\ c \in Entries(q) \cup {None}
  /\ st.messages \subseteq Entries(q)
  /\ st.translators \subseteq Entries(o)
  /\ \A t \in st.translators, m \in st.messages : Done(o, q, c, d, t, m) => t \in Entries(off[m])
  /\ \A m \in Entries(q) : \A t \in Entries(off[m]) \cap Entries(o) : Done(o, q, c, d, t, m)

\* The message that the loop comes to next.
Cursor == IF phase = "next" THEN msg ELSE msgNext

LoopKept ==
  /\ phase = "idle" => tdata = 0 /\ \A m \in Entries(stream) : offered[m] = << >>
  /\ phase # "idle" => LoopAt(Order, stream, Cursor, tdata, offered, started)
  /\ phase = "translating" => tdata # 0 /\ msg \in Entries(stream) /\ msgNext # msg

IndInv == StreamTypeOK /\ ListsApart /\ TranslatorsKept /\ OffersOrdered /\ LoopKept

-----------------------------------------------------------------------------
(* The ids of a list of translators.                                         *)

LEMMA DataIs ==
  ASSUME NEW l \in Seq(Data), NEW i \in 1..Len(l)
  PROVE  l[i] \in Data /\ l[i].id \in Nat /\ l[i].priority \in Nat
<1>1. l[i] \in Data
  BY ElementOfSeq
<1> QED BY <1>1 DEF Data

LEMMA IdsOfList ==
  ASSUME NEW l \in Seq(Data)
  PROVE  /\ IdsOf(l) \in Seq(Nat) /\ Len(IdsOf(l)) = Len(l) /\ \A i \in 1..Len(l) : IdsOf(l)[i] = l[i].id
         /\ Entries(IdsOf(l)) = {e.id : e \in Entries(l)}
<1>1. Len(l) \in Nat /\ \A i \in 1..Len(l) : l[i] \in Data /\ l[i].id \in Nat
  BY DataIs, LenProperties
<1>2. IdsOf(l) \in Seq(Nat) /\ Len(IdsOf(l)) = Len(l) /\ \A i \in 1..Len(l) : IdsOf(l)[i] = l[i].id
  BY <1>1 DEF IdsOf
<1>3. Entries(IdsOf(l)) = {e.id : e \in Entries(l)}
  <2>1. ASSUME NEW x \in Entries(IdsOf(l)) PROVE x \in {e.id : e \in Entries(l)}
    <3>1. PICK i \in 1..Len(l) : x = l[i].id
      BY <1>2 DEF Entries
    <3> QED BY <3>1 DEF Entries
  <2>2. ASSUME NEW x \in {e.id : e \in Entries(l)} PROVE x \in Entries(IdsOf(l))
    <3>1. PICK i \in 1..Len(l) : x = l[i].id
      BY DEF Entries
    <3> QED BY <1>2, <3>1 DEF Entries
  <2> QED BY <2>1, <2>2
<1> QED BY <1>2, <1>3

\* When entries differ, so do their ids, and the other way round.
LEMMA IdsDistinct ==
  ASSUME NEW l \in Seq(Data)
  PROVE  Distinct(IdsOf(l)) <=> Distinct(l) /\ \A e, g \in Entries(l) : e.id = g.id => e = g
<1>1. Len(IdsOf(l)) = Len(l) /\ \A i \in 1..Len(l) : IdsOf(l)[i] = l[i].id
  BY IdsOfList
<1>2. ASSUME Distinct(IdsOf(l)) PROVE Distinct(l)
  BY <1>1, <1>2 DEF Distinct
<1>3. ASSUME Distinct(IdsOf(l)), NEW e \in Entries(l), NEW g \in Entries(l), e.id = g.id PROVE e = g
  <2>1. PICK i \in 1..Len(l) : e = l[i]
    BY DEF Entries
  <2>2. PICK j \in 1..Len(l) : g = l[j]
    BY DEF Entries
  <2>3. i = j
    BY <1>1, <1>3, <2>1, <2>2 DEF Distinct
  <2> QED BY <2>1, <2>2, <2>3
<1>4. ASSUME Distinct(l), \A e, g \in Entries(l) : e.id = g.id => e = g PROVE Distinct(IdsOf(l))
  <2> SUFFICES ASSUME NEW i \in 1..Len(l), NEW j \in 1..Len(l), l[i].id = l[j].id PROVE i = j
    BY <1>1 DEF Distinct
  <2>1. l[i] \in Entries(l) /\ l[j] \in Entries(l)
    BY DEF Entries
  <2>2. l[i] = l[j]
    BY <1>4, <2>1
  <2> QED BY <1>4, <2>2 DEF Distinct
<1> QED BY <1>2, <1>3, <1>4

\* The ids remain within the ids when the list does.
LEMMA IdsWithin ==
  ASSUME NEW q \in Seq(Data), NEW r \in Seq(Data), Within(q, r)
  PROVE  Within(IdsOf(q), IdsOf(r))
<1>1. PICK f : Places(q, r, f)
  BY DEF Within
<1>2. PICK a, b : a = IdsOf(q) /\ b = IdsOf(r)
  OBVIOUS
<1>3. /\ Len(a) = Len(q) /\ \A i \in 1..Len(q) : a[i] = q[i].id
      /\ Len(b) = Len(r) /\ \A i \in 1..Len(r) : b[i] = r[i].id
  BY <1>2, IdsOfList
<1>4. /\ f \in [1..Len(a) -> 1..Len(b)]
      /\ \A i, j \in 1..Len(a) : i < j => f[i] < f[j]
      /\ \A i \in 1..Len(q) : f[i] \in 1..Len(r) /\ r[f[i]] = q[i]
  BY <1>1, <1>3 DEF Places
<1>5. \A i \in 1..Len(a) : b[f[i]] = a[i]
  BY <1>3, <1>4, SMTT(60)
<1> QED BY <1>2, <1>4, <1>5 DEF Places, Within

\* Within a sorted list every list is sorted.
Sorted(l) == \A i, j \in 1..Len(l) : i < j => Precedes(l[i], l[j])

LEMMA SortedWithin ==
  ASSUME NEW q \in Seq(Data), NEW r \in Seq(Data), Within(q, r), Sorted(r)
  PROVE  Sorted(q)
<1>1. PICK f : Places(q, r, f)
  BY DEF Within
<1>2. /\ \A i \in 1..Len(q) : f[i] \in 1..Len(r) /\ r[f[i]] = q[i]
      /\ \A i, j \in 1..Len(q) : i < j => f[i] < f[j]
  BY <1>1 DEF Places
<1> SUFFICES ASSUME NEW i \in 1..Len(q), NEW j \in 1..Len(q), i < j PROVE Precedes(q[i], q[j])
  BY DEF Sorted
<1>3. Precedes(r[f[i]], r[f[j]])
  BY <1>2 DEF Sorted
<1> QED BY <1>2, <1>3

-----------------------------------------------------------------------------
(* The translators.                                                          *)

\* The place that Attach_Translator chooses: behind those of the same priority.
LEMMA AttachedSorted ==
  ASSUME NEW l \in Seq(Data), Sorted(l), NEW d \in Data, \A i \in 1..Len(l) : l[i].id < d.id,
         NEW k \in 1..(Len(l) + 1),
         \A i \in 1..Len(l) : i < k => l[i].priority <= d.priority,
         \A i \in 1..Len(l) : i >= k => l[i].priority > d.priority,
         NEW r, Len(r) = Len(l) + 1,
         \A i \in 1..Len(r) : r[i] = IF i < k THEN l[i] ELSE IF i = k THEN d ELSE l[i - 1]
  PROVE  Sorted(r)
<1>1. Len(l) \in Nat /\ d.id \in Nat /\ d.priority \in Nat
      /\ \A i \in 1..Len(l) : l[i].id \in Nat /\ l[i].priority \in Nat
  <2>1. d.id \in Nat /\ d.priority \in Nat
    BY DEF Data
  <2> QED BY <2>1, DataIs, LenProperties
<1> SUFFICES ASSUME NEW i \in 1..Len(r), NEW j \in 1..Len(r), i < j PROVE Precedes(r[i], r[j])
  BY DEF Sorted
<1>2. CASE i = k
  <2>1. j - 1 \in 1..Len(l) /\ j - 1 >= k /\ r[j] = l[j - 1] /\ r[i] = d
    BY <1>1, <1>2
  <2>2. d.priority < l[j - 1].priority
    BY <1>1, <2>1
  <2> QED BY <2>1, <2>2 DEF Precedes
<1>3. CASE j = k
  <2>1. i \in 1..Len(l) /\ r[i] = l[i] /\ r[j] = d
    BY <1>1, <1>3
  <2>2. l[i].priority <= d.priority /\ l[i].id < d.id
    BY <1>3, <2>1
  <2>3. l[i].priority < d.priority \/ l[i].priority = d.priority
    BY <1>1, <2>1, <2>2
  <2> QED BY <2>1, <2>2, <2>3 DEF Precedes
<1>4. CASE i # k /\ j # k
  <2>1. PICK a \in 1..Len(l) : a = IF i < k THEN i ELSE i - 1
    BY <1>1, <1>4
  <2>2. PICK b \in 1..Len(l) : b = IF j < k THEN j ELSE j - 1
    BY <1>1, <1>4
  <2>3. l[a] = r[i] /\ l[b] = r[j] /\ a < b
    BY <1>1, <1>4, <2>1, <2>2
  <2>4. Precedes(l[a], l[b])
    BY <2>3 DEF Sorted
  <2> QED BY <2>3, <2>4
<1> QED BY <1>2, <1>3, <1>4

\* A set of numbers that is not empty has a least one.
LEMMA LeastPlace ==
  ASSUME NEW T, T \subseteq Nat, T # {}
  PROVE  \E x \in T : \A y \in T : x <= y
<1>1. PICK R : R = OpToRel(<, Nat)
  OBVIOUS
<1>2. IsWellFoundedOn(R, Nat)
  BY <1>1, NatLessThanWellFounded
<1>3. PICK x \in T : \A y \in T : ~(<<y, x>> \in R)
  BY <1>2, WFMin
<1>4. \A y \in T : ~(y < x)
  <2> SUFFICES ASSUME NEW y \in T, y < x PROVE FALSE
    OBVIOUS
  <2>1. R = {ss \in Nat \X Nat : ss[1] < ss[2]}
    BY <1>1 DEF OpToRel
  <2>2. <<y, x>> \in Nat \X Nat /\ <<y, x>>[1] = y /\ <<y, x>>[2] = x
    OBVIOUS
  <2> QED BY <1>3, <2>1, <2>2
<1> QED BY <1>4, SMT

\* Attach_Translator keeps the order of the translators that are there and the new list sorted.
LEMMA AttachKeepsTranslators ==
  ASSUME StreamTypeOK, TranslatorsKept, NEW p \in Priorities, AttachTranslator(p)
  PROVE  /\ translators' \in Seq(Data) /\ TranslatorsKept'
         /\ Within(translators, translators') /\ Entries(Order') = Entries(Order) \cup {nextId}
         /\ nextId \notin Entries(Order)
<1>1. PICK l : l = translators
  OBVIOUS
<1>2. PICK d : d = [id |-> nextId, priority |-> p]
  OBVIOUS
<1>3. /\ l \in Seq(Data) /\ nextId \in Nat /\ p \in Nat /\ d \in Data /\ d.id = nextId /\ d.priority = p
      /\ Len(l) \in Nat
  <2>1. p \in Nat /\ nextId \in Nat /\ l \in Seq(Data)
    BY <1>1, StreamAssumption DEF StreamTypeOK
  <2>2. d \in Data /\ d.id = nextId /\ d.priority = p
    BY <1>2, <2>1 DEF Data
  <2> QED BY <2>1, <2>2, LenProperties
<1>4. /\ Distinct(IdsOf(l)) /\ Sorted(l)
      /\ \A i \in 1..Len(l) : 0 < l[i].id /\ l[i].id < d.id
  BY <1>1, <1>3 DEF TranslatorsKept, Order, TranslatorsSorted, Sorted
<1>5. Distinct(l) /\ \A e, g \in Entries(l) : e.id = g.id => e = g
  BY <1>3, <1>4, IdsDistinct
<1>6. \A e \in Entries(l) : 0 < e.id /\ e.id < d.id /\ e.id # d.id
  <2> SUFFICES ASSUME NEW e \in Entries(l) PROVE 0 < e.id /\ e.id < d.id /\ e.id # d.id
    OBVIOUS
  <2>1. PICK i \in 1..Len(l) : e = l[i]
    BY DEF Entries
  <2>2. l[i].id \in Nat
    BY <1>3, DataIs
  <2> QED BY <1>3, <1>4, <2>1, <2>2
<1>7. \A i \in 1..Len(l) : l[i] \in Data /\ l[i].id \in Nat /\ l[i].priority \in Nat
  BY <1>3, DataIs
<1>8. PICK r : r = translators'
  OBVIOUS
<1>9. /\ r \in Seq(Data) /\ Within(l, r) /\ Entries(r) = Entries(l) \cup {d} /\ Distinct(r) /\ Sorted(r)
  <2>1. CASE Greater(p) = {}
    <3>1. r = Append(l, d)
      BY <1>1, <1>2, <1>8, <2>1 DEF AttachTranslator
    <3>2. r \in Seq(Data) /\ Within(l, r) /\ Entries(r) = Entries(l) \cup {d} /\ Distinct(r)
      <4>1. d \notin Entries(l)
        BY <1>6
      <4>2. r = Appended(l, d)
        BY <3>1 DEF Appended
      <4> QED BY <1>3, <1>5, <4>1, <4>2, AppendKeeps
    <3>3. \A i \in 1..Len(l) : l[i].priority <= d.priority
      <4> SUFFICES ASSUME NEW i \in 1..Len(l), l[i].priority > d.priority PROVE FALSE
        BY <1>3, <1>7
      <4> QED BY <1>1, <1>3, <2>1 DEF Greater
    <3>4. PICK k \in 1..(Len(l) + 1) : k = Len(l) + 1
      BY <1>3
    <3>5. /\ \A i \in 1..Len(l) : i < k => l[i].priority <= d.priority
          /\ \A i \in 1..Len(l) : i >= k => l[i].priority > d.priority
      BY <1>3, <3>3, <3>4
    <3>6. /\ Len(r) = Len(l) + 1
          /\ \A i \in 1..Len(r) : r[i] = IF i < k THEN l[i] ELSE IF i = k THEN d ELSE l[i - 1]
      BY <1>3, <3>1, <3>4
    <3>7. Sorted(r)
      BY <1>3, <1>4, <3>5, <3>6, AttachedSorted
    <3> QED BY <3>2, <3>7
  <2>2. CASE Greater(p) # {}
    <3>1. PICK k : k = CHOOSE i \in Greater(p) : \A j \in Greater(p) : i <= j
      OBVIOUS
    <3>2. Greater(p) \subseteq 1..Len(l) /\ Greater(p) \subseteq Nat
      BY <1>1, <1>3 DEF Greater
    <3>3. k \in Greater(p) /\ \A j \in Greater(p) : k <= j
      BY <2>2, <3>1, <3>2, LeastPlace
    <3>4. k \in 1..Len(l) /\ l[k].priority > p
      BY <1>1, <3>3 DEF Greater
    <3>5. k \in 1..(Len(l) + 1)
      BY <1>3, <3>4
    <3>6. r = InsertAt(l, k, d)
      BY <1>1, <1>2, <1>8, <2>2, <3>1 DEF AttachTranslator
    <3>7. r \in Seq(Data) /\ Within(l, r) /\ Entries(r) = Entries(l) \cup {d} /\ Distinct(r)
      BY <1>3, <1>5, <1>6, <3>5, <3>6, InsertKeeps
    <3>8. \A i \in 1..Len(l) : i < k => l[i].priority <= d.priority
      <4> SUFFICES ASSUME NEW i \in 1..Len(l), i < k, l[i].priority > d.priority PROVE FALSE
        BY <1>3, <1>7
      <4>1. i \in Greater(p)
        BY <1>1, <1>3 DEF Greater
      <4> QED BY <1>3, <3>3, <3>4, <4>1
    <3>9. \A i \in 1..Len(l) : i >= k => l[i].priority > d.priority
      <4> SUFFICES ASSUME NEW i \in 1..Len(l), i >= k PROVE l[i].priority > d.priority
        OBVIOUS
      <4>1. CASE i = k
        BY <1>3, <3>4, <4>1
      <4>2. CASE i # k
        <5>1. Precedes(l[k], l[i])
          BY <1>3, <1>4, <3>4, <4>2 DEF Sorted
        <5>2. l[k].priority <= l[i].priority
          BY <1>7, <3>4, <5>1 DEF Precedes
        <5> QED BY <1>3, <1>7, <3>4, <5>2
      <4> QED BY <4>1, <4>2
    <3>10. /\ Len(r) = Len(l) + 1
           /\ \A i \in 1..Len(r) : r[i] = IF i < k THEN l[i] ELSE IF i = k THEN d ELSE l[i - 1]
      <4>1. l \in Seq(Data) /\ d \in Data
        BY <1>3
      <4>2. /\ r \in Seq(Data) /\ Len(r) = Len(l) + 1
            /\ \A i \in 1..Len(r) : r[i] = IF i < k THEN l[i] ELSE IF i = k THEN d ELSE l[i - 1]
        BY <3>5, <3>6, <4>1, InsertIs, SMTT(60)
      <4> QED BY <4>2
    <3>11. Sorted(r)
      BY <1>3, <1>4, <3>5, <3>8, <3>9, <3>10, AttachedSorted
    <3> QED BY <3>7, <3>11
  <2> QED BY <2>1, <2>2
<1>10. Distinct(IdsOf(r))
  <2>1. \A e, g \in Entries(r) : e.id = g.id => e = g
    BY <1>5, <1>6, <1>9
  <2> QED BY <1>9, <2>1, IdsDistinct
<1>11. Entries(IdsOf(r)) = Entries(IdsOf(l)) \cup {nextId} /\ nextId \notin Entries(IdsOf(l))
  <2>1. Entries(IdsOf(r)) = {e.id : e \in Entries(r)} /\ Entries(IdsOf(l)) = {e.id : e \in Entries(l)}
    BY <1>3, <1>9, IdsOfList
  <2> QED BY <1>3, <1>6, <1>9, <2>1
<1>12. nextId' = nextId + 1
  BY DEF AttachTranslator
<1>13. \A i \in 1..Len(r) : 0 < r[i].id /\ r[i].id < nextId'
  <2> SUFFICES ASSUME NEW i \in 1..Len(r) PROVE 0 < r[i].id /\ r[i].id < nextId'
    OBVIOUS
  <2>1. r[i] \in Entries(l) \cup {d} /\ r[i].id \in Nat
    BY <1>9, DataIs DEF Entries
  <2>2. CASE r[i] \in Entries(l)
    BY <1>3, <1>6, <1>12, <2>1, <2>2
  <2>3. CASE r[i] = d
    <3>1. 0 < nextId
      BY DEF StreamTypeOK
    <3> QED BY <1>3, <1>12, <2>3, <3>1
  <2> QED BY <2>1, <2>2, <2>3
<1>14. TranslatorsKept'
  BY <1>8, <1>9, <1>10, <1>13 DEF TranslatorsKept, Order, TranslatorsSorted, Sorted
<1> QED BY <1>1, <1>8, <1>9, <1>11, <1>14 DEF Order

-----------------------------------------------------------------------------
(* The loops, when the lists change under them and when they go on.          *)

\* A translator is attached or removed, other than the one that is called.
LEMMA OrderChanges ==
  ASSUME NEW o \in Seq(Nat), NEW p \in Seq(Nat), Distinct(o), Distinct(p), Within(o, p) \/ Within(p, o),
         NEW q, NEW c, NEW d, NEW off, NEW st, LoopAt(o, q, c, d, off, st),
         d # 0 => d \in Entries(p),
         NEW su, su.messages = st.messages, su.translators \subseteq st.translators,
         su.translators \subseteq Entries(p),
         \A m \in Entries(q) : Entries(off[m]) \cap Entries(p) \subseteq Entries(o)
  PROVE  LoopAt(p, q, c, d, off, su)
<1>1. /\ d # 0 => d \in Entries(o)
      /\ c \in Entries(q) \cup {None}
      /\ st.messages \subseteq Entries(q) /\ st.translators \subseteq Entries(o)
      /\ \A t \in st.translators, m \in st.messages : Done(o, q, c, d, t, m) => t \in Entries(off[m])
      /\ \A m \in Entries(q) : \A t \in Entries(off[m]) \cap Entries(o) : Done(o, q, c, d, t, m)
  BY DEF LoopAt
<1>2. \A x, y \in Entries(o) \cap Entries(p) : Ahead(o, x, y) <=> Ahead(p, x, y)
  BY WithinKeeps
<1>3. \A m : \A t \in Entries(o) \cap Entries(p) : Done(o, q, c, d, t, m) <=> Done(p, q, c, d, t, m)
  <2> SUFFICES ASSUME NEW t \in Entries(o) \cap Entries(p), NEW m
               PROVE  Done(o, q, c, d, t, m) <=> Done(p, q, c, d, t, m)
    OBVIOUS
  <2>1. CASE d = 0
    BY <2>1 DEF Done
  <2>2. CASE d # 0
    <3>1. Ahead(o, t, d) <=> Ahead(p, t, d)
      BY <1>1, <1>2, <2>2
    <3> QED BY <3>1 DEF Done
  <2> QED BY <2>1, <2>2
<1>4. ASSUME NEW t \in su.translators, NEW m \in su.messages, Done(p, q, c, d, t, m)
      PROVE  t \in Entries(off[m])
  BY <1>1, <1>3, <1>4
<1>5. ASSUME NEW m \in Entries(q), NEW t \in Entries(off[m]) \cap Entries(p)
      PROVE  Done(p, q, c, d, t, m)
  BY <1>1, <1>3, <1>5
<1> QED BY <1>1, <1>4, <1>5 DEF LoopAt

\* A new message m is put into the list.
LEMMA ListGrows ==
  ASSUME NEW S, NEW q \in Seq(S), NEW r \in Seq(S), Distinct(r), Within(q, r), NEW m,
         Entries(r) = Entries(q) \cup {m}, m \notin Entries(q),
         NEW o, NEW c, NEW d, NEW off, NEW st, LoopAt(o, q, c, d, off, st),
         NEW of, \A n \in Entries(q) : of[n] = off[n], Entries(of[m]) = {}
  PROVE  LoopAt(o, r, c, d, of, st)
<1>1. /\ d # 0 => d \in Entries(o)
      /\ c \in Entries(q) \cup {None}
      /\ st.messages \subseteq Entries(q) /\ st.translators \subseteq Entries(o)
      /\ \A t \in st.translators, n \in st.messages : Done(o, q, c, d, t, n) => t \in Entries(off[n])
      /\ \A n \in Entries(q) : \A t \in Entries(off[n]) \cap Entries(o) : Done(o, q, c, d, t, n)
  BY DEF LoopAt
<1>2. \A x, y \in Entries(q) : Ahead(q, x, y) <=> Ahead(r, x, y)
  BY WithinKeeps
<1>3. \A t : \A n \in Entries(q) : Done(o, q, c, d, t, n) <=> Done(o, r, c, d, t, n)
  BY <1>1, <1>2 DEF Done
<1> QED BY <1>1, <1>3 DEF LoopAt

\* The message m, which the loop has gone past, is taken out of the list.
LEMMA ListShrinks ==
  ASSUME NEW S, NEW q \in Seq(S), NEW r \in Seq(S), Distinct(q), Within(r, q), NEW m,
         Entries(r) = Entries(q) \ {m},
         NEW o, NEW c, NEW d, NEW off, NEW st, LoopAt(o, q, c, d, off, st), c # m,
         NEW su, su.messages = st.messages \ {m}, su.translators = st.translators
  PROVE  LoopAt(o, r, c, d, off, su)
<1>1. /\ d # 0 => d \in Entries(o)
      /\ c \in Entries(q) \cup {None}
      /\ st.messages \subseteq Entries(q) /\ st.translators \subseteq Entries(o)
      /\ \A t \in st.translators, n \in st.messages : Done(o, q, c, d, t, n) => t \in Entries(off[n])
      /\ \A n \in Entries(q) : \A t \in Entries(off[n]) \cap Entries(o) : Done(o, q, c, d, t, n)
  BY DEF LoopAt
<1>2. \A x, y \in Entries(r) : Ahead(r, x, y) <=> Ahead(q, x, y)
  BY WithinKeeps
<1>3. \A t : \A n \in Entries(r) : Done(o, q, c, d, t, n) <=> Done(o, r, c, d, t, n)
  BY <1>1, <1>2 DEF Done
<1> QED BY <1>1, <1>3 DEF LoopAt

\* What comes after the i-th entry: everything in front of it is the i-th entry or in front of that.
LEMMA FollowingIs ==
  ASSUME NEW S, NEW q \in Seq(S), Distinct(q), NEW i \in 1..Len(q), NEW end, end \notin Entries(q),
         NEW n, n = IF i = Len(q) THEN end ELSE q[i + 1],
         NEW m \in Entries(q)
  PROVE  /\ n \in Entries(q) \cup {end} /\ n # q[i]
         /\ n = end \/ Ahead(q, m, n) <=> m = q[i] \/ Ahead(q, m, q[i])
<1>1. PICK k \in 1..Len(q) : m = q[k]
  BY DEF Entries
<1>2. Len(q) \in Nat /\ q[i] \in Entries(q)
  BY LenProperties DEF Entries
<1>3. m = q[i] \/ Ahead(q, m, q[i]) <=> k <= i
  <2>1. ASSUME m = q[i] PROVE k <= i
    <3>1. k = i
      BY <1>1, <2>1 DEF Distinct
    <3> QED BY <3>1
  <2>2. ASSUME Ahead(q, m, q[i]) PROVE k <= i
    <3>1. PICK a, b \in 1..Len(q) : a < b /\ q[a] = m /\ q[b] = q[i]
      BY <2>2 DEF Ahead
    <3>2. a = k /\ b = i
      BY <1>1, <3>1 DEF Distinct
    <3> QED BY <3>1, <3>2
  <2>3. ASSUME k <= i, k # i PROVE Ahead(q, m, q[i])
    <3>1. k < i
      BY <2>3
    <3> QED BY <1>1, <3>1 DEF Ahead
  <2> QED BY <1>1, <2>1, <2>2, <2>3
<1>4. CASE i = Len(q)
  <2>1. n = end /\ k <= i
    BY <1>2, <1>4
  <2> QED BY <1>2, <1>3, <2>1
<1>5. CASE i # Len(q)
  <2>1. n = q[i + 1] /\ i + 1 \in 1..Len(q) /\ i + 1 # i
    BY <1>2, <1>5
  <2>2. n \in Entries(q) /\ n # q[i] /\ n # end
    BY <2>1 DEF Entries, Distinct
  <2>3. ASSUME Ahead(q, m, n) PROVE k <= i
    <3>1. PICK a, b \in 1..Len(q) : a < b /\ q[a] = m /\ q[b] = n
      BY <2>3 DEF Ahead
    <3>2. a = k /\ b = i + 1
      BY <1>1, <2>1, <3>1 DEF Distinct
    <3> QED BY <3>1, <3>2
  <2>4. ASSUME k <= i PROVE Ahead(q, m, n)
    <3>1. k < i + 1
      BY <2>4
    <3> QED BY <1>1, <2>1, <3>1 DEF Ahead
  <2> QED BY <1>3, <2>2, <2>3, <2>4
<1> QED BY <1>4, <1>5

\* Nothing is in front of the first entry.
LEMMA FirstIs ==
  ASSUME NEW S, NEW q \in Seq(S), Distinct(q), NEW end, end \notin Entries(q),
         NEW n, n = IF q = << >> THEN end ELSE q[1]
  PROVE  n \in Entries(q) \cup {end} /\ \A m \in Entries(q) : n # end /\ ~Ahead(q, m, n)
<1>1. CASE q = << >>
  BY <1>1 DEF Entries
<1>2. CASE q # << >>
  <2>1. n = q[1] /\ 1 \in 1..Len(q)
    BY <1>2, EmptySeq
  <2>2. n \in Entries(q) /\ n # end
    BY <2>1 DEF Entries
  <2>3. ASSUME NEW m, Ahead(q, m, n) PROVE FALSE
    <3>1. PICK a, b \in 1..Len(q) : a < b /\ q[a] = m /\ q[b] = n
      BY <2>3 DEF Ahead
    <3>2. b = 1
      BY <2>1, <3>1 DEF Distinct
    <3> QED BY <3>1, <3>2
  <2> QED BY <2>2, <2>3
<1> QED BY <1>1, <1>2

\* The message c is offered to translator d, and the loop goes on to the message e.
LEMMA LoopOffers ==
  ASSUME NEW q, NEW o, NEW c \in Entries(q), ~Ahead(q, c, c), c # None, NEW d, d # 0, NEW off, NEW st, LoopAt(o, q, c, d, off, st),
         NEW e \in Entries(q) \cup {None},
         \A m \in Entries(q) : e = None \/ Ahead(q, m, e) <=> m = c \/ Ahead(q, m, c),
         NEW of, Entries(of[c]) = Entries(off[c]) \cup {d},
         \A m \in Entries(q) \ {c} : Entries(of[m]) = Entries(off[m])
  PROVE  /\ LoopAt(o, q, e, d, of, st)
         /\ \A t \in Entries(off[c]) \cap Entries(o) : Ahead(o, t, d)
<1>1. /\ d \in Entries(o)
      /\ st.messages \subseteq Entries(q) /\ st.translators \subseteq Entries(o)
      /\ \A t \in st.translators, n \in st.messages : Done(o, q, c, d, t, n) => t \in Entries(off[n])
      /\ \A n \in Entries(q) : \A t \in Entries(off[n]) \cap Entries(o) : Done(o, q, c, d, t, n)
  BY DEF LoopAt
<1>2. \A t : \A m \in Entries(q) :
        /\ Done(o, q, c, d, t, m) <=> Ahead(o, t, d) \/ (t = d /\ Ahead(q, m, c))
        /\ Done(o, q, e, d, t, m) <=> Ahead(o, t, d) \/ (t = d /\ (m = c \/ Ahead(q, m, c)))
  BY DEF Done
<1>3. \A t \in Entries(off[c]) \cap Entries(o) : Ahead(o, t, d)
  BY <1>1, <1>2
<1>4. ASSUME NEW t \in st.translators, NEW m \in st.messages, Done(o, q, e, d, t, m)
      PROVE  t \in Entries(of[m])
  <2>1. m \in Entries(q)
    BY <1>1
  <2>2. CASE m = c /\ t = d
    BY <2>1, <2>2
  <2>3. CASE ~(m = c /\ t = d)
    <3>1. Done(o, q, c, d, t, m)
      BY <1>2, <1>4, <2>1, <2>3
    <3> QED BY <1>1, <2>1, <3>1
  <2> QED BY <2>2, <2>3
<1>5. ASSUME NEW m \in Entries(q), NEW t \in Entries(of[m]) \cap Entries(o)
      PROVE  Done(o, q, e, d, t, m)
  <2>1. CASE t \in Entries(off[m])
    BY <1>1, <1>2, <2>1
  <2>2. CASE t \notin Entries(off[m])
    <3>1. m = c /\ t = d
      BY <2>2
    <3> QED BY <1>2, <3>1
  <2> QED BY <2>1, <2>2
<1> QED BY <1>1, <1>3, <1>4, <1>5 DEF LoopAt

\* Translator d has been through all messages, and f begins with the first message, e.
LEMMA LoopGoesOn ==
  ASSUME NEW o, NEW q, NEW d, d # 0, NEW off, NEW st, LoopAt(o, q, None, d, off, st),
         NEW f \in Entries(o) \cup {0},
         \A t \in Entries(o) : f = 0 \/ Ahead(o, t, f) <=> t = d \/ Ahead(o, t, d),
         NEW e \in Entries(q) \cup {None}, \A m \in Entries(q) : e # None /\ ~Ahead(q, m, e)
  PROVE  LoopAt(o, q, e, f, off, st)
<1>1. /\ st.messages \subseteq Entries(q) /\ st.translators \subseteq Entries(o)
      /\ \A t \in st.translators, n \in st.messages : Done(o, q, None, d, t, n) => t \in Entries(off[n])
      /\ \A n \in Entries(q) : \A t \in Entries(off[n]) \cap Entries(o) : Done(o, q, None, d, t, n)
  BY DEF LoopAt
<1>2. \A m \in Entries(q), t \in Entries(o) : Done(o, q, None, d, t, m) <=> Done(o, q, e, f, t, m)
  BY DEF Done
<1>3. \A t \in st.translators, n \in st.messages : Done(o, q, e, f, t, n) => t \in Entries(off[n])
  BY <1>1, <1>2
<1>4. \A n \in Entries(q) : \A t \in Entries(off[n]) \cap Entries(o) : Done(o, q, e, f, t, n)
  BY <1>1, <1>2
<1> QED BY <1>1, <1>3, <1>4 DEF LoopAt

\* The loops begin with the first translator and the first message.
LEMMA LoopBegins ==
  ASSUME NEW o, NEW q, NEW off, \A m \in Entries(q) : Entries(off[m]) = {},
         NEW f \in Entries(o) \cup {0}, \A t \in Entries(o) : f # 0 /\ ~Ahead(o, t, f),
         NEW e \in Entries(q) \cup {None}, \A m \in Entries(q) : e # None /\ ~Ahead(q, m, e),
         NEW st, st.messages = Entries(q), st.translators = Entries(o)
  PROVE  LoopAt(o, q, e, f, off, st)
BY DEF LoopAt, Done

-----------------------------------------------------------------------------
(* The invariant holds.                                                      *)

LEMMA InvariantInit == Init => IndInv
<1> SUFFICES ASSUME Init PROVE IndInv
  OBVIOUS
<1>1. StreamTypeOK
  BY DEF Init, StreamTypeOK
<1>2. ListsApart
  BY DEF Init, ListsApart, Distinct, Entries
<1>3. TranslatorsKept
  BY DEF Init, TranslatorsKept, TranslatorsSorted, Order, IdsOf, Distinct
<1>4. OffersOrdered
  BY DEF Init, OffersOrdered, OfferedTo, Distinct
<1>5. LoopKept
  BY DEF Init, LoopKept, Entries
<1> QED BY <1>1, <1>2, <1>3, <1>4, <1>5 DEF IndInv

\* What the invariant says of the ids.
LEMMA OrderIs ==
  ASSUME StreamTypeOK, TranslatorsKept
  PROVE  /\ Order \in Seq(Nat) /\ Len(Order) = Len(translators) /\ Distinct(Order)
         /\ \A i \in 1..Len(translators) : Order[i] = translators[i].id
         /\ Entries(Order) = Ids /\ 0 \notin Entries(Order) /\ \A t \in Entries(Order) : t < nextId
<1>1. translators \in Seq(Data)
  BY DEF StreamTypeOK
<1>2. Order \in Seq(Nat) /\ Len(Order) = Len(translators) /\ \A i \in 1..Len(translators) : Order[i] = translators[i].id
  BY <1>1, IdsOfList DEF Order
<1>3. Distinct(Order)
  BY DEF TranslatorsKept
<1>4. Entries(Order) = Ids
  BY <1>2 DEF Entries, Ids
<1>5. \A t \in Entries(Order) : 0 < t /\ t < nextId
  <2> SUFFICES ASSUME NEW t \in Entries(Order) PROVE 0 < t /\ t < nextId
    OBVIOUS
  <2>1. PICK i \in 1..Len(translators) : t = translators[i].id
    BY <1>2 DEF Entries
  <2> QED BY <2>1 DEF TranslatorsKept
<1> QED BY <1>2, <1>3, <1>4, <1>5

\* The list of offers does not care for a translator that comes or goes.
LEMMA OffersStay ==
  ASSUME NEW o \in Seq(Nat), NEW p \in Seq(Nat), Distinct(o), Distinct(p), Within(o, p) \/ Within(p, o),
         NEW q, NEW n \in Nat, NEW k \in Nat, n <= k, OfferedTo(q, o, n), q \in Seq(Nat),
         Entries(q) \cap Entries(p) \subseteq Entries(o)
  PROVE  OfferedTo(q, p, k)
<1>1. \A i \in 1..Len(q) : q[i] \in Nat /\ q[i] < n /\ q[i] \in Entries(q)
  BY ElementOfSeq DEF OfferedTo, Entries
<1>2. \A i \in 1..Len(q) : q[i] < k
  BY <1>1
<1>3. ASSUME NEW i \in 1..Len(q), NEW j \in 1..Len(q), i < j, q[i] \in Entries(p), q[j] \in Entries(p)
      PROVE  Ahead(p, q[i], q[j])
  <2>1. q[i] \in Entries(o) /\ q[j] \in Entries(o)
    BY <1>1, <1>3
  <2>2. Ahead(o, q[i], q[j])
    BY <1>3, <2>1 DEF OfferedTo
  <2> QED BY <1>3, <2>1, <2>2, WithinKeeps
<1> QED BY <1>2, <1>3 DEF OfferedTo

\* A translator comes or goes: what it has in common for the invariant.
LEMMA TranslatorsChange ==
  ASSUME IndInv, MayCall, UNCHANGED <<listVars, loopVars, offered>>,
         translators' \in Seq(Data), TranslatorsKept',
         Within(Order, Order') \/ Within(Order', Order),
         nextId' \in Nat \ {0}, nextId <= nextId',
         \A t \in Entries(Order') : t < nextId => t \in Entries(Order),
         phase # "idle" => tdata \in Entries(Order'),
         started' \in [messages : SUBSET Messages, translators : SUBSET Nat],
         started'.messages = started.messages, started'.translators \subseteq started.translators,
         started.translators \subseteq Entries(Order) => started'.translators \subseteq Entries(Order')
  PROVE  IndInv'
<1>1. StreamTypeOK'
  BY DEF IndInv, StreamTypeOK, listVars, loopVars
<1>2. ListsApart'
  BY DEF IndInv, ListsApart, listVars
<1>3. /\ Order \in Seq(Nat) /\ Distinct(Order)
      /\ \A t \in Entries(Order) : t < nextId
  BY OrderIs DEF IndInv
<1>4. Order' \in Seq(Nat) /\ Distinct(Order')
  <2>1. Order' \in Seq(Nat)
    BY IdsOfList DEF Order
  <2> QED BY <2>1 DEF TranslatorsKept
<1>5. nextId \in Nat /\ nextId' \in Nat
  BY DEF IndInv, StreamTypeOK
<1>6. ASSUME NEW m \in Messages
      PROVE  /\ offered[m] \in Seq(Nat) /\ OfferedTo(offered[m], Order, nextId)
             /\ Entries(offered[m]) \cap Entries(Order') \subseteq Entries(Order)
  <2>1. offered[m] \in Seq(Nat)
    BY DEF IndInv, StreamTypeOK
  <2>2. OfferedTo(offered[m], Order, nextId)
    BY DEF IndInv, OffersOrdered
  <2>3. \A t \in Entries(offered[m]) : t < nextId
    BY <2>2 DEF OfferedTo, Entries
  <2> QED BY <2>1, <2>2, <2>3
<1>7. offered' = offered /\ stream' = stream /\ phase' = phase /\ tdata' = tdata /\ msg' = msg /\ msgNext' = msgNext
  BY DEF listVars, loopVars
<1>8. OffersOrdered'
  <2>1. ASSUME NEW m \in Messages PROVE OfferedTo(offered[m], Order', nextId')
    BY <1>3, <1>4, <1>5, <1>6, OffersStay
  <2> QED BY <1>7, <2>1 DEF OffersOrdered
<1>9. LoopKept'
  <2>1. phase = "idle" => tdata = 0 /\ \A m \in Entries(stream) : offered[m] = << >>
    BY DEF IndInv, LoopKept
  <2>2. phase = "translating" => tdata # 0 /\ msg \in Entries(stream) /\ msgNext # msg
    BY DEF IndInv, LoopKept
  <2>3. ASSUME phase # "idle" PROVE LoopAt(Order', stream, Cursor, tdata, offered, started')
    <3>1. LoopAt(Order, stream, Cursor, tdata, offered, started)
      BY <2>3 DEF IndInv, LoopKept
    <3>2. started'.translators \subseteq Entries(Order')
      BY <3>1 DEF LoopAt
    <3>3. \A m \in Entries(stream) : m \in Messages
      BY DEF IndInv, StreamTypeOK, Entries
    <3>4. \A m \in Entries(stream) : Entries(offered[m]) \cap Entries(Order') \subseteq Entries(Order)
      BY <1>6, <3>3
    <3>5. tdata \in Entries(Order')
      BY <2>3
    <3> QED BY <1>3, <1>4, <3>1, <3>2, <3>4, <3>5, OrderChanges
  <2>4. Cursor' = Cursor
    BY <1>7 DEF Cursor
  <2>5. phase # "idle" => LoopAt(Order', stream', Cursor', tdata', offered', started')
    BY <1>7, <2>3, <2>4
  <2> QED BY <1>7, <2>1, <2>2, <2>5 DEF LoopKept
<1> QED BY <1>1, <1>2, <1>8, <1>9 DEF IndInv

LEMMA AttachKeeps ==
  ASSUME IndInv, NEW p \in Priorities, AttachTranslator(p)
  PROVE  IndInv'
<1>1. /\ translators' \in Seq(Data) /\ TranslatorsKept' /\ Within(translators, translators')
      /\ Entries(Order') = Entries(Order) \cup {nextId} /\ nextId \notin Entries(Order)
  BY AttachKeepsTranslators DEF IndInv
<1>2. Within(Order, Order')
  <2>1. translators \in Seq(Data)
    BY DEF IndInv, StreamTypeOK
  <2> QED BY <1>1, <2>1, IdsWithin DEF Order
<1>3. /\ MayCall /\ UNCHANGED <<listVars, loopVars, offered>> /\ UNCHANGED started /\ nextId' = nextId + 1
  BY DEF AttachTranslator
<1>4. nextId \in Nat \ {0} /\ started \in [messages : SUBSET Messages, translators : SUBSET Nat]
  BY DEF IndInv, StreamTypeOK
<1>5. nextId' \in Nat \ {0} /\ nextId <= nextId' /\ ~(nextId < nextId)
  BY <1>3, <1>4
<1>6. \A t \in Entries(Order') : t < nextId => t \in Entries(Order)
  BY <1>1, <1>5
<1>7. phase # "idle" => tdata \in Entries(Order')
  <2> SUFFICES ASSUME phase # "idle" PROVE tdata \in Entries(Order)
    BY <1>1
  <2>1. phase = "translating"
    BY <1>3 DEF MayCall
  <2> QED BY <2>1 DEF IndInv, LoopKept, LoopAt
<1>8. /\ started'.messages = started.messages /\ started'.translators \subseteq started.translators
      /\ started.translators \subseteq Entries(Order) => started'.translators \subseteq Entries(Order')
  BY <1>1, <1>3
<1> QED BY <1>1, <1>2, <1>3, <1>4, <1>5, <1>6, <1>7, <1>8, TranslatorsChange

LEMMA DetachKeeps ==
  ASSUME IndInv, NEW id \in Ids, RemoveTranslator(id)
  PROVE  IndInv'
<1>1. PICK i \in 1..Len(translators) : translators[i].id = id /\ translators' = RemoveAt(translators, i)
  BY DEF RemoveTranslator
<1>2. PICK l : l = translators
  OBVIOUS
<1>3. PICK r : r = translators'
  OBVIOUS
<1>4. l \in Seq(Data) /\ r = RemoveAt(l, i) /\ i \in 1..Len(l) /\ l[i].id = id
  BY <1>1, <1>2, <1>3 DEF IndInv, StreamTypeOK
<1>5. /\ Distinct(IdsOf(l)) /\ Sorted(l) /\ \A j \in 1..Len(l) : 0 < l[j].id /\ l[j].id < nextId
  BY <1>2 DEF IndInv, TranslatorsKept, Order, TranslatorsSorted, Sorted
<1>6. Distinct(l) /\ \A e, g \in Entries(l) : e.id = g.id => e = g
  BY <1>4, <1>5, IdsDistinct
<1>7. r \in Seq(Data) /\ Within(r, l) /\ Entries(r) = Entries(l) \ {l[i]}
  BY <1>4, <1>6, RemoveKeeps
<1>8. Within(IdsOf(r), IdsOf(l)) /\ Sorted(r)
  BY <1>4, <1>5, <1>7, IdsWithin, SortedWithin
<1>9. /\ IdsOf(r) \in Seq(Nat) /\ IdsOf(l) \in Seq(Nat)
      /\ Entries(IdsOf(r)) = {e.id : e \in Entries(r)} /\ Entries(IdsOf(l)) = {e.id : e \in Entries(l)}
  BY <1>4, <1>7, IdsOfList
<1>10. Distinct(IdsOf(r))
  BY <1>5, <1>8, <1>9, WithinKeeps
<1>11. Entries(IdsOf(r)) = Entries(IdsOf(l)) \ {id}
  <2>1. l[i] \in Entries(l)
    BY <1>4 DEF Entries
  <2> QED BY <1>4, <1>6, <1>7, <1>9, <2>1
<1>12. /\ MayCall /\ UNCHANGED <<listVars, loopVars, offered>> /\ nextId' = nextId
       /\ phase = "translating" => id # tdata
       /\ started' = [started EXCEPT !.translators = @ \ {id}]
  BY DEF RemoveTranslator
<1>13. nextId \in Nat \ {0} /\ started \in [messages : SUBSET Messages, translators : SUBSET Nat]
  BY DEF IndInv, StreamTypeOK
<1>14. \A j \in 1..Len(r) : 0 < r[j].id /\ r[j].id < nextId
  <2> SUFFICES ASSUME NEW j \in 1..Len(r) PROVE 0 < r[j].id /\ r[j].id < nextId
    OBVIOUS
  <2>1. r[j] \in Entries(l)
    BY <1>7 DEF Entries
  <2>2. PICK k \in 1..Len(l) : r[j] = l[k]
    BY <2>1 DEF Entries
  <2> QED BY <1>5, <2>2
<1>15. TranslatorsKept'
  BY <1>3, <1>8, <1>10, <1>12, <1>14 DEF TranslatorsKept, Order, TranslatorsSorted, Sorted
<1>16. Order = IdsOf(l) /\ Order' = IdsOf(r)
  BY <1>2, <1>3 DEF Order
<1>17. phase # "idle" => tdata \in Entries(Order')
  <2> SUFFICES ASSUME phase # "idle" PROVE tdata \in Entries(Order')
    OBVIOUS
  <2>1. phase = "translating"
    BY <1>12 DEF MayCall
  <2>2. tdata \in Entries(Order)
    BY <2>1 DEF IndInv, LoopKept, LoopAt
  <2> QED BY <1>11, <1>12, <1>16, <2>1, <2>2
<1>18. /\ started' \in [messages : SUBSET Messages, translators : SUBSET Nat]
       /\ started'.messages = started.messages /\ started'.translators = started.translators \ {id}
  BY <1>12, <1>13
<1>19. /\ \A t \in Entries(Order') : t < nextId => t \in Entries(Order)
       /\ started.translators \subseteq Entries(Order) => started'.translators \subseteq Entries(Order')
  BY <1>11, <1>16, <1>18
<1>20. nextId' \in Nat \ {0} /\ nextId <= nextId'
  BY <1>12, <1>13
<1> QED BY <1>3, <1>7, <1>8, <1>12, <1>15, <1>16, <1>17, <1>18, <1>19, <1>20, TranslatorsChange

\* A new message comes into the stream.
LEMMA MessageComes ==
  ASSUME IndInv, MayCall, NEW m \in Messages, Fresh(m),
         UNCHANGED <<commands, translators, nextId, loopVars, started>>,
         stream' \in Seq(Messages), Within(stream, stream'), Entries(stream') = Entries(stream) \cup {m},
         Distinct(stream) /\ m \notin Entries(stream) => Distinct(stream')
  PROVE  IndInv'
<1>1. /\ m \notin Entries(stream) /\ m \notin Entries(commands)
      /\ offered' = [offered EXCEPT ![m] = << >>] /\ offered \in [Messages -> Seq(Nat)]
  BY DEF Fresh, Unused, IndInv, StreamTypeOK
<1>2. offered' \in [Messages -> Seq(Nat)] /\ offered'[m] = << >> /\ \A n \in Messages \ {m} : offered'[n] = offered[n]
  BY <1>1, EmptySeq
<1>3. /\ commands' = commands /\ translators' = translators /\ nextId' = nextId /\ phase' = phase /\ tdata' = tdata
      /\ msg' = msg /\ msgNext' = msgNext /\ started' = started
  BY DEF loopVars
<1>4. StreamTypeOK'
  BY <1>2, <1>3 DEF IndInv, StreamTypeOK
<1>5. ListsApart'
  BY <1>1, <1>3 DEF IndInv, ListsApart
<1>6. Order' = Order /\ TranslatorsKept'
  BY <1>3 DEF IndInv, TranslatorsKept, TranslatorsSorted, Order
<1>7. OffersOrdered'
  <2>1. OfferedTo(<< >>, Order, nextId)
    BY DEF OfferedTo, Distinct
  <2>2. \A n \in Messages : OfferedTo(offered'[n], Order, nextId)
    BY <1>2, <2>1 DEF IndInv, OffersOrdered
  <2> QED BY <1>3, <1>6, <2>2 DEF OffersOrdered
<1>8. Entries(stream) \subseteq Messages /\ stream \in Seq(Messages) /\ Distinct(stream')
  BY <1>1 DEF IndInv, StreamTypeOK, ListsApart, Entries
<1>9. \A n \in Entries(stream) : offered'[n] = offered[n]
  BY <1>1, <1>2, <1>8
<1>10. Cursor' = Cursor
  BY <1>3 DEF Cursor
<1>11. ASSUME phase # "idle" PROVE LoopAt(Order, stream', Cursor, tdata, offered', started)
  <2>1. LoopAt(Order, stream, Cursor, tdata, offered, started)
    BY <1>11 DEF IndInv, LoopKept
  <2>2. Entries(offered'[m]) = {}
    BY <1>2 DEF Entries
  <2>3. /\ stream \in Seq(Messages) /\ stream' \in Seq(Messages) /\ Distinct(stream') /\ Within(stream, stream')
        /\ Entries(stream') = Entries(stream) \cup {m} /\ m \notin Entries(stream)
    BY <1>1, <1>8
  <2>4. PICK of : of = offered'
    OBVIOUS
  <2>5. \A n \in Entries(stream) : of[n] = offered[n]
    BY <1>9, <2>4
  <2>6. Entries(of[m]) = {}
    BY <2>2, <2>4
  <2>7. LoopAt(Order, stream', Cursor, tdata, of, started)
    BY <2>1, <2>3, <2>5, <2>6, ListGrows
  <2> QED BY <2>4, <2>7
<1>12. phase = "idle" => tdata = 0 /\ \A n \in Entries(stream') : offered'[n] = << >>
  BY <1>2, <1>9 DEF IndInv, LoopKept
<1>13. phase = "translating" => tdata # 0 /\ msg \in Entries(stream') /\ msgNext # msg
  BY DEF IndInv, LoopKept
<1>14. LoopKept'
  BY <1>3, <1>6, <1>10, <1>11, <1>12, <1>13 DEF LoopKept
<1> QED BY <1>4, <1>5, <1>6, <1>7, <1>14 DEF IndInv

LEMMA AppendMessageIs ==
  ASSUME IndInv, NEW m \in Messages, AppendMessage(m)
  PROVE  /\ MayCall /\ Fresh(m) /\ UNCHANGED <<commands, translators, nextId, loopVars, started>>
         /\ stream' \in Seq(Messages) /\ Within(stream, stream') /\ Entries(stream') = Entries(stream) \cup {m}
         /\ Distinct(stream) /\ m \notin Entries(stream) => Distinct(stream')
<1>1. stream \in Seq(Messages)
  BY DEF IndInv, StreamTypeOK
<1>2. /\ MayCall /\ Fresh(m) /\ UNCHANGED <<commands, translators, nextId, loopVars, started>>
      /\ stream' = Appended(stream, m)
  BY DEF AppendMessage, Appended
<1> QED BY <1>1, <1>2, AppendKeeps

LEMMA InsertMessageIs ==
  ASSUME IndInv, NEW m \in Messages, NEW at \in Entries(stream), InsertMessage(m, at)
  PROVE  /\ MayCall /\ Fresh(m) /\ UNCHANGED <<commands, translators, nextId, loopVars, started>>
         /\ stream' \in Seq(Messages) /\ Within(stream, stream') /\ Entries(stream') = Entries(stream) \cup {m}
         /\ Distinct(stream) /\ m \notin Entries(stream) => Distinct(stream')
<1>1. stream \in Seq(Messages) /\ Distinct(stream) /\ Len(stream) \in Nat
  BY DEF IndInv, StreamTypeOK, ListsApart
<1>2. PICK i \in 1..Len(stream) : at = stream[i]
  BY DEF Entries
<1>3. Place(stream, at) = i
  BY <1>1, <1>2, PlaceIs
<1>4. PICK k \in 1..(Len(stream) + 1) : k = i + 1
  BY <1>1
<1>5. /\ MayCall /\ Fresh(m) /\ UNCHANGED <<commands, translators, nextId, loopVars, started>>
      /\ stream' = InsertAt(stream, k, m)
  BY <1>3, <1>4 DEF InsertMessage
<1> QED BY <1>1, <1>5, InsertKeeps

\* Unlinked takes out the message it is given.
LEMMA UnlinkedIs ==
  ASSUME NEW S, NEW q \in Seq(S), Distinct(q), NEW x \in Entries(q), NEW r, r = Unlinked(q, x)
  PROVE  r \in Seq(S) /\ Within(r, q) /\ Distinct(r) /\ Entries(r) = Entries(q) \ {x}
<1>1. PICK i \in 1..Len(q) : x = q[i]
  BY DEF Entries
<1>2. r = RemoveAt(q, i)
  BY <1>1, PlaceIs DEF Unlinked
<1>3. r \in Seq(S) /\ Within(r, q) /\ Entries(r) = Entries(q) \ {x}
  BY <1>1, <1>2, RemoveKeeps
<1> QED BY <1>3, WithinKeeps

LEMMA KeepKeeps ==
  ASSUME IndInv, KeepMessage
  PROVE  IndInv'
<1>1. /\ phase = "translating" /\ phase' = "next" /\ msg' = msgNext /\ msgNext' = msgNext
      /\ UNCHANGED <<listVars, translators, nextId, tdata, offered, started>>
  BY DEF KeepMessage
<1>2. StreamTypeOK'
  BY <1>1 DEF IndInv, StreamTypeOK, listVars
<1>3. ListsApart'
  BY <1>1 DEF IndInv, ListsApart, listVars
<1>4. Order' = Order /\ TranslatorsKept' /\ OffersOrdered'
  BY <1>1 DEF IndInv, TranslatorsKept, TranslatorsSorted, Order, OffersOrdered
<1>5. LoopAt(Order, stream, Cursor, tdata, offered, started)
  BY <1>1 DEF IndInv, LoopKept
<1>6. Cursor' = Cursor
  BY <1>1 DEF Cursor
<1>7. LoopKept'
  BY <1>1, <1>4, <1>5, <1>6 DEF LoopKept, listVars
<1> QED BY <1>2, <1>3, <1>4, <1>7 DEF IndInv

LEMMA DestroyKeeps ==
  ASSUME IndInv, DestroyMessage
  PROVE  /\ IndInv' /\ Within(stream', stream) /\ commands' = commands
<1>1. /\ phase = "translating" /\ phase' = "next" /\ msg' = msgNext /\ msgNext' = msgNext
      /\ UNCHANGED <<commands, translators, nextId, tdata, offered>>
      /\ stream' = Unlinked(stream, msg)
      /\ started' = [started EXCEPT !.messages = @ \ {msg}]
  BY DEF DestroyMessage
<1>2. /\ stream \in Seq(Messages) /\ Distinct(stream) /\ msg \in Entries(stream) /\ msgNext # msg
      /\ LoopAt(Order, stream, Cursor, tdata, offered, started) /\ Cursor = msgNext
      /\ started \in [messages : SUBSET Messages, translators : SUBSET Nat]
  BY <1>1 DEF IndInv, StreamTypeOK, ListsApart, LoopKept, Cursor
<1>3. stream' \in Seq(Messages) /\ Within(stream', stream) /\ Distinct(stream') /\ Entries(stream') = Entries(stream) \ {msg}
  BY <1>1, <1>2, UnlinkedIs
<1>4. /\ started' \in [messages : SUBSET Messages, translators : SUBSET Nat]
      /\ started'.messages = started.messages \ {msg} /\ started'.translators = started.translators
  BY <1>1, <1>2
<1>5. StreamTypeOK'
  BY <1>1, <1>3, <1>4 DEF IndInv, StreamTypeOK
<1>6. ListsApart'
  BY <1>1, <1>3 DEF IndInv, ListsApart
<1>7. Order' = Order /\ TranslatorsKept' /\ OffersOrdered'
  BY <1>1 DEF IndInv, TranslatorsKept, TranslatorsSorted, Order, OffersOrdered
<1>8. LoopAt(Order, stream', Cursor, tdata, offered, started')
  BY <1>2, <1>3, <1>4, ListShrinks
<1>9. Cursor' = Cursor
  BY <1>1 DEF Cursor
<1>10. LoopKept'
  BY <1>1, <1>7, <1>8, <1>9 DEF LoopKept
<1> QED BY <1>1, <1>3, <1>5, <1>6, <1>7, <1>10 DEF IndInv

\* A message is offered to a translator that follows all it was offered to before.
LEMMA OfferInOrder ==
  ASSUME NEW q \in Seq(Nat), NEW o \in Seq(Nat), Distinct(o), NEW n \in Nat, OfferedTo(q, o, n),
         NEW d \in Entries(o), d \in Nat, d < n, \A t \in Entries(q) \cap Entries(o) : Ahead(o, t, d),
         NEW r, r = Appended(q, d)
  PROVE  OfferedTo(r, o, n)
<1>1. /\ Distinct(q) /\ \A i \in 1..Len(q) : q[i] < n
      /\ \A i, j \in 1..Len(q) : i < j /\ q[i] \in Entries(o) /\ q[j] \in Entries(o) => Ahead(o, q[i], q[j])
  BY DEF OfferedTo
<1>2. d \notin Entries(q)
  <2>1. ~Ahead(o, d, d)
    BY AheadOneWay
  <2> QED BY <2>1
<1>3. Distinct(r)
  BY <1>1, <1>2, AppendKeeps
<1>4. /\ Len(q) \in Nat /\ Len(r) = Len(q) + 1
      /\ \A i \in 1..Len(r) : r[i] = IF i <= Len(q) THEN q[i] ELSE d
  BY DEF Appended
<1>5. \A i \in 1..Len(r) : r[i] < n
  BY <1>1, <1>4
<1>6. ASSUME NEW i \in 1..Len(r), NEW j \in 1..Len(r), i < j, r[i] \in Entries(o), r[j] \in Entries(o)
      PROVE  Ahead(o, r[i], r[j])
  <2>1. i \in 1..Len(q) /\ r[i] = q[i]
    BY <1>4, <1>6
  <2>2. CASE j <= Len(q)
    <3>1. j \in 1..Len(q) /\ r[j] = q[j]
      BY <1>4, <2>2
    <3> QED BY <1>1, <1>6, <2>1, <3>1
  <2>3. CASE j > Len(q)
    <3>1. r[j] = d
      BY <1>4, <2>3
    <3>2. q[i] \in Entries(q)
      BY <2>1 DEF Entries
    <3> QED BY <1>6, <2>1, <3>1, <3>2
  <2> QED BY <1>4, <2>2, <2>3
<1> QED BY <1>3, <1>5, <1>6 DEF OfferedTo

LEMMA OfferKeeps ==
  ASSUME IndInv, OfferMessage
  PROVE  IndInv'
<1>1. /\ phase = "next" /\ tdata # 0 /\ msg # None /\ msgNext' = Next(stream, msg)
      /\ offered' = [offered EXCEPT ![msg] = Append(@, tdata)] /\ phase' = "translating"
      /\ UNCHANGED <<listVars, translators, nextId, tdata, msg, started>>
  BY DEF OfferMessage, Successor
<1>2. /\ stream \in Seq(Messages) /\ Distinct(stream) /\ Cursor = msg /\ offered \in [Messages -> Seq(Nat)]
      /\ LoopAt(Order, stream, msg, tdata, offered, started) /\ tdata \in Nat /\ nextId \in Nat
  BY <1>1 DEF IndInv, StreamTypeOK, ListsApart, LoopKept, Cursor
<1>3. msg \in Entries(stream) /\ tdata \in Entries(Order)
  BY <1>1, <1>2 DEF LoopAt
<1>4. Order \in Seq(Nat) /\ Distinct(Order) /\ \A t \in Entries(Order) : t < nextId
  BY OrderIs DEF IndInv
<1>5. Entries(stream) \subseteq Messages /\ None \notin Entries(stream) /\ msg \in Messages
  <2>1. Entries(stream) \subseteq Messages
    BY <1>2, ElementOfSeq DEF Entries
  <2> QED BY <1>3, <2>1, StreamAssumption
<1>6. PICK e : e = Next(stream, msg)
  OBVIOUS
<1>7. /\ e \in Entries(stream) \cup {None} /\ e # msg
      /\ \A m \in Entries(stream) : e = None \/ Ahead(stream, m, e) <=> m = msg \/ Ahead(stream, m, msg)
  <2>1. PICK i \in 1..Len(stream) : msg = stream[i]
    BY <1>3 DEF Entries
  <2>2. Place(stream, msg) = i
    BY <1>2, <2>1, PlaceIs
  <2>3. msg = stream[Len(stream)] <=> i = Len(stream)
    <3>1. Len(stream) \in 1..Len(stream)
      BY <1>2, <2>1
    <3> QED BY <1>2, <2>1, <3>1 DEF Distinct
  <2>4. e = IF i = Len(stream) THEN None ELSE stream[i + 1]
    BY <1>6, <2>2, <2>3 DEF Next
  <2> QED BY <1>2, <1>3, <1>5, <2>1, <2>4, FollowingIs
<1>8. PICK of : of = offered'
  OBVIOUS
<1>9. /\ of \in [Messages -> Seq(Nat)] /\ of[msg] = Appended(offered[msg], tdata)
      /\ \A m \in Messages \ {msg} : of[m] = offered[m]
  <2>1. Append(offered[msg], tdata) \in Seq(Nat)
    BY <1>2, <1>5
  <2> QED BY <1>1, <1>2, <1>5, <1>8, <2>1 DEF Appended
<1>10. /\ Entries(of[msg]) = Entries(offered[msg]) \cup {tdata}
       /\ \A m \in Entries(stream) \ {msg} : Entries(of[m]) = Entries(offered[m])
  <2>1. PICK q, r, d, S : q = offered[msg] /\ r = of[msg] /\ d = tdata /\ S = Nat
    OBVIOUS
  <2>2. q \in Seq(S) /\ d \in S /\ r = Appended(q, d)
    BY <1>2, <1>5, <1>9, <2>1
  <2>3. Entries(r) = Entries(q) \cup {d}
    BY <2>2, AppendKeeps
  <2> QED BY <1>5, <1>9, <2>1, <2>3
<1>11. /\ LoopAt(Order, stream, e, tdata, of, started)
       /\ \A t \in Entries(offered[msg]) \cap Entries(Order) : Ahead(Order, t, tdata)
  <2>1. PICK c, d, off, st : c = msg /\ d = tdata /\ off = offered /\ st = started
    OBVIOUS
  <2>2. /\ c \in Entries(stream) /\ ~Ahead(stream, c, c) /\ c # None /\ d # 0
        /\ LoopAt(Order, stream, c, d, off, st)
    BY <1>1, <1>2, <1>3, <2>1, AheadOneWay
  <2>3. /\ e \in Entries(stream) \cup {None}
        /\ \A m \in Entries(stream) : e = None \/ Ahead(stream, m, e) <=> m = c \/ Ahead(stream, m, c)
        /\ Entries(of[c]) = Entries(off[c]) \cup {d}
        /\ \A m \in Entries(stream) \ {c} : Entries(of[m]) = Entries(off[m])
    BY <1>7, <1>10, <2>1
  <2>4. LoopAt(Order, stream, e, d, of, st) /\ \A t \in Entries(off[c]) \cap Entries(Order) : Ahead(Order, t, d)
    BY <2>2, <2>3, LoopOffers
  <2> QED BY <2>1, <2>4
<1>12. StreamTypeOK'
  <2>1. msgNext' \in Messages \cup {None}
    BY <1>1, <1>5, <1>6, <1>7
  <2> QED BY <1>1, <1>8, <1>9, <2>1 DEF IndInv, StreamTypeOK, listVars
<1>13. ListsApart'
  BY <1>1 DEF IndInv, ListsApart, listVars
<1>14. Order' = Order /\ TranslatorsKept'
  BY <1>1 DEF IndInv, TranslatorsKept, TranslatorsSorted, Order
<1>15. OffersOrdered'
  <2>1. \A m \in Messages : OfferedTo(offered[m], Order, nextId) /\ offered[m] \in Seq(Nat)
    BY <1>2 DEF IndInv, OffersOrdered
  <2>2. tdata < nextId
    BY <1>3, <1>4
  <2>3. OfferedTo(of[msg], Order, nextId)
    BY <1>2, <1>3, <1>4, <1>5, <1>9, <1>11, <2>1, <2>2, OfferInOrder
  <2>4. \A m \in Messages : OfferedTo(of[m], Order, nextId)
    BY <1>9, <2>1, <2>3
  <2> QED BY <1>1, <1>8, <1>14, <2>4 DEF OffersOrdered
<1>16. Cursor' = e
  BY <1>1, <1>6 DEF Cursor
<1>17. /\ phase' = "translating" /\ tdata' # 0 /\ msg' \in Entries(stream') /\ msgNext' # msg'
       /\ stream' = stream /\ tdata' = tdata /\ started' = started
  BY <1>1, <1>3, <1>6, <1>7 DEF listVars
<1>18. LoopKept'
  BY <1>8, <1>11, <1>14, <1>16, <1>17 DEF LoopKept
<1> QED BY <1>12, <1>13, <1>14, <1>15, <1>18 DEF IndInv

\* First is the first entry, and in front of it there is nothing.
LEMMA FirstMessage ==
  ASSUME IndInv
  PROVE  First(stream) \in Entries(stream) \cup {None}
         /\ \A m \in Entries(stream) : First(stream) # None /\ ~Ahead(stream, m, First(stream))
<1>1. stream \in Seq(Messages) /\ Distinct(stream)
  BY DEF IndInv, StreamTypeOK, ListsApart
<1>2. None \notin Entries(stream)
  <2>1. Entries(stream) \subseteq Messages
    BY <1>1, ElementOfSeq DEF Entries
  <2> QED BY <2>1, StreamAssumption
<1>3. PICK n : n = First(stream)
  OBVIOUS
<1>4. n = IF stream = << >> THEN None ELSE stream[1]
  BY <1>1, <1>3 DEF First
<1>5. n \in Entries(stream) \cup {None} /\ \A m \in Entries(stream) : n # None /\ ~Ahead(stream, m, n)
  BY <1>1, <1>2, <1>4, FirstIs
<1> QED BY <1>3, <1>5

LEMMA NextTranslatorKeeps ==
  ASSUME IndInv, NextTranslator
  PROVE  IndInv'
<1>1. /\ phase = "next" /\ phase' = "next" /\ tdata # 0 /\ msg = None
      /\ tdata' = FollowingId(tdata) /\ msg' = First(stream)
      /\ UNCHANGED <<listVars, translators, nextId, msgNext, offered, started>>
  BY DEF NextTranslator
<1>2. LoopAt(Order, stream, None, tdata, offered, started)
  BY <1>1 DEF IndInv, LoopKept, Cursor
<1>3. /\ Order \in Seq(Nat) /\ Len(Order) = Len(translators) /\ Distinct(Order)
      /\ \A i \in 1..Len(translators) : Order[i] = translators[i].id
      /\ 0 \notin Entries(Order)
  BY OrderIs DEF IndInv
<1>4. PICK f : f = FollowingId(tdata)
  OBVIOUS
<1>5. /\ f \in Entries(Order) \cup {0}
      /\ \A t \in Entries(Order) : f = 0 \/ Ahead(Order, t, f) <=> t = tdata \/ Ahead(Order, t, tdata)
  <2>1. tdata \in Entries(Order)
    BY <1>1, <1>2 DEF LoopAt
  <2>2. PICK i \in 1..Len(Order) : tdata = Order[i]
    BY <2>1 DEF Entries
  <2>3. \A j \in 1..Len(translators) : translators[j].id = tdata <=> j = i
    BY <1>3, <2>2 DEF Distinct
  <2>4. i = CHOOSE j \in 1..Len(translators) : translators[j].id = tdata
    BY <1>3, <2>3
  <2>5. f = IF i = Len(Order) THEN 0 ELSE translators[i + 1].id
    BY <1>3, <1>4, <2>4 DEF FollowingId
  <2>6. i # Len(Order) => translators[i + 1].id = Order[i + 1]
    <3>1. i # Len(Order) => i + 1 \in 1..Len(translators)
      BY <1>3
    <3> QED BY <1>3, <3>1
  <2>7. f = IF i = Len(Order) THEN 0 ELSE Order[i + 1]
    BY <2>5, <2>6
  <2> QED BY <1>3, <2>1, <2>2, <2>7, FollowingIs
<1>6. PICK e : e = First(stream)
  OBVIOUS
<1>7. e \in Entries(stream) \cup {None} /\ \A m \in Entries(stream) : e # None /\ ~Ahead(stream, m, e)
  BY <1>6, FirstMessage
<1>8. LoopAt(Order, stream, e, f, offered, started)
  BY <1>1, <1>2, <1>5, <1>7, LoopGoesOn
<1>9. StreamTypeOK'
  <2>1. Entries(stream) \subseteq Messages
    BY ElementOfSeq DEF IndInv, StreamTypeOK, Entries
  <2>2. msg' \in Messages \cup {None}
    BY <1>1, <1>6, <1>7, <2>1
  <2>3. tdata' \in Nat
    <3>1. Entries(Order) \subseteq Nat
      BY <1>3, ElementOfSeq DEF Entries
    <3> QED BY <1>1, <1>4, <1>5, <3>1
  <2> QED BY <1>1, <2>2, <2>3 DEF IndInv, StreamTypeOK, listVars
<1>10. ListsApart'
  BY <1>1 DEF IndInv, ListsApart, listVars
<1>11. Order' = Order /\ TranslatorsKept' /\ OffersOrdered'
  BY <1>1 DEF IndInv, TranslatorsKept, TranslatorsSorted, Order, OffersOrdered
<1>12. Cursor' = e /\ tdata' = f
  BY <1>1, <1>4, <1>6 DEF Cursor
<1>13. LoopKept'
  BY <1>1, <1>8, <1>11, <1>12 DEF LoopKept, listVars
<1> QED BY <1>9, <1>10, <1>11, <1>13 DEF IndInv

LEMMA BeginKeeps ==
  ASSUME IndInv, BeginPropagate
  PROVE  IndInv'
<1>1. /\ phase = "idle" /\ phase' = "next" /\ msg' = First(stream)
      /\ tdata' = IF translators = << >> THEN 0 ELSE translators[1].id
      /\ started' = [messages |-> Entries(stream), translators |-> Ids]
      /\ UNCHANGED <<listVars, translators, nextId, msgNext, offered>>
  BY DEF BeginPropagate
<1>2. /\ Order \in Seq(Nat) /\ Len(Order) = Len(translators) /\ Distinct(Order)
      /\ \A i \in 1..Len(translators) : Order[i] = translators[i].id
      /\ 0 \notin Entries(Order) /\ Entries(Order) = Ids
  BY OrderIs DEF IndInv
<1>3. PICK f : f = tdata'
  OBVIOUS
<1>4. f \in Entries(Order) \cup {0} /\ \A t \in Entries(Order) : f # 0 /\ ~Ahead(Order, t, f)
  <2>1. translators \in Seq(Data)
    BY DEF IndInv, StreamTypeOK
  <2>2. Order = << >> <=> translators = << >>
    BY <1>2, <2>1, EmptySeq
  <2>3. f = IF Order = << >> THEN 0 ELSE Order[1]
    <3>1. CASE translators = << >>
      BY <1>1, <1>3, <2>2, <3>1
    <3>2. CASE translators # << >>
      <4>1. 1 \in 1..Len(translators)
        BY <2>1, <3>2, EmptySeq
      <4> QED BY <1>1, <1>2, <1>3, <2>2, <3>2, <4>1
    <3> QED BY <3>1, <3>2
  <2> QED BY <1>2, <2>3, FirstIs
<1>5. PICK e : e = First(stream)
  OBVIOUS
<1>6. e \in Entries(stream) \cup {None} /\ \A m \in Entries(stream) : e # None /\ ~Ahead(stream, m, e)
  BY <1>5, FirstMessage
<1>7. \A m \in Entries(stream) : Entries(offered[m]) = {}
  BY <1>1 DEF IndInv, LoopKept, Entries
<1>8. started'.messages = Entries(stream) /\ started'.translators = Entries(Order)
  BY <1>1, <1>2
<1>9. LoopAt(Order, stream, e, f, offered, started')
  BY <1>4, <1>6, <1>7, <1>8, LoopBegins
<1>10. StreamTypeOK'
  <2>1. Entries(stream) \subseteq Messages
    BY ElementOfSeq DEF IndInv, StreamTypeOK, Entries
  <2>2. msg' \in Messages \cup {None}
    BY <1>1, <1>5, <1>6, <2>1
  <2>3. Entries(Order) \subseteq Nat
    BY <1>2, ElementOfSeq DEF Entries
  <2>4. tdata' \in Nat
    BY <1>3, <1>4, <2>3
  <2>5. started' \in [messages : SUBSET Messages, translators : SUBSET Nat]
    BY <1>1, <1>2, <2>1, <2>3
  <2> QED BY <1>1, <2>2, <2>4, <2>5 DEF IndInv, StreamTypeOK, listVars
<1>11. ListsApart'
  BY <1>1 DEF IndInv, ListsApart, listVars
<1>12. Order' = Order /\ TranslatorsKept' /\ OffersOrdered'
  BY <1>1 DEF IndInv, TranslatorsKept, TranslatorsSorted, Order, OffersOrdered
<1>13. Cursor' = e
  BY <1>1, <1>5 DEF Cursor
<1>14. LoopKept'
  BY <1>1, <1>3, <1>9, <1>12, <1>13 DEF LoopKept, listVars
<1> QED BY <1>10, <1>11, <1>12, <1>14 DEF IndInv

LEMMA EndKeeps ==
  ASSUME IndInv, EndPropagate
  PROVE  IndInv'
<1>1. /\ phase = "next" /\ tdata = 0 /\ commands' = commands \o stream /\ stream' = << >>
      /\ phase' = "idle" /\ msg' = None /\ msgNext' = None
      /\ UNCHANGED <<translators, nextId, tdata, offered, started>>
  BY DEF EndPropagate, HandedOver
<1>2. /\ stream \in Seq(Messages) /\ commands \in Seq(Messages)
      /\ Distinct(stream) /\ Distinct(commands) /\ Entries(commands) \cap Entries(stream) = {}
  BY DEF IndInv, StreamTypeOK, ListsApart
<1>3. commands' \in Seq(Messages) /\ Distinct(commands')
  BY <1>1, <1>2, ConcatKeeps DEF Joined
<1>4. Distinct(<< >>) /\ Entries(<< >>) = {} /\ << >> \in Seq(Messages)
  BY EmptySeq DEF Distinct, Entries
<1>5. StreamTypeOK'
  BY <1>1, <1>3, <1>4 DEF IndInv, StreamTypeOK
<1>6. ListsApart'
  BY <1>1, <1>3, <1>4 DEF ListsApart
<1>7. Order' = Order /\ TranslatorsKept' /\ OffersOrdered'
  BY <1>1 DEF IndInv, TranslatorsKept, TranslatorsSorted, Order, OffersOrdered
<1>8. LoopKept'
  BY <1>1, <1>4 DEF LoopKept
<1> QED BY <1>5, <1>6, <1>7, <1>8 DEF IndInv

LEMMA ResetKeeps ==
  ASSUME IndInv, ResetCommands
  PROVE  IndInv'
<1>1. /\ phase = "idle" /\ commands' = << >>
      /\ UNCHANGED <<stream, translators, nextId, loopVars, offered, started>>
  BY DEF ResetCommands
<1>2. Distinct(<< >>) /\ Entries(<< >>) = {} /\ << >> \in Seq(Messages)
  BY EmptySeq DEF Distinct, Entries
<1>3. StreamTypeOK'
  BY <1>1, <1>2 DEF IndInv, StreamTypeOK, loopVars
<1>4. ListsApart'
  BY <1>1, <1>2 DEF IndInv, ListsApart
<1>5. Order' = Order /\ TranslatorsKept' /\ OffersOrdered' /\ Cursor' = Cursor
  BY <1>1 DEF IndInv, TranslatorsKept, TranslatorsSorted, Order, OffersOrdered, Cursor, loopVars
<1>6. LoopKept'
  BY <1>1, <1>5 DEF IndInv, LoopKept, loopVars
<1> QED BY <1>3, <1>4, <1>5, <1>6 DEF IndInv

LEMMA InvariantStep == IndInv /\ [Step]_vars => IndInv'
<1> SUFFICES ASSUME IndInv, [Step]_vars PROVE IndInv'
  OBVIOUS
<1>1. ASSUME NEW m \in Messages, AppendMessage(m) PROVE IndInv'
  BY <1>1, AppendMessageIs, MessageComes
<1>2. ASSUME NEW m \in Messages, NEW at \in Entries(stream), InsertMessage(m, at) PROVE IndInv'
  BY <1>2, InsertMessageIs, MessageComes
<1>3. ASSUME NEW p \in Priorities, AttachTranslator(p) PROVE IndInv'
  BY <1>3, AttachKeeps
<1>4. ASSUME NEW id \in Ids, RemoveTranslator(id) PROVE IndInv'
  BY <1>4, DetachKeeps
<1>5. CASE BeginPropagate
  BY <1>5, BeginKeeps
<1>6. CASE OfferMessage
  BY <1>6, OfferKeeps
<1>7. CASE KeepMessage
  BY <1>7, KeepKeeps
<1>8. CASE DestroyMessage
  BY <1>8, DestroyKeeps
<1>9. CASE NextTranslator
  BY <1>9, NextTranslatorKeeps
<1>10. CASE EndPropagate
  BY <1>10, EndKeeps
<1>11. CASE ResetCommands
  BY <1>11, ResetKeeps
<1>12. CASE UNCHANGED vars
  <2>1. UNCHANGED <<stream, commands, translators, nextId, phase, tdata, msg, msgNext, offered, started>>
    BY <1>12 DEF vars, listVars, loopVars
  <2>2. Order' = Order /\ Cursor' = Cursor
    BY <2>1 DEF Order, Cursor
  <2> QED BY <2>1, <2>2 DEF IndInv, StreamTypeOK, ListsApart, TranslatorsKept, TranslatorsSorted, OffersOrdered, LoopKept
<1> QED BY <1>1, <1>2, <1>3, <1>4, <1>5, <1>6, <1>7, <1>8, <1>9, <1>10, <1>11, <1>12 DEF Step

\* The lists have the types of the code's, no message is in them twice, the translators are sorted under ids
\* of their own, and the two nested loops stand where the offers made so far say.
THEOREM StreamInvariant == Spec => []IndInv
BY InvariantInit, InvariantStep, PTL DEF Spec

-----------------------------------------------------------------------------
(* What follows from it.                                                     *)

\* Attach_Translator keeps the translators in the order of their priorities, and Propagate_Messages offers no
\* message to a translator twice, or to one before it has been offered to those in front of it, whatever the
\* translators add, remove and insert meanwhile.
THEOREM TranslatorsInOrder == Spec => []OfferedInOrder
<1>1. IndInv => OfferedInOrder
  <2> SUFFICES ASSUME IndInv PROVE OfferedInOrder
    OBVIOUS
  <2>1. TranslatorsSorted
    BY DEF IndInv, TranslatorsKept
  <2>2. /\ Len(Order) = Len(translators) /\ Entries(Order) = Ids
        /\ \A i \in 1..Len(translators) : Order[i] = translators[i].id
    BY OrderIs DEF IndInv
  <2>3. ASSUME NEW m \in Messages, NEW i \in 1..Len(offered[m]), NEW j \in 1..Len(offered[m]), i < j
        PROVE  /\ offered[m][i] # offered[m][j]
               /\ {offered[m][i], offered[m][j]} \subseteq Ids =>
                    \E s, t \in 1..Len(translators) :
                      s < t /\ translators[s].id = offered[m][i] /\ translators[t].id = offered[m][j]
    <3>1. OfferedTo(offered[m], Order, nextId)
      BY DEF IndInv, OffersOrdered
    <3>2. offered[m][i] # offered[m][j]
      BY <2>3, <3>1 DEF OfferedTo, Distinct
    <3>3. ASSUME {offered[m][i], offered[m][j]} \subseteq Ids
          PROVE  \E s, t \in 1..Len(translators) :
                   s < t /\ translators[s].id = offered[m][i] /\ translators[t].id = offered[m][j]
      <4>1. Ahead(Order, offered[m][i], offered[m][j])
        BY <2>2, <2>3, <3>1, <3>3 DEF OfferedTo
      <4> QED BY <2>2, <4>1 DEF Ahead
    <3> QED BY <3>2, <3>3
  <2> QED BY <2>1, <2>3 DEF OfferedInOrder
<1> QED BY <1>1, StreamInvariant, PTL

\* What reaches the command list at the end of Propagate_Messages was offered to every translator that was
\* there all the time, and nothing that was in the stream at its beginning and was not destroyed is lost.
THEOREM NoneIsPassedOver == Spec => PassedOnWereOffered
<1> DEFINE Handed ==
      phase = "next" /\ phase' = "idle" =>
        /\ started.messages \subseteq Entries(commands')
        /\ \A m \in started.messages : started.translators \subseteq Entries(offered[m])
<1>1. IndInv /\ [Step]_vars => [Handed]_vars
  <2> SUFFICES ASSUME IndInv, [Step]_vars, phase = "next", phase' = "idle"
               PROVE  /\ started.messages \subseteq Entries(commands')
                      /\ \A m \in started.messages : started.translators \subseteq Entries(offered[m])
    OBVIOUS
  <2>1. EndPropagate
    BY DEF Step, AppendMessage, InsertMessage, AttachTranslator, RemoveTranslator, MayCall, BeginPropagate,
           OfferMessage, KeepMessage, DestroyMessage, NextTranslator, ResetCommands, vars, loopVars
  <2>2. tdata = 0 /\ commands' = commands \o stream
    BY <2>1 DEF EndPropagate, HandedOver
  <2>3. LoopAt(Order, stream, Cursor, tdata, offered, started)
    BY DEF IndInv, LoopKept
  <2>4. Entries(commands') = Entries(commands) \cup Entries(stream)
    <3>1. PICK b, c, q : b = commands' /\ c = commands /\ q = stream
      OBVIOUS
    <3>2. c \in Seq(Messages) /\ q \in Seq(Messages) /\ b = Joined(c, q)
      BY <2>2, <3>1 DEF IndInv, StreamTypeOK, Joined
    <3>3. Entries(b) = Entries(c) \cup Entries(q)
      BY <3>2, ConcatKeeps
    <3> QED BY <3>1, <3>3
  <2> QED BY <2>2, <2>3, <2>4 DEF LoopAt, Done
<1>2. Spec => [][Handed]_vars
  BY <1>1, StreamInvariant, PTL DEF Spec
<1> QED BY <1>2 DEF PassedOnWereOffered

-----------------------------------------------------------------------------
(* The ring of the statistics slots.                                         *)

Period == [sent : Nat, accepted : Nat, refused : Nat]

\* The slot that was opened some periods before s.
Back(s, age) == IF age <= s THEN s - age ELSE s - age + StatsCount

\* A remainder of a number that is off by one turn at most.
LEMMA SmallMod ==
  ASSUME NEW n \in Nat \ {0}, NEW x \in Int, x >= 0 - n, x < n
  PROVE  x % n = IF x >= 0 THEN x ELSE x + n
OBVIOUS

LEMMA BackIs ==
  ASSUME NEW s \in Periods, NEW age \in Periods
  PROVE  (s - age) % StatsCount = Back(s, age) /\ Back(s, age) \in Periods
<1>1. /\ StatsCount \in Nat \ {0} /\ s \in Nat /\ age \in Nat /\ s < StatsCount /\ age < StatsCount
  BY TransportAssumption DEF Periods
<1>2. s - age \in Int /\ s - age >= 0 - StatsCount /\ s - age < StatsCount
  BY <1>1
<1>3. (s - age) % StatsCount = IF s - age >= 0 THEN s - age ELSE s - age + StatsCount
  BY <1>1, <1>2, SmallMod
<1> QED BY <1>1, <1>3 DEF Back, Periods

\* The slot that comes next, and what lies behind it.
LEMMA NextSlot ==
  ASSUME NEW s \in Periods, NEW t, t = (s + 1) % StatsCount
  PROVE  /\ t \in Periods /\ Back(t, 0) = t
         /\ \A age \in Periods : age # 0 => age - 1 \in Periods /\ Back(t, age) = Back(s, age - 1) /\ Back(t, age) # t
<1>1. StatsCount \in Nat \ {0} /\ s \in Nat /\ s < StatsCount
  BY TransportAssumption DEF Periods
<1>2. t = IF s + 1 = StatsCount THEN 0 ELSE s + 1
  <2>1. CASE s + 1 < StatsCount
    <3>1. s + 1 \in Int /\ s + 1 >= 0 /\ s + 1 >= 0 - StatsCount
      BY <1>1
    <3>2. (s + 1) % StatsCount = s + 1
      BY <1>1, <2>1, <3>1, SmallMod
    <3> QED BY <1>1, <2>1, <3>2
  <2>2. CASE s + 1 = StatsCount
    <3>1. StatsCount % StatsCount = 0
      BY <1>1
    <3> QED BY <2>2, <3>1
  <2> QED BY <1>1, <2>1, <2>2
<1> QED BY <1>1, <1>2 DEF Back, Periods

\* What the slots o, i and u hold of the periods h, when s is the slot that is open.
Shows(o, i, u, s, h) ==
  \A age \in Periods :
    LET of == IF age < Len(h) THEN h[Len(h) - age] ELSE NoneCounted IN
    /\ o[Back(s, age)] = of.sent
    /\ i[Back(s, age)] = of.accepted
    /\ u[Back(s, age)] = of.refused

Counts == [Periods -> Nat]

\* More is counted in the period that is open.
LEMMA CountingShows ==
  ASSUME NEW o \in Counts, NEW i \in Counts, NEW u \in Counts, NEW s \in Periods,
         NEW h \in Seq(Period), Len(h) > 0, NEW r \in Period, Shows(o, i, u, s, h)
  PROVE  Shows([o EXCEPT ![s] = r.sent], [i EXCEPT ![s] = r.accepted], [u EXCEPT ![s] = r.refused],
               s, [h EXCEPT ![Len(h)] = r])
<1> DEFINE h2 == [h EXCEPT ![Len(h)] = r]
<1>1. Len(h2) = Len(h) /\ Len(h) \in Nat /\ h2[Len(h)] = r
  OBVIOUS
<1>2. ASSUME NEW age \in Periods
      PROVE  LET of == IF age < Len(h2) THEN h2[Len(h2) - age] ELSE NoneCounted IN
             /\ [o EXCEPT ![s] = r.sent][Back(s, age)] = of.sent
             /\ [i EXCEPT ![s] = r.accepted][Back(s, age)] = of.accepted
             /\ [u EXCEPT ![s] = r.refused][Back(s, age)] = of.refused
  <2>1. Back(s, age) \in Periods /\ age \in Nat /\ s \in Nat
    <3>1. Back(s, age) \in Periods
      BY BackIs
    <3> QED BY <3>1 DEF Periods
  <2>2. CASE age = 0
    <3>1. Back(s, age) = s
      BY <2>1, <2>2 DEF Back
    <3>2. (IF age < Len(h2) THEN h2[Len(h2) - age] ELSE NoneCounted) = r
      BY <1>1, <2>2
    <3> HIDE DEF h2
    <3> QED BY <3>1, <3>2 DEF Counts
  <2>3. CASE age # 0
    <3>1. Back(s, age) # s
      <4>1. age < StatsCount /\ StatsCount \in Nat
        BY TransportAssumption DEF Periods
      <4> QED BY <2>1, <2>3, <4>1 DEF Back
    <3>2. (IF age < Len(h2) THEN h2[Len(h2) - age] ELSE NoneCounted) = (IF age < Len(h) THEN h[Len(h) - age] ELSE NoneCounted)
      <4>1. age < Len(h) => Len(h) - age \in 1..Len(h) /\ Len(h) - age # Len(h)
        BY <1>1, <2>1, <2>3
      <4> QED BY <1>1, <4>1
    <3> HIDE DEF h2
    <3> QED BY <2>1, <3>1, <3>2 DEF Shows, Counts
  <2> QED BY <2>2, <2>3
<1> QED BY <1>2 DEF Shows

\* Another period is opened, in the slot of the one that is too old.
LEMMA OpeningShows ==
  ASSUME NEW o \in Counts, NEW i \in Counts, NEW u \in Counts, NEW s \in Periods,
         NEW h \in Seq(Period), Len(h) > 0, NEW r \in Period, Shows(o, i, u, s, h),
         NEW t, t = (s + 1) % StatsCount
  PROVE  Shows([o EXCEPT ![t] = r.sent], [i EXCEPT ![t] = r.accepted], [u EXCEPT ![t] = r.refused],
               t, Append(h, r))
<1> DEFINE h2 == Append(h, r)
<1>1. Len(h2) = Len(h) + 1 /\ Len(h) \in Nat /\ h2[Len(h) + 1] = r /\ \A k \in 1..Len(h) : h2[k] = h[k]
  OBVIOUS
<1> HIDE DEF h2
<1>2. ASSUME NEW age \in Periods
      PROVE  LET of == IF age < Len(h2) THEN h2[Len(h2) - age] ELSE NoneCounted IN
             /\ [o EXCEPT ![t] = r.sent][Back(t, age)] = of.sent
             /\ [i EXCEPT ![t] = r.accepted][Back(t, age)] = of.accepted
             /\ [u EXCEPT ![t] = r.refused][Back(t, age)] = of.refused
  <2>1. t \in Periods /\ age \in Nat
    BY NextSlot DEF Periods
  <2>2. CASE age = 0
    <3>1. Back(t, age) = t
      BY <2>2, NextSlot
    <3>2. (IF age < Len(h2) THEN h2[Len(h2) - age] ELSE NoneCounted) = r
      BY <1>1, <2>2
    <3> QED BY <2>1, <3>1, <3>2 DEF Counts
  <2>3. CASE age # 0
    <3>1. age - 1 \in Periods /\ Back(t, age) = Back(s, age - 1) /\ Back(t, age) # t
      BY <2>3, NextSlot
    <3>2. (IF age < Len(h2) THEN h2[Len(h2) - age] ELSE NoneCounted)
            = (IF age - 1 < Len(h) THEN h[Len(h) - (age - 1)] ELSE NoneCounted)
      <4>1. age < Len(h2) <=> age - 1 < Len(h)
        BY <1>1, <2>1
      <4>2. age < Len(h2) => Len(h2) - age = Len(h) - (age - 1) /\ Len(h2) - age \in 1..Len(h)
        BY <1>1, <2>1, <2>3
      <4> QED BY <1>1, <4>1, <4>2
    <3>3. Back(s, age - 1) \in Periods
      BY <3>1, BackIs
    <3> QED BY <3>1, <3>2, <3>3 DEF Shows, Counts
  <2> QED BY <2>2, <2>3
<1> QED BY <1>2 DEF Shows, h2

-----------------------------------------------------------------------------
(* The invariant.                                                           *)

\* b has slots for each peer, and of these only the second is ever filled: the search
\* ends at the first place and takes the next.
SecondOnly(b) ==
  /\ b = [p \in Peers |-> [i \in Slots |-> b[p][i]]]
  /\ \A p \in Peers : Held(b[p]) \subseteq {1}

TransportTypeOK ==
  /\ slot \in [Peers -> Periods]
  /\ outgoing \in [Peers -> Counts] /\ incoming \in [Peers -> Counts] /\ unknown \in [Peers -> Counts]
  /\ late \in [Peers -> BOOLEAN] /\ pc \in [Peers -> {"idle", "recv", "send"}]
  /\ history \in [Peers -> Seq(Period)] /\ \A p \in Peers : Len(history[p]) > 0

ShowsPeriods ==
  \A p \in Peers : Shows(outgoing[p], incoming[p], unknown[p], slot[p], history[p])

TransportInv == TransportTypeOK /\ SecondOnly(out) /\ SecondOnly(in) /\ ShowsPeriods

\* While slot 0 is empty the search finds slot 1 and no other.
LEMMA FindsSecondSlot ==
  ASSUME NEW q, Held(q) \subseteq {1}
  PROVE  FoundSlot(q) = {1} /\ 1 \in Slots
<1>1. BufferCount \in Nat /\ BufferCount >= 2
  BY TransportAssumption
<1>2. 0 \in Slots /\ 0 \notin Held(q) /\ 1 \in Slots
  BY <1>1 DEF Slots
<1>3. {i \in Slots : i \notin Held(q) /\ \A j \in 0..(i - 1) : j \in Held(q)} = {0}
  <2>1. \A j \in 0..(0 - 1) : j \in Held(q)
    OBVIOUS
  <2>2. \A i \in Slots : i # 0 => 0 \in 0..(i - 1)
    BY <1>1 DEF Slots
  <2> QED BY <1>2, <2>1, <2>2
<1> QED BY <1>2, <1>3 DEF FoundSlot

\* Nothing of the buffers changes, or one slot of one of them is filled.
LEMMA FilledSecond ==
  ASSUME NEW b, SecondOnly(b), NEW p \in Peers, NEW x
  PROVE  SecondOnly([b EXCEPT ![p][1] = x])
<1>1. PICK c : c = [b EXCEPT ![p][1] = x]
  OBVIOUS
<1>2. b = [q \in Peers |-> [i \in Slots |-> b[q][i]]] /\ \A q \in Peers : Held(b[q]) \subseteq {1}
  BY DEF SecondOnly
<1>3. c = [q \in Peers |-> c[q]] /\ \A q \in Peers : c[q] = IF q = p THEN [b[p] EXCEPT ![1] = x] ELSE b[q]
  BY <1>1, <1>2
<1>4. \A q \in Peers : c[q] = [i \in Slots |-> c[q][i]]
  <2> SUFFICES ASSUME NEW q \in Peers PROVE c[q] = [i \in Slots |-> c[q][i]]
    OBVIOUS
  <2>1. b[q] = [i \in Slots |-> b[q][i]]
    BY <1>2
  <2> QED BY <1>3, <2>1
<1>5. ASSUME NEW q \in Peers, NEW i \in Slots, i # 1 PROVE c[q][i] = Empty
  <2>1. b[q][i] = Empty
    BY <1>2, <1>5 DEF Held
  <2>2. b[q] = [j \in Slots |-> b[q][j]]
    BY <1>2
  <2>3. c[q][i] = b[q][i]
    BY <1>3, <1>5, <2>2
  <2> QED BY <2>1, <2>3
<1>6. \A q \in Peers : Held(c[q]) \subseteq {1}
  BY <1>5 DEF Held
<1>7. c = [q \in Peers |-> [i \in Slots |-> c[q][i]]]
  BY <1>3, <1>4
<1> QED BY <1>1, <1>6, <1>7 DEF SecondOnly

\* All slots of one peer are emptied, or those of gone.
LEMMA EmptiedPeer ==
  ASSUME NEW b, SecondOnly(b), NEW p \in Peers
  PROVE  /\ SecondOnly([b EXCEPT ![p] = [i \in Slots |-> Empty]])
         /\ \A gone : SecondOnly([b EXCEPT ![p] = [i \in Slots |-> IF i \in gone THEN Empty ELSE @[i]]])
<1>1. b = [q \in Peers |-> [i \in Slots |-> b[q][i]]] /\ \A q \in Peers : Held(b[q]) \subseteq {1}
  BY DEF SecondOnly
<1>2. ASSUME NEW v, v = [i \in Slots |-> v[i]], \A i \in Slots : v[i] = Empty \/ v[i] = b[p][i]
      PROVE  SecondOnly([b EXCEPT ![p] = v])
  <2>1. PICK c : c = [b EXCEPT ![p] = v]
    OBVIOUS
  <2>2. c = [q \in Peers |-> c[q]] /\ \A q \in Peers : c[q] = IF q = p THEN v ELSE b[q]
    BY <1>1, <2>1
  <2>3. \A q \in Peers : c[q] = [i \in Slots |-> c[q][i]]
    <3> SUFFICES ASSUME NEW q \in Peers PROVE c[q] = [i \in Slots |-> c[q][i]]
      OBVIOUS
    <3>1. b[q] = [i \in Slots |-> b[q][i]]
      BY <1>1
    <3> QED BY <1>2, <2>2, <3>1
  <2>4. \A q \in Peers : Held(c[q]) \subseteq {1}
    BY <1>1, <1>2, <2>2 DEF Held
  <2>5. c = [q \in Peers |-> [i \in Slots |-> c[q][i]]]
    BY <2>2, <2>3
  <2> QED BY <2>1, <2>4, <2>5 DEF SecondOnly
<1>3. SecondOnly([b EXCEPT ![p] = [i \in Slots |-> Empty]])
  <2>1. PICK v : v = [i \in Slots |-> Empty]
    OBVIOUS
  <2>2. SecondOnly([b EXCEPT ![p] = v])
    BY <1>2, <2>1
  <2> QED BY <2>1, <2>2
<1>4. ASSUME NEW gone PROVE SecondOnly([b EXCEPT ![p] = [i \in Slots |-> IF i \in gone THEN Empty ELSE @[i]]])
  <2>1. PICK v : v = [i \in Slots |-> IF i \in gone THEN Empty ELSE b[p][i]]
    OBVIOUS
  <2>2. SecondOnly([b EXCEPT ![p] = v])
    BY <1>2, <2>1
  <2> QED BY <2>1, <2>2
<1> QED BY <1>3, <1>4

LEMMA InitTransport == TransportInit => TransportInv
<1> SUFFICES ASSUME TransportInit PROVE TransportInv
  OBVIOUS
<1>1. 0 \in Periods /\ NoneCounted \in Period
  BY TransportAssumption DEF Periods, NoneCounted, Period
<1>2. TransportTypeOK
  BY <1>1 DEF TransportInit, TransportTypeOK, Counts
<1>3. SecondOnly(out) /\ SecondOnly(in)
  BY DEF TransportInit, SecondOnly, Held
<1>4. ShowsPeriods
  <2> SUFFICES ASSUME NEW p \in Peers, NEW age \in Periods
               PROVE  LET of == IF age < Len(history[p]) THEN history[p][Len(history[p]) - age] ELSE NoneCounted IN
                      /\ outgoing[p][Back(slot[p], age)] = of.sent
                      /\ incoming[p][Back(slot[p], age)] = of.accepted
                      /\ unknown[p][Back(slot[p], age)] = of.refused
    BY DEF ShowsPeriods, Shows
  <2>1. slot[p] = 0 /\ Back(0, age) \in Periods
    BY <1>1, BackIs DEF TransportInit
  <2>2. (IF age < Len(history[p]) THEN history[p][Len(history[p]) - age] ELSE NoneCounted) = NoneCounted
    <3>1. history[p] = <<NoneCounted>> /\ age \in Nat
      BY DEF TransportInit, Periods
    <3>2. age < 1 => age = 0
      BY <3>1
    <3> QED BY <3>1, <3>2
  <2> QED BY <2>1, <2>2 DEF TransportInit, NoneCounted
<1> QED BY <1>2, <1>3, <1>4 DEF TransportInv

\* Init of the transport again.
LEMMA RestartKeeps ==
  ASSUME TransportInv, NEW p \in Peers, Restart(p)
  PROVE  TransportInv'
<1>1. 0 \in Periods /\ NoneCounted \in Period
  BY TransportAssumption DEF Periods, NoneCounted, Period
<1>2. TransportTypeOK'
  <2>1. [i \in Periods |-> 0] \in Counts /\ <<NoneCounted>> \in Seq(Period) /\ Len(<<NoneCounted>>) > 0
    BY <1>1 DEF Counts
  <2>2. /\ outgoing' \in [Peers -> Counts] /\ incoming' \in [Peers -> Counts] /\ unknown' \in [Peers -> Counts]
    BY <2>1 DEF TransportInv, Restart, TransportTypeOK
  <2>3. history' \in [Peers -> Seq(Period)] /\ \A q \in Peers : Len(history'[q]) > 0
    BY <2>1 DEF TransportInv, Restart, TransportTypeOK
  <2>4. slot' \in [Peers -> Periods] /\ late' \in [Peers -> BOOLEAN] /\ pc' = pc
    BY <1>1 DEF TransportInv, Restart, TransportTypeOK
  <2> QED BY <2>2, <2>3, <2>4 DEF TransportInv, TransportTypeOK
<1>3. SecondOnly(out)' /\ SecondOnly(in)'
  BY EmptiedPeer DEF TransportInv, Restart
<1>4. ShowsPeriods'
  <2> SUFFICES ASSUME NEW q \in Peers
               PROVE  Shows(outgoing'[q], incoming'[q], unknown'[q], slot'[q], history'[q])
    BY DEF ShowsPeriods, Shows
  <2>1. CASE q # p
    BY <2>1 DEF TransportInv, TransportTypeOK, Restart, ShowsPeriods
  <2>2. CASE q = p
    <3>1. /\ outgoing'[p] = [i \in Periods |-> 0] /\ incoming'[p] = [i \in Periods |-> 0]
          /\ unknown'[p] = [i \in Periods |-> 0] /\ slot'[p] = 0 /\ history'[p] = <<NoneCounted>>
      BY DEF TransportInv, TransportTypeOK, Restart
    <3>2. ASSUME NEW age \in Periods
          PROVE  LET of == IF age < Len(<<NoneCounted>>) THEN <<NoneCounted>>[Len(<<NoneCounted>>) - age] ELSE NoneCounted IN
                 /\ outgoing'[p][Back(0, age)] = of.sent
                 /\ incoming'[p][Back(0, age)] = of.accepted
                 /\ unknown'[p][Back(0, age)] = of.refused
      <4>1. Back(0, age) \in Periods
        BY <1>1, BackIs
      <4>2. age \in Nat /\ (age < 1 => age = 0)
        BY DEF Periods
      <4> QED BY <3>1, <4>1, <4>2 DEF NoneCounted
    <3> QED BY <2>2, <3>1, <3>2 DEF Shows
  <2> QED BY <2>1, <2>2
<1> QED BY <1>2, <1>3, <1>4 DEF TransportInv

\* Only the place of a peer's thread, its socket, the time and the network change.
LEMMA TransportFrame ==
  ASSUME TransportInv, UNCHANGED <<out, in, slot, outgoing, incoming, unknown, history>>,
         late' \in [Peers -> BOOLEAN], pc' \in [Peers -> {"idle", "recv", "send"}]
  PROVE  TransportInv'
BY DEF TransportInv, TransportTypeOK, SecondOnly, ShowsPeriods, Shows, Held

\* Queue_Send fills slot 1.
LEMMA QueueSendKeeps ==
  ASSUME TransportInv, NEW p \in Peers, NEW to, NEW body, QueueSend(p, to, body)
  PROVE  TransportInv'
<1>1. FoundSlot(out[p]) = {1}
  BY FindsSecondSlot DEF TransportInv, SecondOnly
<1>2. SecondOnly(out')
  <2>1. PICK x : out' = [out EXCEPT ![p][1] = x]
    BY <1>1 DEF QueueSend
  <2> QED BY <2>1, FilledSecond DEF TransportInv
<1>3. UNCHANGED <<in, slot, outgoing, incoming, unknown, late, pc, history>>
  BY DEF QueueSend
<1>4. TransportTypeOK' /\ SecondOnly(in)'
  BY <1>3 DEF TransportInv, TransportTypeOK, SecondOnly, Held
<1>5. ShowsPeriods'
  BY <1>3 DEF TransportInv, ShowsPeriods, Shows
<1> QED BY <1>2, <1>4, <1>5 DEF TransportInv, SecondOnly, Held

\* The period that is open is the last one, and its slot shows it.
LEMMA OpenPeriod ==
  ASSUME TransportInv, NEW p \in Peers
  PROVE  /\ history[p] \in Seq(Period) /\ Len(history[p]) \in Nat \ {0} /\ history[p][Len(history[p])] \in Period
         /\ slot[p] \in Periods
         /\ outgoing[p] \in Counts /\ incoming[p] \in Counts /\ unknown[p] \in Counts
         /\ outgoing[p][slot[p]] = history[p][Len(history[p])].sent
         /\ incoming[p][slot[p]] = history[p][Len(history[p])].accepted
         /\ unknown[p][slot[p]] = history[p][Len(history[p])].refused
<1>1. history[p] \in Seq(Period) /\ Len(history[p]) \in Nat \ {0} /\ slot[p] \in Periods
  BY DEF TransportInv, TransportTypeOK
<1>2. history[p][Len(history[p])] \in Period
  BY <1>1
<1>3. outgoing[p] \in Counts /\ incoming[p] \in Counts /\ unknown[p] \in Counts
  BY DEF TransportInv, TransportTypeOK
<1>4. 0 \in Periods /\ Back(slot[p], 0) = slot[p]
  BY <1>1, TransportAssumption DEF Periods, Back
<1>5. (IF 0 < Len(history[p]) THEN history[p][Len(history[p]) - 0] ELSE NoneCounted) = history[p][Len(history[p])]
  BY <1>1
<1>6. Shows(outgoing[p], incoming[p], unknown[p], slot[p], history[p])
  BY DEF TransportInv, ShowsPeriods
<1>7. /\ outgoing[p][slot[p]] = history[p][Len(history[p])].sent
      /\ incoming[p][slot[p]] = history[p][Len(history[p])].accepted
      /\ unknown[p][slot[p]] = history[p][Len(history[p])].refused
  BY <1>4, <1>5, <1>6 DEF Shows
<1> QED BY <1>1, <1>2, <1>3, <1>7

\* One peer's slots and periods become others.
PeerBecomes(p, o, i, u, s, h) ==
  /\ outgoing' = [outgoing EXCEPT ![p] = o] /\ incoming' = [incoming EXCEPT ![p] = i]
  /\ unknown' = [unknown EXCEPT ![p] = u] /\ slot' = [slot EXCEPT ![p] = s]
  /\ history' = [history EXCEPT ![p] = h]

\* They are others that show each other.
LEMMA PeerShows ==
  ASSUME TransportInv, NEW p \in Peers, NEW o \in Counts, NEW i \in Counts, NEW u \in Counts, NEW s \in Periods,
         NEW h \in Seq(Period), Len(h) > 0, Shows(o, i, u, s, h), PeerBecomes(p, o, i, u, s, h),
         late' \in [Peers -> BOOLEAN], pc' \in [Peers -> {"idle", "recv", "send"}]
  PROVE  TransportTypeOK' /\ ShowsPeriods'
<1>1. /\ outgoing \in [Peers -> Counts] /\ incoming \in [Peers -> Counts] /\ unknown \in [Peers -> Counts]
      /\ slot \in [Peers -> Periods] /\ history \in [Peers -> Seq(Period)] /\ \A q \in Peers : Len(history[q]) > 0
  BY DEF TransportInv, TransportTypeOK
<1>2. outgoing' \in [Peers -> Counts] /\ incoming' \in [Peers -> Counts] /\ unknown' \in [Peers -> Counts]
  <2>1. outgoing' \in [Peers -> Counts]
    BY <1>1 DEF PeerBecomes
  <2>2. incoming' \in [Peers -> Counts]
    BY <1>1 DEF PeerBecomes
  <2>3. unknown' \in [Peers -> Counts]
    BY <1>1 DEF PeerBecomes
  <2> QED BY <2>1, <2>2, <2>3
<1>3. slot' \in [Peers -> Periods] /\ history' \in [Peers -> Seq(Period)] /\ \A q \in Peers : Len(history'[q]) > 0
  BY <1>1 DEF PeerBecomes
<1>4. \A q \in Peers : Shows(outgoing'[q], incoming'[q], unknown'[q], slot'[q], history'[q])
  BY <1>1 DEF TransportInv, ShowsPeriods, PeerBecomes
<1>5. TransportTypeOK'
  BY <1>2, <1>3 DEF TransportTypeOK, Counts, Periods, Period
<1> QED BY <1>4, <1>5 DEF ShowsPeriods, Shows

\* The slot s of peer p shows r, and its list of periods becomes h.
SlotBecomes(p, s, r, h) ==
  PeerBecomes(p, [outgoing[p] EXCEPT ![s] = r.sent], [incoming[p] EXCEPT ![s] = r.accepted],
              [unknown[p] EXCEPT ![s] = r.refused], s, h)

\* A peer counts more in its open period, which becomes r.
LEMMA PeriodCounted ==
  ASSUME TransportInv, NEW p \in Peers, NEW r \in Period,
         SlotBecomes(p, slot[p], r, [history[p] EXCEPT ![Len(history[p])] = r]),
         late' \in [Peers -> BOOLEAN], pc' \in [Peers -> {"idle", "recv", "send"}]
  PROVE  TransportTypeOK' /\ ShowsPeriods'
<1> DEFINE h2 == [history[p] EXCEPT ![Len(history[p])] = r]
           o2 == [outgoing[p] EXCEPT ![slot[p]] = r.sent]
           i2 == [incoming[p] EXCEPT ![slot[p]] = r.accepted]
           u2 == [unknown[p] EXCEPT ![slot[p]] = r.refused]
<1>1. /\ history[p] \in Seq(Period) /\ Len(history[p]) \in Nat \ {0} /\ slot[p] \in Periods
      /\ outgoing[p] \in Counts /\ incoming[p] \in Counts /\ unknown[p] \in Counts
  BY OpenPeriod
<1>2. Shows(o2, i2, u2, slot[p], h2)
  <2>1. Shows(outgoing[p], incoming[p], unknown[p], slot[p], history[p])
    BY DEF TransportInv, ShowsPeriods
  <2>2. Len(history[p]) > 0
    BY <1>1
  <2> HIDE DEF Shows
  <2> QED BY <1>1, <2>1, <2>2, CountingShows
<1>3. h2 \in Seq(Period) /\ Len(h2) > 0
  BY <1>1
<1>4. o2 \in Counts /\ i2 \in Counts /\ u2 \in Counts
  BY <1>1 DEF Counts, Period
<1>5. PeerBecomes(p, o2, i2, u2, slot[p], h2)
  BY DEF SlotBecomes
<1> HIDE DEF h2, o2, i2, u2
<1> QED BY <1>1, <1>2, <1>3, <1>4, <1>5, PeerShows

\* A peer opens another period r, in the next slot.
LEMMA PeriodOpened ==
  ASSUME TransportInv, NEW p \in Peers, NEW r \in Period, NEW t, t = (slot[p] + 1) % StatsCount,
         SlotBecomes(p, t, r, Append(history[p], r)),
         late' \in [Peers -> BOOLEAN], pc' \in [Peers -> {"idle", "recv", "send"}]
  PROVE  TransportTypeOK' /\ ShowsPeriods'
<1> DEFINE h2 == Append(history[p], r)
           o2 == [outgoing[p] EXCEPT ![t] = r.sent]
           i2 == [incoming[p] EXCEPT ![t] = r.accepted]
           u2 == [unknown[p] EXCEPT ![t] = r.refused]
<1>1. /\ history[p] \in Seq(Period) /\ Len(history[p]) \in Nat \ {0} /\ slot[p] \in Periods
      /\ outgoing[p] \in Counts /\ incoming[p] \in Counts /\ unknown[p] \in Counts
  BY OpenPeriod
<1>2. Shows(o2, i2, u2, t, h2)
  <2>1. Shows(outgoing[p], incoming[p], unknown[p], slot[p], history[p])
    BY DEF TransportInv, ShowsPeriods
  <2>2. Len(history[p]) > 0
    BY <1>1
  <2> HIDE DEF Shows
  <2> QED BY <1>1, <2>1, <2>2, OpeningShows
<1>3. h2 \in Seq(Period) /\ Len(h2) > 0
  BY <1>1
<1>4. o2 \in Counts /\ i2 \in Counts /\ u2 \in Counts
  BY <1>1 DEF Counts, Period
<1>5. t \in Periods
  BY <1>1, NextSlot
<1>6. PeerBecomes(p, o2, i2, u2, t, h2)
  BY DEF SlotBecomes
<1> HIDE DEF h2, o2, i2, u2
<1> QED BY <1>1, <1>2, <1>3, <1>4, <1>5, <1>6, PeerShows

\* A datagram that is read is counted in the period that is open.
LEMMA ReadKeepsPeriods ==
  ASSUME TransportInv, NEW p \in Peers, NEW d, ReadDatagram(p, d)
  PROVE  TransportTypeOK' /\ ShowsPeriods'
<1> DEFINE n == Len(history[p])
           last == history[p][n]
           s == slot[p]
<1>1. /\ history[p] \in Seq(Period) /\ n \in Nat \ {0} /\ last \in Period /\ s \in Periods
      /\ outgoing[p] \in Counts /\ incoming[p] \in Counts /\ unknown[p] \in Counts
      /\ outgoing[p][s] = last.sent /\ incoming[p][s] = last.accepted /\ unknown[p][s] = last.refused
  BY OpenPeriod
<1>2. slot' = slot /\ slot = [slot EXCEPT ![p] = s]
  BY DEF ReadDatagram, TransportInv, TransportTypeOK
<1>3. \A v \in {outgoing, incoming, unknown} : v = [v EXCEPT ![p] = [v[p] EXCEPT ![s] = v[p][s]]]
  BY DEF TransportInv, TransportTypeOK, Counts
<1>4. \E r \in Period : SlotBecomes(p, s, r, [history[p] EXCEPT ![n] = r])
  <2>1. CASE d.body = Noise
    <3>1. PICK r : r = [sent |-> last.sent, accepted |-> last.accepted, refused |-> last.refused + 1]
      OBVIOUS
    <3>2. r \in Period /\ r = [last EXCEPT !.refused = @ + 1]
      BY <1>1, <3>1 DEF Period
    <3>3. /\ unknown' = [unknown EXCEPT ![p][s] = @ + 1] /\ incoming' = incoming /\ outgoing' = outgoing
          /\ history' = [history EXCEPT ![p][n]["refused"] = @ + 1]
      BY <2>1 DEF ReadDatagram, Counted
    <3>4. history' = [history EXCEPT ![p] = [history[p] EXCEPT ![n] = r]]
      BY <1>1, <3>2, <3>3
    <3>5. outgoing[p][s] = r.sent /\ incoming[p][s] = r.accepted /\ unknown[p][s] + 1 = r.refused
      BY <1>1, <3>1
    <3>6. outgoing' = [outgoing EXCEPT ![p] = [outgoing[p] EXCEPT ![s] = r.sent]]
      BY <1>3, <3>3, <3>5
    <3>7. incoming' = [incoming EXCEPT ![p] = [incoming[p] EXCEPT ![s] = r.accepted]]
      BY <1>3, <3>3, <3>5
    <3>8. unknown' = [unknown EXCEPT ![p] = [unknown[p] EXCEPT ![s] = r.refused]]
      BY <3>3, <3>5
    <3> QED BY <1>2, <3>2, <3>4, <3>6, <3>7, <3>8 DEF SlotBecomes, PeerBecomes
  <2>2. CASE d.body # Noise
    <3>1. PICK r : r = [sent |-> last.sent, accepted |-> last.accepted + 1, refused |-> last.refused]
      OBVIOUS
    <3>2. r \in Period /\ r = [last EXCEPT !.accepted = @ + 1]
      <4>1. last \in Period
        BY <1>1
      <4> HIDE DEF last
      <4>2. r \in Period
        BY <3>1, <4>1 DEF Period
      <4>3. r = [last EXCEPT !.accepted = @ + 1]
        BY <3>1, <4>1 DEF Period
      <4> QED BY <4>2, <4>3
    <3>3. /\ incoming' = [incoming EXCEPT ![p][s] = @ + 1] /\ unknown' = unknown /\ outgoing' = outgoing
          /\ history' = [history EXCEPT ![p][n]["accepted"] = @ + 1]
      BY <2>2 DEF ReadDatagram, Counted
    <3>4. history' = [history EXCEPT ![p] = [history[p] EXCEPT ![n] = r]]
      BY <1>1, <3>2, <3>3
    <3>5. outgoing[p][s] = r.sent /\ incoming[p][s] + 1 = r.accepted /\ unknown[p][s] = r.refused
      BY <1>1, <3>1
    <3>6. outgoing' = [outgoing EXCEPT ![p] = [outgoing[p] EXCEPT ![s] = r.sent]]
      BY <1>3, <3>3, <3>5
    <3>7. unknown' = [unknown EXCEPT ![p] = [unknown[p] EXCEPT ![s] = r.refused]]
      BY <1>3, <3>3, <3>5
    <3>8. incoming' = [incoming EXCEPT ![p] = [incoming[p] EXCEPT ![s] = r.accepted]]
      BY <3>3, <3>5
    <3> QED BY <1>2, <3>2, <3>4, <3>6, <3>7, <3>8 DEF SlotBecomes, PeerBecomes
  <2> QED BY <2>1, <2>2
<1>5. late' \in [Peers -> BOOLEAN] /\ pc' \in [Peers -> {"idle", "recv", "send"}]
  BY DEF ReadDatagram, TransportInv, TransportTypeOK
<1> QED BY <1>4, <1>5, PeriodCounted

\* Do_Recv fills slot 1 of m_inBuffer.
LEMMA ReadDatagramKeeps ==
  ASSUME TransportInv, NEW p \in Peers, NEW d, ReadDatagram(p, d)
  PROVE  TransportInv'
<1>1. SecondOnly(in')
  <2>1. FoundSlot(out[p]) = {1}
    BY FindsSecondSlot DEF TransportInv, SecondOnly
  <2>2. in' = in \/ in' = [in EXCEPT ![p][1] = d.body]
    BY <2>1 DEF ReadDatagram
  <2> QED BY <2>2, FilledSecond DEF TransportInv
<1>2. out' = out
  BY DEF ReadDatagram
<1>3. TransportTypeOK' /\ ShowsPeriods'
  BY ReadKeepsPeriods
<1> QED BY <1>1, <1>2, <1>3 DEF TransportInv, SecondOnly, Held

\* Do_Send: the packets of gone leave, and they are counted as sent.
LEMMA DoSendKeeps ==
  ASSUME TransportInv, NEW p \in Peers, NEW gone, DoSend(p, gone)
  PROVE  TransportInv' /\ Held(out[p]) \ Held(out'[p]) = gone /\ CountedSent(p) = Cardinality(gone)
<1> DEFINE n == Cardinality(gone)
           last == history[p][Len(history[p])]
           s == slot[p]
<1>1. /\ history[p] \in Seq(Period) /\ Len(history[p]) \in Nat \ {0} /\ last \in Period /\ s \in Periods
      /\ outgoing[p] \in Counts /\ incoming[p] \in Counts /\ unknown[p] \in Counts
      /\ outgoing[p][s] = last.sent /\ incoming[p][s] = last.accepted /\ unknown[p][s] = last.refused
  BY OpenPeriod
<1>2. n \in Nat /\ gone \subseteq Held(out[p])
  <2>1. gone \subseteq Held(out[p]) /\ Held(out[p]) \subseteq {1}
    BY DEF DoSend, TransportInv, SecondOnly
  <2>2. IsFiniteSet({1}) /\ gone \in SUBSET {1}
    BY <2>1, FS_Singleton
  <2>3. IsFiniteSet(gone)
    BY <2>2, FS_Subset
  <2> QED BY <2>1, <2>3, FS_CardinalityType
<1>3. /\ late' \in [Peers -> BOOLEAN] /\ pc' \in [Peers -> {"idle", "recv", "send"}] /\ in' = in
  BY DEF DoSend, TransportInv, TransportTypeOK
<1>4. out' = [out EXCEPT ![p] = [i \in Slots |-> IF i \in gone THEN Empty ELSE @[i]]]
  BY DEF DoSend, Emptied
<1>5. SecondOnly(out')
  BY <1>4, EmptiedPeer DEF TransportInv
<1>6. Held(out[p]) \ Held(out'[p]) = gone
  <2>1. out = [q \in Peers |-> [i \in Slots |-> out[q][i]]]
    BY DEF TransportInv, SecondOnly
  <2>2. \A i \in Slots : out'[p][i] = IF i \in gone THEN Empty ELSE out[p][i]
    BY <1>4, <2>1
  <2> QED BY <1>2, <2>2 DEF Held
<1> HIDE DEF n, last
<1>7. CASE late[p]
  <2>1. PICK r : r = [sent |-> n, accepted |-> 0, refused |-> 0]
    OBVIOUS
  <2>2. r \in Period /\ r = [NoneCounted EXCEPT !.sent = n]
    BY <1>2, <2>1 DEF Period, NoneCounted
  <2>3. PICK t : t = (slot[p] + 1) % StatsCount
    OBVIOUS
  <2>4. /\ slot' = [slot EXCEPT ![p] = t]
        /\ outgoing' = [outgoing EXCEPT ![p][t] = n] /\ incoming' = [incoming EXCEPT ![p][t] = 0]
        /\ unknown' = [unknown EXCEPT ![p][t] = 0]
        /\ history' = [history EXCEPT ![p] = Append(@, [NoneCounted EXCEPT !.sent = n])]
    BY <1>7, <2>3 DEF DoSend, Opened, n
  <2>5. SlotBecomes(p, t, r, Append(history[p], r))
    <3>1. r.sent = n /\ r.accepted = 0 /\ r.refused = 0
      BY <2>1
    <3>2. outgoing' = [outgoing EXCEPT ![p] = [outgoing[p] EXCEPT ![t] = r.sent]]
      BY <2>4, <3>1
    <3>3. incoming' = [incoming EXCEPT ![p] = [incoming[p] EXCEPT ![t] = r.accepted]]
      BY <2>4, <3>1
    <3>4. unknown' = [unknown EXCEPT ![p] = [unknown[p] EXCEPT ![t] = r.refused]]
      BY <2>4, <3>1
    <3>5. history' = [history EXCEPT ![p] = Append(history[p], r)]
      BY <2>2, <2>4
    <3> QED BY <2>4, <3>2, <3>3, <3>4, <3>5 DEF SlotBecomes, PeerBecomes
  <2>6. TransportTypeOK' /\ ShowsPeriods'
    BY <1>3, <2>2, <2>3, <2>5, PeriodOpened
  <2>7. CountedSent(p) = n
    <3>1. history'[p] = Append(history[p], r)
      BY <2>5 DEF TransportInv, TransportTypeOK, SlotBecomes, PeerBecomes
    <3>2. Len(history'[p]) = Len(history[p]) + 1 /\ history'[p][Len(history[p]) + 1] = r
      BY <1>1, <2>2, <3>1
    <3> QED BY <1>1, <1>2, <2>1, <3>2 DEF CountedSent
  <2> QED BY <1>3, <1>5, <1>6, <2>6, <2>7 DEF TransportInv, SecondOnly, Held, n
<1>8. CASE ~late[p]
  <2>1. PICK r : r = [sent |-> last.sent + n, accepted |-> last.accepted, refused |-> last.refused]
    OBVIOUS
  <2>2. r \in Period /\ r = [last EXCEPT !.sent = @ + n]
    <3>1. last \in Period
      BY <1>1
    <3>2. r \in Period
      BY <1>2, <2>1, <3>1 DEF Period
    <3>3. r = [last EXCEPT !.sent = @ + n]
      BY <2>1, <3>1 DEF Period
    <3> QED BY <3>2, <3>3
  <2>3. /\ slot' = [slot EXCEPT ![p] = s]
        /\ outgoing' = [outgoing EXCEPT ![p][s] = @ + n] /\ incoming' = [incoming EXCEPT ![p][s] = @ + 0]
        /\ unknown' = [unknown EXCEPT ![p][s] = @ + 0]
        /\ history' = [history EXCEPT ![p][Len(history[p])]["sent"] = @ + n]
    BY <1>8 DEF DoSend, Opened, Counted, n
  <2>4. last.accepted \in Nat /\ last.refused \in Nat /\ last.sent \in Nat
    BY <1>1 DEF Period
  <2>5. outgoing[p][s] + n = r.sent /\ incoming[p][s] + 0 = r.accepted /\ unknown[p][s] + 0 = r.refused
    BY <1>1, <2>1, <2>4
  <2>6. outgoing' = [outgoing EXCEPT ![p] = [outgoing[p] EXCEPT ![s] = r.sent]]
    BY <2>3, <2>5
  <2>7. incoming' = [incoming EXCEPT ![p] = [incoming[p] EXCEPT ![s] = r.accepted]]
    BY <2>3, <2>5
  <2>8. unknown' = [unknown EXCEPT ![p] = [unknown[p] EXCEPT ![s] = r.refused]]
    BY <2>3, <2>5
  <2>9. history' = [history EXCEPT ![p] = [@ EXCEPT ![Len(history[p])] = r]]
    <3>1. history' = [history EXCEPT ![p] = [history[p] EXCEPT ![Len(history[p])] = [last EXCEPT !.sent = @ + n]]]
      BY <2>3 DEF last
    <3> QED BY <2>2, <3>1
  <2>10. TransportTypeOK' /\ ShowsPeriods'
    <3>1. SlotBecomes(p, s, r, [history[p] EXCEPT ![Len(history[p])] = r])
      BY <2>3, <2>6, <2>7, <2>8, <2>9 DEF SlotBecomes, PeerBecomes
    <3> QED BY <1>3, <2>2, <3>1, PeriodCounted
  <2>11. CountedSent(p) = n
    <3>1. history'[p] = [history[p] EXCEPT ![Len(history[p])] = r]
      BY <2>9 DEF TransportInv, TransportTypeOK
    <3>2. Len(history'[p]) = Len(history[p]) /\ history'[p][Len(history[p])] = r
      BY <1>1, <3>1
    <3>3. CountedSent(p) = r.sent - last.sent
      BY <1>1, <3>2 DEF CountedSent, last
    <3> QED BY <1>2, <2>1, <2>4, <3>3
  <2> QED BY <1>3, <1>5, <1>6, <2>10, <2>11 DEF TransportInv, SecondOnly, Held, n
<1> QED BY <1>7, <1>8

LEMMA TransportStep ==
  ASSUME TransportInv, [TransportNext]_transportVars
  PROVE  TransportInv'
<1>1. ASSUME NEW p \in Peers, Restart(p) PROVE TransportInv'
  BY <1>1, RestartKeeps
<1>2. ASSUME NEW p \in Peers, RestartUnbound(p) \/ Update(p) \/ ReadNothing(p) \/ SecondPasses(p) PROVE TransportInv'
  <2>1. UNCHANGED <<out, in, slot, outgoing, incoming, unknown, history>>
    BY <1>2 DEF RestartUnbound, Update, ReadNothing, SecondPasses
  <2>2. late' \in [Peers -> BOOLEAN] /\ pc' \in [Peers -> {"idle", "recv", "send"}]
    BY <1>2 DEF TransportInv, TransportTypeOK, RestartUnbound, Update, ReadNothing, SecondPasses
  <2> QED BY <2>1, <2>2, TransportFrame
<1>3. ASSUME NEW p \in Peers, NEW to, NEW m, QueueSend(p, to, m) PROVE TransportInv'
  BY <1>3, QueueSendKeeps
<1>4. ASSUME NEW p \in Peers, NEW d, ReadDatagram(p, d) PROVE TransportInv'
  BY <1>4, ReadDatagramKeeps
<1>5. ASSUME NEW p \in Peers, NEW gone, DoSend(p, gone) PROVE TransportInv'
  BY <1>5, DoSendKeeps
<1>6. ASSUME Fault \/ UNCHANGED transportVars PROVE TransportInv'
  <2>1. UNCHANGED <<out, in, slot, outgoing, incoming, unknown, history, late, pc>>
    BY <1>6 DEF Fault, transportVars, peerVars
  <2> QED BY <2>1, TransportFrame DEF TransportInv, TransportTypeOK
<1> QED BY <1>1, <1>2, <1>3, <1>4, <1>5, <1>6 DEF TransportNext

\* The inductive invariant of a peer: only slot 1 of its buffers is ever filled, and its
\* slots show the last periods.
THEOREM TransportInvariant == TransportSpec => []TransportInv
<1>1. TransportInv /\ [TransportNext]_transportVars => TransportInv'
  BY TransportStep
<1> QED BY <1>1, InitTransport, PTL DEF TransportSpec

\* The search for a slot never leaves the buffers, although it tests one slot and takes the next.
THEOREM SearchInside == TransportSpec => []SearchStaysInside
<1>1. TransportInv => SearchStaysInside
  BY FindsSecondSlot, ZenonT(60) DEF TransportInv, SecondOnly, SearchStaysInside
<1> QED BY <1>1, TransportInvariant, PTL

\* The slots of the statistics are the last StatsCount periods, however many have passed.
THEOREM StatisticsAreTheLastPeriods == TransportSpec => []StatisticsWindow
<1>1. TransportInv => StatisticsWindow
  BY BackIs DEF TransportInv, TransportTypeOK, ShowsPeriods, Shows, StatisticsWindow
<1> QED BY <1>1, TransportInvariant, PTL

\* An update counts as sent exactly the packets that leave their slots.
THEOREM RefusedStayQueued == TransportSpec => KeptUntilSent
<1>1. ASSUME TransportInv, [TransportNext]_transportVars, NEW p \in Peers, pc[p] = "send", pc'[p] = "idle"
      PROVE  Cardinality(Held(out[p]) \ Held(out'[p])) = CountedSent(p)
  <2>1. pc \in [Peers -> {"idle", "recv", "send"}]
    BY <1>1 DEF TransportInv, TransportTypeOK
  <2>2. pc' # pc
    BY <1>1
  <2>3. PICK q \in Peers : \/ Restart(q) \/ RestartUnbound(q) \/ Update(q) \/ ReadNothing(q) \/ SecondPasses(q)
                           \/ \E to \in Peers \ {q}, m \in Bodies : QueueSend(q, to, m)
                           \/ \E d \in BagToSet(wire) : ReadDatagram(q, d)
                           \/ \E gone \in SUBSET Held(out[q]) : DoSend(q, gone)
    BY <1>1, <2>2 DEF TransportNext, Fault, transportVars, peerVars
  <2>4. ~Restart(q) /\ ~RestartUnbound(q) /\ ~SecondPasses(q)
    BY <2>2 DEF Restart, RestartUnbound, SecondPasses
  <2>5. ~Update(q) /\ ~ReadNothing(q)
    BY <1>1, <2>1 DEF Update, ReadNothing
  <2>6. \A to, m, d : ~QueueSend(q, to, m) /\ ~ReadDatagram(q, d)
    BY <2>2 DEF QueueSend, ReadDatagram
  <2>7. PICK gone : DoSend(q, gone)
    BY <2>3, <2>4, <2>5, <2>6
  <2>8. q = p
    BY <1>1, <2>1, <2>7 DEF DoSend
  <2> QED BY <1>1, <2>7, <2>8, DoSendKeeps
<1>2. TransportInv /\ [TransportNext]_transportVars =>
        [\A p \in Peers : pc[p] = "send" /\ pc'[p] = "idle" =>
            Cardinality(Held(out[p]) \ Held(out'[p])) = CountedSent(p)]_transportVars
  BY <1>1
<1> QED BY <1>2, TransportInvariant, PTL DEF TransportSpec, KeptUntilSent

=============================================================================
