--------------------------- MODULE StringsProofs ---------------------------
(* The reference counts of the shared buffers are right and no text is       *)
(* longer than its buffer, whatever strings there are and whatever is done   *)
(* to them.                                                                  *)
(* The second part shows that strings which share buffers behave as values  *)
(* that share nothing.                                                       *)
EXTENDS Strings, FiniteSetTheorems, WellFoundedInduction, TLAPS

\* The invariant, of a heap between two of an operation's steps as well.
IsHeap(h) == DOMAIN h = {"data", "refs", "capacity", "text", "allocated"}
Good(h) ==
  /\ IsHeap(h)
  /\ h.data \in [Strings -> Buffers \cup {NoData}] /\ h.refs \in [Buffers -> Int]
  /\ h.allocated \subseteq Buffers
  /\ \A s \in Strings : h.data[s] \in h.allocated \cup {NoData}
  /\ \A b \in h.allocated : h.refs[b] = Cardinality(Owners(h, b)) /\ h.refs[b] > 0

\* A count stays far from where it would wrap.
LEMMA OwnersCounted ==
  ASSUME NEW h, NEW b
  PROVE  /\ IsFiniteSet(Owners(h, b)) /\ Cardinality(Owners(h, b)) \in Nat
         /\ Cardinality(Owners(h, b)) < CountLimit
         /\ CountLimit \in Nat
<1>1. IsFiniteSet(Strings) /\ Cardinality(Strings) < CountLimit /\ CountLimit \in Nat
  BY StringsAssumption, Zenon
<1>2. Owners(h, b) \subseteq Strings
  BY DEF Owners
<1>3. IsFiniteSet(Owners(h, b)) /\ Cardinality(Owners(h, b)) <= Cardinality(Strings)
  BY <1>1, <1>2, FS_Subset
<1>4. Cardinality(Owners(h, b)) \in Nat /\ Cardinality(Strings) \in Nat
  BY <1>1, <1>3, FS_CardinalityType
<1> QED BY <1>1, <1>3, <1>4, SMT

\* Release_Buffer: the string has no buffer, and the one it had is free if it was
\* its last owner.
LEMMA ReleaseGood ==
  ASSUME NEW h, Good(h), NEW s \in Strings
  PROVE  /\ Good(Release(h, s))
         /\ Release(h, s).data = [h.data EXCEPT ![s] = NoData]
         /\ Release(h, s).allocated \subseteq h.allocated
<1>1. CASE h.data[s] = NoData
  <2>1. Release(h, s) = h
    BY <1>1 DEF Release
  <2>2. h.data = [h.data EXCEPT ![s] = NoData]
    BY <1>1, SMT DEF Good
  <2> QED BY <2>1, <2>2
<1>2. CASE h.data[s] # NoData
  <2>1. PICK b \in h.allocated : b = h.data[s]
    BY <1>2 DEF Good
  <2>2. PICK n : n = (h.refs[b] - 1) % CountLimit
    OBVIOUS
  <2>3. PICK r : r = [h EXCEPT !.refs[b] = n, !.data[s] = NoData]
    OBVIOUS
  <2>4. PICK q : q = [r EXCEPT !.allocated = @ \ {b}, !.capacity[b] = 0, !.text[b] = << >>]
    OBVIOUS
  <2>5. Release(h, s) = IF n # 0 THEN r ELSE q
    BY <1>2, <2>1, <2>2, <2>3, <2>4 DEF Release
  <2>6. b \in Buffers /\ b # NoData
    BY <1>2, <2>1 DEF Good
  <2>7. /\ IsHeap(r) /\ r.data = [h.data EXCEPT ![s] = NoData] /\ r.refs = [h.refs EXCEPT ![b] = n]
        /\ r.allocated = h.allocated
    BY <2>3, SMT DEF Good, IsHeap
  <2>8. IsHeap(q) /\ q.data = r.data /\ q.refs = r.refs /\ q.allocated = h.allocated \ {b}
    BY <2>4, <2>7, SMT DEF IsHeap
  <2>9. Owners(r, b) = Owners(h, b) \ {s} /\ s \in Owners(h, b)
    BY <2>1, <2>6, <2>7, SMT DEF Good, Owners
  <2>10. \A c \in Buffers : c # b => Owners(r, c) = Owners(h, c)
    BY <2>1, <2>7, StringsAssumption, SMT DEF Good, Owners
  <2>11. n = Cardinality(Owners(r, b)) /\ n \in Nat
    <3>1. h.refs[b] = Cardinality(Owners(h, b))
      BY DEF Good
    <3>2. Cardinality(Owners(r, b)) = h.refs[b] - 1
      BY <2>9, <3>1, OwnersCounted, FS_RemoveElement
    <3>3. Cardinality(Owners(r, b)) \in Nat /\ Cardinality(Owners(r, b)) < CountLimit /\ CountLimit \in Nat
      BY OwnersCounted
    <3> QED BY <2>2, <3>2, <3>3, SMT
  <2>12. r.data \in [Strings -> Buffers \cup {NoData}] /\ r.refs \in [Buffers -> Int]
    BY <2>6, <2>7, <2>11, SMT DEF Good
  <2>13. \A c \in h.allocated : c # b => r.refs[c] = Cardinality(Owners(r, c)) /\ r.refs[c] > 0
    BY <2>7, <2>10, SMT DEF Good
  <2>14. CASE n # 0
    <3>1. r.refs[b] = Cardinality(Owners(r, b)) /\ r.refs[b] > 0
      BY <2>6, <2>7, <2>11, <2>14, SMT DEF Good
    <3>2. \A t \in Strings : r.data[t] \in r.allocated \cup {NoData}
      BY <2>7, SMT DEF Good
    <3>3. Good(r)
      BY <2>7, <2>12, <2>13, <3>1, <3>2, Zenon DEF Good
    <3> QED BY <2>5, <2>7, <2>14, <3>3, Zenon
  <2>15. CASE n = 0
    <3>1. Owners(r, b) = {}
      BY <2>11, <2>15, OwnersCounted, FS_EmptySet, Zenon
    <3>2. \A t \in Strings : q.data[t] \in q.allocated \cup {NoData}
      <4>1. \A t \in Strings : r.data[t] # b
        BY <3>1, SMT DEF Owners
      <4>2. \A t \in Strings : r.data[t] \in h.allocated \cup {NoData}
        BY <2>7, SMT DEF Good
      <4> QED BY <2>8, <4>1, <4>2, Zenon
    <3>3. \A c \in q.allocated : q.refs[c] = Cardinality(Owners(q, c)) /\ q.refs[c] > 0
      <4>1. \A c : Owners(q, c) = Owners(r, c)
        BY <2>8, Zenon DEF Owners
      <4> QED BY <2>8, <2>13, <4>1, Zenon
    <3>4. q.allocated \subseteq Buffers
      BY <2>8 DEF Good
    <3>5. Good(q)
      BY <2>8, <2>12, <3>2, <3>3, <3>4, Zenon DEF Good
    <3> QED BY <2>5, <2>7, <2>8, <2>15, <3>5, Zenon
  <2> QED BY <2>14, <2>15
<1> QED BY <1>1, <1>2

\* A copy counts itself as an owner.
LEMMA SharedGood ==
  ASSUME NEW h, Good(h), NEW s \in Strings, NEW t \in Strings
  PROVE  Good(Shared(h, s, t))
<1>1. CASE s = t
  BY <1>1 DEF Shared
<1>2. CASE s # t
  <2>1. PICK r : r = Release(h, s)
    OBVIOUS
  <2>2. Good(r) /\ r.data[s] = NoData
    <3>1. Good(r) /\ r.data = [h.data EXCEPT ![s] = NoData]
      BY <2>1, ReleaseGood, Zenon
    <3>2. h.data \in [Strings -> Buffers \cup {NoData}]
      BY DEF Good
    <3> QED BY <3>1, <3>2, SMT
  <2>3. PICK b : b = r.data[t]
    OBVIOUS
  <2>4. CASE b = NoData
    BY <1>2, <2>1, <2>2, <2>3, <2>4 DEF Shared
  <2>5. CASE b # NoData
    <3>1. PICK q : q = [r EXCEPT !.data[s] = b, !.refs[b] = (@ + 1) % CountLimit]
      OBVIOUS
    <3>2. Shared(h, s, t) = q
      BY <1>2, <2>1, <2>3, <2>5, <3>1 DEF Shared
    <3>3. b \in r.allocated /\ b \in Buffers
      BY <2>2, <2>3, <2>5 DEF Good
    <3>4. PICK n : n = (r.refs[b] + 1) % CountLimit
      OBVIOUS
    <3>5. /\ IsHeap(q) /\ q.data = [r.data EXCEPT ![s] = b] /\ q.refs = [r.refs EXCEPT ![b] = n]
          /\ q.allocated = r.allocated
      BY <2>2, <3>1, <3>4, SMT DEF Good, IsHeap
    <3>6. Owners(q, b) = Owners(r, b) \cup {s} /\ s \notin Owners(r, b)
      BY <2>2, <2>5, <3>5, SMT DEF Good, Owners
    <3>7. \A c \in Buffers : c # b => Owners(q, c) = Owners(r, c)
      BY <2>2, <3>5, StringsAssumption, SMT DEF Good, Owners
    <3>8. n = Cardinality(Owners(q, b)) /\ n \in Nat /\ n > 0
      <4>1. r.refs[b] = Cardinality(Owners(r, b)) /\ r.refs[b] > 0
        BY <2>2, <3>3 DEF Good
      <4>2. Cardinality(Owners(q, b)) = r.refs[b] + 1
        BY <3>6, <4>1, OwnersCounted, FS_AddElement, ZenonT(30)
      <4>3. Cardinality(Owners(q, b)) \in Nat /\ Cardinality(Owners(q, b)) < CountLimit /\ CountLimit \in Nat
        BY OwnersCounted
      <4>4. r.refs[b] \in Nat
        BY <4>1, OwnersCounted
      <4> QED BY <3>4, <4>1, <4>2, <4>3, <4>4, SMT
    <3>9. q.data \in [Strings -> Buffers \cup {NoData}] /\ q.refs \in [Buffers -> Int]
      BY <2>2, <3>3, <3>5, <3>8, SMT DEF Good
    <3>10. \A c \in q.allocated : q.refs[c] = Cardinality(Owners(q, c)) /\ q.refs[c] > 0
      <4>1. q.refs[b] = Cardinality(Owners(q, b)) /\ q.refs[b] > 0
        BY <2>2, <3>3, <3>5, <3>8, SMT DEF Good
      <4>2. \A c \in r.allocated : c # b => q.refs[c] = Cardinality(Owners(q, c)) /\ q.refs[c] > 0
        BY <2>2, <3>5, <3>7, SMT DEF Good
      <4> QED BY <3>5, <4>1, <4>2, Zenon
    <3>11. \A u \in Strings : q.data[u] \in q.allocated \cup {NoData}
      BY <2>2, <3>3, <3>5, SMT DEF Good
    <3>12. q.allocated \subseteq Buffers
      BY <2>2, <3>5 DEF Good
    <3>13. Good(q)
      BY <3>5, <3>9, <3>10, <3>11, <3>12, Zenon DEF Good
    <3> QED BY <3>2, <3>13, Zenon
  <2> QED BY <2>4, <2>5
<1> QED BY <1>1, <1>2

\* There are more buffers than strings, so one is free.
LEMMA BufferFree ==
  ASSUME NEW h, Good(h)
  PROVE  \E b \in Buffers : b \notin h.allocated
<1> SUFFICES ASSUME Buffers \subseteq h.allocated PROVE FALSE
  OBVIOUS
<1>1. /\ IsFiniteSet(Strings) /\ IsFiniteSet(Buffers)
      /\ Cardinality(Strings) < Cardinality(Buffers)
  BY StringsAssumption, Zenon
<1>2. ASSUME NEW b \in Buffers
      PROVE  \E s \in Strings : h.data[s] = b
  <2>1. Cardinality(Owners(h, b)) > 0
    BY DEF Good
  <2>2. Owners(h, b) # {}
    BY <2>1, FS_EmptySet, SMT
  <2> QED BY <2>2 DEF Owners
<1>3. PICK f : f = [b \in Buffers |-> CHOOSE s \in Strings : h.data[s] = b]
  OBVIOUS
<1>4. \A b \in Buffers : f[b] \in Strings /\ h.data[f[b]] = b
  BY <1>2, <1>3, Zenon
<1>5. f \in [Buffers -> Strings]
  BY <1>3, <1>4, Zenon
<1>6. \E b, c \in Buffers : b # c /\ f[b] = f[c]
  BY <1>1, <1>5, FS_PigeonHole
<1> QED BY <1>4, <1>6, Zenon

\* Ensure_Unique_Buffer_Of_Size leaves the string the one owner of a buffer.
LEMMA UniqueGood ==
  ASSUME NEW h, Good(h), NEW s \in Strings, NEW need, NEW new
  PROVE  Good(Unique(h, s, need, new))
<1>1. CASE InPlace(h, s, need)
  <2>1. PICK q : q = [h EXCEPT !.text[h.data[s]] = new]
    OBVIOUS
  <2>2. IsHeap(q) /\ q.data = h.data /\ q.refs = h.refs /\ q.allocated = h.allocated
    BY <2>1, SMT DEF Good, IsHeap
  <2>3. \A c : Owners(q, c) = Owners(h, c)
    BY <2>2, Zenon DEF Owners
  <2>4. Good(q)
    BY <2>2, <2>3, Zenon DEF Good
  <2> QED BY <1>1, <2>1, <2>4, Zenon DEF Unique
<1>2. CASE ~InPlace(h, s, need)
  <2>1. PICK b : b = CHOOSE c \in Buffers \ h.allocated : TRUE
    OBVIOUS
  <2>2. b \in Buffers /\ b \notin h.allocated
    BY <2>1, BufferFree, Zenon
  <2>3. PICK r : r = Release(h, s)
    OBVIOUS
  <2>4. Good(r) /\ r.data[s] = NoData /\ b \notin r.allocated
    <3>1. Good(r) /\ r.data = [h.data EXCEPT ![s] = NoData] /\ r.allocated \subseteq h.allocated
      BY <2>3, ReleaseGood, Zenon
    <3>2. h.data \in [Strings -> Buffers \cup {NoData}]
      BY DEF Good
    <3> QED BY <2>2, <3>1, <3>2, SMT
  <2>5. PICK a : a = ActualSize[need]
    OBVIOUS
  <2>6. PICK q : q = [r EXCEPT !.data[s] = b, !.refs[b] = 1, !.capacity[b] = a,
                               !.text[b] = new, !.allocated = @ \cup {b}]
    OBVIOUS
  <2>7. Unique(h, s, need, new) = q
    BY <1>2, <2>1, <2>3, <2>5, <2>6, Zenon DEF Unique
  <2>8. /\ IsHeap(q) /\ q.data = [r.data EXCEPT ![s] = b] /\ q.refs = [r.refs EXCEPT ![b] = 1]
        /\ q.allocated = r.allocated \cup {b}
    BY <2>4, <2>6, SMT DEF Good, IsHeap
  <2>9. b # NoData
    BY <2>2, StringsAssumption, Zenon
  <2>10. Owners(q, b) = {s}
    BY <2>4, <2>8, <2>9, SMT DEF Good, Owners
  <2>11. \A c \in Buffers : c # b => Owners(q, c) = Owners(r, c)
    BY <2>4, <2>8, StringsAssumption, SMT DEF Good, Owners
  <2>12. q.refs[b] = Cardinality(Owners(q, b)) /\ q.refs[b] > 0
    <3>1. Cardinality({s}) = 1
      BY FS_Singleton
    <3>2. q.refs[b] = 1
      BY <2>2, <2>4, <2>8, SMT DEF Good
    <3> QED BY <2>10, <3>1, <3>2, SMT
  <2>13. \A c \in r.allocated : q.refs[c] = Cardinality(Owners(q, c)) /\ q.refs[c] > 0
    BY <2>4, <2>8, <2>11, SMT DEF Good
  <2>14. q.data \in [Strings -> Buffers \cup {NoData}] /\ q.refs \in [Buffers -> Int]
    BY <2>2, <2>4, <2>8, SMT DEF Good
  <2>15. \A u \in Strings : q.data[u] \in q.allocated \cup {NoData}
    BY <2>4, <2>8, SMT DEF Good
  <2>16. q.allocated \subseteq Buffers
    BY <2>2, <2>4, <2>8, SMT DEF Good
  <2>17. \A c \in q.allocated : q.refs[c] = Cardinality(Owners(q, c)) /\ q.refs[c] > 0
    BY <2>8, <2>12, <2>13, Zenon
  <2>18. Good(q)
    BY <2>8, <2>14, <2>15, <2>16, <2>17, Zenon DEF Good
  <2> QED BY <2>7, <2>18, Zenon
<1> QED BY <1>1, <1>2

\* Set, which frees an empty string's buffer.
LEMMA SetCharsGood ==
  ASSUME NEW h, Good(h), NEW s \in Strings, NEW v
  PROVE  Good(SetChars(h, s, v))
BY ReleaseGood, UniqueGood, Zenon DEF SetChars

\* An operation leaves the heap that its steps lead to.
LEMMA BecomeGood ==
  ASSUME NEW h, Good(h), Become(h)
  PROVE  Good(Now)'
<1>1. /\ data' = h.data /\ refs' = h.refs /\ allocated' = h.allocated
  BY DEF Become
<1>2. /\ Now'.data = h.data /\ Now'.refs = h.refs /\ Now'.allocated = h.allocated
      /\ DOMAIN Now' = {"data", "refs", "capacity", "text", "allocated"}
  BY <1>1, SMT DEF Now
<1>3. \A b : Owners(Now', b) = Owners(h, b)
  BY <1>2, Zenon DEF Owners
<1>4. Good(Now')
  BY <1>2, <1>3, Zenon DEF Good, IsHeap
<1> QED BY <1>4, Zenon DEF Good, IsHeap, Owners

-----------------------------------------------------------------------------

\* The invariant holds at first.
LEMMA InitGood == Init => Good(Now)
<1> SUFFICES ASSUME Init PROVE Good(Now)
  OBVIOUS
<1>1. Now = [data |-> data, refs |-> refs, capacity |-> capacity, text |-> text, allocated |-> allocated]
  BY DEF Now
<1>2. IsHeap(Now) /\ Now.data = data /\ Now.refs = refs /\ Now.allocated = {}
  BY <1>1, SMT DEF IsHeap, Init
<1>3. /\ data \in [Strings -> Buffers \cup {NoData}] /\ refs \in [Buffers -> Int]
      /\ \A s \in Strings : data[s] = NoData
  BY SMT DEF Init
<1> QED BY <1>2, <1>3, SMT DEF Good

\* Every operation keeps the invariant: the larger ones are chains of the smaller.
LEMMA NextGood == Good(Now) /\ [Next]_vars => Good(Now)'
<1> SUFFICES ASSUME Good(Now), [Next]_vars PROVE Good(Now)'
  OBVIOUS
<1>1. ASSUME NEW s \in Strings, Clear(s)
      PROVE  Good(Now)'
  BY <1>1, ReleaseGood, BecomeGood, Zenon DEF Clear
<1>2. ASSUME NEW s \in Strings, RemoveLastChar(s)
      PROVE  Good(Now)'
  <2>1. Good(LastRemoved(Now, s))
    BY UniqueGood, Zenon DEF LastRemoved
  <2> QED BY <1>2, <2>1, BecomeGood, Zenon DEF RemoveLastChar
<1>3. ASSUME NEW s \in Strings, Trim(s)
      PROVE  Good(Now)'
  <2>1. PICK v, lead : /\ v = TextOf(Now, s)
                       /\ lead = IF NonSpace(v) = {} THEN Len(v) ELSE First(NonSpace(v)) - 1
    OBVIOUS
  <2>2. PICK h : h = IF lead > 0 THEN SetChars(Now, s, From(v, lead + 1)) ELSE Now
    OBVIOUS
  <2>3. Good(h)
    BY <2>2, SetCharsGood, Zenon
  <2>4. PICK w : w = TextOf(h, s)
    OBVIOUS
  <2>5. PICK q : q = IF w = << >> \/ w[Len(w)] # Space THEN h
                     ELSE Unique(h, s, Len(w) + 1, SubSeq(w, 1, Last(NonSpace(w))))
    OBVIOUS
  <2>6. Good(q)
    BY <2>3, <2>5, UniqueGood, Zenon
  <2>7. Become(q)
    BY <1>3, <2>1, <2>2, <2>4, <2>5, Zenon DEF Trim
  <2> QED BY <2>6, <2>7, BecomeGood, Zenon
<1>4. ASSUME NEW s \in Strings, NEW v, Set(s, v)
      PROVE  Good(Now)'
  BY <1>4, SetCharsGood, BecomeGood, Zenon DEF Set
<1>5. ASSUME NEW s \in Strings, NEW v, Concat(s, v)
      PROVE  Good(Now)'
  <2>1. Good(Appended(Now, s, v))
    BY SetCharsGood, UniqueGood, Zenon DEF Appended
  <2> QED BY <1>5, <2>1, BecomeGood, Zenon DEF Concat
<1>6. ASSUME NEW s \in Strings, NEW v, FillBuffer(s, v)
      PROVE  Good(Now)'
  <2>1. Good(Buffered(Now, s, Len(v), v))
    BY UniqueGood, Zenon DEF Buffered
  <2> QED BY <1>6, <2>1, BecomeGood, Zenon DEF FillBuffer
<1>7. ASSUME NEW s \in Strings, NEW t \in Strings, SetString(s, t)
      PROVE  Good(Now)'
  BY <1>7, SharedGood, BecomeGood, Zenon DEF SetString
<1>8. ASSUME NEW s \in Strings, NEW t \in Strings, ConcatString(s, t)
      PROVE  Good(Now)'
  BY <1>5, <1>8, Zenon DEF ConcatString
<1>9. ASSUME NEW s \in Strings, NEW t \in Strings, NextToken(s, t)
      PROVE  Good(Now)'
  <2>1. PICK v : v = TextOf(Now, s)
    OBVIOUS
  <2>2. CASE NonSpace(v) = {}
    <3>1. Good(Release(Release(Now, s), t))
      BY ReleaseGood, Zenon
    <3> QED BY <1>9, <2>1, <2>2, <3>1, BecomeGood, Zenon DEF NextToken
  <2>3. CASE NonSpace(v) # {}
    <3>1. PICK start : start = First(NonSpace(v))
      OBVIOUS
    <3>2. PICK end : end = First({i \in start..Len(v) : v[i] = Space} \cup {Len(v) + 1})
      OBVIOUS
    <3>3. PICK word : word = SubSeq(v, start, end - 1)
      OBVIOUS
    <3>4. PICK h : h = Buffered(Now, t, Len(word) + 1, word)
      OBVIOUS
    <3>5. Good(h)
      BY <3>4, UniqueGood, Zenon DEF Buffered
    <3>6. Good(SetChars(h, s, From(v, end)))
      BY <3>5, SetCharsGood, Zenon
    <3>7. Become(SetChars(h, s, From(v, end)))
      BY <1>9, <2>1, <2>3, <3>1, <3>2, <3>3, <3>4, Zenon DEF NextToken
    <3> QED BY <3>6, <3>7, BecomeGood, Zenon
  <2> QED BY <2>2, <2>3
<1>10. CASE UNCHANGED vars
  <2>1. /\ data' = data /\ refs' = refs /\ capacity' = capacity /\ text' = text
        /\ allocated' = allocated
    BY <1>10 DEF vars
  <2>2. Now' = Now
    BY <2>1, Zenon DEF Now
  <2> QED BY <2>2, Zenon DEF Good, IsHeap, Owners
<1> QED
  BY <1>1, <1>2, <1>3, <1>4, <1>5, <1>6, <1>7, <1>8, <1>9, <1>10, Zenon DEF Next

\* No buffer is freed under a string, twice or never: for any strings and buffers,
\* and any texts, a buffer that is allocated has as many owners as it counts.
THEOREM BuffersOwned == Spec => []CountsOwners
<1>1. Init => Good(Now)
  BY InitGood
<1>2. Good(Now) /\ [Next]_vars => Good(Now)'
  BY NextGood
<1>3. Good(Now) => CountsOwners
  <2> SUFFICES ASSUME Good(Now) PROVE CountsOwners
    OBVIOUS
  <2>1. Now.data = data /\ Now.refs = refs /\ Now.allocated = allocated
    BY SMT DEF Now
  <2> QED BY <2>1, Zenon DEF Good, CountsOwners
<1> QED BY <1>1, <1>2, <1>3, PTL DEF Spec

-----------------------------------------------------------------------------

\* The texts of bounded length, and the heaps where each is within its buffer.
Short == {v \in Seq(Chars) : Len(v) <= MaxLength}
Fit(h) ==
  /\ h.text \in [Buffers -> Short] /\ h.capacity \in [Buffers -> Nat]
  /\ \A b \in h.allocated : Len(h.text[b]) + 1 <= h.capacity[b]

\* A function that is changed at one point keeps its type.
LEMMA ChangedIn ==
  ASSUME NEW S, NEW T, NEW f \in [S -> T], NEW b, NEW x \in T
  PROVE  [f EXCEPT ![b] = x] \in [S -> T]
OBVIOUS

\* A set of numbers that is not empty has a least one.
LEMMA Least ==
  ASSUME NEW T, T \subseteq Nat, T # {}
  PROVE  \E x \in T : \A y \in T : x <= y
<1>1. PICK R : R = OpToRel(<, Nat)
  OBVIOUS
<1>2. IsWellFoundedOn(R, Nat)
  BY <1>1, NatLessThanWellFounded
<1>3. PICK x \in T : \A y \in T : ~(<<y, x>> \in R)
  BY <1>2, WFMin
<1>4. \A y \in T : ~(y < x)
  <2> SUFFICES ASSUME NEW y \in T, y < x PROVE FALSE
    OBVIOUS
  <2>1. R = {ss \in Nat \X Nat : ss[1] < ss[2]}
    BY <1>1 DEF OpToRel
  <2>2. <<y, x>> \in Nat \X Nat
    OBVIOUS
  <2>3. <<y, x>>[1] = y /\ <<y, x>>[2] = x
    OBVIOUS
  <2> QED BY <1>3, <2>1, <2>2, <2>3
<1> QED BY <1>4, SMT

\* The first and the last of a set of positions.
LEMMA Positions ==
  ASSUME NEW n \in Nat, NEW S, S \subseteq 1..n, S # {}
  PROVE  /\ First(S) \in S /\ Last(S) \in S
         /\ \A y \in S : First(S) <= y /\ y <= Last(S)
<1>1. \E x \in S : \A y \in S : x <= y
  BY Least, S \subseteq Nat
<1>2. \E x \in S : \A y \in S : x >= y
  <2>1. PICK T : T = {n - y : y \in S}
    OBVIOUS
  <2>2. T \subseteq Nat /\ T # {}
    <3>1. \A y \in S : n - y \in Nat
      OBVIOUS
    <3> QED BY <2>1, <3>1, Zenon
  <2>3. PICK t \in T : \A u \in T : t <= u
    BY <2>2, Least
  <2>4. PICK x \in S : t = n - x
    BY <2>1
  <2>5. \A y \in S : n - y \in T
    BY <2>1
  <2>6. \A y \in S : x >= y
    BY <2>3, <2>4, <2>5, SMT
  <2> QED BY <2>6
<1>3. First(S) \in S /\ \A y \in S : First(S) <= y
  BY <1>1, Zenon DEF First
<1>4. Last(S) \in S /\ \A y \in S : Last(S) >= y
  BY <1>2, Zenon DEF Last
<1> QED BY <1>3, <1>4, SMT

\* A part of a text is as short as the text.
LEMMA PartShort ==
  ASSUME NEW v \in Short, NEW i \in 1..(Len(v) + 1), NEW j \in 0..Len(v)
  PROVE  SubSeq(v, i, j) \in Short /\ Len(SubSeq(v, i, j)) <= Len(v)
<1>1. v \in Seq(Chars) /\ Len(v) <= MaxLength /\ Len(v) \in Nat /\ MaxLength \in Nat
  BY StringsAssumption DEF Short
<1>2. \A k \in i..j : v[k] \in Chars
  BY <1>1, SMT
<1>3. SubSeq(v, i, j) \in Seq(Chars) /\ Len(SubSeq(v, i, j)) = IF i <= j THEN j - i + 1 ELSE 0
  BY <1>1, <1>2, SMT
<1>4. Len(SubSeq(v, i, j)) <= Len(v)
  BY <1>1, <1>3, SMT
<1> QED BY <1>1, <1>3, <1>4, SMT DEF Short

\* What a string holds is short.
LEMMA TextShort ==
  ASSUME NEW h, Good(h), Fit(h), NEW s \in Strings
  PROVE  TextOf(h, s) \in Short
<1>1. << >> \in Short
  BY StringsAssumption, SMT DEF Short
<1>2. CASE h.data[s] # NoData
  BY <1>2 DEF TextOf, Good, Fit
<1> QED BY <1>1, <1>2 DEF TextOf

\* Release_Buffer empties a buffer at most.
LEMMA ReleaseFits ==
  ASSUME NEW h, Good(h), Fit(h), NEW s \in Strings
  PROVE  Fit(Release(h, s))
<1>1. CASE h.data[s] = NoData
  BY <1>1 DEF Release
<1>2. CASE h.data[s] # NoData
  <2>1. PICK b : b = h.data[s]
    OBVIOUS
  <2>2. PICK n : n = (h.refs[b] - 1) % CountLimit
    OBVIOUS
  <2>3. PICK r : r = [h EXCEPT !.refs[b] = n, !.data[s] = NoData]
    OBVIOUS
  <2>4. PICK q : q = [r EXCEPT !.allocated = @ \ {b}, !.capacity[b] = 0, !.text[b] = << >>]
    OBVIOUS
  <2>5. Release(h, s) = IF n # 0 THEN r ELSE q
    BY <1>2, <2>1, <2>2, <2>3, <2>4 DEF Release
  <2>6. /\ r.text = h.text /\ r.capacity = h.capacity /\ r.allocated = h.allocated
        /\ DOMAIN r = DOMAIN h
    BY <2>3, SMT DEF Good, IsHeap
  <2>7. /\ q.text = [h.text EXCEPT ![b] = << >>] /\ q.capacity = [h.capacity EXCEPT ![b] = 0]
        /\ q.allocated = h.allocated \ {b}
    BY <2>4, <2>6, SMT DEF Good, IsHeap
  <2>8. Fit(r)
    BY <2>6 DEF Fit
  <2>9. Fit(q)
    <3>1. << >> \in Short
      BY StringsAssumption, SMT DEF Short
    <3>2. q.text \in [Buffers -> Short] /\ q.capacity \in [Buffers -> Nat]
      <4>1. h.text \in [Buffers -> Short] /\ h.capacity \in [Buffers -> Nat] /\ 0 \in Nat
        BY SMT DEF Fit
      <4>2. [h.text EXCEPT ![b] = << >>] \in [Buffers -> Short]
        BY <3>1, <4>1, ChangedIn, Zenon
      <4>3. [h.capacity EXCEPT ![b] = 0] \in [Buffers -> Nat]
        BY <4>1, ChangedIn, Zenon
      <4> QED BY <2>7, <4>2, <4>3, Zenon
    <3>3. \A c \in q.allocated : q.text[c] = h.text[c] /\ q.capacity[c] = h.capacity[c]
      BY <2>7, SMT DEF Fit, Good
    <3>4. q.allocated \subseteq h.allocated
      BY <2>7
    <3> QED BY <3>2, <3>3, <3>4, Zenon DEF Fit
  <2> QED BY <2>5, <2>8, <2>9
<1> QED BY <1>1, <1>2

\* A copy writes nothing.
LEMMA SharedFits ==
  ASSUME NEW h, Good(h), Fit(h), NEW s \in Strings, NEW t \in Strings
  PROVE  Fit(Shared(h, s, t))
<1>1. CASE s = t
  BY <1>1 DEF Shared
<1>2. CASE s # t
  <2>1. PICK r : r = Release(h, s)
    OBVIOUS
  <2>2. Good(r) /\ Fit(r)
    BY <2>1, ReleaseGood, ReleaseFits, Zenon
  <2>3. PICK b : b = r.data[t]
    OBVIOUS
  <2>4. PICK q : q = [r EXCEPT !.data[s] = b, !.refs[b] = (@ + 1) % CountLimit]
    OBVIOUS
  <2>5. Shared(h, s, t) = IF b = NoData THEN r ELSE q
    BY <1>2, <2>1, <2>3, <2>4 DEF Shared
  <2>6. q.text = r.text /\ q.capacity = r.capacity /\ q.allocated = r.allocated
    BY <2>2, <2>4, SMT DEF Good, IsHeap
  <2>7. Fit(q)
    BY <2>2, <2>6 DEF Fit
  <2> QED BY <2>2, <2>5, <2>7
<1> QED BY <1>1, <1>2

\* A new buffer is as large as asked for, and one that is kept was large enough.
LEMMA UniqueFits ==
  ASSUME NEW h, Good(h), Fit(h), NEW s \in Strings, NEW new \in Short,
         NEW need \in 1..(MaxLength + 2), Len(new) + 1 <= need
  PROVE  Fit(Unique(h, s, need, new))
<1>1. Len(new) \in Nat /\ MaxLength \in Nat
  BY StringsAssumption DEF Short
<1>2. CASE InPlace(h, s, need)
  <2>1. PICK b \in h.allocated : b = h.data[s]
    BY <1>2 DEF Good, InPlace
  <2>2. PICK q : q = [h EXCEPT !.text[b] = new]
    OBVIOUS
  <2>3. q.text = [h.text EXCEPT ![b] = new] /\ q.capacity = h.capacity /\ q.allocated = h.allocated
    BY <2>2, SMT DEF Good, IsHeap
  <2>4. h.capacity[b] >= need /\ h.capacity[b] \in Nat /\ b \in Buffers
    BY <1>2, <2>1 DEF InPlace, Fit, Good
  <2>5. q.text \in [Buffers -> Short] /\ q.capacity \in [Buffers -> Nat]
    BY <2>3, ChangedIn, Zenon DEF Fit
  <2>6. q.text[b] = new /\ \A c \in h.allocated : c # b => q.text[c] = h.text[c]
    BY <2>3, <2>4, SMT DEF Fit, Good
  <2>7. Len(q.text[b]) + 1 <= q.capacity[b]
    BY <1>1, <2>3, <2>4, <2>6, SMT
  <2>8. \A c \in q.allocated : Len(q.text[c]) + 1 <= q.capacity[c]
    BY <2>3, <2>6, <2>7, Zenon DEF Fit
  <2>9. Fit(q)
    BY <2>5, <2>8, Zenon DEF Fit
  <2> QED BY <1>2, <2>1, <2>2, <2>9, Zenon DEF Unique
<1>3. CASE ~InPlace(h, s, need)
  <2>1. PICK b : b = CHOOSE c \in Buffers \ h.allocated : TRUE
    OBVIOUS
  <2>2. b \in Buffers /\ b \notin h.allocated
    BY <2>1, BufferFree, Zenon
  <2>3. PICK r : r = Release(h, s)
    OBVIOUS
  <2>4. Good(r) /\ Fit(r) /\ r.allocated \subseteq h.allocated
    BY <2>3, ReleaseGood, ReleaseFits, Zenon
  <2>5. PICK a : a = ActualSize[need]
    OBVIOUS
  <2>6. PICK q : q = [r EXCEPT !.data[s] = b, !.refs[b] = 1, !.capacity[b] = a,
                               !.text[b] = new, !.allocated = @ \cup {b}]
    OBVIOUS
  <2>7. Unique(h, s, need, new) = q
    BY <1>3, <2>1, <2>3, <2>5, <2>6, Zenon DEF Unique
  <2>8. /\ q.text = [r.text EXCEPT ![b] = new] /\ q.capacity = [r.capacity EXCEPT ![b] = a]
        /\ q.allocated = r.allocated \cup {b}
    BY <2>4, <2>6, SMT DEF Good, IsHeap
  <2>9. a \in Nat /\ a >= need
    <3>1. /\ ActualSize \in [1..(MaxLength + 2) -> Nat]
          /\ \A n \in 1..(MaxLength + 2) : ActualSize[n] >= n
      BY StringsAssumption, Zenon
    <3> QED BY <2>5, <3>1
  <2>10. q.text \in [Buffers -> Short] /\ q.capacity \in [Buffers -> Nat]
    <3>1. r.text \in [Buffers -> Short] /\ r.capacity \in [Buffers -> Nat]
      BY <2>4, Zenon DEF Fit
    <3>2. [r.text EXCEPT ![b] = new] \in [Buffers -> Short]
      BY <3>1, ChangedIn, Zenon
    <3>3. [r.capacity EXCEPT ![b] = a] \in [Buffers -> Nat]
      BY <2>9, <3>1, ChangedIn, Zenon
    <3> QED BY <2>8, <3>2, <3>3, Zenon
  <2>11. q.text[b] = new /\ q.capacity[b] = a
    BY <2>2, <2>4, <2>8, SMT DEF Fit
  <2>12. \A c \in r.allocated : q.text[c] = r.text[c] /\ q.capacity[c] = r.capacity[c]
    BY <2>2, <2>4, <2>8, SMT DEF Fit, Good
  <2>13. Len(q.text[b]) + 1 <= q.capacity[b]
    BY <1>1, <2>9, <2>11, SMT
  <2>14. \A c \in q.allocated : Len(q.text[c]) + 1 <= q.capacity[c]
    BY <2>4, <2>8, <2>12, <2>13, Zenon DEF Fit
  <2>15. Fit(q)
    BY <2>10, <2>14, Zenon DEF Fit
  <2> QED BY <2>7, <2>15, Zenon
<1> QED BY <1>2, <1>3

\* A string that has been set has the text that it was set to.
LEMMA SetText ==
  ASSUME NEW h, Good(h), Fit(h), NEW s \in Strings, NEW v \in Short
  PROVE  TextOf(SetChars(h, s, v), s) = v
<1>1. CASE v = << >>
  <2>1. Release(h, s).data = [h.data EXCEPT ![s] = NoData]
    BY ReleaseGood
  <2>2. Release(h, s).data[s] = NoData
    BY <2>1 DEF Good
  <2> QED BY <1>1, <2>2 DEF SetChars, TextOf
<1>2. CASE v # << >>
  <2>1. PICK need : need = Len(v) + 1
    OBVIOUS
  <2>2. SetChars(h, s, v) = Unique(h, s, need, v)
    BY <1>2, <2>1 DEF SetChars
  <2>3. CASE InPlace(h, s, need)
    <3>1. PICK b \in h.allocated : b = h.data[s]
      BY <2>3 DEF Good, InPlace
    <3>2. PICK q : q = [h EXCEPT !.text[b] = v]
      OBVIOUS
    <3>3. q.text = [h.text EXCEPT ![b] = v] /\ q.data = h.data
      BY <3>2, SMT DEF Good, IsHeap
    <3>4. q.text[b] = v
      BY <3>3, SMT DEF Fit, Good
    <3>5. b # NoData
      BY StringsAssumption DEF Good
    <3>6. Unique(h, s, need, v) = q
      BY <2>3, <3>1, <3>2, Zenon DEF Unique
    <3> QED BY <2>2, <3>1, <3>3, <3>4, <3>5, <3>6, Zenon DEF TextOf
  <2>4. CASE ~InPlace(h, s, need)
    <3>1. PICK b : b = CHOOSE c \in Buffers \ h.allocated : TRUE
      OBVIOUS
    <3>2. b \in Buffers /\ b # NoData
      BY <3>1, BufferFree, StringsAssumption, Zenon
    <3>3. PICK r : r = Release(h, s)
      OBVIOUS
    <3>4. Good(r) /\ Fit(r)
      BY <3>3, ReleaseGood, ReleaseFits, Zenon
    <3>5. PICK a : a = ActualSize[need]
      OBVIOUS
    <3>6. PICK q : q = [r EXCEPT !.data[s] = b, !.refs[b] = 1, !.capacity[b] = a,
                                 !.text[b] = v, !.allocated = @ \cup {b}]
      OBVIOUS
    <3>7. Unique(h, s, need, v) = q
      BY <2>4, <3>1, <3>3, <3>5, <3>6, Zenon DEF Unique
    <3>8. q.text = [r.text EXCEPT ![b] = v] /\ q.data = [r.data EXCEPT ![s] = b]
      BY <3>4, <3>6, SMT DEF Good, IsHeap
    <3>9. q.text[b] = v
      BY <3>2, <3>4, <3>8, SMT DEF Fit
    <3>10. q.data[s] = b
      BY <3>4, <3>8, SMT DEF Good
    <3> QED BY <2>2, <3>2, <3>7, <3>9, <3>10, Zenon DEF TextOf
  <2> QED BY <2>3, <2>4
<1> QED BY <1>1, <1>2

\* Set asks for the room that the text and its terminator need.
LEMMA SetCharsFits ==
  ASSUME NEW h, Good(h), Fit(h), NEW s \in Strings, NEW v \in Short
  PROVE  Fit(SetChars(h, s, v))
<1>1. Len(v) + 1 \in 1..(MaxLength + 2) /\ Len(v) + 1 <= Len(v) + 1
  BY StringsAssumption, SMT DEF Short
<1>2. Fit(Unique(h, s, Len(v) + 1, v))
  BY <1>1, UniqueFits, Zenon
<1> QED BY <1>2, ReleaseFits, Zenon DEF SetChars

\* An operation leaves the heap that its steps lead to.
LEMMA BecomeFits ==
  ASSUME NEW h, Fit(h), Become(h)
  PROVE  Fit(Now)'
<1>1. Now'.text = h.text /\ Now'.capacity = h.capacity /\ Now'.allocated = h.allocated
  BY SMT DEF Become, Now
<1>2. Fit(Now')
  BY <1>1, Zenon DEF Fit
<1> QED BY <1>2, Zenon DEF Fit

-----------------------------------------------------------------------------

\* What the operations cut off is a part of a text.
LEMMA Cut ==
  ASSUME NEW v \in Short
  PROVE  /\ Len(v) \in Nat /\ Len(v) <= MaxLength
         /\ \A i \in 1..(Len(v) + 1) : From(v, i) \in Short
         /\ NonSpace(v) # {} => First(NonSpace(v)) \in 1..Len(v) /\ Last(NonSpace(v)) \in 1..Len(v)
<1>1. Len(v) \in Nat /\ Len(v) <= MaxLength
  BY DEF Short
<1>2. \A i \in 1..(Len(v) + 1) : From(v, i) \in Short
  BY <1>1, PartShort DEF From
<1>3. NonSpace(v) # {} => First(NonSpace(v)) \in 1..Len(v) /\ Last(NonSpace(v)) \in 1..Len(v)
  <2>1. NonSpace(v) \subseteq 1..Len(v)
    BY DEF NonSpace
  <2> QED BY <1>1, <2>1, Positions
<1> QED BY <1>1, <1>2, <1>3

\* A room of one or two characters more than the text is one that ActualSize knows.
LEMMA Room ==
  ASSUME NEW v \in Short
  PROVE  /\ Len(v) + 1 \in 1..(MaxLength + 2) /\ Len(v) + 1 <= Len(v) + 1
         /\ Len(v) + 2 \in 1..(MaxLength + 2) /\ Len(v) + 1 <= Len(v) + 2
         /\ Len(v) + 1 + 1 = Len(v) + 2
<1>1. Len(v) \in Nat /\ Len(v) <= MaxLength /\ MaxLength \in Nat
  BY StringsAssumption DEF Short
<1> QED BY <1>1, SMT

\* Get_Buffer_For_Read asks for the terminator's room, and Next_Token for one more.
LEMMA BufferedFits ==
  ASSUME NEW h, Good(h), Fit(h), NEW s \in Strings, NEW v \in Short
  PROVE  /\ Fit(Buffered(h, s, Len(v), v))
         /\ Fit(Buffered(h, s, Len(v) + 1, v))
BY Room, UniqueFits, Zenon DEF Buffered

\* Concat with a text that the bound leaves room for.
LEMMA AppendedFits ==
  ASSUME NEW h, Good(h), Fit(h), NEW s \in Strings, NEW v \in Short,
         Len(TextOf(h, s)) + Len(v) <= MaxLength
  PROVE  Fit(Appended(h, s, v))
<1>1. PICK w : w = TextOf(h, s)
  OBVIOUS
<1>2. w \in Short
  BY <1>1, TextShort
<1>3. /\ Len(v) \in Nat /\ Len(w) \in Nat /\ MaxLength \in Nat
      /\ v \in Seq(Chars) /\ w \in Seq(Chars)
  BY <1>2, StringsAssumption DEF Short
<1>4. w \o v \in Seq(Chars) /\ Len(w \o v) = Len(w) + Len(v)
  BY <1>3, SMT
<1>5. /\ w \o v \in Short /\ Len(w) + Len(v) + 1 \in 1..(MaxLength + 2)
      /\ Len(w \o v) + 1 <= Len(w) + Len(v) + 1
  BY <1>1, <1>3, <1>4, SMT DEF Short
<1>6. Fit(Unique(h, s, Len(w) + Len(v) + 1, w \o v))
  BY <1>5, UniqueFits, Zenon
<1> QED BY <1>1, <1>6, SetCharsFits, Zenon DEF Appended, Needed

\* Remove_Last_Char.
LEMMA LastRemovedFits ==
  ASSUME NEW h, Good(h), Fit(h), NEW s \in Strings
  PROVE  Fit(LastRemoved(h, s))
<1>1. PICK v : v = TextOf(h, s)
  OBVIOUS
<1>2. v \in Short
  BY <1>1, TextShort
<1>3. CASE v = << >>
  BY <1>1, <1>3 DEF LastRemoved
<1>4. CASE v # << >>
  <2>1. PICK w : w = SubSeq(v, 1, Len(v) - 1)
    OBVIOUS
  <2>2. Len(v) \in Nat /\ Len(v) # 0
    BY <1>2, <1>4, SMT DEF Short
  <2>3. 1 \in 1..(Len(v) + 1) /\ Len(v) - 1 \in 0..Len(v)
    BY <2>2, SMT
  <2>4. w \in Short /\ Len(w) <= Len(v)
    BY <1>2, <2>1, <2>3, PartShort, Zenon
  <2>5. Len(w) \in Nat
    BY <2>4 DEF Short
  <2>6. Len(v) + 1 \in 1..(MaxLength + 2)
    BY <1>2, Room, Zenon
  <2>7. Len(w) + 1 <= Len(v) + 1
    BY <2>2, <2>4, <2>5, SMT
  <2>8. Fit(Unique(h, s, Len(v) + 1, w))
    BY <2>4, <2>6, <2>7, UniqueFits, Zenon
  <2> QED BY <1>1, <1>4, <2>1, <2>8, Zenon DEF LastRemoved
<1> QED BY <1>3, <1>4

\* At first no buffer is allocated.
LEMMA InitFits == Init => Fit(Now)
<1> SUFFICES ASSUME Init PROVE Fit(Now)
  OBVIOUS
<1>1. Now.text = text /\ Now.capacity = capacity /\ Now.allocated = {}
  BY SMT DEF Now, Init
<1>2. << >> \in Short
  BY StringsAssumption, SMT DEF Short
<1>3. text \in [Buffers -> Short] /\ capacity \in [Buffers -> Nat]
  BY <1>2 DEF Init
<1> QED BY <1>1, <1>3, Zenon DEF Fit

\* What callers pass is short.
LEMMA TextsShort == ASSUME NEW v \in Texts PROVE v \in Short
BY StringsAssumption DEF Short

\* Every operation keeps the texts within their buffers.
LEMMA NextFits == Good(Now) /\ Fit(Now) /\ [Next]_vars => Fit(Now)'
<1> SUFFICES ASSUME Good(Now), Fit(Now), [Next]_vars PROVE Fit(Now)'
  OBVIOUS
<1>1. ASSUME NEW s \in Strings, Clear(s)
      PROVE  Fit(Now)'
  BY <1>1, ReleaseFits, BecomeFits, Zenon DEF Clear
<1>2. ASSUME NEW s \in Strings, RemoveLastChar(s)
      PROVE  Fit(Now)'
  BY <1>2, LastRemovedFits, BecomeFits, Zenon DEF RemoveLastChar
<1>3. ASSUME NEW s \in Strings, Trim(s)
      PROVE  Fit(Now)'
  <2>1. PICK v, lead : /\ v = TextOf(Now, s)
                       /\ lead = IF NonSpace(v) = {} THEN Len(v) ELSE First(NonSpace(v)) - 1
    OBVIOUS
  <2>2. v \in Short
    BY <2>1, TextShort
  <2>3. lead \in Nat /\ lead + 1 \in 1..(Len(v) + 1)
    <3>1. Len(v) \in Nat /\ (NonSpace(v) # {} => First(NonSpace(v)) \in 1..Len(v))
      BY <2>2, Cut, Zenon
    <3> QED BY <2>1, <3>1, SMT
  <2>4. PICK h : h = IF lead > 0 THEN SetChars(Now, s, From(v, lead + 1)) ELSE Now
    OBVIOUS
  <2>5. From(v, lead + 1) \in Short
    BY <2>2, <2>3, Cut, Zenon
  <2>6. Good(h) /\ Fit(h)
    BY <2>4, <2>5, SetCharsGood, SetCharsFits, Zenon
  <2>7. PICK w : w = TextOf(h, s)
    OBVIOUS
  <2>8. w \in Short
    BY <2>6, <2>7, TextShort
  <2>9. PICK q : q = IF w = << >> \/ w[Len(w)] # Space THEN h
                     ELSE Unique(h, s, Len(w) + 1, SubSeq(w, 1, Last(NonSpace(w))))
    OBVIOUS
  <2>10. w # << >> => NonSpace(w) # {}
    <3>0. Len(v) \in Nat /\ v \in Seq(Chars)
      BY <2>2 DEF Short
    <3>1. CASE lead = 0
      <4>1. w = v
        BY <2>1, <2>4, <2>7, <3>1, SMT
      <4>2. v = << >> \/ NonSpace(v) # {}
        BY <2>1, <3>0, <3>1, SMT
      <4> QED BY <4>1, <4>2
    <3>2. CASE lead # 0
      <4>1. lead > 0 /\ lead \in Nat
        BY <2>3, <3>0, <3>2, SMT
      <4>2. w = From(v, lead + 1)
        BY <2>4, <2>5, <2>7, <4>1, SetText, Zenon
      <4>3. CASE NonSpace(v) = {}
        <5>1. w = << >>
          BY <2>1, <3>0, <4>2, <4>3, SMT DEF From
        <5> QED BY <5>1
      <4>4. CASE NonSpace(v) # {}
        <5>1. First(NonSpace(v)) \in NonSpace(v)
          <6>1. NonSpace(v) \subseteq 1..Len(v)
            BY DEF NonSpace
          <6> QED BY <3>0, <4>4, <6>1, Positions
        <5>2. lead + 1 \in 1..Len(v) /\ v[lead + 1] # Space
          <6>1. \A i \in NonSpace(v) : i \in 1..Len(v) /\ v[i] # Space
            BY DEF NonSpace
          <6>2. First(NonSpace(v)) \in 1..Len(v)
            BY <5>1, <6>1
          <6>3. lead + 1 = First(NonSpace(v))
            BY <2>1, <3>0, <4>4, <6>2, SMT
          <6> QED BY <5>1, <6>1, <6>3
        <5>3. Len(w) = Len(v) - lead /\ w[1] = v[lead + 1]
          BY <3>0, <4>1, <4>2, <5>2, SMT DEF From
        <5>4. 1 \in NonSpace(w)
          BY <3>0, <4>1, <5>2, <5>3, SMT DEF NonSpace
        <5> QED BY <5>4
      <4> QED BY <4>3, <4>4
    <3> QED BY <3>1, <3>2
  <2>11. Fit(q)
    <3>1. CASE w = << >> \/ w[Len(w)] # Space
      BY <2>6, <2>9, <3>1
    <3>2. CASE ~(w = << >> \/ w[Len(w)] # Space)
      <4>1. PICK n, x : n = Last(NonSpace(w)) /\ x = SubSeq(w, 1, n)
        OBVIOUS
      <4>2. n \in 1..Len(w)
        BY <2>8, <2>10, <3>2, <4>1, Cut, Zenon
      <4>3. Len(w) \in Nat
        BY <2>8, Cut
      <4>4. n \in 0..Len(w) /\ 1 \in 1..(Len(w) + 1)
        BY <4>2, <4>3, SMT
      <4>5. x \in Short /\ Len(x) <= Len(w)
        BY <2>8, <4>1, <4>4, PartShort, Zenon
      <4>6. Len(x) \in Nat
        BY <4>5, Cut
      <4>7. Len(x) + 1 <= Len(w) + 1
        BY <4>3, <4>5, <4>6, SMT
      <4>8. Len(w) + 1 \in 1..(MaxLength + 2)
        BY <2>8, Room, Zenon
      <4>9. Fit(Unique(h, s, Len(w) + 1, x))
        BY <2>6, <4>5, <4>7, <4>8, UniqueFits, Zenon
      <4> QED BY <2>9, <3>2, <4>1, <4>9, Zenon
    <3> QED BY <3>1, <3>2
  <2>12. Become(q)
    BY <1>3, <2>1, <2>4, <2>7, <2>9, Zenon DEF Trim
  <2> QED BY <2>11, <2>12, BecomeFits, Zenon
<1>4. ASSUME NEW s \in Strings, NEW v \in Texts, Set(s, v)
      PROVE  Fit(Now)'
  BY <1>4, TextsShort, SetCharsFits, BecomeFits, Zenon DEF Set
<1>5. ASSUME NEW s \in Strings, NEW v \in Short, Concat(s, v)
      PROVE  Fit(Now)'
  BY <1>5, AppendedFits, BecomeFits, Zenon DEF Concat
<1>6. ASSUME NEW s \in Strings, NEW v \in Texts, FillBuffer(s, v)
      PROVE  Fit(Now)'
  BY <1>6, TextsShort, BufferedFits, BecomeFits, Zenon DEF FillBuffer
<1>7. ASSUME NEW s \in Strings, NEW t \in Strings, SetString(s, t)
      PROVE  Fit(Now)'
  BY <1>7, SharedFits, BecomeFits, Zenon DEF SetString
<1>8. ASSUME NEW s \in Strings, NEW t \in Strings, ConcatString(s, t)
      PROVE  Fit(Now)'
  BY <1>5, <1>8, TextShort, Zenon DEF ConcatString
<1>9. ASSUME NEW s \in Strings, NEW t \in Strings, NextToken(s, t)
      PROVE  Fit(Now)'
  <2>1. PICK v : v = TextOf(Now, s)
    OBVIOUS
  <2>2. v \in Short
    BY <2>1, TextShort
  <2>3. CASE NonSpace(v) = {}
    <3>1. Fit(Release(Release(Now, s), t))
      BY ReleaseGood, ReleaseFits, Zenon
    <3> QED BY <1>9, <2>1, <2>3, <3>1, BecomeFits, Zenon DEF NextToken
  <2>4. CASE NonSpace(v) # {}
    <3>1. PICK start, S : start = First(NonSpace(v)) /\ S = {i \in start..Len(v) : v[i] = Space} \cup {Len(v) + 1}
      OBVIOUS
    <3>2. PICK end, word : end = First(S) /\ word = SubSeq(v, start, end - 1)
      OBVIOUS
    <3>3. Len(v) \in Nat /\ start \in 1..Len(v)
      BY <2>2, <2>4, <3>1, Cut, Zenon
    <3>4. end \in S
      <4>1. S \subseteq 1..(Len(v) + 1) /\ S # {} /\ Len(v) + 1 \in Nat
        BY <3>1, <3>3, SMT
      <4> QED BY <3>2, <4>1, Positions
    <3>5. start \in 1..(Len(v) + 1) /\ end \in 1..(Len(v) + 1) /\ end - 1 \in 0..Len(v)
      BY <3>1, <3>3, <3>4, SMT
    <3>6. word \in Short /\ From(v, end) \in Short
      BY <2>2, <3>2, <3>5, PartShort, Cut, Zenon
    <3>7. PICK h : h = Buffered(Now, t, Len(word) + 1, word)
      OBVIOUS
    <3>8. Good(h)
      BY <3>7, UniqueGood, Zenon DEF Buffered
    <3>9. Fit(h)
      BY <3>6, <3>7, BufferedFits, Zenon
    <3>10. Fit(SetChars(h, s, From(v, end)))
      BY <3>6, <3>8, <3>9, SetCharsFits, Zenon
    <3>11. Become(SetChars(h, s, From(v, end)))
      BY <1>9, <2>1, <2>4, <3>1, <3>2, <3>7, Zenon DEF NextToken
    <3> QED BY <3>10, <3>11, BecomeFits, Zenon
  <2> QED BY <2>3, <2>4
<1>10. CASE UNCHANGED vars
  <2>1. /\ data' = data /\ refs' = refs /\ capacity' = capacity /\ text' = text
        /\ allocated' = allocated
    BY <1>10 DEF vars
  <2>2. Now' = Now
    BY <2>1, Zenon DEF Now
  <2> QED BY <2>2, Zenon DEF Fit
<1>11. ASSUME NEW s \in Strings, NEW v \in Texts, Concat(s, v)
       PROVE  Fit(Now)'
  BY <1>5, <1>11, TextsShort, Zenon
<1> QED
  BY <1>1, <1>2, <1>3, <1>4, <1>6, <1>7, <1>8, <1>9, <1>10, <1>11, Zenon DEF Next

\* No text runs over its buffer's end: for any strings, buffers and texts, and whatever
\* sizes the allocator rounds up to, each is within the room that its buffer has.
THEOREM TextsInBuffers == Spec => []TextsFit
<1>1. Init => Good(Now) /\ Fit(Now)
  BY InitGood, InitFits
<1>2. Good(Now) /\ Fit(Now) /\ [Next]_vars => Good(Now)' /\ Fit(Now)'
  BY NextGood, NextFits
<1>3. Fit(Now) => TextsFit
  <2> SUFFICES ASSUME Fit(Now) PROVE TextsFit
    OBVIOUS
  <2>1. Now.text = text /\ Now.capacity = capacity /\ Now.allocated = allocated
    BY SMT DEF Now
  <2> QED BY <2>1, Zenon DEF Fit, TextsFit
<1> QED BY <1>1, <1>2, <1>3, PTL DEF Spec

-----------------------------------------------------------------------------
(* Strings that share buffers behave as values that share nothing, whatever  *)
(* strings, buffers and texts there are.                                     *)

\* What an operation on the heap does to the strings: s becomes v, the others stay.
Sets(q, h, s, v) == \A t \in Strings : TextOf(q, t) = IF t = s THEN v ELSE TextOf(h, t)

\* A buffer that is freed has no other owner, so no other string loses its text.
LEMMA ReleaseSets ==
  ASSUME NEW h, Good(h), Fit(h), NEW s \in Strings
  PROVE  Sets(Release(h, s), h, s, << >>)
<1>1. CASE h.data[s] = NoData
  BY <1>1 DEF Release, Sets, TextOf
<1>2. CASE h.data[s] # NoData
  <2>1. PICK b \in h.allocated : b = h.data[s]
    BY <1>2 DEF Good
  <2>2. PICK n : n = (h.refs[b] - 1) % CountLimit
    OBVIOUS
  <2>3. PICK r : r = [h EXCEPT !.refs[b] = n, !.data[s] = NoData]
    OBVIOUS
  <2>4. PICK q : q = [r EXCEPT !.allocated = @ \ {b}, !.capacity[b] = 0, !.text[b] = << >>]
    OBVIOUS
  <2>5. Release(h, s) = IF n # 0 THEN r ELSE q
    BY <1>2, <2>1, <2>2, <2>3, <2>4 DEF Release
  <2>6. r.data = [h.data EXCEPT ![s] = NoData] /\ r.text = h.text /\ DOMAIN r = DOMAIN h
    BY <2>3, SMT DEF Good, IsHeap
  <2>7. q.data = r.data /\ q.text = [h.text EXCEPT ![b] = << >>]
    BY <2>4, <2>6, SMT DEF Good, IsHeap
  <2>8. r.data[s] = NoData /\ \A t \in Strings : t # s => r.data[t] = h.data[t]
    BY <2>6, SMT DEF Good
  <2>9. CASE n # 0
    <3>1. Sets(r, h, s, << >>)
      BY <2>6, <2>8, Zenon DEF Sets, TextOf
    <3> QED BY <2>5, <2>9, <3>1
  <2>10. CASE n = 0
    <3>1. Good(Release(h, s)) /\ Release(h, s) = q
      BY <2>5, <2>10, ReleaseGood
    <3>2. \A t \in Strings : t # s => h.data[t] # b
      <4>1. b \notin q.allocated
        BY <2>4, <2>6, SMT DEF Good, IsHeap
      <4>2. b # NoData
        BY StringsAssumption DEF Good
      <4> QED BY <2>7, <2>8, <3>1, <4>1, <4>2 DEF Good
    <3>3. \A c \in Buffers : c # b => q.text[c] = h.text[c]
      BY <2>7, SMT DEF Fit
    <3>4. \A t \in Strings : h.data[t] = NoData \/ h.data[t] \in Buffers
      BY DEF Good
    <3>5. Sets(q, h, s, << >>)
      BY <2>7, <2>8, <3>2, <3>3, <3>4, ZenonT(30) DEF Sets, TextOf
    <3> QED BY <3>1, <3>5
  <2> QED BY <2>9, <2>10
<1> QED BY <1>1, <1>2

\* A copy has the text of the original.
LEMMA SharedSets ==
  ASSUME NEW h, Good(h), Fit(h), NEW s \in Strings, NEW t \in Strings
  PROVE  Sets(Shared(h, s, t), h, s, TextOf(h, t))
<1>1. CASE s = t
  BY <1>1 DEF Shared, Sets
<1>2. CASE s # t
  <2>1. PICK r : r = Release(h, s)
    OBVIOUS
  <2>2. Good(r) /\ Sets(r, h, s, << >>) /\ r.data = [h.data EXCEPT ![s] = NoData]
    BY <2>1, ReleaseGood, ReleaseSets, Zenon
  <2>3. PICK b : b = r.data[t]
    OBVIOUS
  <2>4. PICK q : q = [r EXCEPT !.data[s] = b, !.refs[b] = (@ + 1) % CountLimit]
    OBVIOUS
  <2>5. Shared(h, s, t) = IF b = NoData THEN r ELSE q
    BY <1>2, <2>1, <2>3, <2>4 DEF Shared
  <2>6. TextOf(r, t) = TextOf(h, t)
    BY <1>2, <2>2, Zenon DEF Sets
  <2>7. CASE b = NoData
    <3>1. TextOf(h, t) = << >>
      BY <2>3, <2>6, <2>7 DEF TextOf
    <3> QED BY <2>2, <2>5, <2>7, <3>1
  <2>8. CASE b # NoData
    <3>1. q.data = [r.data EXCEPT ![s] = b] /\ q.text = r.text
      BY <2>2, <2>4, SMT DEF Good, IsHeap
    <3>2. q.data[s] = b /\ \A u \in Strings : u # s => q.data[u] = r.data[u]
      BY <2>2, <3>1, SMT DEF Good
    <3>3. TextOf(q, s) = TextOf(h, t)
      BY <2>3, <2>6, <2>8, <3>1, <3>2, Zenon DEF TextOf
    <3>4. \A u \in Strings : u # s => TextOf(q, u) = TextOf(r, u)
      BY <3>1, <3>2, Zenon DEF TextOf
    <3>5. Sets(q, h, s, TextOf(h, t))
      BY <2>2, <3>3, <3>4, Zenon DEF Sets
    <3> QED BY <2>5, <2>8, <3>5, Zenon
  <2> QED BY <2>7, <2>8
<1> QED BY <1>1, <1>2

\* A buffer with one owner is no other string's, and a new one was nobody's.
LEMMA UniqueSets ==
  ASSUME NEW h, Good(h), Fit(h), NEW s \in Strings, NEW need, NEW new
  PROVE  Sets(Unique(h, s, need, new), h, s, new)
<1>1. CASE InPlace(h, s, need)
  <2>1. PICK b \in h.allocated : b = h.data[s]
    BY <1>1 DEF Good, InPlace
  <2>2. PICK q : q = [h EXCEPT !.text[b] = new]
    OBVIOUS
  <2>3. Unique(h, s, need, new) = q
    BY <1>1, <2>1, <2>2, Zenon DEF Unique
  <2>4. q.text = [h.text EXCEPT ![b] = new] /\ q.data = h.data
    BY <2>2, SMT DEF Good, IsHeap
  <2>5. b \in Buffers /\ b # NoData
    BY StringsAssumption DEF Good
  <2>6. q.text[b] = new /\ \A c \in Buffers : c # b => q.text[c] = h.text[c]
    BY <2>4, <2>5, SMT DEF Fit
  <2>7. \A t \in Strings : t # s => h.data[t] # b
    <3>1. Cardinality(Owners(h, b)) = 1
      BY <1>1, <2>1 DEF InPlace, Good
    <3>2. \E x : Owners(h, b) = {x}
      BY <3>1, OwnersCounted, FS_Singleton
    <3> QED BY <2>1, <3>2 DEF Owners
  <2>8. \A t \in Strings : h.data[t] = NoData \/ h.data[t] \in Buffers
    BY DEF Good
  <2>9. TextOf(q, s) = new
    BY <2>1, <2>4, <2>5, <2>6, Zenon DEF TextOf
  <2>10. \A t \in Strings : t # s => TextOf(q, t) = TextOf(h, t)
    BY <2>4, <2>6, <2>7, <2>8, Zenon DEF TextOf
  <2> QED BY <2>3, <2>9, <2>10, Zenon DEF Sets
<1>2. CASE ~InPlace(h, s, need)
  <2>1. PICK b : b = CHOOSE c \in Buffers \ h.allocated : TRUE
    OBVIOUS
  <2>2. b \in Buffers /\ b \notin h.allocated /\ b # NoData
    BY <2>1, BufferFree, StringsAssumption, Zenon
  <2>3. PICK r : r = Release(h, s)
    OBVIOUS
  <2>4. Good(r) /\ Fit(r) /\ r.allocated \subseteq h.allocated /\ Sets(r, h, s, << >>)
    BY <2>3, ReleaseGood, ReleaseFits, ReleaseSets, Zenon
  <2>5. PICK a : a = ActualSize[need]
    OBVIOUS
  <2>6. PICK q : q = [r EXCEPT !.data[s] = b, !.refs[b] = 1, !.capacity[b] = a,
                               !.text[b] = new, !.allocated = @ \cup {b}]
    OBVIOUS
  <2>7. Unique(h, s, need, new) = q
    BY <1>2, <2>1, <2>3, <2>5, <2>6, Zenon DEF Unique
  <2>8. q.text = [r.text EXCEPT ![b] = new] /\ q.data = [r.data EXCEPT ![s] = b]
    BY <2>4, <2>6, SMT DEF Good, IsHeap
  <2>9. q.text[b] = new /\ \A c \in Buffers : c # b => q.text[c] = r.text[c]
    BY <2>2, <2>4, <2>8, SMT DEF Fit
  <2>10. q.data[s] = b /\ \A t \in Strings : t # s => q.data[t] = r.data[t]
    BY <2>4, <2>8, SMT DEF Good
  <2>11. \A t \in Strings : r.data[t] = NoData \/ (r.data[t] \in Buffers /\ r.data[t] # b)
    BY <2>2, <2>4 DEF Good
  <2>12. TextOf(q, s) = new
    BY <2>2, <2>9, <2>10, Zenon DEF TextOf
  <2>13. \A t \in Strings : t # s => TextOf(q, t) = TextOf(r, t)
    BY <2>9, <2>10, <2>11, Zenon DEF TextOf
  <2> QED BY <2>4, <2>7, <2>12, <2>13, Zenon DEF Sets
<1> QED BY <1>1, <1>2

\* Set.
LEMMA SetCharsSets ==
  ASSUME NEW h, Good(h), Fit(h), NEW s \in Strings, NEW v
  PROVE  Sets(SetChars(h, s, v), h, s, v)
BY ReleaseSets, UniqueSets, Zenon DEF SetChars

\* Concat.
LEMMA AppendedSets ==
  ASSUME NEW h, Good(h), Fit(h), NEW s \in Strings, NEW v \in Seq(Chars)
  PROVE  Sets(Appended(h, s, v), h, s, TextOf(h, s) \o v)
<1>1. TextOf(h, s) \in Seq(Chars)
  BY TextShort DEF Short
<1>2. CASE v = << >>
  <2>1. TextOf(h, s) \o v = TextOf(h, s)
    BY <1>1, <1>2, SMT
  <2> QED BY <1>2, <2>1 DEF Appended, Sets
<1>3. CASE v # << >> /\ h.data[s] = NoData
  <2>1. << >> \o v = v /\ TextOf(h, s) = << >>
    BY <1>3, SMT DEF TextOf
  <2> QED BY <1>3, <2>1, SetCharsSets, Zenon DEF Appended
<1>4. CASE v # << >> /\ h.data[s] # NoData
  BY <1>4, UniqueSets, Zenon DEF Appended
<1> QED BY <1>2, <1>3, <1>4

\* Remove_Last_Char.
LEMMA LastRemovedSets ==
  ASSUME NEW h, Good(h), Fit(h), NEW s \in Strings
  PROVE  Sets(LastRemoved(h, s), h, s,
              IF TextOf(h, s) = << >> THEN << >>
              ELSE SubSeq(TextOf(h, s), 1, Len(TextOf(h, s)) - 1))
<1>1. CASE TextOf(h, s) = << >>
  BY <1>1, Zenon DEF LastRemoved, Sets
<1>2. CASE TextOf(h, s) # << >>
  BY <1>2, UniqueSets, Zenon DEF LastRemoved
<1> QED BY <1>1, <1>2
-----------------------------------------------------------------------------

\* The part of a text between two positions.
LEMMA Part ==
  ASSUME NEW v \in Short, NEW i \in 1..(Len(v) + 1), NEW j \in 0..Len(v)
  PROVE  /\ Len(v) \in Nat /\ v \in Seq(Chars)
         /\ SubSeq(v, i, j) \in Seq(Chars)
         /\ Len(SubSeq(v, i, j)) = IF i <= j THEN j - i + 1 ELSE 0
         /\ \A k \in 1..(j - i + 1) : SubSeq(v, i, j)[k] = v[i + k - 1]
<1>1. Len(v) \in Nat /\ v \in Seq(Chars)
  BY DEF Short
<1>2. SubSeq(v, i, j) \in Seq(Chars)
  BY PartShort DEF Short
<1>3. Len(SubSeq(v, i, j)) = IF i <= j THEN j - i + 1 ELSE 0
  BY <1>1, SMT
<1>4. \A k \in 1..(j - i + 1) : SubSeq(v, i, j)[k] = v[i + k - 1]
  BY <1>1, SMT
<1> QED BY <1>1, <1>2, <1>3, <1>4

\* Nothing but spaces is before the first other character and after the last.
LEMMA NonSpaces ==
  ASSUME NEW v \in Short, NonSpace(v) # {}
  PROVE  /\ First(NonSpace(v)) \in 1..Len(v) /\ v[First(NonSpace(v))] # Space
         /\ Last(NonSpace(v)) \in 1..Len(v) /\ v[Last(NonSpace(v))] # Space
         /\ \A k \in 1..Len(v) : v[k] # Space =>
              First(NonSpace(v)) <= k /\ k <= Last(NonSpace(v))
<1>1. NonSpace(v) \subseteq 1..Len(v) /\ Len(v) \in Nat
  BY DEF NonSpace, Short
<1>2. /\ First(NonSpace(v)) \in NonSpace(v) /\ Last(NonSpace(v)) \in NonSpace(v)
      /\ \A y \in NonSpace(v) : First(NonSpace(v)) <= y /\ y <= Last(NonSpace(v))
  BY <1>1, Positions, Zenon
<1>3. \A k : k \in NonSpace(v) <=> k \in 1..Len(v) /\ v[k] # Space
  BY DEF NonSpace
<1> QED BY <1>2, <1>3, Zenon

\* Texts with the same characters are the same.
LEMMA SameText ==
  ASSUME NEW C, NEW v \in Seq(C), NEW w \in Seq(C), NEW n,
         Len(v) = n, Len(w) = n, \A k \in 1..n : v[k] = w[k]
  PROVE  v = w
OBVIOUS

\* A text is what it is cut into.
LEMMA Pieces ==
  ASSUME NEW v \in Short, NEW a \in 1..(Len(v) + 1), NEW b \in a..(Len(v) + 1)
  PROVE  v = SubSeq(v, 1, a - 1) \o SubSeq(v, a, b - 1) \o SubSeq(v, b, Len(v))
<1>0. Len(v) \in Nat /\ v \in Seq(Chars)
  BY DEF Short
<1>1. PICK n : n = Len(v)
  OBVIOUS
<1>2. PICK x, y, z : x = SubSeq(v, 1, a - 1) /\ y = SubSeq(v, a, b - 1) /\ z = SubSeq(v, b, n)
  OBVIOUS
<1>3. /\ 1 \in 1..(n + 1) /\ a - 1 \in 0..n /\ b \in 1..(n + 1) /\ b - 1 \in 0..n /\ n \in 0..n
      /\ n \in Int /\ a \in Int /\ b \in Int /\ 1 <= a /\ a <= b /\ b <= n + 1
  BY <1>0, <1>1, SMT
<1>4. /\ x \in Seq(Chars) /\ Len(x) = IF 1 <= a - 1 THEN a - 1 - 1 + 1 ELSE 0
      /\ \A k \in 1..(a - 1 - 1 + 1) : x[k] = v[1 + k - 1]
  BY <1>1, <1>2, <1>3, Part, Zenon
<1>5. /\ y \in Seq(Chars) /\ Len(y) = IF a <= b - 1 THEN b - 1 - a + 1 ELSE 0
      /\ \A k \in 1..(b - 1 - a + 1) : y[k] = v[a + k - 1]
  BY <1>1, <1>2, <1>3, Part, Zenon
<1>6. /\ z \in Seq(Chars) /\ Len(z) = IF b <= n THEN n - b + 1 ELSE 0
      /\ \A k \in 1..(n - b + 1) : z[k] = v[b + k - 1]
  BY <1>1, <1>2, <1>3, Part, Zenon
<1>7. Len(x) = a - 1 /\ Len(y) = b - a /\ Len(z) = n + 1 - b
  BY <1>3, <1>4, <1>5, <1>6, SMT
<1>8. PICK w : w = x \o y
  OBVIOUS
<1>9. /\ w \in Seq(Chars) /\ Len(w) = (a - 1) + (b - a)
      /\ \A k \in 1..(a - 1) : w[k] = x[k]
      /\ \A k \in 1..(b - a) : w[(a - 1) + k] = y[k]
  <2>1. /\ x \o y \in Seq(Chars) /\ Len(x \o y) = Len(x) + Len(y)
        /\ \A k \in 1..Len(x) : (x \o y)[k] = x[k]
        /\ \A k \in 1..Len(y) : (x \o y)[Len(x) + k] = y[k]
    <3>1. x \in Seq(Chars) /\ y \in Seq(Chars)
      BY <1>4, <1>5
    <3> QED BY <3>1, SMT
  <2> QED BY <1>7, <1>8, <2>1, Zenon
<1>10. Len(w) = b - 1
  BY <1>3, <1>9, SMT
<1>11. PICK u : u = w \o z
  OBVIOUS
<1>12. /\ u \in Seq(Chars) /\ Len(u) = (b - 1) + (n + 1 - b)
       /\ \A k \in 1..(b - 1) : u[k] = w[k]
       /\ \A k \in 1..(n + 1 - b) : u[(b - 1) + k] = z[k]
  <2>1. /\ w \o z \in Seq(Chars) /\ Len(w \o z) = Len(w) + Len(z)
        /\ \A k \in 1..Len(w) : (w \o z)[k] = w[k]
        /\ \A k \in 1..Len(z) : (w \o z)[Len(w) + k] = z[k]
    <3>1. w \in Seq(Chars) /\ z \in Seq(Chars)
      BY <1>6, <1>9
    <3> QED BY <3>1, SMT
  <2> QED BY <1>7, <1>10, <1>11, <2>1, Zenon
<1>13. Len(u) = n
  BY <1>3, <1>12, SMT
<1>14. ASSUME NEW k \in 1..n
       PROVE  v[k] = u[k]
  <2>1. CASE k < a
    <3>1. k \in 1..(a - 1) /\ k \in 1..(a - 1 - 1 + 1) /\ k \in 1..(b - 1) /\ 1 + k - 1 = k
      BY <1>3, <2>1, SMT
    <3> QED BY <1>4, <1>9, <1>12, <3>1, Zenon
  <2>2. CASE a <= k /\ k < b
    <3>1. PICK j : j = k - (a - 1)
      OBVIOUS
    <3>2. j \in 1..(b - a) /\ j \in 1..(b - 1 - a + 1) /\ (a - 1) + j = k /\ a + j - 1 = k /\ k \in 1..(b - 1)
      BY <1>3, <2>2, <3>1, SMT
    <3> QED BY <1>5, <1>9, <1>12, <3>2, ZenonT(30)
  <2>3. CASE b <= k
    <3>1. PICK j : j = k - (b - 1)
      OBVIOUS
    <3>2. j \in 1..(n + 1 - b) /\ j \in 1..(n - b + 1) /\ (b - 1) + j = k /\ b + j - 1 = k
      BY <1>3, <2>3, <3>1, SMT
    <3> QED BY <1>6, <1>12, <3>2, Zenon
  <2>4. k < a \/ (a <= k /\ k < b) \/ b <= k
    BY <1>3, SMT
  <2> QED BY <2>1, <2>2, <2>3, <2>4
<1>15. v = u
  BY <1>0, <1>1, <1>12, <1>13, <1>14, SameText, Zenon
<1> QED BY <1>1, <1>2, <1>8, <1>11, <1>15, Zenon

\* A trimmed text is what lies between the first and the last other character.
LEMMA TrimmedPart ==
  ASSUME NEW v \in Short, NonSpace(v) # {}
  PROVE  Values!Trimmed(v) = SubSeq(v, First(NonSpace(v)), Last(NonSpace(v)))
<1>1. PICK f, l : f = First(NonSpace(v)) /\ l = Last(NonSpace(v))
  OBVIOUS
<1>2. PICK S : S = NonSpace(v)
  OBVIOUS
<1>3. /\ S \subseteq 1..Len(v) /\ Len(v) \in Nat
      /\ f \in S /\ l \in S /\ \A y \in S : f <= y /\ y <= l
  <2>1. NonSpace(v) \subseteq 1..Len(v) /\ Len(v) \in Nat
    BY DEF NonSpace, Short
  <2> QED BY <1>1, <1>2, <2>1, Positions, Zenon
<1>4. \A i, j \in S : Len(SubSeq(v, i, j)) = IF i <= j THEN j - i + 1 ELSE 0
  <2>1. \A i \in S : i \in 1..(Len(v) + 1) /\ i \in 0..Len(v)
    BY <1>3, SMT
  <2> QED BY <2>1, Part, Zenon
<1>5. PICK w0 : w0 = SubSeq(v, f, l)
  OBVIOUS
<1>6. PICK W : W = {SubSeq(v, e[1], e[2]) : e \in S \X S}
  OBVIOUS
<1>7. w0 \in W /\ \A i, j \in S : Len(w0) > j - i
  <2>1. w0 \in W
    <3>1. <<f, l>> \in S \X S /\ <<f, l>>[1] = f /\ <<f, l>>[2] = l
      BY <1>3
    <3> QED BY <1>5, <1>6, <3>1
  <2>2. Len(w0) = l - f + 1
    BY <1>3, <1>4, <1>5, SMT
  <2> QED BY <1>3, <2>1, <2>2, SMT
<1>8. ASSUME NEW w \in W, \A i, j \in S : Len(w) > j - i
      PROVE  w = w0
  <2>1. PICK i \in S, j \in S : w = SubSeq(v, i, j)
    <3>1. PICK e \in S \X S : w = SubSeq(v, e[1], e[2])
      BY <1>6
    <3> QED BY <3>1
  <2>2. Len(w) > l - f
    BY <1>3, <1>8
  <2>3. i = f /\ j = l
    BY <1>3, <1>4, <2>1, <2>2, SMT
  <2> QED BY <1>5, <2>1, <2>3
<1>9. w0 = CHOOSE w \in W : \A i, j \in S : Len(w) > j - i
  BY <1>7, <1>8, Zenon
<1>10. NonSpace(v) = Values!NonSpace(v)
  BY DEF NonSpace, Values!NonSpace
<1>11. Values!Trimmed(v) = CHOOSE w \in W : \A i, j \in S : Len(w) > j - i
  BY <1>2, <1>6, <1>10, Zenon DEF Values!Trimmed
<1> QED BY <1>1, <1>5, <1>9, <1>11, Zenon

\* Setting a string to its own end and cutting off its last characters trims it.
LEMMA TrimTrims ==
  ASSUME NEW v \in Short, NEW lead, NEW w,
         lead = IF NonSpace(v) = {} THEN Len(v) ELSE First(NonSpace(v)) - 1,
         w = IF lead > 0 THEN From(v, lead + 1) ELSE v
  PROVE  (IF w = << >> \/ w[Len(w)] # Space THEN w
          ELSE SubSeq(w, 1, Last(NonSpace(w)))) = Values!Trimmed(v)
<1>0. Len(v) \in Nat /\ v \in Seq(Chars)
  BY DEF Short
<1>1. CASE NonSpace(v) = {}
  <2>1. w = << >>
    BY <1>0, <1>1, SMT DEF From
  <2>2. Values!NonSpace(v) = {}
    BY <1>1 DEF Values!NonSpace, NonSpace
  <2>3. Values!Trimmed(v) = << >>
    BY <2>2, Zenon DEF Values!Trimmed
  <2> QED BY <2>1, <2>3
<1>2. CASE NonSpace(v) # {}
  <2>1. PICK f, l : f = First(NonSpace(v)) /\ l = Last(NonSpace(v))
    OBVIOUS
  <2>2. /\ f \in 1..Len(v) /\ v[f] # Space /\ l \in 1..Len(v) /\ v[l] # Space
        /\ \A k \in 1..Len(v) : v[k] # Space => f <= k /\ k <= l
    BY <1>2, <2>1, NonSpaces, Zenon
  <2>3. w = SubSeq(v, f, Len(v))
    <3>1. CASE f = 1
      BY <1>0, <1>2, <2>1, <3>1, SMT
    <3>2. CASE f # 1
      <4>1. lead > 0 /\ lead + 1 = f
        BY <1>0, <1>2, <2>1, <2>2, <3>2, SMT
      <4> QED BY <4>1, Zenon DEF From
    <3> QED BY <3>1, <3>2
  <2>4. /\ w \in Seq(Chars) /\ Len(w) = Len(v) - f + 1
        /\ \A k \in 1..Len(w) : w[k] = v[f + k - 1]
    <3>1. f \in 1..(Len(v) + 1) /\ Len(v) \in 0..Len(v) /\ f <= Len(v)
      BY <1>0, <2>2, SMT
    <3>2. /\ SubSeq(v, f, Len(v)) \in Seq(Chars)
          /\ Len(SubSeq(v, f, Len(v))) = IF f <= Len(v) THEN Len(v) - f + 1 ELSE 0
          /\ \A k \in 1..(Len(v) - f + 1) : SubSeq(v, f, Len(v))[k] = v[f + k - 1]
      BY <3>1, Part, Zenon
    <3> QED BY <2>3, <3>1, <3>2, Zenon
  <2>5. w \in Short /\ Len(w) \in Nat /\ Len(w) > 0
    <3>1. Len(w) \in Nat /\ Len(w) > 0 /\ Len(w) <= Len(v)
      BY <1>0, <2>2, <2>4, SMT
    <3>2. Len(v) <= MaxLength /\ MaxLength \in Nat
      BY StringsAssumption DEF Short
    <3>3. Len(w) <= MaxLength
      BY <1>0, <3>1, <3>2, SMT
    <3> QED BY <2>4, <3>1, <3>3 DEF Short
  <2>6. Values!Trimmed(v) = SubSeq(v, f, l)
    BY <1>2, <2>1, TrimmedPart, Zenon
  <2>7. CASE w[Len(w)] # Space
    <3>1. w[Len(w)] = v[Len(v)] /\ Len(v) \in 1..Len(v)
      <4>1. Len(w) \in 1..Len(w) /\ f + Len(w) - 1 = Len(v) /\ Len(v) \in 1..Len(v)
        <5>1. Len(w) = Len(v) - f + 1 /\ Len(w) \in Nat /\ Len(w) > 0 /\ Len(v) \in Nat
          BY <1>0, <2>4, <2>5, Zenon
        <5>2. f \in 1..Len(v)
          BY <2>2, Zenon
        <5> QED BY <5>1, <5>2, SMT
      <4> QED BY <2>4, <4>1, Zenon
    <3>2. l = Len(v)
      BY <1>0, <2>2, <2>7, <3>1, SMT
    <3> QED BY <2>3, <2>6, <2>7, <3>2, Zenon
  <2>8. CASE w[Len(w)] = Space
    <3>1. PICK m : m = Last(NonSpace(w))
      OBVIOUS
    <3>2. l - f + 1 \in 1..Len(w) /\ w[l - f + 1] = v[l]
      <4>1. l - f + 1 \in 1..Len(w) /\ f + (l - f + 1) - 1 = l
        BY <1>0, <2>2, <2>4, SMT
      <4> QED BY <2>4, <4>1, Zenon
    <3>3. NonSpace(w) # {}
      BY <2>2, <3>2 DEF NonSpace
    <3>4. m \in 1..Len(w) /\ w[m] # Space /\ \A k \in 1..Len(w) : w[k] # Space => k <= m
      BY <2>5, <3>1, <3>3, NonSpaces, Zenon
    <3>5. l - f + 1 <= m
      BY <2>2, <3>2, <3>4, Zenon
    <3>6. w[m] = v[f + m - 1] /\ f + m - 1 \in 1..Len(v)
      BY <1>0, <2>2, <2>4, <3>4, SMT
    <3>7. f + m - 1 <= l
      BY <2>2, <3>4, <3>6, Zenon
    <3>8. m = l - f + 1
      BY <1>0, <2>2, <2>5, <3>4, <3>5, <3>7, SMT
    <3>9. SubSeq(w, 1, m) = SubSeq(v, f, l)
      <4>1. /\ SubSeq(w, 1, m) \in Seq(Chars) /\ Len(SubSeq(w, 1, m)) = m
            /\ \A k \in 1..m : SubSeq(w, 1, m)[k] = w[k]
        <5>1. 1 \in 1..(Len(w) + 1) /\ m \in 0..Len(w) /\ m - 1 + 1 = m /\ 1 <= m
          BY <2>5, <3>4, SMT
        <5> QED BY <2>5, <5>1, Part, SMT
      <4>2. /\ SubSeq(v, f, l) \in Seq(Chars) /\ Len(SubSeq(v, f, l)) = m
            /\ \A k \in 1..m : SubSeq(v, f, l)[k] = v[f + k - 1]
        <5>1. f \in 1..(Len(v) + 1) /\ l \in 0..Len(v)
          BY <1>0, <2>2, SMT
        <5>2. /\ SubSeq(v, f, l) \in Seq(Chars)
              /\ Len(SubSeq(v, f, l)) = IF f <= l THEN l - f + 1 ELSE 0
              /\ \A k \in 1..(l - f + 1) : SubSeq(v, f, l)[k] = v[f + k - 1]
          BY <5>1, Part, Zenon
        <5>3. f <= l
          BY <2>2
        <5> QED BY <3>8, <5>2, <5>3, Zenon
      <4>3. \A k \in 1..m : w[k] = v[f + k - 1]
        <5>1. \A k \in 1..m : k \in 1..Len(w)
          BY <2>5, <3>4, SMT
        <5> QED BY <2>4, <5>1, Zenon
      <4>4. \A k \in 1..m : SubSeq(w, 1, m)[k] = SubSeq(v, f, l)[k]
        BY <4>1, <4>2, <4>3, Zenon
      <4> QED BY <4>1, <4>2, <4>4, SameText, ZenonT(30)
    <3>10. w # << >>
      BY <2>5
    <3> QED BY <2>6, <2>8, <3>1, <3>9, <3>10, Zenon
  <2> QED BY <2>7, <2>8
<1> QED BY <1>1, <1>2

\* The word that Next_Token finds and what it leaves are the parts of the text that
\* they should be.
LEMMA WordSplits ==
  ASSUME NEW v \in Short, NonSpace(v) # {}, NEW start, NEW end,
         start = First(NonSpace(v)),
         end = First({i \in start..Len(v) : v[i] = Space} \cup {Len(v) + 1})
  PROVE  /\ start \in 1..(Len(v) + 1) /\ end \in 1..(Len(v) + 1) /\ end - 1 \in 0..Len(v)
         /\ Values!Splits(v, SubSeq(v, start, end - 1), From(v, end))
<1>0. Len(v) \in Nat /\ v \in Seq(Chars)
  BY DEF Short
<1>1. /\ start \in 1..Len(v) /\ v[start] # Space
      /\ \A k \in 1..Len(v) : v[k] # Space => start <= k
  BY NonSpaces, Zenon
<1>2. PICK S : S = {i \in start..Len(v) : v[i] = Space} \cup {Len(v) + 1}
  OBVIOUS
<1>3. end \in S /\ \A y \in S : end <= y
  <2>1. S \subseteq 1..(Len(v) + 1) /\ S # {} /\ Len(v) + 1 \in Nat
    BY <1>0, <1>1, <1>2, SMT
  <2> QED BY <1>2, <2>1, Positions
<1>4. /\ end \in start..(Len(v) + 1) /\ end # start
      /\ end # Len(v) + 1 => v[end] = Space
  BY <1>0, <1>1, <1>2, <1>3, SMT
<1>5. \A k \in start..(end - 1) : v[k] # Space
  <2> SUFFICES ASSUME NEW k \in start..(end - 1), v[k] = Space PROVE FALSE
    OBVIOUS
  <2>1. k \in start..Len(v) /\ k < end
    BY <1>0, <1>1, <1>4, SMT
  <2>2. k \in S
    BY <1>2, <2>1
  <2>3. end <= k
    BY <1>3, <2>2
  <2> QED BY <1>1, <1>4, <2>1, <2>3, SMT
<1>6. \A k \in 1..(start - 1) : v[k] = Space
  BY <1>0, <1>1, SMT
<1>7. start \in 1..(Len(v) + 1) /\ end \in 1..(Len(v) + 1) /\ end - 1 \in 0..Len(v)
  BY <1>0, <1>1, <1>4, SMT
<1>8. PICK word, rest : word = SubSeq(v, start, end - 1) /\ rest = From(v, end)
  OBVIOUS
<1>9. /\ word \in Seq(Chars) /\ Len(word) = end - start
      /\ \A k \in 1..(end - start) : word[k] = v[start + k - 1]
  <2>1. /\ word \in Seq(Chars) /\ Len(word) = IF start <= end - 1 THEN end - 1 - start + 1 ELSE 0
        /\ \A k \in 1..(end - 1 - start + 1) : word[k] = v[start + k - 1]
    BY <1>7, <1>8, Part, Zenon
  <2>2. start <= end - 1 /\ end - 1 - start + 1 = end - start
    BY <1>0, <1>1, <1>4, SMT
  <2> QED BY <2>1, <2>2, Zenon
<1>10. /\ rest \in Seq(Chars) /\ Len(rest) = Len(v) + 1 - end
       /\ \A k \in 1..(Len(v) + 1 - end) : rest[k] = v[end + k - 1]
  <2>1. Len(v) \in 0..Len(v)
    BY <1>0
  <2>2. /\ rest \in Seq(Chars) /\ Len(rest) = IF end <= Len(v) THEN Len(v) - end + 1 ELSE 0
        /\ \A k \in 1..(Len(v) - end + 1) : rest[k] = v[end + k - 1]
    BY <1>7, <1>8, <2>1, Part, Zenon DEF From
  <2>3. Len(v) - end + 1 = Len(v) + 1 - end /\ (~(end <= Len(v)) => Len(v) + 1 - end = 0)
    BY <1>0, <1>7, SMT
  <2> QED BY <2>2, <2>3, Zenon
<1>11. end - start \in Nat /\ end - start > 0
  BY <1>0, <1>1, <1>4, SMT
<1>12. word # << >> /\ Values!NonSpace(word) = 1..Len(word)
  <2>1. \A k \in 1..(end - start) : start + k - 1 \in start..(end - 1)
    BY <1>0, <1>1, <1>4, SMT
  <2>2. \A k \in 1..(end - start) : word[k] # Space
    BY <1>5, <1>9, <2>1, Zenon
  <2>3. word # << >>
    BY <1>9, <1>11, SMT
  <2> QED BY <1>9, <2>2, <2>3 DEF Values!NonSpace
<1>13. rest # << >> => Head(rest) = Space
  <2> SUFFICES ASSUME rest # << >> PROVE Head(rest) = Space
    OBVIOUS
  <2>1. Len(rest) # 0 /\ Head(rest) = rest[1]
    BY <1>10, SMT
  <2>2. end # Len(v) + 1 /\ 1 \in 1..(Len(v) + 1 - end) /\ end + 1 - 1 = end
    <3>1. Len(v) + 1 - end # 0
      BY <1>10, <2>1
    <3> QED BY <1>0, <1>7, <3>1, SMT
  <2> QED BY <1>4, <1>10, <2>1, <2>2, Zenon
<1>14. \E n \in 0..Len(v) : v = [i \in 1..n |-> Space] \o word \o rest
  <2>1. PICK n : n = start - 1
    OBVIOUS
  <2>2. n \in 0..Len(v) /\ n \in Nat
    BY <1>0, <1>1, <2>1, SMT
  <2>3. PICK sp : sp = [i \in 1..n |-> Space]
    OBVIOUS
  <2>4. SubSeq(v, 1, n) = sp
    <3>1. 1 \in 1..(Len(v) + 1)
      BY <1>0, SMT
    <3>2. /\ SubSeq(v, 1, n) \in Seq(Chars) /\ Len(SubSeq(v, 1, n)) = IF 1 <= n THEN n - 1 + 1 ELSE 0
          /\ \A k \in 1..(n - 1 + 1) : SubSeq(v, 1, n)[k] = v[1 + k - 1]
      BY <2>2, <3>1, Part, Zenon
    <3>3. n - 1 + 1 = n /\ (~(1 <= n) => n = 0) /\ \A k \in 1..n : 1 + k - 1 = k
      BY <2>2, SMT
    <3>4. /\ Len(SubSeq(v, 1, n)) = n
          /\ \A k \in 1..n : SubSeq(v, 1, n)[k] = v[k]
      BY <3>2, <3>3, Zenon
    <3>5. \A k \in 1..n : SubSeq(v, 1, n)[k] = Space
      BY <1>6, <2>1, <3>4, Zenon
    <3> QED BY <2>2, <2>3, <3>2, <3>4, <3>5, SMT
  <2>5. v = SubSeq(v, 1, n) \o word \o rest
    <3>1. v = SubSeq(v, 1, start - 1) \o SubSeq(v, start, end - 1) \o SubSeq(v, end, Len(v))
      <4>1. start \in 1..(Len(v) + 1) /\ end \in start..(Len(v) + 1)
        BY <1>4, <1>7, Zenon
      <4> QED BY <4>1, Pieces
    <3> QED BY <1>8, <2>1, <3>1, Zenon DEF From
  <2> QED BY <2>2, <2>3, <2>4, <2>5, Zenon
<1> QED BY <1>7, <1>8, <1>12, <1>13, <1>14, Zenon DEF Values!Splits

-----------------------------------------------------------------------------

\* The strings as values.
V == [s \in Strings |-> TextOf(Now, s)]

\* An operation changes the values as it changes the texts.
LEMMA BecomeText ==
  ASSUME NEW q, Become(q)
  PROVE  \A t \in Strings : V'[t] = TextOf(q, t)
<1>1. data' = q.data /\ text' = q.text
  BY DEF Become
<1>2. Now'.data = q.data /\ Now'.text = q.text
  BY <1>1, SMT DEF Now
<1> QED BY <1>2, SMT DEF V, TextOf

\* One string that is set is one value that is set.
LEMMA Changed ==
  ASSUME NEW q, Become(q), NEW s \in Strings, NEW v, Sets(q, Now, s, v)
  PROVE  V' = [V EXCEPT ![s] = v]
<1>1. \A t \in Strings : V'[t] = IF t = s THEN v ELSE V[t]
  <2>1. \A t \in Strings : TextOf(q, t) = IF t = s THEN v ELSE TextOf(Now, t)
    BY DEF Sets
  <2>2. \A t \in Strings : V[t] = TextOf(Now, t)
    BY DEF V
  <2> QED BY <2>1, <2>2, BecomeText, Zenon
<1>2. V' = [t \in Strings |-> V'[t]] /\ DOMAIN V = Strings
  BY DEF V
<1> QED BY <1>1, <1>2, SMT

\* A value is a text.
LEMMA ValueOf ==
  ASSUME NEW s \in Strings
  PROVE  V[s] = TextOf(Now, s)
BY DEF V

\* Next_Token cuts the first word off one string and gives it to the other.
LEMMA NextTokenRefines ==
  ASSUME Good(Now), Fit(Now), NEW s \in Strings, NEW t \in Strings, NextToken(s, t)
  PROVE  Values!NextToken(s, t)
<1>1. PICK v : v = TextOf(Now, s)
  OBVIOUS
<1>2. v \in Short /\ s # t /\ v # << >> /\ V[s] = v
  <2>1. v \in Short
    BY <1>1, TextShort
  <2> QED BY <1>1, <2>1, ValueOf DEF NextToken
<1>3. Values!NonSpace(v) = NonSpace(v)
  BY DEF Values!NonSpace, NonSpace
<1>4. CASE NonSpace(v) = {}
  <2>1. PICK h : h = Release(Now, s)
    OBVIOUS
  <2>2. Good(h) /\ Fit(h) /\ Sets(h, Now, s, << >>)
    BY <2>1, ReleaseGood, ReleaseFits, ReleaseSets, Zenon
  <2>3. PICK q : q = Release(h, t)
    OBVIOUS
  <2>4. Sets(q, h, t, << >>)
    BY <2>2, <2>3, ReleaseSets, Zenon
  <2>5. Become(q)
    BY <1>1, <1>4, <2>1, <2>3, Zenon DEF NextToken
  <2>6. \A u \in Strings : V'[u] = IF u = t THEN << >> ELSE IF u = s THEN << >> ELSE V[u]
    BY <2>2, <2>4, <2>5, BecomeText, ValueOf, Zenon DEF Sets
  <2>7. V' = [u \in Strings |-> V'[u]] /\ V = [u \in Strings |-> V[u]]
    BY DEF V
  <2>8. V' = [V EXCEPT ![s] = << >>, ![t] = << >>]
    BY <2>6, <2>7, SMT
  <2> QED BY <1>2, <1>3, <1>4, <2>8, Zenon DEF Values!NextToken, V
<1>5. CASE NonSpace(v) # {}
  <2>1. PICK start : start = First(NonSpace(v))
    OBVIOUS
  <2>2. PICK end : end = First({i \in start..Len(v) : v[i] = Space} \cup {Len(v) + 1})
    OBVIOUS
  <2>3. PICK word, rest : word = SubSeq(v, start, end - 1) /\ rest = From(v, end)
    OBVIOUS
  <2>4. /\ start \in 1..(Len(v) + 1) /\ end \in 1..(Len(v) + 1) /\ end - 1 \in 0..Len(v)
        /\ Values!Splits(v, word, rest)
    BY <1>2, <1>5, <2>1, <2>2, <2>3, WordSplits, Zenon
  <2>5. word \in Short /\ rest \in Short
    BY <1>2, <2>3, <2>4, PartShort, Cut, Zenon
  <2>6. PICK h : h = Buffered(Now, t, Len(word) + 1, word)
    OBVIOUS
  <2>7. Good(h) /\ Fit(h) /\ Sets(h, Now, t, word)
    BY <2>5, <2>6, UniqueGood, UniqueSets, BufferedFits, Zenon DEF Buffered
  <2>8. PICK q : q = SetChars(h, s, rest)
    OBVIOUS
  <2>9. Sets(q, h, s, rest)
    BY <2>7, <2>8, SetCharsSets, Zenon
  <2>10. Become(q)
    BY <1>1, <1>5, <2>1, <2>2, <2>3, <2>6, <2>8, Zenon DEF NextToken
  <2>11. \A u \in Strings : V'[u] = IF u = s THEN rest ELSE IF u = t THEN word ELSE V[u]
    BY <2>7, <2>9, <2>10, BecomeText, ValueOf, Zenon DEF Sets
  <2>12. V'[t] = word /\ V'[s] = rest /\ \A u \in Strings \ {s, t} : V'[u] = V[u]
    BY <1>2, <2>11
  <2> QED BY <1>2, <1>3, <1>5, <2>4, <2>12, Zenon DEF Values!NextToken, V
<1> QED BY <1>4, <1>5

\* Trim has the result of trimming a plain value.
LEMMA TrimRefines ==
  ASSUME Good(Now), Fit(Now), NEW s \in Strings, Trim(s)
  PROVE  Values!Trim(s)
<1>1. PICK v, lead : /\ v = TextOf(Now, s)
                     /\ lead = IF NonSpace(v) = {} THEN Len(v) ELSE First(NonSpace(v)) - 1
  OBVIOUS
<1>2. v \in Short /\ V[s] = v
  BY <1>1, TextShort, ValueOf, Zenon
<1>3. lead \in Nat /\ lead + 1 \in 1..(Len(v) + 1)
  <2>1. Len(v) \in Nat /\ (NonSpace(v) # {} => First(NonSpace(v)) \in 1..Len(v))
    BY <1>2, Cut, Zenon
  <2> QED BY <1>1, <2>1, SMT
<1>4. PICK w : w = IF lead > 0 THEN From(v, lead + 1) ELSE v
  OBVIOUS
<1>5. PICK h : h = IF lead > 0 THEN SetChars(Now, s, From(v, lead + 1)) ELSE Now
  OBVIOUS
<1>6. From(v, lead + 1) \in Short
  BY <1>2, <1>3, Cut, Zenon
<1>7. Good(h) /\ Fit(h)
  BY <1>5, <1>6, SetCharsGood, SetCharsFits, Zenon
<1>8. Sets(h, Now, s, w)
  <2>1. CASE lead > 0
    BY <1>4, <1>5, <2>1, SetCharsSets, Zenon
  <2>2. CASE ~(lead > 0)
    BY <1>1, <1>4, <1>5, <2>2, Zenon DEF Sets
  <2> QED BY <2>1, <2>2
<1>9. TextOf(h, s) = w
  BY <1>8 DEF Sets
<1>10. PICK x : x = IF w = << >> \/ w[Len(w)] # Space THEN w ELSE SubSeq(w, 1, Last(NonSpace(w)))
  OBVIOUS
<1>11. x = Values!Trimmed(v)
  <2>1. v \in Short /\ lead = IF NonSpace(v) = {} THEN Len(v) ELSE First(NonSpace(v)) - 1
    BY <1>1, <1>2, Zenon
  <2>2. (IF w = << >> \/ w[Len(w)] # Space THEN w ELSE SubSeq(w, 1, Last(NonSpace(w))))
          = Values!Trimmed(v)
    BY <1>4, <2>1, TrimTrims
  <2> QED BY <1>10, <2>2, Zenon
<1>12. PICK q : q = IF w = << >> \/ w[Len(w)] # Space THEN h
                    ELSE Unique(h, s, Len(w) + 1, SubSeq(w, 1, Last(NonSpace(w))))
  OBVIOUS
<1>13. Become(q)
  BY <1>1, <1>5, <1>9, <1>12, Zenon DEF Trim
<1>14. Sets(q, h, s, x)
  <2>1. CASE w = << >> \/ w[Len(w)] # Space
    BY <1>9, <1>10, <1>12, <2>1, Zenon DEF Sets
  <2>2. CASE ~(w = << >> \/ w[Len(w)] # Space)
    BY <1>7, <1>10, <1>12, <2>2, UniqueSets, Zenon
  <2> QED BY <2>1, <2>2
<1>15. Sets(q, Now, s, x)
  BY <1>8, <1>14, Zenon DEF Sets
<1>16. V' = [V EXCEPT ![s] = x]
  BY <1>13, <1>15, Changed, Zenon
<1> QED BY <1>2, <1>11, <1>16, Zenon DEF Values!Trim, V

\* Every step of the heap is a step of the values, or none.
LEMMA StepRefines ==
  Good(Now) /\ Fit(Now) /\ [Next]_vars => [Values!Next]_V
<1> SUFFICES ASSUME Good(Now), Fit(Now), [Next]_vars PROVE [Values!Next]_V
  OBVIOUS
<1>1. ASSUME NEW s \in Strings, Clear(s)
      PROVE  Values!Assign(s, << >>)
  <2>1. V' = [V EXCEPT ![s] = << >>]
    <3>1. PICK q : q = Release(Now, s)
      OBVIOUS
    <3>2. Become(q)
      BY <1>1, <3>1, Zenon DEF Clear
    <3>3. Sets(q, Now, s, << >>)
      BY ReleaseSets, <3>1, Zenon
    <3> QED BY <3>2, <3>3, Changed, Zenon
  <2> QED BY <2>1, Zenon DEF Values!Assign, V
<1>2. ASSUME NEW s \in Strings, RemoveLastChar(s)
      PROVE  Values!RemoveLast(s) \/ V' = V
  <2>1. PICK v, w : v = V[s] /\ w = IF v = << >> THEN << >> ELSE SubSeq(v, 1, Len(v) - 1)
    OBVIOUS
  <2>2. V' = [V EXCEPT ![s] = w]
    <3>1. PICK q : q = LastRemoved(Now, s)
      OBVIOUS
    <3>2. Become(q)
      BY <1>2, <3>1, Zenon DEF RemoveLastChar
    <3>3. Sets(q, Now, s, w)
      BY <2>1, LastRemovedSets, ValueOf, <3>1, Zenon
    <3> QED BY <3>2, <3>3, Changed, Zenon
  <2>3. CASE v = << >>
    <3>1. V' = V
      BY <2>1, <2>2, <2>3 DEF V
    <3> QED BY <3>1
  <2>4. CASE v # << >>
    BY <2>1, <2>2, <2>4, Zenon DEF Values!RemoveLast, V
  <2> QED BY <2>3, <2>4
<1>3. ASSUME NEW s \in Strings, NEW v, Set(s, v)
      PROVE  Values!Assign(s, v)
  <2>1. V' = [V EXCEPT ![s] = v]
    <3>1. PICK q : q = SetChars(Now, s, v)
      OBVIOUS
    <3>2. Become(q)
      BY <1>3, <3>1, Zenon DEF Set
    <3>3. Sets(q, Now, s, v)
      BY SetCharsSets, <3>1, Zenon
    <3> QED BY <3>2, <3>3, Changed, Zenon
  <2> QED BY <2>1, Zenon DEF Values!Assign, V
<1>4. ASSUME NEW s \in Strings, NEW v \in Short, Concat(s, v)
      PROVE  Values!Concat(s, v)
  <2>1. v \in Seq(Chars)
    BY DEF Short
  <2>2. V' = [V EXCEPT ![s] = V[s] \o v]
    <3>1. PICK q : q = Appended(Now, s, v)
      OBVIOUS
    <3>2. Become(q)
      BY <1>4, <3>1, Zenon DEF Concat
    <3>3. Sets(q, Now, s, V[s] \o v)
      BY <2>1, AppendedSets, ValueOf, <3>1, Zenon
    <3> QED BY <3>2, <3>3, Changed, Zenon
  <2> QED BY <2>2, Zenon DEF Values!Concat, V
<1>5. ASSUME NEW s \in Strings, NEW v, FillBuffer(s, v)
      PROVE  Values!Assign(s, v)
  <2>1. V' = [V EXCEPT ![s] = v]
    <3>1. PICK q : q = Buffered(Now, s, Len(v), v)
      OBVIOUS
    <3>2. Become(q)
      BY <1>5, <3>1, Zenon DEF FillBuffer
    <3>3. Sets(q, Now, s, v)
      BY UniqueSets, <3>1, Zenon DEF Buffered
    <3> QED BY <3>2, <3>3, Changed, Zenon
  <2> QED BY <2>1, Zenon DEF Values!Assign, V
<1>6. ASSUME NEW s \in Strings, NEW t \in Strings, SetString(s, t)
      PROVE  Values!Copy(s, t)
  <2>1. V' = [V EXCEPT ![s] = V[t]]
    <3>1. PICK q : q = Shared(Now, s, t)
      OBVIOUS
    <3>2. Become(q)
      BY <1>6, <3>1, Zenon DEF SetString
    <3>3. Sets(q, Now, s, V[t])
      BY SharedSets, ValueOf, <3>1, Zenon
    <3> QED BY <3>2, <3>3, Changed, Zenon
  <2> QED BY <2>1, Zenon DEF Values!Copy, V
<1>7. ASSUME NEW s \in Strings, NEW t \in Strings, ConcatString(s, t)
      PROVE  Values!Concat(s, V[t])
  BY <1>4, <1>7, TextShort, ValueOf, Zenon DEF ConcatString
<1>8. CASE UNCHANGED vars
  <2>1. data' = data /\ refs' = refs /\ capacity' = capacity /\ text' = text /\ allocated' = allocated
    BY <1>8 DEF vars
  <2>2. Now' = Now
    BY <2>1, Zenon DEF Now
  <2> QED BY <2>2, Zenon DEF V, TextOf
<1>9. ASSUME Next PROVE Values!Next \/ V' = V
  <2>1. PICK s \in Strings :
          \/ Clear(s) \/ RemoveLastChar(s) \/ Trim(s)
          \/ \E v \in Texts : Set(s, v) \/ Concat(s, v) \/ FillBuffer(s, v)
          \/ \E t \in Strings : SetString(s, t) \/ ConcatString(s, t) \/ NextToken(s, t)
    BY <1>9 DEF Next
  <2>2. CASE Clear(s) \/ RemoveLastChar(s) \/ Trim(s)
    BY <1>1, <1>2, <2>2, TrimRefines, Zenon DEF Values!Next
  <2>3. ASSUME NEW v \in Texts, Set(s, v) \/ Concat(s, v) \/ FillBuffer(s, v)
        PROVE  Values!Next
    BY <1>3, <1>4, <1>5, <2>3, TextsShort, Zenon DEF Values!Next
  <2>4. ASSUME NEW t \in Strings, SetString(s, t) \/ ConcatString(s, t) \/ NextToken(s, t)
        PROVE  Values!Next
    BY <1>6, <1>7, <2>4, NextTokenRefines, Zenon DEF Values!Next, V
  <2> QED BY <2>1, <2>2, <2>3, <2>4, Zenon
<1> QED BY <1>8, <1>9, Zenon

\* At first every string is empty.
LEMMA InitRefines == Init => Values!Init
<1> SUFFICES ASSUME Init PROVE V = [s \in Strings |-> << >>]
  BY Zenon DEF Values!Init, V
<1>1. \A s \in Strings : TextOf(Now, s) = << >>
  BY SMT DEF Init, Now, TextOf
<1> QED BY <1>1 DEF V

\* To its users a string is a value: for any strings, texts and buffers, and whatever
\* the allocator's sizes, an operation on one string changes no other, however many
\* share its buffer, and has the result that the operation has on plain values.
THEOREM StringsAreValues == Spec => ImplementsValues
<1>1. Init => Good(Now) /\ Fit(Now) /\ Values!Init
  BY InitGood, InitFits, InitRefines
<1>2. Good(Now) /\ Fit(Now) /\ [Next]_vars => Good(Now)' /\ Fit(Now)'
  BY NextGood, NextFits
<1>3. Good(Now) /\ Fit(Now) /\ [Next]_vars => [Values!Next]_V
  BY StepRefines
<1> QED BY <1>1, <1>2, <1>3, PTL DEF Spec, ImplementsValues, Values!Spec, V
=============================================================================
