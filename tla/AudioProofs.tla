----------------------------- MODULE AudioProofs -----------------------------
(* Sample handles and events are neither lost nor freed twice, the counts are *)
(* right and the cache is what its size says, for any events, files, samples  *)
(* and footprint, wherever in Update a callback comes.                        *)
EXTENDS AudioPlayback, FiniteSetTheorems, SequenceTheorems, WellFoundedInduction, TLAPS

-----------------------------------------------------------------------------
(* The inductive invariant.                                                  *)

Distinct(q) == \A i, j \in 1..Len(q) : q[i] = q[j] => i = j
Members(q) == {q[i] : i \in 1..Len(q)}

\* The handles H are those of the free list f and of the entries l, each in one place.
HandlesApart(f, l, H) ==
  /\ Distinct(f) /\ \A i, j \in 1..Len(l) : l[i].sample = l[j].sample => i = j
  /\ \A x \in 1..Len(f), i \in 1..Len(l) : f[x] # l[i].sample
  /\ Members(f) \cup {l[i].sample : i \in 1..Len(l)} = Members(H)
SamplesInv == \A K \in Kinds : HandlesApart(free[K], list[K], Samples[K])

\* What runs is the sample of an entry that has not stopped.
RunningInv ==
  /\ \A s \in running : \E K \in Kinds : \E i \in 1..Len(list[K]) : list[K][i].sample = s
  /\ \A K \in Kinds : \A i \in 1..Len(list[K]) : list[K][i].sample \in running => ~list[K][i].stopped

\* The request Update is at, and the entry made for it last.
Busy == pc \in {"sample", "start"}
CurrentInv ==
  /\ Busy => at <= Len(requests) /\ Current.adding
  /\ pc = "sample" => Due(Current.event)
StartingInv ==
  pc = "start" =>
    LET l == list[Kind(Current.event)] IN
    /\ Len(l) # 0 /\ l[Len(l)].event = Current.event /\ l[Len(l)].releaseEvent
    /\ ~l[Len(l)].stopped /\ l[Len(l)].sample \notin running

\* A request to play an event that has not become an entry yet.
Claim(c) == requests[c].adding /\ ~(pc = "start" /\ c = at)

\* Once the delay of a request is over, Update is past it and has not yet come to the
\* entry which handed its event on, so that this entry is gone when the request is played.
GoneInTime(K, i, c) ==
  \/ pc \in {"requests", "sample", "start"} /\ c < at
  \/ pc = "global" /\ (K = "global" => at <= i)
  \/ pc = "positional" /\ K = "positional" /\ at <= i

\* The entries of a list play different events.
OneEntryEach ==
  \A K \in Kinds : \A i, j \in 1..Len(list[K]) : list[K][i].event = list[K][j].event => i = j
EntriesLive == \A K \in Kinds : \A i \in 1..Len(list[K]) : event[list[K][i].event].live
RequestsLive == \A c \in 1..Len(requests) : requests[c].adding => event[requests[c].event].live
OneClaimEach ==
  \A c, d \in 1..Len(requests) : Claim(c) /\ Claim(d) /\ requests[c].event = requests[d].event => c = d
OwnedOrClaimed ==
  \A K \in Kinds : \A i \in 1..Len(list[K]), c \in 1..Len(requests) :
    list[K][i].releaseEvent /\ Claim(c) => list[K][i].event # requests[c].event
HandedOnInv ==
  \A K \in Kinds : \A i \in 1..Len(list[K]) : ~list[K][i].releaseEvent =>
    /\ list[K][i].stopped
    /\ \E c \in 1..Len(requests) :
         /\ Claim(c) /\ requests[c].event = list[K][i].event
         /\ Due(list[K][i].event) => GoneInTime(K, i, c)
EventsInv ==
  OneEntryEach /\ EntriesLive /\ RequestsLive /\ OneClaimEach /\ OwnedOrClaimed /\ HandedOnInv

IndInv ==
  /\ TypeOK /\ SamplesInv /\ RunningInv /\ CurrentInv /\ StartingInv /\ EventsInv
  /\ CountsMatch /\ CacheAccounted

-----------------------------------------------------------------------------
(* Numbers.                                                                  *)

\* A set of numbers that is not empty has a least one.
LEMMA Least ==
  ASSUME NEW T, T \subseteq Nat, T # {}
  PROVE  \E x \in T : \A y \in T : x <= y
<1>1. PICK R : R = OpToRel(<, Nat)
  OBVIOUS
<1>2. IsWellFoundedOn(R, Nat)
  BY <1>1, NatLessThanWellFounded
<1>3. PICK x \in T : \A y \in T : ~(<<y, x>> \in R)
  BY <1>2, WFMin
<1>4. \A y \in T : ~(y < x)
  <2> SUFFICES ASSUME NEW y \in T, y < x PROVE FALSE
    OBVIOUS
  <2>1. R = {ss \in Nat \X Nat : ss[1] < ss[2]}
    BY <1>1 DEF OpToRel
  <2>2. <<y, x>> \in Nat \X Nat
    OBVIOUS
  <2>3. <<y, x>>[1] = y /\ <<y, x>>[2] = x
    OBVIOUS
  <2> QED BY <1>3, <2>1, <2>2, <2>3
<1> QED BY <1>4, SMT

\* Of a set of finite sets that is not empty, one that has none of the others below it.
LEMMA LeastSet ==
  ASSUME NEW S, IsFiniteSet(S), NEW C, C \subseteq SUBSET S, C # {}
  PROVE  \E s \in C : \A t \in C : Cardinality(s) <= Cardinality(t)
<1>1. PICK T : T = {Cardinality(s) : s \in C}
  OBVIOUS
<1>2. \A s \in C : Cardinality(s) \in Nat
  BY FS_Subset, FS_CardinalityType
<1>3. T \subseteq Nat /\ T # {}
  BY <1>1, <1>2
<1>4. PICK n \in T : \A k \in T : n <= k
  BY <1>3, Least
<1>5. PICK s \in C : n = Cardinality(s)
  BY <1>1
<1> QED BY <1>1, <1>4, <1>5

-----------------------------------------------------------------------------
(* The sizes of sets of files.                                               *)

\* The file of a set that is added last, and the function that the definition of Total(S) has inside.
Picked(s) == CHOOSE x \in s : TRUE
IsSum(it, S) ==
  it = [s \in SUBSET S |->
          IF s = {} THEN 0
          ELSE Size[Picked(s)] + it[s \ {Picked(s)}]]

LEMMA SumIs ==
  ASSUME NEW S
  PROVE  Total(S) = (CHOOSE it : IsSum(it, S))[S]
BY DEF Total, FoldFunctionOnSet, MapThenFoldSet, IsSum, Picked

\* What it says of a set that is not empty, and of the empty one.
LEMMA SumStep ==
  ASSUME NEW it, NEW S, IsSum(it, S), NEW s, s \subseteq S, s # {}
  PROVE  Picked(s) \in s /\ it[s] = Size[Picked(s)] + it[s \ {Picked(s)}]
BY DEF IsSum, Picked

LEMMA SumEmpty ==
  ASSUME NEW it, NEW S, IsSum(it, S)
  PROVE  it[{}] = 0
BY DEF IsSum

\* Two such functions agree where both are defined.
LEMMA SumsAgree ==
  ASSUME NEW it, NEW S, IsSum(it, S), NEW jt, NEW T, IsSum(jt, T),
         IsFiniteSet(S), NEW s, s \subseteq S, s \subseteq T
  PROVE  it[s] = jt[s]
<1> DEFINE C == {t \in SUBSET S : t \subseteq T /\ it[t] # jt[t]}
<1> SUFFICES ASSUME C # {} PROVE FALSE
  OBVIOUS
<1>1. PICK t \in C : \A u \in C : Cardinality(t) <= Cardinality(u)
  BY LeastSet
<1>2. t # {}
  BY SumEmpty
<1>3. PICK x : x = Picked(t)
  OBVIOUS
<1>4. x \in t /\ it[t] = Size[x] + it[t \ {x}] /\ jt[t] = Size[x] + jt[t \ {x}]
  <2>1. t \subseteq S /\ t \subseteq T
    OBVIOUS
  <2>2. x \in t /\ it[t] = Size[x] + it[t \ {x}]
    <3>1. Picked(t) \in t /\ it[t] = Size[Picked(t)] + it[t \ {Picked(t)}]
      BY <1>2, <2>1, SumStep
    <3> QED BY <1>3, <3>1
  <2>3. jt[t] = Size[x] + jt[t \ {x}]
    <3>1. jt[t] = Size[Picked(t)] + jt[t \ {Picked(t)}]
      BY <1>2, <2>1, SumStep
    <3> QED BY <1>3, <3>1
  <2> QED BY <2>2, <2>3
<1>5. IsFiniteSet(t) /\ Cardinality(t \ {x}) = Cardinality(t) - 1 /\ Cardinality(t) \in Nat
  BY <1>4, FS_Subset, FS_RemoveElement, FS_CardinalityType
<1>6. t \ {x} \notin C
  BY <1>1, <1>5
<1> QED BY <1>4, <1>6

\* There is one for every finite set.
LEMMA SumExists ==
  ASSUME NEW S, IsFiniteSet(S)
  PROVE  \E it : IsSum(it, S)
<1> DEFINE C == {s \in SUBSET S : ~ \E it : IsSum(it, s)}
<1> SUFFICES ASSUME C # {} PROVE FALSE
  OBVIOUS
<1>1. PICK s \in C : \A u \in C : Cardinality(s) <= Cardinality(u)
  BY LeastSet
<1> DEFINE it(t) == CHOOSE g : IsSum(g, t)
           h == [t \in SUBSET s |-> IF t = {} THEN 0
                  ELSE Size[Picked(t)] + it(t \ {Picked(t)})[t \ {Picked(t)}]]
<1>2. IsFiniteSet(s) /\ \A u \in SUBSET s : IsFiniteSet(u)
  BY FS_Subset
<1>3. ASSUME NEW t \in SUBSET s, t # s PROVE IsSum(it(t), t)
  <2>1. Cardinality(t) < Cardinality(s)
    BY <1>2, <1>3, FS_Subset, FS_CardinalityType
  <2>2. t \notin C
    BY <1>1, <1>2, <2>1, FS_CardinalityType
  <2> QED BY <2>2
<1>4. ASSUME NEW t \in SUBSET s, t # s PROVE h[t] = it(t)[t]
  <2>1. CASE t = {}
    <3>1. it(t)[{}] = 0
      BY <1>3, <1>4, SumEmpty
    <3> QED BY <2>1, <3>1
  <2>2. CASE t # {}
    <3>1. PICK x : x = Picked(t)
      OBVIOUS
    <3>2. x \in t /\ it(t)[t] = Size[x] + it(t)[t \ {x}]
      <4>1. IsSum(it(t), t) /\ t \subseteq t
        BY <1>3, <1>4
      <4> HIDE DEF it
      <4>2. Picked(t) \in t /\ it(t)[t] = Size[Picked(t)] + it(t)[t \ {Picked(t)}]
        BY <2>2, <4>1, SumStep
      <4> QED BY <3>1, <4>2
    <3>3. h[t] = Size[x] + it(t \ {x})[t \ {x}]
      BY <2>2, <3>1
    <3>4. IsSum(it(t), t) /\ IsSum(it(t \ {x}), t \ {x})
      BY <1>3, <1>4, <3>2
    <3>5. it(t)[t \ {x}] = it(t \ {x})[t \ {x}]
      BY <1>2, <3>4, SumsAgree
    <3> QED BY <3>2, <3>3, <3>5
  <2> QED BY <2>1, <2>2
<1>5. IsSum(h, s)
  <2>1. ASSUME NEW t \in SUBSET s, t # {}, NEW x, x = Picked(t)
        PROVE  h[t] = Size[x] + h[t \ {x}]
    <3>1. x \in t
      BY <2>1 DEF Picked
    <3>2. h[t \ {x}] = it(t \ {x})[t \ {x}]
      BY <1>4, <3>1
    <3>3. h[t] = Size[x] + it(t \ {x})[t \ {x}]
      BY <2>1
    <3> QED BY <3>2, <3>3
  <2>2. h[{}] = 0
    OBVIOUS
  <2>3. h = [t \in SUBSET s |-> h[t]]
    OBVIOUS
  <2> HIDE DEF h
  <2> QED BY <2>1, <2>2, <2>3 DEF IsSum
<1> QED BY <1>1, <1>5

\* The value at a subset is the sum over the subset.
LEMMA SumAt ==
  ASSUME NEW S, IsFiniteSet(S), NEW it, IsSum(it, S), NEW s \in SUBSET S
  PROVE  it[s] = Total(s)
<1>1. IsFiniteSet(s)
  BY FS_Subset
<1>2. IsSum(CHOOSE jt : IsSum(jt, s), s)
  BY <1>1, SumExists
<1>3. it[s] = (CHOOSE jt : IsSum(jt, s))[s]
  BY <1>2, SumsAgree
<1> QED BY <1>3, SumIs

\* The sum over no elements, and the sum over some.
LEMMA SumOfNone == Total({}) = 0
<1>1. PICK it : IsSum(it, {})
  BY FS_EmptySet, SumExists
<1> QED BY <1>1, FS_EmptySet, SumAt, SumEmpty

LEMMA SumOfSome ==
  ASSUME NEW S, IsFiniteSet(S), S # {}
  PROVE  \E x \in S : Total(S) = Size[x] + Total(S \ {x})
<1>1. PICK it : IsSum(it, S)
  BY SumExists
<1>2. PICK x : x = Picked(S)
  OBVIOUS
<1>3. x \in S /\ it[S] = Size[x] + it[S \ {x}]
  BY <1>1, <1>2, SumStep
<1>4. it[S] = Total(S)
  BY <1>1, SumAt
<1>5. it[S \ {x}] = Total(S \ {x})
  <2>1. PICK r \in SUBSET S : r = S \ {x}
    OBVIOUS
  <2>2. it[r] = Total(r)
    BY <1>1, <2>1, SumAt
  <2> QED BY <2>1, <2>2
<1> QED BY <1>3, <1>4, <1>5, Zenon

LEMMA SumIsNat ==
  ASSUME NEW S, IsFiniteSet(S), \A x \in S : Size[x] \in Nat
  PROVE  Total(S) \in Nat
<1> DEFINE C == {s \in SUBSET S : Total(s) \notin Nat}
<1> SUFFICES ASSUME C # {} PROVE FALSE
  OBVIOUS
<1>1. PICK s \in C : \A u \in C : Cardinality(s) <= Cardinality(u)
  BY LeastSet
<1>2. IsFiniteSet(s) /\ s # {}
  <2>1. s # {}
    BY SumOfNone
  <2> QED BY <2>1, FS_Subset
<1>3. PICK x \in s : Total(s) = Size[x] + Total(s \ {x})
  BY <1>2, SumOfSome
<1>4. Cardinality(s \ {x}) = Cardinality(s) - 1 /\ Cardinality(s) \in Nat
  BY <1>2, FS_RemoveElement, FS_CardinalityType
<1>5. s \ {x} \notin C
  BY <1>1, <1>4
<1> QED BY <1>3, <1>5

\* Any element may be the one that is added last.
LEMMA SumWithout ==
  ASSUME NEW S, IsFiniteSet(S), \A x \in S : Size[x] \in Nat, NEW z \in S
  PROVE  Total(S) = Size[z] + Total(S \ {z})
<1> DEFINE Bad(s, y) == Total(s) # Size[y] + Total(s \ {y})
           C == {s \in SUBSET S : \E y \in s : Bad(s, y)}
<1> SUFFICES ASSUME C # {} PROVE FALSE
  OBVIOUS
<1>1. PICK s \in C : \A u \in C : Cardinality(s) <= Cardinality(u)
  BY LeastSet
<1>2. PICK y \in s : Bad(s, y)
  OBVIOUS
<1>3. IsFiniteSet(s)
  BY FS_Subset
<1>4. PICK x \in s : Total(s) = Size[x] + Total(s \ {x})
  BY <1>2, <1>3, SumOfSome
<1>5. x # y
  BY <1>2, <1>4
<1> DEFINE a == s \ {x}  b == s \ {y}  c == a \ {y}
<1>6. y \in a /\ x \in b /\ c = b \ {x} /\ a \in SUBSET S /\ b \in SUBSET S
  BY <1>4, <1>5
<1>7. Cardinality(a) = Cardinality(s) - 1 /\ Cardinality(b) = Cardinality(s) - 1 /\ Cardinality(s) \in Nat
  BY <1>3, FS_RemoveElement, FS_CardinalityType
<1>8. a \notin C /\ b \notin C
  BY <1>1, <1>7
<1>9. Total(a) = Size[y] + Total(c)
  BY <1>6, <1>8
<1>10. Total(b) = Size[x] + Total(b \ {x})
  BY <1>6, <1>8
<1>11. Size[x] \in Nat /\ Size[y] \in Nat /\ Total(c) \in Nat
  <2>1. IsFiniteSet(c) /\ \A w \in c : Size[w] \in Nat
    BY <1>3, FS_Subset
  <2>2. Total(c) \in Nat
    BY <2>1, SumIsNat
  <2> QED BY <2>2
<1>12. Total(s) = Size[y] + Total(b)
  BY <1>4, <1>6, <1>9, <1>10, <1>11
<1> QED BY <1>2, <1>12

LEMMA SumWith ==
  ASSUME NEW S, IsFiniteSet(S), NEW z, z \notin S, \A x \in S \cup {z} : Size[x] \in Nat
  PROVE  Total(S \cup {z}) = Size[z] + Total(S)
<1>1. PICK T : T = S \cup {z}
  OBVIOUS
<1>2. IsFiniteSet(T) /\ z \in T /\ T \ {z} = S
  BY <1>1, FS_AddElement
<1>3. Total(T) = Size[z] + Total(T \ {z})
  BY <1>1, <1>2, SumWithout
<1> QED BY <1>1, <1>2, <1>3

\* The sum over a set is the sum over a part and over the rest.
LEMMA SumOfParts ==
  ASSUME NEW S, IsFiniteSet(S), \A x \in S : Size[x] \in Nat, NEW D \in SUBSET S
  PROVE  Total(S) = Total(D) + Total(S \ D)
<1> DEFINE C == {s \in SUBSET D : Total(S) # Total(s) + Total(S \ s)}
<1> SUFFICES ASSUME C # {} PROVE FALSE
  OBVIOUS
<1>0. IsFiniteSet(D)
  BY FS_Subset
<1>1. PICK s \in C : \A u \in C : Cardinality(s) <= Cardinality(u)
  BY <1>0, LeastSet
<1>2. Total(S) \in Nat
  BY SumIsNat
<1>3. s # {}
  <2>1. S \ {} = S
    OBVIOUS
  <2> QED BY <1>2, <2>1, SumOfNone
<1>4. PICK x : x \in s
  BY <1>3
<1> DEFINE r == s \ {x}
<1>5. IsFiniteSet(s) /\ IsFiniteSet(r) /\ IsFiniteSet(S \ r) /\ s \in SUBSET S
  BY <1>0, FS_Subset
<1>6. Cardinality(r) = Cardinality(s) - 1 /\ Cardinality(s) \in Nat
  BY <1>4, <1>5, FS_RemoveElement, FS_CardinalityType
<1>7. r \notin C
  BY <1>1, <1>6
<1>8. Total(S) = Total(r) + Total(S \ r)
  BY <1>7
<1>9. Total(s) = Size[x] + Total(r)
  BY <1>4, <1>5, SumWithout
<1>10. Total(S \ r) = Size[x] + Total(S \ s)
  <2>1. PICK T : T = S \ r
    OBVIOUS
  <2>2. x \in T /\ IsFiniteSet(T) /\ T \ {x} = S \ s /\ \A w \in T : Size[w] \in Nat
    BY <1>4, <1>5, <2>1
  <2>3. Total(T) = Size[x] + Total(T \ {x})
    BY <2>2, SumWithout
  <2> QED BY <2>1, <2>2, <2>3
<1>11. Size[x] \in Nat /\ Total(r) \in Nat /\ Total(S \ s) \in Nat
  <2>1. IsFiniteSet(S \ s) /\ (\A w \in r : Size[w] \in Nat) /\ (\A w \in S \ s : Size[w] \in Nat)
    BY <1>5, FS_Subset
  <2>2. Total(r) \in Nat
    BY <1>5, <2>1, SumIsNat
  <2>3. Total(S \ s) \in Nat
    BY <2>1, SumIsNat
  <2> QED BY <1>4, <1>5, <2>2, <2>3
<1> QED BY <1>8, <1>9, <1>10, <1>11

-----------------------------------------------------------------------------
(* The cache.                                                                *)

CacheGood(c, s) == c \in [Files -> CacheItems] /\ s \in Nat /\ s = Total(Cached(c)) /\ s <= MaxSize

LEMMA FilesCounted ==
  ASSUME NEW F \in SUBSET Files
  PROVE  IsFiniteSet(F) /\ Total(F) \in Nat /\ \A f \in F : Size[f] \in Nat
<1>1. IsFiniteSet(F) /\ \A f \in F : Size[f] \in Nat
  BY AudioAssumption, FS_Subset
<1> QED BY <1>1, SumIsNat

\* The size depends on which files have wave data and on nothing else.
LEMMA SameFiles ==
  ASSUME NEW c, NEW s, CacheGood(c, s), NEW d \in [Files -> CacheItems], \A f \in Files : d[f].data = c[f].data
  PROVE  CacheGood(d, s)
<1>1. Cached(d) = Cached(c)
  BY DEF Cached
<1> QED BY <1>1 DEF CacheGood

LEMMA ClosedGood ==
  ASSUME NEW c, NEW s, CacheGood(c, s), NEW h
  PROVE  CacheGood(Closed(c, h), s)
<1>1. PICK d : d = Closed(c, h)
  OBVIOUS
<1>2. ASSUME NEW f \in Files PROVE d[f] \in CacheItems /\ d[f].data = c[f].data
  <2>1. PICK i \in CacheItems : i = c[f]
    BY DEF CacheGood
  <2>2. d[f] = IF h # Null /\ i.data = h THEN [i EXCEPT !.refs = i.refs - 1] ELSE i
    BY <1>1, <2>1 DEF Closed
  <2> QED BY <2>1, <2>2 DEF CacheItems
<1>3. d \in [Files -> CacheItems]
  BY <1>1, <1>2 DEF Closed
<1> QED BY <1>1, <1>2, <1>3, SameFiles

\* What a file that is loaded adds and the files it displaces.
LEMMA LoadedGood ==
  ASSUME NEW e \in Events, NEW f \in Files, NEW c, NEW s, CacheGood(c, s), f \notin Cached(c),
         NEW o \in Loaded(e, f, c, s)
  PROVE  CacheGood(o.cache, o.size) /\ o.data \in Buffers
<1>1. PICK b \in Buffers \ {c[g].data : g \in Files}, V \in Victims(e, c, s + Size[f] - MaxSize) :
        o = [data |-> b,
             cache |-> [g \in Files |-> IF g = f THEN [data |-> b, refs |-> 1, owner |-> e]
                                        ELSE IF g \in V THEN Uncached ELSE c[g]],
             size |-> SizeWith(s, f, V)]
  BY DEF Loaded
<1>2. PICK d : d = [g \in Files |-> IF g = f THEN [data |-> b, refs |-> 1, owner |-> e]
                                    ELSE IF g \in V THEN Uncached ELSE c[g]]
  OBVIOUS
<1>3. o.data = b /\ o.cache = d /\ o.size = s + Size[f] - Total(V)
  BY <1>1, <1>2 DEF SizeWith
<1>4. s \in Nat /\ s <= MaxSize /\ s = Total(Cached(c)) /\ c \in [Files -> CacheItems]
      /\ MaxSize \in Nat /\ Size[f] \in Nat
  BY AudioAssumption DEF CacheGood
<1>5. V \subseteq Cached(c) /\ (s + Size[f] - MaxSize <= 0 => V = {})
      /\ (s + Size[f] - MaxSize > 0 => Total(V) >= s + Size[f] - MaxSize)
  <2>1. PICK r : r = s + Size[f] - MaxSize
    OBVIOUS
  <2>2. r \in Int
    BY <1>4, <2>1
  <2>3. Unreferenced(c) \subseteq Cached(c) /\ Outranked(e, c) \subseteq Cached(c)
    BY DEF Unreferenced, Outranked
  <2>4. V \in Victims(e, c, r)
    BY <2>1
  <2>5. CASE r <= 0
    BY <2>1, <2>2, <2>4, <2>5 DEF Victims
  <2>6. CASE r > 0
    <3>1. V \in SUBSET (Unreferenced(c) \cup Outranked(e, c)) /\ Total(V) >= r
      BY <2>2, <2>4, <2>6 DEF Victims
    <3> QED BY <2>1, <2>2, <2>3, <2>6, <3>1
  <2> QED BY <2>2, <2>5, <2>6
<1>6. Cached(c) \subseteq Files
  BY DEF Cached
<1>7. PICK A : A = Cached(c) \ V
  OBVIOUS
<1>8. /\ Total(V) \in Nat /\ Total(A) \in Nat /\ Total(Cached(c)) = Total(V) + Total(A)
  <2>1. V \in SUBSET Files /\ A \in SUBSET Files /\ Cached(c) \in SUBSET Files
    BY <1>5, <1>6, <1>7
  <2>2. Total(V) \in Nat /\ Total(A) \in Nat /\ IsFiniteSet(Cached(c)) /\ \A g \in Cached(c) : Size[g] \in Nat
    BY <2>1, FilesCounted
  <2>3. Total(Cached(c)) = Total(V) + Total(Cached(c) \ V)
    BY <1>5, <2>2, SumOfParts
  <2> QED BY <1>7, <2>2, <2>3
<1>9. Total(A \cup {f}) = Size[f] + Total(A)
  <2>1. A \cup {f} \in SUBSET Files /\ f \notin A /\ A \in SUBSET Files
    BY <1>6, <1>7
  <2>2. IsFiniteSet(A) /\ \A g \in A \cup {f} : Size[g] \in Nat
    BY <2>1, FilesCounted
  <2> QED BY <2>1, <2>2, SumWith
<1>10. Cached(d) = A \cup {f}
  <2>1. \A g \in Files : d[g].data = IF g = f THEN b ELSE IF g \in V THEN Null ELSE c[g].data
    BY <1>2 DEF Uncached
  <2>2. b # Null
    BY AudioAssumption
  <2>3. \A g \in Files : g \in Cached(d) <=> g \in A \cup {f}
    BY <1>7, <2>1, <2>2 DEF Cached
  <2> QED BY <1>6, <1>7, <2>3 DEF Cached
<1>11. d \in [Files -> CacheItems]
  <2>1. [data |-> b, refs |-> 1, owner |-> e] \in CacheItems /\ Uncached \in CacheItems
    BY DEF CacheItems, Uncached
  <2> QED BY <1>2, <1>4, <2>1
<1>12. o.size = Total(Cached(d)) /\ o.size \in Nat
  BY <1>3, <1>4, <1>8, <1>9, <1>10
<1>13. o.size <= MaxSize
  <2>1. CASE s + Size[f] - MaxSize <= 0
    BY <1>3, <1>4, <1>5, <1>8, <2>1
  <2>2. CASE s + Size[f] - MaxSize > 0
    BY <1>3, <1>4, <1>5, <1>8, <2>2
  <2> QED BY <1>4, <2>1, <2>2
<1> QED BY <1>3, <1>11, <1>12, <1>13 DEF CacheGood

\* Whatever Open_File and Play_Sample return, the cache is accounted for.
LEMMA PlayedGood ==
  ASSUME NEW e \in Events, NEW ev \in EventStates, NEW c, NEW s, CacheGood(c, s), NEW o \in Played(e, ev, c, s)
  PROVE  CacheGood(o.cache, o.size) /\ o.data \in Buffers \cup {Null}
<1>1. CASE o = Failed(c, s)
  BY <1>1 DEF Failed
<1>2. CASE o # Failed(c, s)
  <2>1. PICK f : f = <<Info[e].attack, ev.file, Info[e].decay, Null>>[ev.portion + 1]
    OBVIOUS
  <2>2. f \in FileNames
    <3>1. Info[e].attack \in FileNames /\ Info[e].decay \in FileNames
      BY AudioAssumption
    <3>2. ev.file \in FileNames /\ ev.portion \in 0..3 /\ Null \in FileNames
      BY DEF EventStates, FileNames
    <3> QED BY <2>1, <3>1, <3>2
  <2>3. o \in Opened(e, ev, c, s)
    BY <1>2 DEF Played
  <2>4. CASE f \in Cached(c)
    <3>1. f \in Files /\ c[f] \in CacheItems
      BY <2>4 DEF Cached, CacheGood
    <3>2. PICK i \in CacheItems : i = c[f]
      BY <3>1
    <3>3. PICK d : d = [c EXCEPT ![f] = [i EXCEPT !.refs = i.refs + 1]]
      OBVIOUS
    <3>4. o = [data |-> i.data, cache |-> d, size |-> s]
      BY <2>1, <2>3, <2>4, <3>2, <3>3 DEF Opened
    <3>5. [i EXCEPT !.refs = i.refs + 1] \in CacheItems /\ [i EXCEPT !.refs = i.refs + 1].data = i.data
          /\ i.data \in Buffers \cup {Null}
      BY DEF CacheItems
    <3>6. d \in [Files -> CacheItems] /\ \A g \in Files : d[g].data = c[g].data
      BY <3>1, <3>2, <3>3, <3>5 DEF CacheGood
    <3>7. CacheGood(d, s)
      BY <3>6, SameFiles
    <3> QED BY <3>4, <3>5, <3>7
  <2>5. CASE f \notin Cached(c)
    <3>1. o \in Loaded(e, f, c, s) /\ f # Null
      BY <1>2, <2>1, <2>3, <2>5 DEF Opened
    <3>2. f \in Files
      BY <2>2, <3>1 DEF FileNames
    <3> QED BY <2>5, <3>1, <3>2, LoadedGood
  <2> QED BY <2>4, <2>5
<1> QED BY <1>1, <1>2

-----------------------------------------------------------------------------
(* Lists that lose an entry.                                                 *)

\* r is q without its entry at place k.
Cut(q, k, r) ==
  Len(r) = Len(q) - 1 /\ \A i \in 1..Len(r) : r[i] = IF i < k THEN q[i] ELSE q[i + 1]


LEMMA RemoveCuts ==
  ASSUME NEW S, NEW q \in Seq(S), NEW k \in 1..Len(q), NEW r, r = RemoveAt(q, k)
  PROVE  r \in Seq(S) /\ Cut(q, k, r)
<1>1. Len(q) \in Nat /\ k \in Nat /\ k - 1 \in 0..Len(q)
  OBVIOUS
<1> DEFINE a == SubSeq(q, 1, k - 1)
           b == SubSeq(q, k + 1, Len(q))
<1>2. /\ a \in Seq(S) /\ Len(a) = k - 1 /\ \A i \in 1..(k - 1) : a[i] = q[i]
  BY <1>1
<1>3. /\ b \in Seq(S) /\ Len(b) = Len(q) - k /\ \A i \in 1..(Len(q) - k) : b[i] = q[k + i]
  BY <1>1
<1>4. r = a \o b
  BY DEF RemoveAt
<1> HIDE DEF a, b
<1>5. r \in Seq(S) /\ Len(r) = Len(q) - 1
  BY <1>1, <1>2, <1>3, <1>4, ConcatProperties
<1>6. ASSUME NEW i \in 1..Len(r)
      PROVE  r[i] = IF i < k THEN q[i] ELSE q[i + 1]
  <2>1. CASE i < k
    BY <1>1, <1>2, <1>3, <1>4, <1>5, <2>1
  <2>2. CASE i >= k
    <3>1. i - (k - 1) \in 1..(Len(q) - k) /\ k + (i - (k - 1)) = i + 1
      BY <1>1, <1>5, <2>2
    <3>2. r[i] = b[i - (k - 1)]
      <4>1. i \in 1..(Len(a) + Len(b)) /\ ~(i <= Len(a))
        BY <1>1, <1>2, <1>3, <1>5, <2>2
      <4>2. (a \o b)[i] = b[i - Len(a)]
        BY <1>2, <1>3, <4>1, ConcatProperties
      <4> QED BY <1>2, <1>4, <4>2
    <3> QED BY <1>1, <1>3, <2>2, <3>1, <3>2
  <2> QED BY <1>1, <2>1, <2>2
<1> QED BY <1>5, <1>6 DEF Cut


LEMMA FrontCuts ==
  ASSUME NEW S, NEW q \in Seq(S), Len(q) # 0, NEW r, r = Front(q)
  PROVE  r \in Seq(S) /\ Cut(q, Len(q), r)
<1>1. Len(q) \in Nat /\ \A i \in 1..(Len(q) - 1) : q[i] \in S
  OBVIOUS
<1>2. PICK n \in Nat : n = Len(q) - 1
  <2>1. Len(q) - 1 \in Nat
    BY <1>1
  <2> QED BY <2>1
<1>3. \A i \in 1..n : q[i] \in S
  BY <1>1, <1>2
<1>4. /\ r \in Seq(S) /\ Len(r) = n /\ \A i \in 1..n : r[i] = q[i]
  <2>1. r = SubSeq(q, 1, n)
    BY <1>2 DEF Front
  <2>2. /\ SubSeq(q, 1, n) \in Seq(S) /\ Len(SubSeq(q, 1, n)) = IF 1 <= n THEN n - 1 + 1 ELSE 0
        /\ \A i \in 1..(n - 1 + 1) : SubSeq(q, 1, n)[i] = q[1 + i - 1]
    BY <1>3, SubSeqProperties
  <2> QED BY <2>1, <2>2
<1> QED BY <1>1, <1>2, <1>4 DEF Cut

\* Where the entries of the shorter list were, and where those of the longer one went.
Placed(q, k, r) ==
  /\ \A i \in 1..Len(r) : \E j \in 1..Len(q) : j # k /\ r[i] = q[j] /\ j >= i /\ (i < k => j = i) /\ (i >= k => j = i + 1)
  /\ \A j \in 1..Len(q) : j # k => \E i \in 1..Len(r) : r[i] = q[j] /\ i = IF j < k THEN j ELSE j - 1

LEMMA PlacesOfCut ==
  ASSUME NEW q, NEW r, Len(q) \in Nat, NEW k \in 1..Len(q), Cut(q, k, r)
  PROVE  Placed(q, k, r)
<1>1. Len(q) \in Nat /\ Len(r) \in Nat /\ k \in Nat /\ Len(r) = Len(q) - 1
  BY DEF Cut
<1>2. ASSUME NEW i \in 1..Len(r)
      PROVE \E j \in 1..Len(q) : j # k /\ r[i] = q[j] /\ j >= i /\ (i < k => j = i) /\ (i >= k => j = i + 1)
  <2>1. r[i] = IF i < k THEN q[i] ELSE q[i + 1]
    BY DEF Cut
  <2>2. CASE i < k
    BY <1>1, <2>1, <2>2
  <2>3. CASE i >= k
    <3>1. i + 1 \in 1..Len(q) /\ i + 1 # k
      BY <1>1, <2>3
    <3> QED BY <1>1, <2>1, <2>3, <3>1
  <2> QED BY <1>1, <2>2, <2>3
<1>3. ASSUME NEW j \in 1..Len(q), j # k
      PROVE \E i \in 1..Len(r) : r[i] = q[j] /\ i = IF j < k THEN j ELSE j - 1
  <2>1. CASE j < k
    BY <1>1, <2>1 DEF Cut
  <2>2. CASE j > k
    <3>1. j - 1 \in 1..Len(r) /\ ~(j - 1 < k) /\ (j - 1) + 1 = j
      BY <1>1, <2>2
    <3>2. r[j - 1] = q[j]
      BY <3>1 DEF Cut
    <3> QED BY <2>2, <3>1, <3>2
  <2> QED BY <1>1, <1>3, <2>1, <2>2
<1> QED BY <1>2, <1>3 DEF Placed

LEMMA CutPlaces ==
  ASSUME NEW S, NEW q \in Seq(S), NEW r \in Seq(S), NEW k \in 1..Len(q), Cut(q, k, r)
  PROVE  /\ \A i \in 1..Len(r) : \E j \in 1..Len(q) : j # k /\ r[i] = q[j] /\ j >= i /\ (i < k => j = i) /\ (i >= k => j = i + 1)
         /\ \A j \in 1..Len(q) : j # k => \E i \in 1..Len(r) : r[i] = q[j] /\ i = IF j < k THEN j ELSE j - 1
<1>1. Len(q) \in Nat
  OBVIOUS
<1> QED BY <1>1, PlacesOfCut DEF Placed

-----------------------------------------------------------------------------
(* The handles of a free list and of a list of entries.                      *)

\* An entry that goes gives its handle back.
LEMMA ApartReleased ==
  ASSUME NEW f \in Seq(Handles), NEW l \in Seq(Entries), NEW r \in Seq(Entries), NEW H, HandlesApart(f, l, H),
         NEW k \in 1..Len(l), Cut(l, k, r), NEW g, g = Append(f, l[k].sample)
  PROVE  HandlesApart(g, r, H)
<1>1. Len(l) \in Nat /\ Len(r) \in Nat /\ Len(f) \in Nat
  OBVIOUS
<1>2. PICK h \in Handles : h = l[k].sample
  <2>1. l[k] \in Entries
    BY ElementOfSeq
  <2> QED BY <2>1 DEF Entries
<1>3. /\ Len(g) = Len(f) + 1 /\ g[Len(f) + 1] = h /\ \A x \in 1..Len(f) : g[x] = f[x]
  BY <1>2
<1>4. /\ \A i \in 1..Len(r) : \E j \in 1..Len(l) : j # k /\ r[i] = l[j] /\ j >= i /\ (i < k => j = i) /\ (i >= k => j = i + 1)
      /\ \A j \in 1..Len(l) : j # k => \E i \in 1..Len(r) : r[i] = l[j] /\ i = IF j < k THEN j ELSE j - 1
  <2>1. Placed(l, k, r)
    BY <1>1, PlacesOfCut
  <2> QED BY <2>1 DEF Placed
<1>5. \A j \in 1..Len(l) : j # k => \E i \in 1..Len(r) : r[i] = l[j] /\ i = IF j < k THEN j ELSE j - 1
  BY <1>4
<1>6. Distinct(g)
  <2>1. \A x \in 1..Len(f) : f[x] # h
    BY <1>2 DEF HandlesApart
  <2> QED BY <1>1, <1>3, <2>1 DEF HandlesApart, Distinct
<1>7. ASSUME NEW i \in 1..Len(r), NEW j \in 1..Len(r), r[i].sample = r[j].sample PROVE i = j
  <2>1. PICK a \in 1..Len(l) : a # k /\ r[i] = l[a] /\ (i < k => a = i) /\ (i >= k => a = i + 1)
    BY <1>4
  <2>2. PICK b \in 1..Len(l) : b # k /\ r[j] = l[b] /\ (j < k => b = j) /\ (j >= k => b = j + 1)
    BY <1>4
  <2>3. a = b
    BY <1>7, <2>1, <2>2 DEF HandlesApart
  <2> QED BY <1>1, <2>1, <2>2, <2>3
<1>8. ASSUME NEW x \in 1..Len(g), NEW i \in 1..Len(r) PROVE g[x] # r[i].sample
  <2>1. PICK j \in 1..Len(l) : j # k /\ r[i] = l[j]
    BY <1>4
  <2>2. CASE x = Len(f) + 1
    BY <1>2, <1>3, <2>1, <2>2 DEF HandlesApart
  <2>3. CASE x # Len(f) + 1
    <3>1. x \in 1..Len(f)
      BY <1>1, <1>3, <2>3
    <3> QED BY <1>3, <2>1, <3>1 DEF HandlesApart
  <2> QED BY <2>2, <2>3
<1>9. Members(g) \cup {r[i].sample : i \in 1..Len(r)} = Members(H)
  <2>1. Members(g) = Members(f) \cup {h}
    BY <1>1, <1>3 DEF Members
  <2>2. {l[i].sample : i \in 1..Len(l)} = {r[i].sample : i \in 1..Len(r)} \cup {h}
    <3>1. \A j \in 1..Len(l) : l[j].sample \in {r[i].sample : i \in 1..Len(r)} \cup {h}
      BY <1>2, <1>5
    <3>2. \A i \in 1..Len(r) : r[i].sample \in {l[j].sample : j \in 1..Len(l)}
      BY <1>4
    <3>3. h \in {l[j].sample : j \in 1..Len(l)}
      BY <1>2
    <3> QED BY <3>1, <3>2, <3>3
  <2> QED BY <2>1, <2>2 DEF HandlesApart
<1> QED BY <1>6, <1>7, <1>8, <1>9 DEF HandlesApart

\* A new entry takes the first handle that is free.
LEMMA ApartTaken ==
  ASSUME NEW f \in Seq(Handles), f # << >>, NEW l \in Seq(Entries), NEW H, HandlesApart(f, l, H),
         NEW p \in Entries, p.sample = Head(f), NEW r, r = Append(l, p), NEW g, g = Tail(f)
  PROVE  HandlesApart(g, r, H)
<1>1. Len(l) \in Nat /\ Len(f) \in Nat /\ Len(f) # 0
  BY EmptySeq
<1>2. /\ Len(g) = Len(f) - 1 /\ \A x \in 1..Len(g) : g[x] = f[x + 1]
  BY <1>1
<1>3. p.sample = f[1] /\ 1 \in 1..Len(f)
  BY <1>1
<1>4. /\ Len(r) = Len(l) + 1 /\ r[Len(l) + 1] = p /\ \A x \in 1..Len(l) : r[x] = l[x]
  OBVIOUS
<1>5. \A x \in 1..Len(g) : x + 1 \in 1..Len(f) /\ x + 1 # 1
  BY <1>1, <1>2
<1>6. Distinct(g)
  <2> SUFFICES ASSUME NEW x \in 1..Len(g), NEW y \in 1..Len(g), g[x] = g[y] PROVE x = y
    BY DEF Distinct
  <2>1. x + 1 = y + 1
    BY <1>2, <1>5 DEF HandlesApart, Distinct
  <2> QED BY <2>1
<1>7. ASSUME NEW i \in 1..Len(r), NEW j \in 1..Len(r), r[i].sample = r[j].sample PROVE i = j
  <2>1. \A a \in 1..Len(l) : r[a].sample # p.sample
    BY <1>3, <1>4 DEF HandlesApart
  <2>2. CASE i \in 1..Len(l) /\ j \in 1..Len(l)
    BY <1>4, <1>7, <2>2 DEF HandlesApart
  <2>3. CASE i = Len(l) + 1 \/ j = Len(l) + 1
    BY <1>1, <1>4, <1>7, <2>1, <2>3, SMTT(30)
  <2> QED BY <1>1, <1>4, <2>2, <2>3
<1>8. ASSUME NEW x \in 1..Len(g), NEW i \in 1..Len(r) PROVE g[x] # r[i].sample
  <2>1. CASE i = Len(l) + 1
    BY <1>2, <1>3, <1>4, <1>5, <2>1 DEF HandlesApart, Distinct
  <2>2. CASE i # Len(l) + 1
    <3>1. i \in 1..Len(l)
      BY <1>1, <1>4, <2>2
    <3> QED BY <1>2, <1>4, <1>5, <3>1 DEF HandlesApart
  <2> QED BY <2>1, <2>2
<1>9. Members(g) \cup {r[i].sample : i \in 1..Len(r)} = Members(H)
  <2>1. Members(f) = Members(g) \cup {p.sample}
    <3>1. ASSUME NEW x \in 1..Len(f), x # 1 PROVE f[x] \in Members(g)
      <4>1. x - 1 \in 1..Len(g) /\ (x - 1) + 1 = x
        BY <1>1, <1>2, <3>1
      <4>2. g[x - 1] = f[x]
        BY <1>2, <4>1
      <4> QED BY <4>1, <4>2 DEF Members
    <3>2. \A x \in 1..Len(g) : g[x] \in Members(f)
      BY <1>2, <1>5 DEF Members
    <3>3. p.sample \in Members(f)
      BY <1>3 DEF Members
    <3>4. \A x \in 1..Len(f) : f[x] \in Members(g) \cup {p.sample}
      BY <1>3, <3>1
    <3>5. Members(f) \subseteq Members(g) \cup {p.sample}
      BY <3>4 DEF Members
    <3>6. Members(g) \subseteq Members(f)
      BY <3>2 DEF Members
    <3> QED BY <3>3, <3>5, <3>6
  <2>2. {r[i].sample : i \in 1..Len(r)} = {l[i].sample : i \in 1..Len(l)} \cup {p.sample}
    BY <1>1, <1>4
  <2> QED BY <2>1, <2>2 DEF HandlesApart
<1> QED BY <1>6, <1>7, <1>8, <1>9 DEF HandlesApart

\* Entries that keep their handles.
LEMMA ApartSame ==
  ASSUME NEW f, NEW l, NEW H, HandlesApart(f, l, H), NEW r, Len(r) = Len(l),
         \A i \in 1..Len(l) : r[i].sample = l[i].sample
  PROVE  HandlesApart(f, r, H)
<1>1. {r[i].sample : i \in 1..Len(r)} = {l[i].sample : i \in 1..Len(l)}
  OBVIOUS
<1> QED BY <1>1 DEF HandlesApart

\* All entries go and give their handles back.
LEMMA ApartEmptied ==
  ASSUME NEW f \in Seq(Handles), NEW l \in Seq(Entries), NEW H, HandlesApart(f, l, H),
         NEW g, g = f \o [i \in DOMAIN l |-> l[i].sample], NEW r, r = << >>
  PROVE  g \in Seq(Handles) /\ HandlesApart(g, r, H)
<1>1. PICK s : s = [i \in 1..Len(l) |-> l[i].sample]
  OBVIOUS
<1>2. s \in Seq(Handles) /\ Len(s) = Len(l) /\ Len(l) \in Nat /\ Len(f) \in Nat
  <2>1. \A i \in 1..Len(l) : l[i].sample \in Handles
    <3>1. \A i \in 1..Len(l) : l[i] \in Entries
      BY ElementOfSeq
    <3> QED BY <3>1 DEF Entries
  <2>2. Len(l) \in Nat /\ Len(f) \in Nat
    OBVIOUS
  <2>3. PICK n \in Nat : n = Len(l)
    BY <2>2
  <2>4. s \in [1..n -> Handles]
    BY <1>1, <2>1, <2>3
  <2>5. s \in Seq(Handles) /\ Len(s) = n
    BY <2>4
  <2> QED BY <2>2, <2>3, <2>5
<1>3. g = f \o s
  BY <1>1
<1>4. /\ g \in Seq(Handles) /\ Len(g) = Len(f) + Len(s)
      /\ \A i \in 1..(Len(f) + Len(s)) : g[i] = IF i <= Len(f) THEN f[i] ELSE s[i - Len(f)]
  <2>1. /\ f \o s \in Seq(Handles) /\ Len(f \o s) = Len(f) + Len(s)
        /\ \A i \in 1..(Len(f) + Len(s)) : (f \o s)[i] = IF i <= Len(f) THEN f[i] ELSE s[i - Len(f)]
    BY <1>2, ConcatProperties
  <2> QED BY <1>3, <2>1
<1>5. \A x \in 1..Len(g) : ~(x <= Len(f)) => x - Len(f) \in 1..Len(l)
  BY <1>2, <1>4
<1>6. ASSUME NEW x \in 1..Len(g), NEW y \in 1..Len(g), g[x] = g[y] PROVE x = y
  <2>1. CASE x <= Len(f) /\ y <= Len(f)
    <3>1. x \in 1..Len(f) /\ y \in 1..Len(f)
      BY <1>2, <1>4, <2>1
    <3> QED BY <1>4, <1>6, <2>1, <3>1 DEF HandlesApart, Distinct
  <2>2. CASE ~(x <= Len(f)) /\ ~(y <= Len(f))
    <3>1. x - Len(f) = y - Len(f)
      BY <1>1, <1>4, <1>5, <1>6, <2>2 DEF HandlesApart
    <3> QED BY <1>2, <1>4, <3>1
  <2>3. CASE x <= Len(f) /\ ~(y <= Len(f))
    <3>1. x \in 1..Len(f)
      BY <1>2, <1>4, <2>3
    <3> QED BY <1>1, <1>4, <1>5, <1>6, <2>3, <3>1 DEF HandlesApart
  <2>4. CASE ~(x <= Len(f)) /\ y <= Len(f)
    <3>1. y \in 1..Len(f)
      BY <1>2, <1>4, <2>4
    <3> QED BY <1>1, <1>4, <1>5, <1>6, <2>4, <3>1 DEF HandlesApart
  <2> QED BY <2>1, <2>2, <2>3, <2>4
<1>7. Members(g) = Members(f) \cup {l[i].sample : i \in 1..Len(l)}
  <2>1. \A x \in 1..Len(f) : x \in 1..Len(g) /\ g[x] = f[x]
    BY <1>2, <1>4
  <2>2. \A i \in 1..Len(l) : i + Len(f) \in 1..Len(g) /\ g[i + Len(f)] = l[i].sample
    BY <1>1, <1>2, <1>4
  <2>3. ASSUME NEW x \in 1..Len(g) PROVE g[x] \in Members(f) \cup {l[i].sample : i \in 1..Len(l)}
    <3>1. CASE x <= Len(f)
      BY <1>2, <1>4, <3>1 DEF Members
    <3>2. CASE ~(x <= Len(f))
      <4>1. PICK i \in 1..Len(l) : i = x - Len(f)
        BY <1>5, <3>2
      <4>2. g[x] = l[i].sample
        BY <1>1, <1>2, <1>4, <3>2, <4>1
      <4> QED BY <4>2
    <3> QED BY <3>1, <3>2
  <2>4. Members(g) \subseteq Members(f) \cup {l[i].sample : i \in 1..Len(l)}
    BY <2>3 DEF Members
  <2>5. Members(f) \subseteq Members(g)
    BY <2>1 DEF Members
  <2>6. \A i \in 1..Len(l) : l[i].sample \in Members(g)
    BY <2>2 DEF Members
  <2> QED BY <2>4, <2>5, <2>6
<1>8. Len(r) = 0
  OBVIOUS
<1>9. {r[i].sample : i \in 1..Len(r)} = {}
  BY <1>8
<1>10. Members(g) = Members(H)
  BY <1>7 DEF HandlesApart
<1>11. HandlesApart(g, r, H)
  <2>1. Distinct(g)
    BY <1>6 DEF Distinct
  <2>2. 1..Len(r) = {}
    BY <1>8
  <2>3. \A i, j \in 1..Len(r) : r[i].sample = r[j].sample => i = j
    BY <2>2
  <2>4. \A x \in 1..Len(g), i \in 1..Len(r) : g[x] # r[i].sample
    BY <2>2
  <2>5. Members(g) \cup {r[i].sample : i \in 1..Len(r)} = Members(H)
    BY <1>9, <1>10
  <2> QED BY <2>1, <2>3, <2>4, <2>5, Zenon DEF HandlesApart
<1> QED BY <1>4, <1>11

-----------------------------------------------------------------------------
(* Entries that go and entries that change, with their handles.              *)

LEMMA EntryTyped ==
  ASSUME TypeOK, NEW K \in Kinds
  PROVE  /\ list[K] \in Seq(Entries) /\ Len(list[K]) \in Nat /\ free[K] \in Seq(Handles)
         /\ \A i \in 1..Len(list[K]) :
              /\ list[K][i] \in Entries /\ list[K][i].event \in Events /\ list[K][i].sample \in Handles
              /\ list[K][i].sample # Null /\ Kind(list[K][i].event) = K
<1>1. list[K] \in Seq(Entries) /\ Len(list[K]) \in Nat /\ free[K] \in Seq(Handles)
  BY DEF TypeOK
<1>2. \A i \in 1..Len(list[K]) : list[K][i] \in Entries
  BY <1>1, ElementOfSeq
<1>3. \A p \in Entries : p.event \in Events /\ p.sample \in Handles /\ p.sample # Null
  BY AudioAssumption DEF Entries
<1> QED BY <1>1, <1>2, <1>3 DEF TypeOK

\* A sample is of one kind.
LEMMA SampleKinds ==
  ASSUME NEW K \in Kinds, NEW J \in Kinds, NEW s \in Members(Samples[K]), s \in Members(Samples[J])
  PROVE  K = J
<1>1. \A I \in Kinds : Members(Samples[I]) = ToSet(Samples[I])
  <2>1. \A I \in Kinds : Samples[I] \in Seq(Handles)
    BY AudioAssumption
  <2>2. \A I \in Kinds : DOMAIN Samples[I] = 1..Len(Samples[I])
    BY <2>1, LenProperties
  <2> QED BY <2>2 DEF Members, ToSet
<1> QED BY <1>1, AudioAssumption DEF Kinds

\* No two entries have one handle, whatever their kinds.
LEMMA SamplesDiffer ==
  ASSUME TypeOK, SamplesInv, NEW K \in Kinds, NEW J \in Kinds, NEW i \in 1..Len(list[K]), NEW j \in 1..Len(list[J]),
         list[K][i].sample = list[J][j].sample
  PROVE  K = J /\ i = j
<1>1. list[K][i].sample \in Members(Samples[K]) /\ list[J][j].sample \in Members(Samples[J])
  <2>1. ASSUME NEW I \in Kinds, NEW a \in 1..Len(list[I]) PROVE list[I][a].sample \in Members(Samples[I])
    <3>1. Members(free[I]) \cup {list[I][b].sample : b \in 1..Len(list[I])} = Members(Samples[I])
      BY DEF SamplesInv, HandlesApart
    <3>2. list[I][a].sample \in {list[I][b].sample : b \in 1..Len(list[I])}
      OBVIOUS
    <3> QED BY <3>1, <3>2
  <2> QED BY <2>1
<1>2. K = J
  BY <1>1, SampleKinds
<1>3. i = j
  BY <1>2 DEF SamplesInv, HandlesApart
<1> QED BY <1>2, <1>3

\* An entry goes, its handle goes back and its sample is silent.
LEMMA EntryGone ==
  ASSUME TypeOK, SamplesInv, RunningInv, NEW K \in Kinds, NEW k \in 1..Len(list[K]),
         NEW r \in Seq(Entries), Cut(list[K], k, r), list' = [list EXCEPT ![K] = r],
         free' = [free EXCEPT ![K] = Append(free[K], list[K][k].sample)],
         running' = running \ {list[K][k].sample}
  PROVE  /\ list' \in [Kinds -> Seq(Entries)]
         /\ \A J \in Kinds : \A i \in 1..Len(list'[J]) : Kind(list'[J][i].event) = J
         /\ free' \in [Kinds -> Seq(Handles)] /\ running' \subseteq Handles
         /\ SamplesInv' /\ RunningInv'
<1>1. list \in [Kinds -> Seq(Entries)] /\ free \in [Kinds -> Seq(Handles)] /\ running \subseteq Handles
  BY DEF TypeOK
<1>2. PICK l : l = list[K]
  OBVIOUS
<1>3. PICK h : h = l[k].sample
  OBVIOUS
<1>4. PICK f : f = free[K]
  OBVIOUS
<1>5. l \in Seq(Entries) /\ f \in Seq(Handles) /\ h \in Handles /\ k \in 1..Len(l) /\ Cut(l, k, r)
  BY <1>2, <1>3, <1>4, EntryTyped
<1>6. PICK g : g = Append(f, h)
  OBVIOUS
<1>7. g \in Seq(Handles)
  BY <1>5, <1>6
<1>8. /\ list' \in [Kinds -> Seq(Entries)] /\ free' \in [Kinds -> Seq(Handles)] /\ running' \subseteq Handles
      /\ list'[K] = r /\ free'[K] = g
      /\ \A J \in Kinds : J # K => list'[J] = list[J] /\ free'[J] = free[J]
  BY <1>1, <1>2, <1>3, <1>4, <1>6, <1>7
<1>9. /\ \A i \in 1..Len(r) : \E j \in 1..Len(l) : j # k /\ r[i] = l[j]
      /\ \A j \in 1..Len(l) : j # k => \E i \in 1..Len(r) : r[i] = l[j]
  <2>1. /\ \A i \in 1..Len(r) : \E j \in 1..Len(l) : j # k /\ r[i] = l[j] /\ j >= i /\ (i < k => j = i) /\ (i >= k => j = i + 1)
        /\ \A j \in 1..Len(l) : j # k => \E i \in 1..Len(r) : r[i] = l[j] /\ i = IF j < k THEN j ELSE j - 1
    BY <1>5, CutPlaces
  <2> QED BY <2>1
<1>10. ASSUME NEW J \in Kinds, NEW i \in 1..Len(list'[J]) PROVE Kind(list'[J][i].event) = J
  <2>1. PICK j \in 1..Len(list[J]) : list'[J][i] = list[J][j]
    BY <1>2, <1>8, <1>9
  <2>2. Kind(list[J][j].event) = J
    BY EntryTyped
  <2> QED BY <2>1, <2>2
<1>11. SamplesInv'
  <2>1. HandlesApart(g, r, Samples[K])
    <3>1. HandlesApart(f, l, Samples[K])
      BY <1>2, <1>4 DEF SamplesInv
    <3> QED BY <1>3, <1>5, <1>6, <3>1, ApartReleased
  <2> QED BY <1>8, <2>1 DEF SamplesInv
<1>12. RunningInv'
  <2>1. ASSUME NEW s \in running' PROVE \E J \in Kinds : \E i \in 1..Len(list'[J]) : list'[J][i].sample = s
    <3>1. PICK J \in Kinds : \E j \in 1..Len(list[J]) : list[J][j].sample = s
      BY DEF RunningInv
    <3>2. PICK j \in 1..Len(list[J]) : list[J][j].sample = s
      BY <3>1
    <3>3. CASE J = K
      <4>1. j \in 1..Len(l) /\ l[j].sample = s /\ j # k
        BY <1>2, <1>3, <3>2, <3>3
      <4> QED BY <1>8, <1>9, <3>3, <4>1
    <3>4. CASE J # K
      BY <1>8, <3>2, <3>4
    <3> QED BY <3>3, <3>4
  <2>2. ASSUME NEW J \in Kinds, NEW i \in 1..Len(list'[J]), list'[J][i].sample \in running'
        PROVE  ~list'[J][i].stopped
    <3>1. \E j \in 1..Len(list[J]) : list'[J][i] = list[J][j]
      BY <1>2, <1>8, <1>9
    <3> QED BY <2>2, <3>1 DEF RunningInv
  <2> QED BY <2>1, <2>2 DEF RunningInv
<1> QED BY <1>8, <1>10, <1>11, <1>12

\* The entries of the lists m are those of list with the same events and handles.
SameEntries(m) ==
  /\ m \in [Kinds -> Seq(Entries)]
  /\ \A K \in Kinds : /\ Len(m[K]) = Len(list[K])
                      /\ \A i \in 1..Len(list[K]) : /\ m[K][i].sample = list[K][i].sample
                                                    /\ m[K][i].event = list[K][i].event

LEMMA EntriesChanged ==
  ASSUME TypeOK, SamplesInv, RunningInv, SameEntries(list'), free' = free,
         \A s \in running' : s \in running \/ \E K \in Kinds : \E i \in 1..Len(list[K]) : list[K][i].sample = s,
         \A K \in Kinds : \A i \in 1..Len(list[K]) : list[K][i].sample \in running' => ~list'[K][i].stopped
  PROVE  /\ \A J \in Kinds : \A i \in 1..Len(list'[J]) : Kind(list'[J][i].event) = J
         /\ SamplesInv' /\ RunningInv'
<1>1. \A J \in Kinds : \A i \in 1..Len(list'[J]) : Kind(list'[J][i].event) = J
  BY EntryTyped DEF SameEntries
<1>2. SamplesInv'
  <2> SUFFICES ASSUME NEW K \in Kinds PROVE HandlesApart(free[K], list'[K], Samples[K])
    BY DEF SamplesInv
  <2>1. PICK l : l = list[K]
    OBVIOUS
  <2>2. PICK r : r = list'[K]
    OBVIOUS
  <2>3. Len(r) = Len(l) /\ \A i \in 1..Len(l) : r[i].sample = l[i].sample
    BY <2>1, <2>2 DEF SameEntries
  <2>4. HandlesApart(free[K], l, Samples[K])
    BY <2>1 DEF SamplesInv
  <2> QED BY <2>2, <2>3, <2>4, ApartSame
<1>3. \A s \in running' : \E K \in Kinds : \E i \in 1..Len(list[K]) : list[K][i].sample = s
  BY DEF RunningInv
<1>4. RunningInv'
  <2>1. ASSUME NEW s \in running' PROVE \E K \in Kinds : \E i \in 1..Len(list'[K]) : list'[K][i].sample = s
    <3>1. PICK K \in Kinds : \E i \in 1..Len(list[K]) : list[K][i].sample = s
      BY <1>3
    <3>2. PICK i \in 1..Len(list[K]) : list[K][i].sample = s
      BY <3>1
    <3>3. i \in 1..Len(list'[K]) /\ list'[K][i].sample = s
      BY <3>2 DEF SameEntries
    <3> QED BY <3>3
  <2>2. \A K \in Kinds : \A i \in 1..Len(list'[K]) : list'[K][i].sample \in running' => ~list'[K][i].stopped
    BY DEF SameEntries
  <2> QED BY <2>1, <2>2 DEF RunningInv
<1> QED BY <1>1, <1>2, <1>4

\* What Put does to the lists.
LEMMA PutIs ==
  ASSUME TypeOK, NEW K \in Kinds, NEW k \in 1..Len(list[K]), NEW p \in Entries, list' = [list EXCEPT ![K][k] = p],
         p.sample = list[K][k].sample, p.event = list[K][k].event
  PROVE  /\ SameEntries(list') /\ list'[K][k] = p
         /\ \A J \in Kinds : \A i \in 1..Len(list[J]) : J # K \/ i # k => list'[J][i] = list[J][i]
<1>1. PICK l : l = list[K]
  OBVIOUS
<1>2. l \in Seq(Entries) /\ k \in 1..Len(l) /\ list \in [Kinds -> Seq(Entries)]
  BY <1>1, EntryTyped DEF TypeOK
<1>3. PICK r : r = [l EXCEPT ![k] = p]
  OBVIOUS
<1>4. r \in Seq(Entries) /\ Len(r) = Len(l) /\ \A i \in 1..Len(l) : r[i] = IF i = k THEN p ELSE l[i]
  BY <1>2, <1>3, ExceptSeq
<1>5. list' = [list EXCEPT ![K] = r]
  BY <1>1, <1>3
<1>6. list' \in [Kinds -> Seq(Entries)] /\ list'[K] = r /\ \A J \in Kinds : J # K => list'[J] = list[J]
  BY <1>2, <1>4, <1>5
<1>7. SameEntries(list')
  BY <1>1, <1>4, <1>6 DEF SameEntries
<1> QED BY <1>1, <1>2, <1>4, <1>6, <1>7

-----------------------------------------------------------------------------
(* Events and who frees them.                                                *)

LEMMA RequestTyped ==
  ASSUME TypeOK
  PROVE  /\ requests \in Seq(Requests) /\ Len(requests) \in Nat
         /\ \A c \in 1..Len(requests) : requests[c].adding \in BOOLEAN /\ requests[c].event \in Events
<1>1. requests \in Seq(Requests) /\ Len(requests) \in Nat
  BY DEF TypeOK
<1>2. \A c \in 1..Len(requests) : requests[c] \in Requests
  BY <1>1, ElementOfSeq
<1> QED BY <1>1, <1>2 DEF Requests

\* Entries with one event are one entry.
LEMMA EventsDiffer ==
  ASSUME TypeOK, OneEntryEach, NEW K \in Kinds, NEW J \in Kinds, NEW i \in 1..Len(list[K]), NEW j \in 1..Len(list[J]),
         list[K][i].event = list[J][j].event
  PROVE  K = J /\ i = j
<1>1. Kind(list[K][i].event) = K /\ Kind(list[J][j].event) = J
  BY EntryTyped
<1> QED BY <1>1 DEF OneEntryEach

\* Entries, requests and the place in Update are as they were; no event dies or comes to life.
LEMMA EventsSame ==
  ASSUME TypeOK, EventsInv, SameEntries(list'), requests' = requests, pc' = pc, at' = at,
         \A K \in Kinds : \A i \in 1..Len(list[K]) :
           /\ list'[K][i].releaseEvent = list[K][i].releaseEvent
           /\ ~list[K][i].releaseEvent => list'[K][i].stopped
                                          /\ event'[list[K][i].event].delay = event[list[K][i].event].delay,
         \A e \in Events : event'[e].live = event[e].live
  PROVE  EventsInv'
<1>1. \A c : Claim(c)' <=> Claim(c)
  BY DEF Claim
<1>2. \A K, i, c : GoneInTime(K, i, c)' <=> GoneInTime(K, i, c)
  BY DEF GoneInTime
<1>3. OneEntryEach'
  BY DEF SameEntries, EventsInv, OneEntryEach
<1>4. EntriesLive'
  BY EntryTyped DEF SameEntries, EventsInv, EntriesLive
<1>5. RequestsLive'
  BY RequestTyped DEF EventsInv, RequestsLive
<1>6. OneClaimEach'
  BY <1>1 DEF EventsInv, OneClaimEach
<1>7. OwnedOrClaimed'
  BY <1>1 DEF SameEntries, EventsInv, OwnedOrClaimed
<1>8. HandedOnInv'
  <2> SUFFICES ASSUME NEW K \in Kinds, NEW i \in 1..Len(list'[K]), ~list'[K][i].releaseEvent
               PROVE  /\ list'[K][i].stopped
                      /\ \E c \in 1..Len(requests') :
                           /\ Claim(c)' /\ requests'[c].event = list'[K][i].event
                           /\ event'[list'[K][i].event].delay = 0 => GoneInTime(K, i, c)'
    BY DEF HandedOnInv, Due
  <2>1. i \in 1..Len(list[K]) /\ ~list[K][i].releaseEvent /\ list'[K][i].event = list[K][i].event
    BY DEF SameEntries
  <2>2. PICK c \in 1..Len(requests) : /\ Claim(c) /\ requests[c].event = list[K][i].event
                                      /\ Due(list[K][i].event) => GoneInTime(K, i, c)
    BY <2>1 DEF EventsInv, HandedOnInv
  <2>3. event'[list'[K][i].event].delay = 0 <=> Due(list[K][i].event)
    BY <2>1 DEF Due
  <2> QED BY <1>1, <1>2, <2>1, <2>2, <2>3
<1> QED BY <1>3, <1>4, <1>5, <1>6, <1>7, <1>8 DEF EventsInv

\* Update goes on and comes no further than the promises made for events handed on.
LEMMA EventsPassed ==
  ASSUME TypeOK, EventsInv, list' = list, requests' = requests, event' = event, pc # "start", pc' # "start",
         \A K \in Kinds : \A i \in 1..Len(list[K]), c \in 1..Len(requests) :
           ~list[K][i].releaseEvent /\ list[K][i].stopped /\ GoneInTime(K, i, c) => GoneInTime(K, i, c)'
  PROVE  EventsInv'
<1>1. \A c : Claim(c)' <=> Claim(c)
  BY DEF Claim
<1>2. OneEntryEach' /\ EntriesLive' /\ RequestsLive'
  BY DEF EventsInv, OneEntryEach, EntriesLive, RequestsLive
<1>3. OneClaimEach'
  BY <1>1 DEF EventsInv, OneClaimEach
<1>4. OwnedOrClaimed'
  BY <1>1 DEF EventsInv, OwnedOrClaimed
<1>5. HandedOnInv'
  <2> SUFFICES ASSUME NEW K \in Kinds, NEW i \in 1..Len(list[K]), ~list[K][i].releaseEvent
               PROVE  /\ list[K][i].stopped
                      /\ \E c \in 1..Len(requests) :
                           /\ Claim(c)' /\ requests[c].event = list[K][i].event
                           /\ event'[list[K][i].event].delay = 0 => GoneInTime(K, i, c)'
    BY DEF HandedOnInv, Due
  <2>1. list[K][i].stopped
    BY DEF EventsInv, HandedOnInv
  <2>2. PICK c \in 1..Len(requests) : /\ Claim(c) /\ requests[c].event = list[K][i].event
                                      /\ Due(list[K][i].event) => GoneInTime(K, i, c)
    BY DEF EventsInv, HandedOnInv
  <2>3. event'[list[K][i].event].delay = 0 <=> Due(list[K][i].event)
    BY DEF Due
  <2> QED BY <1>1, <2>1, <2>2, <2>3
<1> QED BY <1>2, <1>3, <1>4, <1>5 DEF EventsInv

\* What is left of the lists when entry k of list K goes.
LEMMA OthersStay ==
  ASSUME TypeOK, NEW K \in Kinds, NEW k \in 1..Len(list[K]), NEW r \in Seq(Entries), Cut(list[K], k, r),
         list' = [list EXCEPT ![K] = r]
  PROVE  \A J \in Kinds : \A i \in 1..Len(list'[J]) :
           \E j \in 1..Len(list[J]) :
             /\ list'[J][i] = list[J][j] /\ ~(J = K /\ j = k)
             /\ j = IF J = K /\ i >= k THEN i + 1 ELSE i
<1> SUFFICES ASSUME NEW J \in Kinds, NEW i \in 1..Len(list'[J])
             PROVE  \E j \in 1..Len(list[J]) :
                      /\ list'[J][i] = list[J][j] /\ ~(J = K /\ j = k)
                      /\ j = IF J = K /\ i >= k THEN i + 1 ELSE i
  OBVIOUS
<1>1. list'[K] = r /\ \A I \in Kinds : I # K => list'[I] = list[I]
  BY DEF TypeOK
<1>2. CASE J # K
  BY <1>1, <1>2
<1>3. CASE J = K
  <2>1. PICK l \in Seq(Entries) : l = list[K]
    BY EntryTyped
  <2>2. \A a \in 1..Len(r) : \E j \in 1..Len(l) : j # k /\ r[a] = l[j] /\ j >= a /\ (a < k => j = a) /\ (a >= k => j = a + 1)
    <3>1. k \in 1..Len(l) /\ Cut(l, k, r)
      BY <2>1
    <3> QED BY <3>1, CutPlaces
  <2>3. i \in 1..Len(r)
    BY <1>1, <1>3
  <2>4. PICK j \in 1..Len(l) : j # k /\ r[i] = l[j] /\ j >= i /\ (i < k => j = i) /\ (i >= k => j = i + 1)
    BY <2>2, <2>3
  <2>5. i \in Nat /\ k \in Nat
    BY <2>1, <2>3
  <2>6. j = IF J = K /\ i >= k THEN i + 1 ELSE i
    BY <1>3, <2>4, <2>5
  <2> QED BY <1>1, <1>3, <2>1, <2>4, <2>6
<1> QED BY <1>2, <1>3

\* An entry goes; its event dies with it unless it was handed on.
LEMMA EntryGoneEvents ==
  ASSUME TypeOK, EventsInv, NEW K \in Kinds, NEW k \in 1..Len(list[K]), NEW r \in Seq(Entries), Cut(list[K], k, r),
         list' = [list EXCEPT ![K] = r], requests' = requests, at' = at,
         event' = IF list[K][k].releaseEvent THEN [event EXCEPT ![list[K][k].event] = Dead] ELSE event,
         pc # "start", pc' # "start", pc' = pc \/ (pc = "requests" /\ pc' = "sample"),
         pc \in Kinds => pc = K /\ at = k
  PROVE  EventsInv'
<1>1. \A c : Claim(c)' <=> Claim(c)
  BY DEF Claim
<1>2. PICK e \in Events : e = list[K][k].event
  BY EntryTyped
<1>3. \A d \in Events : d # e => event'[d] = event[d]
  BY <1>2 DEF TypeOK
<1>4. \A J \in Kinds : \A i \in 1..Len(list'[J]) :
        \E j \in 1..Len(list[J]) :
          /\ list'[J][i] = list[J][j] /\ ~(J = K /\ j = k) /\ j = IF J = K /\ i >= k THEN i + 1 ELSE i
  BY OthersStay
<1>5. \A J \in Kinds : \A j \in 1..Len(list[J]) : ~(J = K /\ j = k) => list[J][j].event # e
  BY <1>2, EventsDiffer DEF EventsInv
<1>6. \A J \in Kinds : \A i \in 1..Len(list'[J]) :
        \E j \in 1..Len(list[J]) :
          /\ list'[J][i] = list[J][j] /\ j = IF J = K /\ i >= k THEN i + 1 ELSE i
          /\ list[J][j].event \in Events /\ event'[list[J][j].event] = event[list[J][j].event]
  <2> SUFFICES ASSUME NEW J \in Kinds, NEW i \in 1..Len(list'[J])
               PROVE  \E j \in 1..Len(list[J]) :
                        /\ list'[J][i] = list[J][j] /\ j = IF J = K /\ i >= k THEN i + 1 ELSE i
                        /\ list[J][j].event \in Events /\ event'[list[J][j].event] = event[list[J][j].event]
    OBVIOUS
  <2>1. PICK j \in 1..Len(list[J]) :
          /\ list'[J][i] = list[J][j] /\ ~(J = K /\ j = k) /\ j = IF J = K /\ i >= k THEN i + 1 ELSE i
    BY <1>4
  <2>2. list[J][j].event # e /\ list[J][j].event \in Events
    BY <1>5, <2>1, EntryTyped
  <2>3. event'[list[J][j].event] = event[list[J][j].event]
    BY <1>3, <2>2
  <2> QED BY <2>1, <2>2, <2>3
<1>7. OneEntryEach'
  <2> SUFFICES ASSUME NEW J \in Kinds, NEW i \in 1..Len(list'[J]), NEW m \in 1..Len(list'[J]),
                      list'[J][i].event = list'[J][m].event
               PROVE  i = m
    BY DEF OneEntryEach
  <2>1. PICK a \in 1..Len(list[J]) : list'[J][i] = list[J][a] /\ a = IF J = K /\ i >= k THEN i + 1 ELSE i
    BY <1>4
  <2>2. PICK b \in 1..Len(list[J]) : list'[J][m] = list[J][b] /\ b = IF J = K /\ m >= k THEN m + 1 ELSE m
    BY <1>4
  <2>3. a = b
    BY <2>1, <2>2 DEF EventsInv, OneEntryEach
  <2>4. i \in Int /\ m \in Int /\ k \in Int /\ i >= 1 /\ m >= 1 /\ a \in Int
    BY EntryTyped, <2>1, <2>2
  <2>5. (J = K /\ i = k - 1) => ~(i >= k)
    BY <2>4
  <2>6. CASE J = K
    <3>1. a = (IF i >= k THEN i + 1 ELSE i) /\ a = (IF m >= k THEN m + 1 ELSE m)
      BY <2>1, <2>2, <2>3, <2>6
    <3> QED BY <2>4, <3>1
  <2>7. CASE J # K
    BY <2>1, <2>2, <2>3, <2>7
  <2> QED BY <2>6, <2>7
<1>8. EntriesLive'
  <2> SUFFICES ASSUME NEW J \in Kinds, NEW i \in 1..Len(list'[J]) PROVE event'[list'[J][i].event].live
    BY DEF EntriesLive
  <2>1. PICK j \in 1..Len(list[J]) : list'[J][i] = list[J][j] /\ event'[list[J][j].event] = event[list[J][j].event]
    BY <1>6
  <2>2. event[list[J][j].event].live
    BY DEF EventsInv, EntriesLive
  <2> QED BY <2>1, <2>2
<1>9. ASSUME NEW c \in 1..Len(requests), requests[c].adding PROVE event'[requests[c].event] = event[requests[c].event]
  <2>1. Claim(c) /\ requests[c].event \in Events
    BY <1>9, RequestTyped DEF Claim
  <2>2. list[K][k].releaseEvent => requests[c].event # e
    BY <1>2, <2>1 DEF EventsInv, OwnedOrClaimed
  <2> QED BY <1>3, <2>1, <2>2
<1>10. RequestsLive'
  BY <1>9 DEF EventsInv, RequestsLive
<1>11. OneClaimEach'
  BY <1>1 DEF EventsInv, OneClaimEach
<1>12. OwnedOrClaimed'
  BY <1>1, <1>4 DEF EventsInv, OwnedOrClaimed
<1>13. HandedOnInv'
  <2> SUFFICES ASSUME NEW J \in Kinds, NEW i \in 1..Len(list'[J]), ~list'[J][i].releaseEvent
               PROVE  /\ list'[J][i].stopped
                      /\ \E c \in 1..Len(requests') :
                           /\ Claim(c)' /\ requests'[c].event = list'[J][i].event
                           /\ event'[list'[J][i].event].delay = 0 => GoneInTime(J, i, c)'
    BY DEF HandedOnInv, Due
  <2>1. PICK j \in 1..Len(list[J]) : /\ list'[J][i] = list[J][j] /\ j = IF J = K /\ i >= k THEN i + 1 ELSE i
                                     /\ event'[list[J][j].event] = event[list[J][j].event]
    BY <1>6
  <2>2. list[J][j].stopped
    BY <2>1 DEF EventsInv, HandedOnInv
  <2>3. PICK c \in 1..Len(requests) : /\ Claim(c) /\ requests[c].event = list[J][j].event
                                      /\ Due(list[J][j].event) => GoneInTime(J, j, c)
    BY <2>1 DEF EventsInv, HandedOnInv
  <2>4. i \in Int /\ k \in Int /\ at \in Int
    BY EntryTyped, <2>1 DEF TypeOK
  <2>5. GoneInTime(J, j, c) => GoneInTime(J, i, c)'
    <3>1. CASE pc \in {"requests", "sample"}
      BY <3>1 DEF GoneInTime
    <3>2. CASE pc \in Kinds
      BY <2>1, <2>4, <3>2 DEF GoneInTime, Kinds
    <3>3. CASE pc = "idle"
      BY <3>3 DEF GoneInTime
    <3> QED BY <3>1, <3>2, <3>3 DEF TypeOK
  <2> QED BY <1>1, <2>1, <2>2, <2>3, <2>5 DEF Due
<1> QED BY <1>7, <1>8, <1>10, <1>11, <1>12, <1>13 DEF EventsInv

\* Nothing is in the lists for an event that is to be played now.
LEMMA NotYetPlayed ==
  ASSUME TypeOK, EventsInv, at <= Len(requests), pc \in {"requests", "sample", "start"}, Claim(at), Due(Current.event),
         NEW K \in Kinds, NEW i \in 1..Len(list[K])
  PROVE  list[K][i].event # Current.event
<1> SUFFICES ASSUME list[K][i].event = Current.event PROVE FALSE
  OBVIOUS
<1>1. at \in 1..Len(requests)
  BY RequestTyped DEF TypeOK
<1>2. ~list[K][i].releaseEvent
  BY <1>1 DEF EventsInv, OwnedOrClaimed, Current
<1>3. PICK c \in 1..Len(requests) : /\ Claim(c) /\ requests[c].event = Current.event
                                    /\ Due(Current.event) => GoneInTime(K, i, c)
  BY <1>2 DEF EventsInv, HandedOnInv
<1>4. c = at
  BY <1>1, <1>3 DEF EventsInv, OneClaimEach, Current
<1>5. GoneInTime(K, i, at)
  BY <1>3, <1>4
<1> QED BY <1>1, <1>5 DEF GoneInTime, Kinds

\* Update has done with the request it is at, which is gone or has become an entry.
LEMMA RequestDone ==
  ASSUME TypeOK, EventsInv, SameEntries(list'), at <= Len(requests), requests' = RemoveAt(requests, at),
         pc \in {"requests", "sample", "start"}, pc' = "requests", at' = at,
         \A K \in Kinds : \A i \in 1..Len(list[K]) : /\ list'[K][i].releaseEvent = list[K][i].releaseEvent
                                                     /\ list'[K][i].stopped = list[K][i].stopped,
         Claim(at) => Due(Current.event) /\ event' = [event EXCEPT ![Current.event] = Dead],
         ~Claim(at) => event' = event
  PROVE  EventsInv'
<1>1. at \in 1..Len(requests) /\ requests \in Seq(Requests) /\ Len(requests) \in Nat
  BY RequestTyped DEF TypeOK
<1>2. PICK e \in Events : e = Current.event
  BY <1>1, RequestTyped DEF Current
<1>3. PICK q : q = requests'
  OBVIOUS
<1>4. q \in Seq(Requests) /\ Cut(requests, at, q)
  BY <1>1, <1>3, RemoveCuts
<1>5. /\ \A c \in 1..Len(q) : \E d \in 1..Len(requests) : d # at /\ q[c] = requests[d] /\ (c < at => d = c) /\ (c >= at => d = c + 1)
      /\ \A d \in 1..Len(requests) : d # at => \E c \in 1..Len(q) : q[c] = requests[d] /\ c = IF d < at THEN d ELSE d - 1
  <2>1. /\ \A c \in 1..Len(q) : \E d \in 1..Len(requests) : d # at /\ q[c] = requests[d] /\ d >= c /\ (c < at => d = c) /\ (c >= at => d = c + 1)
        /\ \A d \in 1..Len(requests) : d # at => \E c \in 1..Len(q) : q[c] = requests[d] /\ c = IF d < at THEN d ELSE d - 1
    BY <1>1, <1>4, CutPlaces
  <2> QED BY <2>1
<1>6. \A c : Claim(c)' <=> q[c].adding
  BY <1>3 DEF Claim
<1>7. \A d \in 1..Len(requests) : d # at => (Claim(d) <=> requests[d].adding)
  BY DEF Claim
<1>8. \A d \in 1..Len(requests) : d # at /\ requests[d].adding /\ Claim(at) => requests[d].event # e
  BY <1>1, <1>2, <1>7 DEF EventsInv, OneClaimEach, Current
<1>9. \A d \in Events : d # e => event'[d] = event[d]
  BY <1>2 DEF TypeOK
<1>10. ASSUME NEW K \in Kinds, NEW i \in 1..Len(list[K])
       PROVE  event'[list[K][i].event] = event[list[K][i].event] /\ list[K][i].event \in Events
  <2>1. list[K][i].event \in Events
    BY EntryTyped
  <2>2. CASE ~Claim(at)
    BY <2>1, <2>2
  <2>3. CASE Claim(at)
    <3>1. list[K][i].event # e
      BY <1>2, <2>3, NotYetPlayed
    <3> QED BY <1>9, <2>1, <3>1
  <2> QED BY <2>2, <2>3
<1>11. OneEntryEach'
  BY DEF SameEntries, EventsInv, OneEntryEach
<1>12. EntriesLive'
  <2> SUFFICES ASSUME NEW K \in Kinds, NEW i \in 1..Len(list'[K]) PROVE event'[list'[K][i].event].live
    BY DEF EntriesLive
  <2>1. i \in 1..Len(list[K]) /\ list'[K][i].event = list[K][i].event
    BY DEF SameEntries
  <2>2. event[list[K][i].event].live
    BY <2>1 DEF EventsInv, EntriesLive
  <2>3. event'[list[K][i].event] = event[list[K][i].event]
    BY <1>10, <2>1
  <2> QED BY <2>1, <2>2, <2>3
<1>13. RequestsLive'
  <2> SUFFICES ASSUME NEW c \in 1..Len(q), q[c].adding PROVE event'[q[c].event].live
    BY <1>3 DEF RequestsLive
  <2>1. PICK d \in 1..Len(requests) : d # at /\ q[c] = requests[d]
    BY <1>5
  <2>2. event[requests[d].event].live /\ requests[d].event \in Events
    BY <2>1, RequestTyped DEF EventsInv, RequestsLive
  <2>3. Claim(at) => requests[d].event # e
    BY <1>8, <2>1
  <2> QED BY <1>9, <2>1, <2>2, <2>3
<1>14. OneClaimEach'
  <2> SUFFICES ASSUME NEW c \in 1..Len(q), NEW d \in 1..Len(q), q[c].adding, q[d].adding, q[c].event = q[d].event
               PROVE  c = d
    BY <1>3, <1>6 DEF OneClaimEach
  <2>1. PICK a \in 1..Len(requests) : a # at /\ q[c] = requests[a] /\ (c < at => a = c) /\ (c >= at => a = c + 1)
    BY <1>5
  <2>2. PICK b \in 1..Len(requests) : b # at /\ q[d] = requests[b] /\ (d < at => b = d) /\ (d >= at => b = d + 1)
    BY <1>5
  <2>3. a = b
    BY <1>7, <2>1, <2>2 DEF EventsInv, OneClaimEach
  <2>4. c \in Int /\ d \in Int /\ at \in Int
    BY <1>1, <1>4
  <2> QED BY <2>1, <2>2, <2>3, <2>4
<1>15. OwnedOrClaimed'
  <2> SUFFICES ASSUME NEW K \in Kinds, NEW i \in 1..Len(list[K]), NEW c \in 1..Len(q), list[K][i].releaseEvent, q[c].adding
               PROVE  list[K][i].event # q[c].event
    BY <1>3, <1>6 DEF OwnedOrClaimed, SameEntries
  <2>1. PICK d \in 1..Len(requests) : d # at /\ q[c] = requests[d]
    BY <1>5
  <2> QED BY <1>7, <2>1 DEF EventsInv, OwnedOrClaimed
<1>16. HandedOnInv'
  <2> SUFFICES ASSUME NEW K \in Kinds, NEW i \in 1..Len(list[K]), ~list[K][i].releaseEvent
               PROVE  /\ list[K][i].stopped
                      /\ \E c \in 1..Len(q) : /\ Claim(c)' /\ q[c].event = list[K][i].event
                                              /\ event'[list[K][i].event].delay = 0 => GoneInTime(K, i, c)'
    BY <1>3 DEF HandedOnInv, Due, SameEntries
  <2>1. list[K][i].stopped
    BY DEF EventsInv, HandedOnInv
  <2>2. PICK d \in 1..Len(requests) : /\ Claim(d) /\ requests[d].event = list[K][i].event
                                      /\ Due(list[K][i].event) => GoneInTime(K, i, d)
    BY DEF EventsInv, HandedOnInv
  <2>3. d # at
    <3> SUFFICES ASSUME d = at PROVE FALSE
      OBVIOUS
    <3>1. Claim(at) /\ list[K][i].event = Current.event
      BY <2>2 DEF Current
    <3>2. GoneInTime(K, i, at)
      BY <2>2, <3>1
    <3> QED BY <1>1, <3>2 DEF GoneInTime, Kinds
  <2>4. PICK c \in 1..Len(q) : q[c] = requests[d] /\ c = IF d < at THEN d ELSE d - 1
    BY <1>5, <2>3
  <2>5. q[c].adding
    BY <2>2, <2>4 DEF Claim
  <2>6. GoneInTime(K, i, d) => GoneInTime(K, i, c)'
    <3>1. d \in Int /\ at \in Int
      BY <1>1
    <3> QED BY <2>4, <3>1 DEF GoneInTime, Kinds
  <2> QED BY <1>6, <1>10, <2>1, <2>2, <2>4, <2>5, <2>6 DEF Due
<1> QED BY <1>11, <1>12, <1>13, <1>14, <1>15, <1>16 DEF EventsInv

-----------------------------------------------------------------------------
(* The steps.                                                                *)

LEMMA CacheIsGood ==
  /\ TypeOK /\ CacheAccounted => CacheGood(cache, size)
  /\ CacheGood(cache', size') => cache' \in [Files -> CacheItems] /\ size' \in Nat /\ CacheAccounted'
BY DEF TypeOK, CacheAccounted, CacheGood

LEMMA DeadState == Dead \in EventStates /\ Dead.delay = 0
BY DEF Dead, EventStates, FileNames

\* An entry is released while no start is under way.
LEMMA Released ==
  ASSUME IndInv, NEW K \in Kinds, NEW k \in 1..Len(list[K]), ReleaseAt(K, k),
         requests' = requests, size' = size, at' = at,
         pc # "start", pc' # "start", pc' = pc \/ (pc = "requests" /\ pc' = "sample"),
         pc \in Kinds => pc = K /\ at = k,
         pc' = "sample" => at <= Len(requests) /\ Current.adding /\ Due(Current.event)
  PROVE  IndInv'
<1>1. TypeOK /\ SamplesInv /\ RunningInv /\ CurrentInv /\ EventsInv /\ CountsMatch /\ CacheAccounted
  BY DEF IndInv
<1>2. PICK l : l = list[K]
  OBVIOUS
<1>3. PICK p : p = l[k]
  OBVIOUS
<1>4. l \in Seq(Entries) /\ k \in 1..Len(l) /\ p \in Entries /\ p.sample # Null /\ p.event \in Events
  BY <1>1, <1>2, <1>3, EntryTyped
<1>5. PICK r : r = RemoveAt(l, k)
  OBVIOUS
<1>6. r \in Seq(Entries) /\ Cut(l, k, r)
  BY <1>4, <1>5, RemoveCuts
<1>7. /\ list' = [list EXCEPT ![K] = r] /\ free' = [free EXCEPT ![K] = Append(free[K], p.sample)]
      /\ running' = running \ {p.sample} /\ cache' = Closed(cache, p.handle)
      /\ event' = IF p.releaseEvent THEN [event EXCEPT ![p.event] = Dead] ELSE event
      /\ count' = [count EXCEPT ![K] = IF count[K] = 0 THEN count[K] ELSE count[K] - 1]
  <2>1. /\ list' = [list EXCEPT ![K] = r] /\ running' = running \ {p.sample} /\ cache' = Closed(cache, p.handle)
        /\ event' = IF p.releaseEvent THEN [event EXCEPT ![p.event] = Dead] ELSE event
    BY <1>2, <1>3, <1>5 DEF ReleaseAt, Release, Silenced
  <2>2. free' = [free EXCEPT ![K] = Append(free[K], p.sample)]
    BY <1>2, <1>3, <1>4 DEF ReleaseAt, Release, HandlesBack
  <2>3. count' = [count EXCEPT ![K] = IF count[K] = 0 THEN count[K] ELSE count[K] - 1]
    BY <1>2, <1>3, <1>4 DEF ReleaseAt, Release
  <2> QED BY <2>1, <2>2, <2>3
<1>8. /\ list' \in [Kinds -> Seq(Entries)]
      /\ \A J \in Kinds : \A i \in 1..Len(list'[J]) : Kind(list'[J][i].event) = J
      /\ free' \in [Kinds -> Seq(Handles)] /\ running' \subseteq Handles
      /\ SamplesInv' /\ RunningInv'
  BY <1>1, <1>2, <1>3, <1>6, <1>7, EntryGone
<1>9. EventsInv'
  BY <1>1, <1>2, <1>3, <1>6, <1>7, EntryGoneEvents
<1>10. event' \in [Events -> EventStates] /\ \A e \in Events : event'[e] = event[e] \/ event'[e] = Dead
  BY <1>1, <1>4, <1>7, DeadState DEF TypeOK
<1>11. cache' \in [Files -> CacheItems] /\ size' \in Nat /\ CacheAccounted'
  <2>1. CacheGood(cache', size')
    BY <1>1, <1>7, CacheIsGood, ClosedGood
  <2> QED BY <2>1, CacheIsGood
<1>12. CountsMatch' /\ count' \in [Kinds -> Nat]
  <2>1. \A J \in Kinds : count[J] = Len(list[J]) /\ count[J] \in Nat
    BY <1>1, EntryTyped DEF CountsMatch, TypeOK
  <2>2. Len(r) = Len(l) - 1 /\ Len(l) \in Nat /\ Len(l) >= 1
    BY <1>4, <1>6 DEF Cut
  <2>3. list'[K] = r /\ \A J \in Kinds : J # K => list'[J] = list[J]
    BY <1>1, <1>7 DEF TypeOK
  <2>4. count'[K] = Len(l) - 1 /\ \A J \in Kinds : J # K => count'[J] = count[J]
    BY <1>1, <1>2, <1>7, <2>1, <2>2 DEF TypeOK
  <2>5. \A J \in Kinds : count'[J] = Len(list'[J]) /\ count'[J] \in Nat
    BY <2>1, <2>2, <2>3, <2>4
  <2>6. count' \in [Kinds -> Nat]
    BY <1>1, <1>7, <2>1, <2>2, <1>2 DEF TypeOK
  <2>7. \A J \in Kinds : Len(list'[J]) - 0 = Len(list'[J])
    BY <2>5
  <2> QED BY <2>5, <2>6, <2>7 DEF CountsMatch
<1>13. TypeOK'
  <2>1. pc' \in Kinds \cup {"idle", "requests", "sample", "start"} /\ at' \in Nat \ {0} /\ requests' \in Seq(Requests)
    BY <1>1 DEF TypeOK
  <2> QED BY <1>8, <1>10, <1>11, <1>12, <2>1 DEF TypeOK
<1>14. CurrentInv'
  <2>1. pc' = "sample" => event'[Current.event].delay = 0
    <3> SUFFICES ASSUME pc' = "sample" PROVE event'[Current.event].delay = 0
      OBVIOUS
    <3>1. at \in 1..Len(requests)
      BY <1>1 DEF TypeOK
    <3>2. Current.event \in Events
      BY <1>1, <3>1, RequestTyped DEF Current
    <3> QED BY <1>10, <3>2, DeadState DEF Due
  <2>2. Busy' => pc' = "sample"
    BY DEF Busy
  <2>3. Current' = Current
    BY DEF Current
  <2> QED BY <2>1, <2>2, <2>3 DEF CurrentInv, Due
<1>15. StartingInv'
  BY DEF StartingInv
<1> QED BY <1>8, <1>9, <1>11, <1>12, <1>13, <1>14, <1>15 DEF IndInv

\* The bounds of a set of places in a list.
LEMMA Bounds ==
  ASSUME NEW n \in Nat, NEW T, T \subseteq 1..n, T # {}
  PROVE  Min(T) \in T /\ Max(T) \in T
<1>1. \E x \in T : \A y \in T : x <= y
  <2>1. T \subseteq Nat
    OBVIOUS
  <2> QED BY <2>1, Least
<1>2. \E x \in T : \A y \in T : x >= y
  <2>1. PICK U : U = {n - x : x \in T}
    OBVIOUS
  <2>2. U \subseteq Nat /\ U # {}
    <3>1. \A x \in 1..n : n - x \in Nat
      OBVIOUS
    <3>2. \A x \in T : n - x \in Nat
      BY <3>1
    <3> QED BY <2>1, <3>2
  <2>3. PICK u \in U : \A v \in U : u <= v
    BY <2>2, Least
  <2>4. PICK x \in T : u = n - x
    BY <2>1
  <2>5. ASSUME NEW y \in T PROVE x >= y
    <3>1. n - y \in U
      BY <2>1
    <3>2. n - x <= n - y
      BY <2>3, <2>4, <3>1
    <3>3. x \in 1..n /\ y \in 1..n
      OBVIOUS
    <3> QED BY <3>2, <3>3
  <2> QED BY <2>5
<1> QED BY <1>1, <1>2 DEF Min, Max

\* The first entry that plays an event, if there is one.
LEMMA FirstFound ==
  ASSUME TypeOK, NEW K \in Kinds, NEW e
  PROVE  /\ FirstOf(K, e) # 0 => FirstOf(K, e) \in 1..Len(list[K])
         /\ (\E i \in 1..Len(list[K]) : list[K][i].event = e) => FirstOf(K, e) \in 1..Len(list[K])
<1>1. PICK T : T = {i \in 1..Len(list[K]) : list[K][i].event = e}
  OBVIOUS
<1>2. FirstOf(K, e) = IF T # {} THEN Min(T) ELSE 0
  BY <1>1 DEF FirstOf, SelectInSeq
<1>3. T # {} => Min(T) \in T
  BY <1>1, EntryTyped, Bounds
<1> QED BY <1>1, <1>2, <1>3

LEMMA KillEventKeeps ==
  ASSUME IndInv, NEW e \in Events, KillEvent(e)
  PROVE  IndInv'
<1>1. TypeOK /\ Kind(e) \in Kinds
  BY AudioAssumption DEF IndInv, Kind
<1>2. PICK k \in 1..Len(list[Kind(e)]) : k = FirstOf(Kind(e), e)
  BY <1>1, FirstFound DEF KillEvent
<1>3. ReleaseAt(Kind(e), k)
  BY <1>2 DEF KillEvent
<1>4. requests' = requests /\ size' = size /\ at' = at /\ pc = "idle" /\ pc' = "idle"
  BY DEF KillEvent
<1> QED BY <1>1, <1>3, <1>4, Released DEF Kinds

\* The request Update is at.
LEMMA CurrentTyped ==
  ASSUME TypeOK, at <= Len(requests)
  PROVE  /\ at \in 1..Len(requests) /\ Current.event \in Events /\ Kind(Current.event) \in Kinds
         /\ Current.adding \in BOOLEAN
<1>1. at \in 1..Len(requests)
  BY RequestTyped DEF TypeOK
<1>2. Current.event \in Events /\ Current.adding \in BOOLEAN
  BY <1>1, RequestTyped DEF Current
<1> QED BY <1>1, <1>2, AudioAssumption DEF Kind

LEMMA KillReplacedKeeps ==
  ASSUME IndInv, KillReplaced
  PROVE  IndInv'
<1>1. TypeOK /\ at <= Len(requests) /\ Current.adding /\ Due(Current.event)
  BY DEF IndInv, KillReplaced, AtRequest
<1>2. PICK K \in Kinds : K = Kind(Current.event)
  BY <1>1, CurrentTyped
<1>3. PICK k \in 1..Len(list[K]) : k = FirstOf(K, event[Current.event].kill)
  BY <1>1, <1>2, FirstFound DEF KillReplaced
<1>4. ReleaseAt(K, k)
  BY <1>2, <1>3 DEF KillReplaced
<1>5. requests' = requests /\ size' = size /\ at' = at /\ pc = "requests" /\ pc' = "sample"
  BY DEF KillReplaced, AtRequest
<1> QED BY <1>1, <1>4, <1>5, Released DEF Kinds

LEMMA KillLowestKeeps ==
  ASSUME IndInv, KillLowest
  PROVE  IndInv'
<1>1. TypeOK /\ pc = "sample" /\ at <= Len(requests) /\ Current.adding /\ Due(Current.event)
  BY DEF IndInv, KillLowest, CurrentInv, Busy
<1>2. PICK K \in Kinds : K = Kind(Current.event)
  BY <1>1, CurrentTyped
<1>3. PICK e : e = Current.event
  OBVIOUS
<1>4. Lower(K, e) # {} /\ ReleaseAt(K, FirstOf(K, LowestPriority(K, e)))
  BY <1>2, <1>3 DEF KillLowest
<1>5. \E i \in 1..Len(list[K]) : list[K][i].event = LowestPriority(K, e)
  <2>1. PICK T : T = Lower(K, e)
    OBVIOUS
  <2>2. PICK Z : Z = {i \in T : Priority(list[K][i].event) = 0}
    OBVIOUS
  <2>3. list[K] \in Seq(Entries) /\ Len(list[K]) \in Nat
    BY <1>1, EntryTyped
  <2>4. DOMAIN list[K] = 1..Len(list[K])
    BY <2>3, LenProperties
  <2>5. T \subseteq 1..Len(list[K]) /\ Z \subseteq 1..Len(list[K]) /\ T # {}
    BY <1>4, <2>1, <2>2, <2>4 DEF Lower
  <2>6. Max(T) \in T /\ (Z # {} => Min(Z) \in Z)
    BY <2>3, <2>5, Bounds
  <2>7. LowestPriority(K, e) = list[K][IF Z = {} THEN Max(T) ELSE Min(Z)].event
    BY <2>1, <2>2 DEF LowestPriority
  <2> QED BY <2>5, <2>6, <2>7
<1>6. PICK k \in 1..Len(list[K]) : k = FirstOf(K, LowestPriority(K, e))
  BY <1>1, <1>5, FirstFound
<1>7. ReleaseAt(K, k)
  BY <1>4, <1>6
<1>8. requests' = requests /\ size' = size /\ at' = at /\ pc' = pc
  BY DEF KillLowest
<1> QED BY <1>1, <1>7, <1>8, Released DEF Kinds

LEMMA ReleaseEntryKeeps ==
  ASSUME IndInv, NEW K \in Kinds, ReleaseEntry(K)
  PROVE  IndInv'
<1>1. TypeOK /\ pc = K /\ at <= Len(list[K]) /\ ReleaseAt(K, at)
  BY DEF IndInv, ReleaseEntry, AtEntry
<1>2. at \in 1..Len(list[K])
  BY <1>1, EntryTyped DEF TypeOK
<1>3. requests' = requests /\ size' = size /\ at' = at /\ pc' = pc
  BY DEF ReleaseEntry
<1> QED BY <1>1, <1>2, <1>3, Released DEF Kinds

\* Update goes on without doing anything.
LEMMA Passed ==
  ASSUME IndInv, UNCHANGED <<sounds, requests, event, files>>, pc # "start", pc' # "start",
         pc' \in Kinds \cup {"idle", "requests", "sample"}, at' \in Nat \ {0},
         pc' = "sample" => at' = at /\ at <= Len(requests) /\ Current.adding /\ Due(Current.event),
         \A K \in Kinds : \A i \in 1..Len(list[K]), c \in 1..Len(requests) :
           list[K][i].stopped /\ GoneInTime(K, i, c) => GoneInTime(K, i, c)'
  PROVE  IndInv'
<1>1. TypeOK /\ SamplesInv /\ RunningInv /\ EventsInv /\ CountsMatch /\ CacheAccounted
  BY DEF IndInv
<1>2. /\ list' = list /\ free' = free /\ count' = count /\ running' = running
      /\ requests' = requests /\ event' = event /\ cache' = cache /\ size' = size
  BY DEF sounds, files
<1>3. TypeOK'
  BY <1>1, <1>2 DEF TypeOK
<1>4. SamplesInv' /\ RunningInv'
  BY <1>1, <1>2 DEF SamplesInv, RunningInv
<1>5. EventsInv'
  BY <1>1, <1>2, EventsPassed
<1>6. CurrentInv'
  BY <1>2 DEF CurrentInv, Busy, Current, Due
<1>7. CountsMatch' /\ CacheAccounted'
  BY <1>1, <1>2 DEF CountsMatch, CacheAccounted
<1>8. StartingInv'
  BY DEF StartingInv
<1> QED BY <1>3, <1>4, <1>5, <1>6, <1>7, <1>8 DEF IndInv

LEMMA UpdateGoesOn ==
  ASSUME IndInv, BeginUpdate \/ PlayRequest \/ EndRequests \/ \E K \in Kinds : PassEntry(K) \/ EndList(K)
  PROVE  IndInv'
<1>1. TypeOK /\ at \in Nat \ {0}
  BY DEF IndInv, TypeOK
<1>2. \A K \in Kinds : Len(list[K]) \in Nat
  BY <1>1, EntryTyped
<1>3. CASE BeginUpdate
  <2>1. pc = "idle" /\ pc' = "requests" /\ at' = 1 /\ UNCHANGED <<sounds, requests, event, files>>
    BY <1>3 DEF BeginUpdate
  <2>2. \A K, i, c : ~GoneInTime(K, i, c)
    BY <2>1 DEF GoneInTime
  <2> QED BY <2>1, <2>2, Passed
<1>4. CASE PlayRequest
  <2>1. pc = "requests" /\ pc' = "sample" /\ at' = at /\ UNCHANGED <<sounds, requests, event, files>>
    BY <1>4 DEF PlayRequest, AtRequest
  <2>2. at <= Len(requests) /\ Current.adding /\ Due(Current.event)
    BY <1>4 DEF PlayRequest, AtRequest
  <2>3. \A K, i, c : GoneInTime(K, i, c) => GoneInTime(K, i, c)'
    BY <2>1 DEF GoneInTime
  <2> QED BY <1>1, <2>1, <2>2, <2>3, Passed
<1>5. CASE EndRequests
  <2>1. pc = "requests" /\ pc' = "global" /\ at' = 1 /\ UNCHANGED <<sounds, requests, event, files>>
    BY <1>5 DEF EndRequests
  <2>2. \A K \in Kinds : \A i \in 1..Len(list[K]), c \in 1..Len(requests) : GoneInTime(K, i, c)'
    BY <1>2, <2>1 DEF GoneInTime
  <2> QED BY <2>1, <2>2, Passed DEF Kinds
<1>6. CASE \E K \in Kinds : PassEntry(K)
  <2>1. PICK K \in Kinds : PassEntry(K)
    BY <1>6
  <2>2. pc = K /\ pc' = K /\ at' = at + 1 /\ UNCHANGED <<sounds, requests, event, files>> /\ ~list[K][at].stopped
    BY <2>1 DEF PassEntry, AtEntry
  <2>3. ASSUME NEW J \in Kinds, NEW i \in 1..Len(list[J]), NEW c \in 1..Len(requests),
               list[J][i].stopped, GoneInTime(J, i, c)
        PROVE  GoneInTime(J, i, c)'
    <3>1. i \in Nat
      BY <1>2
    <3> QED BY <1>1, <2>2, <2>3, <3>1 DEF GoneInTime, Kinds
  <2>4. pc # "start" /\ pc' # "start" /\ pc' # "sample" /\ at' \in Nat \ {0}
    BY <1>1, <2>2 DEF Kinds
  <2> QED BY <2>2, <2>3, <2>4, Passed
<1>7. CASE \E K \in Kinds : EndList(K)
  <2>1. PICK K \in Kinds : EndList(K)
    BY <1>7
  <2>2. /\ pc = K /\ pc' = (IF K = "global" THEN "positional" ELSE "idle") /\ at' = 1 /\ at > Len(list[K])
        /\ UNCHANGED <<sounds, requests, event, files>>
    BY <2>1 DEF EndList
  <2>3. ASSUME NEW J \in Kinds, NEW i \in 1..Len(list[J]), NEW c \in 1..Len(requests), GoneInTime(J, i, c)
        PROVE  GoneInTime(J, i, c)'
    <3>1. i \in Nat /\ i >= 1 /\ i <= Len(list[J])
      BY <1>2
    <3>2. CASE J = K
      <4>1. ~(at <= i)
        BY <1>1, <1>2, <2>2, <3>1, <3>2
      <4> QED BY <2>2, <2>3, <3>2, <4>1 DEF GoneInTime, Kinds
    <3>3. CASE J # K
      BY <2>2, <2>3, <3>1, <3>3 DEF GoneInTime, Kinds
    <3> QED BY <3>2, <3>3
  <2>4. pc # "start" /\ pc' \in {"positional", "idle"}
    BY <2>2 DEF Kinds
  <2> QED BY <2>2, <2>3, <2>4, Passed DEF Kinds
<1> QED BY <1>3, <1>4, <1>5, <1>6, <1>7

\* A request more at the end.
LEMMA RequestAdded ==
  ASSUME TypeOK, NEW q \in Requests, requests' = Append(requests, q)
  PROVE  /\ requests' \in Seq(Requests) /\ Len(requests') = Len(requests) + 1
         /\ Len(requests) + 1 \in 1..Len(requests') /\ requests'[Len(requests) + 1] = q
         /\ \A c \in 1..Len(requests) : c \in 1..Len(requests') /\ requests'[c] = requests[c]
         /\ \A c \in 1..Len(requests') : c \in 1..Len(requests) \/ c = Len(requests) + 1
<1>1. PICK s \in Seq(Requests) : s = requests
  BY RequestTyped
<1>2. PICK t : t = Append(s, q)
  OBVIOUS
<1>3. Len(s) \in Nat /\ t \in Seq(Requests) /\ Len(t) = Len(s) + 1 /\ t[Len(s) + 1] = q /\ \A c \in 1..Len(s) : t[c] = s[c]
  BY <1>2
<1>4. Len(s) + 1 \in 1..Len(t) /\ \A c \in 1..Len(s) : c \in 1..Len(t)
  BY <1>3
<1>5. \A c \in 1..Len(t) : c \in 1..Len(s) \/ c = Len(s) + 1
  BY <1>3
<1>6. t = requests'
  BY <1>1, <1>2
<1> QED BY <1>1, <1>3, <1>4, <1>5, <1>6

\* The game asks for an event that is nowhere yet, or for one to stop looping.
LEMMA Asked ==
  ASSUME IndInv, pc = "idle", NEW e \in Events, NEW q \in Requests, q.event = e, requests' = Append(requests, q),
         UNCHANGED <<sounds, files, pc, at>>, event' \in [Events -> EventStates],
         \A d \in Events : d # e => event'[d] = event[d],
         ~q.adding => event' = event,
         q.adding => ~event[e].live /\ event'[e].live /\ \A c \in 1..Len(requests) : requests[c].event # e
  PROVE  IndInv'
<1>1. TypeOK /\ SamplesInv /\ RunningInv /\ EventsInv /\ CountsMatch /\ CacheAccounted
  BY DEF IndInv
<1>2. /\ list' = list /\ free' = free /\ count' = count /\ running' = running
      /\ cache' = cache /\ size' = size /\ pc' = pc /\ at' = at
  BY DEF sounds, files
<1>3. /\ requests' \in Seq(Requests) /\ Len(requests') = Len(requests) + 1
      /\ Len(requests) + 1 \in 1..Len(requests') /\ requests'[Len(requests) + 1] = q
      /\ \A c \in 1..Len(requests) : c \in 1..Len(requests') /\ requests'[c] = requests[c]
      /\ \A c \in 1..Len(requests') : c \in 1..Len(requests) \/ c = Len(requests) + 1
  BY <1>1, RequestAdded
<1>4. TypeOK'
  BY <1>1, <1>2, <1>3 DEF TypeOK
<1>5. SamplesInv' /\ RunningInv'
  BY <1>1, <1>2 DEF SamplesInv, RunningInv
<1>6. CountsMatch' /\ CacheAccounted'
  BY <1>1, <1>2 DEF CountsMatch, CacheAccounted
<1>7. CurrentInv' /\ StartingInv'
  BY <1>2 DEF CurrentInv, StartingInv, Busy
<1>8. \A K \in Kinds : \A i \in 1..Len(list[K]) :
        /\ list[K][i].event \in Events /\ event[list[K][i].event].live /\ event'[list[K][i].event] = event[list[K][i].event]
        /\ q.adding => list[K][i].event # e
  <2> SUFFICES ASSUME NEW K \in Kinds, NEW i \in 1..Len(list[K])
               PROVE  /\ list[K][i].event \in Events /\ event[list[K][i].event].live
                      /\ event'[list[K][i].event] = event[list[K][i].event]
                      /\ q.adding => list[K][i].event # e
    OBVIOUS
  <2>1. list[K][i].event \in Events /\ event[list[K][i].event].live
    BY <1>1, EntryTyped DEF EventsInv, EntriesLive
  <2>2. q.adding => list[K][i].event # e
    BY <2>1
  <2> QED BY <2>1, <2>2
<1>9. \A c : Claim(c) <=> requests[c].adding
  BY DEF Claim
<1>10. \A c : Claim(c)' <=> requests'[c].adding
  BY <1>2 DEF Claim
<1>11. OneEntryEach' /\ EntriesLive'
  BY <1>1, <1>2, <1>8 DEF EventsInv, OneEntryEach, EntriesLive
<1>12. RequestsLive'
  <2> SUFFICES ASSUME NEW c \in 1..Len(requests'), requests'[c].adding PROVE event'[requests'[c].event].live
    BY DEF RequestsLive
  <2>1. CASE c = Len(requests) + 1
    BY <1>3, <2>1
  <2>2. CASE c \in 1..Len(requests)
    <3>1. requests[c].event \in Events /\ event[requests[c].event].live /\ requests'[c] = requests[c]
      BY <1>1, <1>3, <2>2, RequestTyped DEF EventsInv, RequestsLive
    <3> QED BY <2>2, <3>1
  <2> QED BY <1>3, <2>1, <2>2
<1>13. OneClaimEach'
  <2> SUFFICES ASSUME NEW c \in 1..Len(requests'), NEW d \in 1..Len(requests'), requests'[c].adding, requests'[d].adding,
                      requests'[c].event = requests'[d].event
               PROVE  c = d
    BY <1>10 DEF OneClaimEach
  <2>1. CASE c \in 1..Len(requests) /\ d \in 1..Len(requests)
    BY <1>1, <1>3, <1>9, <2>1 DEF EventsInv, OneClaimEach
  <2>2. CASE c = Len(requests) + 1 \/ d = Len(requests) + 1
    <3>1. q.adding
      BY <1>3, <2>2
    <3> QED BY <1>3, <2>2, <3>1
  <2> QED BY <1>3, <2>1, <2>2
<1>14. OwnedOrClaimed'
  <2> SUFFICES ASSUME NEW K \in Kinds, NEW i \in 1..Len(list[K]), NEW c \in 1..Len(requests'),
                      list[K][i].releaseEvent, requests'[c].adding
               PROVE  list[K][i].event # requests'[c].event
    BY <1>2, <1>10 DEF OwnedOrClaimed
  <2>1. CASE c \in 1..Len(requests)
    BY <1>1, <1>3, <1>9, <2>1 DEF EventsInv, OwnedOrClaimed
  <2>2. CASE c = Len(requests) + 1
    BY <1>3, <1>8, <2>2
  <2> QED BY <1>3, <2>1, <2>2
<1>15. HandedOnInv'
  <2> SUFFICES ASSUME NEW K \in Kinds, NEW i \in 1..Len(list[K]), ~list[K][i].releaseEvent
               PROVE  /\ list[K][i].stopped
                      /\ \E c \in 1..Len(requests') :
                           /\ Claim(c)' /\ requests'[c].event = list[K][i].event
                           /\ event'[list[K][i].event].delay = 0 => GoneInTime(K, i, c)'
    BY <1>2 DEF HandedOnInv, Due
  <2>1. list[K][i].stopped
    BY <1>1 DEF EventsInv, HandedOnInv
  <2>2. PICK c \in 1..Len(requests) : /\ Claim(c) /\ requests[c].event = list[K][i].event
                                      /\ Due(list[K][i].event) => GoneInTime(K, i, c)
    BY <1>1 DEF EventsInv, HandedOnInv
  <2>3. event'[list[K][i].event].delay = 0 <=> Due(list[K][i].event)
    BY <1>8 DEF Due
  <2>4. GoneInTime(K, i, c) => GoneInTime(K, i, c)'
    BY <1>2 DEF GoneInTime
  <2>5. Claim(c)' /\ c \in 1..Len(requests') /\ requests'[c].event = list[K][i].event
    BY <1>3, <1>9, <1>10, <2>2
  <2> QED BY <2>1, <2>2, <2>3, <2>4, <2>5
<1>16. EventsInv'
  BY <1>11, <1>12, <1>13, <1>14, <1>15 DEF EventsInv
<1> QED BY <1>4, <1>5, <1>6, <1>7, <1>16 DEF IndInv

LEMMA AddEventKeeps ==
  ASSUME IndInv, NEW e \in Events, AddEvent(e)
  PROVE  IndInv'
<1>1. PICK f \in Info[e].sounds, k \in {Null} \cup {p.event : p \in ToSet(list[Kind(e)])} :
        event' = [event EXCEPT ![e] =
          [live |-> TRUE, portion |-> IF Info[e].attack = Null THEN 1 ELSE 0, file |-> f,
           loops |-> Info[e].loops, delay |-> Info[e].delay, kill |-> k]]
  BY DEF AddEvent
<1>2. PICK ev : ev = [live |-> TRUE, portion |-> IF Info[e].attack = Null THEN 1 ELSE 0, file |-> f,
                      loops |-> Info[e].loops, delay |-> Info[e].delay, kill |-> k]
  OBVIOUS
<1>3. TypeOK /\ Kind(e) \in Kinds
  BY AudioAssumption DEF IndInv, Kind
<1>4. k \in Events \cup {Null}
  <2>1. PICK l \in Seq(Entries) : l = list[Kind(e)]
    BY <1>3, EntryTyped
  <2>2. DOMAIN l = 1..Len(l)
    BY LenProperties
  <2>3. \A i \in 1..Len(l) : l[i].event \in Events
    BY <1>3, <2>1, EntryTyped
  <2>4. \A p \in ToSet(l) : p.event \in Events
    BY <2>2, <2>3 DEF ToSet
  <2> QED BY <2>1, <2>4
<1>5. ev \in EventStates
  <2>1. Info[e].sounds \subseteq Files /\ Info[e].loops \in Nat /\ Info[e].delay \in 0..1
    BY AudioAssumption
  <2> QED BY <1>2, <1>4, <2>1 DEF EventStates, FileNames
<1>6. event' = [event EXCEPT ![e] = ev] /\ event \in [Events -> EventStates]
  BY <1>1, <1>2, <1>3 DEF TypeOK
<1>7. event' \in [Events -> EventStates] /\ event'[e] = ev /\ \A d \in Events : d # e => event'[d] = event[d]
  BY <1>5, <1>6
<1>8. PICK q \in Requests : q = [adding |-> TRUE, event |-> e]
  BY DEF Requests
<1>9. q.adding /\ q.event = e /\ ev.live
  BY <1>2, <1>8
<1>10. pc = "idle" /\ requests' = Append(requests, q) /\ UNCHANGED <<sounds, files, pc, at>> /\ ~event[e].live
       /\ \A c \in 1..Len(requests) : requests[c].event # e
  BY <1>8 DEF AddEvent
<1> QED BY <1>7, <1>9, <1>10, Asked

LEMMA RemoveEventKeeps ==
  ASSUME IndInv, NEW e \in Events, RemoveEvent(e)
  PROVE  IndInv'
<1>1. PICK q \in Requests : q = [adding |-> FALSE, event |-> e]
  BY DEF Requests
<1>2. ~q.adding /\ q.event = e
  BY <1>1
<1>3. pc = "idle" /\ requests' = Append(requests, q) /\ UNCHANGED <<sounds, files, pc, at>> /\ event' = event
  BY <1>1 DEF RemoveEvent
<1>4. event' \in [Events -> EventStates]
  BY <1>3 DEF IndInv, TypeOK
<1> QED BY <1>2, <1>3, <1>4, Asked

\* Entries and events change, samples fall silent, and all else is as it was.
LEMMA Altered ==
  ASSUME IndInv, SameEntries(list'), free' = free, count' = count, requests' = requests, pc' = pc, at' = at,
         running' \subseteq running, CacheGood(cache', size'), event' \in [Events -> EventStates],
         \A K \in Kinds : \A i \in 1..Len(list[K]) :
           /\ list[K][i].sample \in running' => ~list'[K][i].stopped
           /\ list'[K][i].releaseEvent = list[K][i].releaseEvent
           /\ ~list[K][i].releaseEvent => list'[K][i].stopped
                                          /\ event'[list[K][i].event].delay = event[list[K][i].event].delay
           /\ pc = "start" /\ list[K][i].sample \notin running => list'[K][i] = list[K][i],
         \A e \in Events : event'[e].live = event[e].live /\ (event[e].delay = 0 => event'[e].delay = 0)
  PROVE  IndInv'
<1>1. TypeOK /\ SamplesInv /\ RunningInv /\ CurrentInv /\ StartingInv /\ EventsInv /\ CountsMatch
  BY DEF IndInv
<1>2. /\ \A J \in Kinds : \A i \in 1..Len(list'[J]) : Kind(list'[J][i].event) = J
      /\ SamplesInv' /\ RunningInv'
  BY <1>1, EntriesChanged
<1>3. EventsInv'
  <2>1. \A e \in Events : event'[e].live = event[e].live
    OBVIOUS
  <2>2. \A K \in Kinds : \A i \in 1..Len(list[K]) :
          /\ list'[K][i].releaseEvent = list[K][i].releaseEvent
          /\ ~list[K][i].releaseEvent => list'[K][i].stopped
                                         /\ event'[list[K][i].event].delay = event[list[K][i].event].delay
    OBVIOUS
  <2> QED BY <1>1, <2>1, <2>2, EventsSame
<1>4. cache' \in [Files -> CacheItems] /\ size' \in Nat /\ CacheAccounted'
  BY CacheIsGood
<1>5. TypeOK'
  <2>1. free \in [Kinds -> Seq(Handles)] /\ count \in [Kinds -> Nat] /\ requests \in Seq(Requests) /\ running' \subseteq Handles
        /\ pc \in Kinds \cup {"idle", "requests", "sample", "start"} /\ at \in Nat \ {0}
    BY <1>1 DEF TypeOK
  <2>2. list' \in [Kinds -> Seq(Entries)]
    BY DEF SameEntries
  <2> QED BY <1>2, <1>4, <2>1, <2>2 DEF TypeOK
<1>6. Current' = Current
  BY DEF Current
<1>7. CurrentInv'
  <2>1. pc = "sample" => event'[Current.event].delay = 0
    <3> SUFFICES ASSUME pc = "sample" PROVE event'[Current.event].delay = 0
      OBVIOUS
    <3>1. Current.event \in Events /\ event[Current.event].delay = 0
      BY <1>1, CurrentTyped DEF CurrentInv, Busy, Due
    <3> QED BY <3>1
  <2> QED BY <1>1, <1>6, <2>1 DEF CurrentInv, Busy, Due
<1>8. StartingInv'
  <2> SUFFICES ASSUME pc = "start" PROVE StartingInv'
    BY DEF StartingInv
  <2>1. PICK K \in Kinds : K = Kind(Current.event)
    BY <1>1, CurrentTyped DEF CurrentInv, Busy
  <2>2. PICK n : n = Len(list[K])
    OBVIOUS
  <2>3. n # 0 /\ list[K][n].event = Current.event /\ list[K][n].releaseEvent /\ ~list[K][n].stopped /\ list[K][n].sample \notin running
    BY <1>1, <2>1, <2>2 DEF StartingInv
  <2>4. n \in 1..Len(list[K])
    BY <1>1, <2>2, <2>3, EntryTyped
  <2>5. list'[K][n] = list[K][n] /\ Len(list'[K]) = n
    BY <2>2, <2>3, <2>4 DEF SameEntries
  <2>6. Kind(Current.event)' = K
    BY <1>6, <2>1 DEF Kind
  <2>7. list'[K][n].sample \notin running'
    BY <2>3, <2>5
  <2> QED BY <1>6, <2>3, <2>5, <2>6, <2>7 DEF StartingInv, Kind
<1>9. CountsMatch'
  BY <1>1, <1>6 DEF CountsMatch, SameEntries, Kind
<1> QED BY <1>2, <1>3, <1>4, <1>5, <1>7, <1>8, <1>9 DEF IndInv

LEMMA StopAudioKeeps ==
  ASSUME IndInv, NEW K \in Kinds, StopAudio(K)
  PROVE  IndInv'
<1>1. TypeOK /\ CacheAccounted
  BY DEF IndInv
<1>2. PICK l \in Seq(Entries) : l = list[K]
  BY <1>1, EntryTyped
<1>3. DOMAIN l = 1..Len(l) /\ Len(l) \in Nat /\ \A i \in 1..Len(l) : l[i] \in Entries
  BY ElementOfSeq, LenProperties
<1>4. PICK r : r = [i \in 1..Len(l) |-> [l[i] EXCEPT !.stopped = TRUE]]
  OBVIOUS
<1>5. list' = [list EXCEPT ![K] = r]
  BY <1>2, <1>3, <1>4 DEF StopAudio
<1>6. ASSUME NEW i \in 1..Len(l)
      PROVE  /\ r[i] \in Entries /\ r[i].stopped /\ r[i].sample = l[i].sample /\ r[i].event = l[i].event
             /\ r[i].releaseEvent = l[i].releaseEvent
  <2>1. PICK p \in Entries : p = l[i]
    BY <1>3
  <2>2. r[i] = [p EXCEPT !.stopped = TRUE]
    BY <1>4, <2>1
  <2> QED BY <2>1, <2>2 DEF Entries
<1>7. r \in Seq(Entries) /\ Len(r) = Len(l)
  <2>1. PICK n \in Nat : n = Len(l)
    BY <1>3
  <2>2. r \in [1..n -> Entries]
    BY <1>4, <1>6, <2>1
  <2>3. r \in Seq(Entries) /\ Len(r) = n
    BY <2>2
  <2> QED BY <2>1, <2>3
<1>8. list' \in [Kinds -> Seq(Entries)] /\ list'[K] = r /\ \A J \in Kinds : J # K => list'[J] = list[J]
  BY <1>1, <1>5, <1>7 DEF TypeOK
<1>9. SameEntries(list')
  BY <1>2, <1>6, <1>7, <1>8 DEF SameEntries
<1>10. running' = running \ {p.sample : p \in ToSet(l)}
  BY <1>2 DEF StopAudio
<1>11. ASSUME NEW J \in Kinds, NEW i \in 1..Len(list[J])
       PROVE  /\ list[J][i].sample \in running' => ~list'[J][i].stopped
              /\ list'[J][i].releaseEvent = list[J][i].releaseEvent
              /\ ~list[J][i].releaseEvent => list'[J][i].stopped
  <2>1. CASE J = K
    <3>1. l[i] \in ToSet(l)
      BY <1>2, <1>3, <2>1 DEF ToSet
    <3>2. l[i].sample \notin running'
      BY <1>10, <3>1
    <3> QED BY <1>2, <1>6, <1>8, <2>1, <3>2
  <2>2. CASE J # K
    <3>1. list'[J] = list[J]
      BY <1>8, <2>2
    <3>2. list[J][i].sample \in running' => ~list[J][i].stopped
      BY <1>10 DEF IndInv, RunningInv
    <3>3. ~list[J][i].releaseEvent => list[J][i].stopped
      BY DEF IndInv, EventsInv, HandedOnInv
    <3> QED BY <3>1, <3>2, <3>3
  <2> QED BY <2>1, <2>2
<1>12. /\ pc = "idle" /\ free' = free /\ count' = count /\ requests' = requests /\ pc' = pc /\ at' = at
       /\ event' = event /\ cache' = cache /\ size' = size
  BY DEF StopAudio, files
<1>13. CacheGood(cache', size') /\ running' \subseteq running /\ event' \in [Events -> EventStates]
  <2>1. CacheGood(cache, size)
    BY <1>1, CacheIsGood
  <2> QED BY <1>1, <1>10, <1>12, <2>1 DEF CacheGood, TypeOK
<1> QED BY <1>9, <1>11, <1>12, <1>13, Altered

LEMMA DelayRequestKeeps ==
  ASSUME IndInv, DelayRequest
  PROVE  IndInv'
<1>1. TypeOK /\ SamplesInv /\ RunningInv /\ EventsInv /\ CountsMatch /\ CacheAccounted
  BY DEF IndInv
<1>2. /\ pc = "requests" /\ pc' = "requests" /\ at' = at + 1 /\ at <= Len(requests) /\ Current.adding
      /\ list' = list /\ free' = free /\ count' = count /\ running' = running
      /\ requests' = requests /\ cache' = cache /\ size' = size
  BY DEF DelayRequest, AtRequest, sounds, files
<1>3. at \in 1..Len(requests) /\ at \in Nat
  BY <1>1, <1>2, CurrentTyped DEF TypeOK
<1>4. PICK e \in Events : e = Current.event
  BY <1>1, <1>2, CurrentTyped
<1>5. PICK ev \in EventStates : ev = event[e]
  BY <1>1 DEF TypeOK
<1>6. PICK w : w = [ev EXCEPT !.delay = ev.delay - 1]
  OBVIOUS
<1>7. event' = [event EXCEPT ![e] = w] /\ event \in [Events -> EventStates] /\ ev.delay # 0
  BY <1>1, <1>4, <1>5, <1>6 DEF DelayRequest, Due, TypeOK
<1>8. w \in EventStates /\ w.live = ev.live
  <2>1. ev.delay - 1 \in 0..1
    BY <1>7 DEF EventStates
  <2> QED BY <1>6, <2>1 DEF EventStates
<1>9. /\ event' \in [Events -> EventStates] /\ \A d \in Events : d # e => event'[d] = event[d]
      /\ \A d \in Events : event'[d].live = event[d].live
  BY <1>5, <1>7, <1>8
<1>10. TypeOK'
  BY <1>1, <1>2, <1>3, <1>9 DEF TypeOK
<1>11. SamplesInv' /\ RunningInv'
  BY <1>1, <1>2 DEF SamplesInv, RunningInv
<1>12. CountsMatch' /\ CacheAccounted'
  BY <1>1, <1>2 DEF CountsMatch, CacheAccounted
<1>13. CurrentInv' /\ StartingInv'
  BY <1>2 DEF CurrentInv, StartingInv, Busy
<1>14. \A c : Claim(c)' <=> Claim(c)
  BY <1>2 DEF Claim
<1>15. OneEntryEach' /\ OneClaimEach' /\ OwnedOrClaimed'
  BY <1>1, <1>2, <1>14 DEF EventsInv, OneEntryEach, OneClaimEach, OwnedOrClaimed
<1>16. EntriesLive' /\ RequestsLive'
  <2>1. \A K \in Kinds : \A i \in 1..Len(list[K]) : event'[list[K][i].event].live = event[list[K][i].event].live
    BY <1>1, <1>9, EntryTyped
  <2>2. \A c \in 1..Len(requests) : event'[requests[c].event].live = event[requests[c].event].live
    BY <1>1, <1>9, RequestTyped
  <2> QED BY <1>1, <1>2, <2>1, <2>2 DEF EventsInv, EntriesLive, RequestsLive
<1>17. HandedOnInv'
  <2> SUFFICES ASSUME NEW K \in Kinds, NEW i \in 1..Len(list[K]), ~list[K][i].releaseEvent
               PROVE  /\ list[K][i].stopped
                      /\ \E c \in 1..Len(requests) :
                           /\ Claim(c)' /\ requests[c].event = list[K][i].event
                           /\ event'[list[K][i].event].delay = 0 => GoneInTime(K, i, c)'
    BY <1>2 DEF HandedOnInv, Due
  <2>1. list[K][i].stopped
    BY <1>1 DEF EventsInv, HandedOnInv
  <2>2. PICK c \in 1..Len(requests) : /\ Claim(c) /\ requests[c].event = list[K][i].event
                                      /\ Due(list[K][i].event) => GoneInTime(K, i, c)
    BY <1>1 DEF EventsInv, HandedOnInv
  <2>3. event'[list[K][i].event].delay = 0 => GoneInTime(K, i, c)'
    <3>1. CASE list[K][i].event = e
      <4>1. Claim(at) /\ requests[at].event = e
        BY <1>2, <1>4 DEF Claim, Current
      <4>2. c = at
        BY <1>1, <1>3, <2>2, <3>1, <4>1 DEF EventsInv, OneClaimEach
      <4> QED BY <1>2, <1>3, <4>2 DEF GoneInTime
    <3>2. CASE list[K][i].event # e
      <4>1. event'[list[K][i].event] = event[list[K][i].event]
        BY <1>1, <1>9, <3>2, EntryTyped
      <4>2. GoneInTime(K, i, c) => GoneInTime(K, i, c)'
        BY <1>2, <1>3 DEF GoneInTime, Kinds
      <4> QED BY <2>2, <4>1, <4>2 DEF Due
    <3> QED BY <3>1, <3>2
  <2> QED BY <1>14, <2>1, <2>2, <2>3
<1> QED BY <1>10, <1>11, <1>12, <1>13, <1>15, <1>16, <1>17 DEF IndInv, EventsInv

\* Update has done with a request and no entry comes or goes.
LEMMA Done ==
  ASSUME IndInv, SameEntries(list'), at <= Len(requests), Finish, free' = free,
         pc \in {"requests", "sample", "start"}, CacheGood(cache', size'),
         count' \in [Kinds -> Nat], \A K \in Kinds : count'[K] = Len(list[K]),
         \A s \in running' : s \in running \/ \E K \in Kinds : \E i \in 1..Len(list[K]) : list[K][i].sample = s,
         \A K \in Kinds : \A i \in 1..Len(list[K]) :
           /\ list'[K][i].releaseEvent = list[K][i].releaseEvent /\ list'[K][i].stopped = list[K][i].stopped
           /\ list[K][i].sample \in running' => ~list[K][i].stopped,
         Claim(at) => Due(Current.event) /\ event' = [event EXCEPT ![Current.event] = Dead],
         ~Claim(at) => event' = event
  PROVE  IndInv'
<1>1. TypeOK /\ SamplesInv /\ RunningInv /\ EventsInv
  BY DEF IndInv
<1>2. requests' = RemoveAt(requests, at) /\ pc' = "requests" /\ at' = at
  BY DEF Finish
<1>3. /\ \A J \in Kinds : \A i \in 1..Len(list'[J]) : Kind(list'[J][i].event) = J
      /\ SamplesInv' /\ RunningInv'
  BY <1>1, EntriesChanged
<1>4. EventsInv'
  <2>1. \A K \in Kinds : \A i \in 1..Len(list[K]) : /\ list'[K][i].releaseEvent = list[K][i].releaseEvent
                                                    /\ list'[K][i].stopped = list[K][i].stopped
    OBVIOUS
  <2> QED BY <1>1, <1>2, <2>1, RequestDone
<1>5. event' \in [Events -> EventStates]
  BY <1>1, DeadState DEF TypeOK
<1>6. requests' \in Seq(Requests)
  <2>1. at \in 1..Len(requests) /\ requests \in Seq(Requests)
    BY <1>1, CurrentTyped, RequestTyped
  <2> QED BY <1>2, <2>1, RemoveCuts
<1>7. cache' \in [Files -> CacheItems] /\ size' \in Nat /\ CacheAccounted'
  BY CacheIsGood
<1>8. running' \subseteq Handles
  <2> SUFFICES ASSUME NEW s \in running' PROVE s \in Handles
    OBVIOUS
  <2>1. CASE s \in running
    BY <1>1, <2>1 DEF TypeOK
  <2>2. CASE \E K \in Kinds : \E i \in 1..Len(list[K]) : list[K][i].sample = s
    BY <1>1, <2>2, EntryTyped
  <2> QED BY <2>1, <2>2
<1>9. TypeOK'
  <2>1. free \in [Kinds -> Seq(Handles)] /\ at \in Nat \ {0} /\ list' \in [Kinds -> Seq(Entries)]
    BY <1>1 DEF TypeOK, SameEntries
  <2> QED BY <1>2, <1>3, <1>5, <1>6, <1>7, <1>8, <2>1 DEF TypeOK
<1>10. CurrentInv' /\ StartingInv'
  BY <1>2 DEF CurrentInv, Busy, StartingInv
<1>11. CountsMatch'
  <2>1. \A K \in Kinds : Len(list'[K]) = Len(list[K]) /\ Len(list[K]) \in Nat
    BY <1>1, EntryTyped DEF SameEntries
  <2> SUFFICES ASSUME NEW K \in Kinds PROVE count'[K] = Len(list'[K]) - 0
    BY <1>2 DEF CountsMatch
  <2> QED BY <2>1
<1> QED BY <1>3, <1>4, <1>7, <1>9, <1>10, <1>11 DEF IndInv

\* Stop_Audio_Event changes nothing of the entries but whether they loop.
LEMMA UnloopedEntries ==
  ASSUME TypeOK, NEW e, list' = Unlooped(e)
  PROVE  /\ SameEntries(list')
         /\ \A K \in Kinds : \A i \in 1..Len(list[K]) :
              /\ list'[K][i].releaseEvent = list[K][i].releaseEvent
              /\ list'[K][i].stopped = list[K][i].stopped
<1>1. ASSUME NEW K \in Kinds
      PROVE  /\ list'[K] \in Seq(Entries) /\ Len(list'[K]) = Len(list[K])
             /\ \A i \in 1..Len(list[K]) :
                  /\ list'[K][i].sample = list[K][i].sample /\ list'[K][i].event = list[K][i].event
                  /\ list'[K][i].releaseEvent = list[K][i].releaseEvent /\ list'[K][i].stopped = list[K][i].stopped
  <2>1. PICK l \in Seq(Entries) : l = list[K]
    BY EntryTyped
  <2>2. DOMAIN l = 1..Len(l) /\ Len(l) \in Nat /\ \A i \in 1..Len(l) : l[i] \in Entries
    BY ElementOfSeq, LenProperties
  <2>3. PICK r : r = [i \in 1..Len(l) |-> [l[i] EXCEPT !.disableLoops = l[i].disableLoops \/ l[i].event = e]]
    OBVIOUS
  <2>4. list'[K] = r
    BY <2>1, <2>2, <2>3 DEF Unlooped
  <2>5. ASSUME NEW i \in 1..Len(l)
        PROVE  /\ r[i] \in Entries /\ r[i].sample = l[i].sample /\ r[i].event = l[i].event
               /\ r[i].releaseEvent = l[i].releaseEvent /\ r[i].stopped = l[i].stopped
    <3>1. PICK p \in Entries : p = l[i]
      BY <2>2
    <3>2. PICK b \in BOOLEAN : b = (p.disableLoops \/ p.event = e)
      OBVIOUS
    <3>3. r[i] = [p EXCEPT !.disableLoops = b]
      BY <2>3, <3>1, <3>2
    <3> QED BY <3>1, <3>3 DEF Entries
  <2>6. r \in Seq(Entries) /\ Len(r) = Len(l)
    <3>1. PICK n \in Nat : n = Len(l)
      BY <2>2
    <3>2. r \in [1..n -> Entries]
      BY <2>3, <2>5, <3>1
    <3>3. r \in Seq(Entries) /\ Len(r) = n
      BY <3>2
    <3> QED BY <3>1, <3>3
  <2> QED BY <2>1, <2>4, <2>5, <2>6
<1>2. list' = [K \in Kinds |-> list'[K]]
  BY DEF Unlooped
<1>3. list' \in [Kinds -> Seq(Entries)]
  BY <1>1, <1>2
<1> QED BY <1>1, <1>3 DEF SameEntries

LEMMA StopRequestKeeps ==
  ASSUME IndInv, StopRequest
  PROVE  IndInv'
<1>1. TypeOK /\ RunningInv /\ CountsMatch /\ CacheAccounted
  BY DEF IndInv
<1>2. /\ pc = "requests" /\ at <= Len(requests) /\ ~Current.adding /\ Finish
      /\ free' = free /\ count' = count /\ running' = running /\ event' = event /\ cache' = cache /\ size' = size
      /\ list' = Unlooped(Current.event)
  BY DEF StopRequest, AtRequest, files
<1>3. /\ SameEntries(list')
      /\ \A K \in Kinds : \A i \in 1..Len(list[K]) :
           /\ list'[K][i].releaseEvent = list[K][i].releaseEvent
           /\ list'[K][i].stopped = list[K][i].stopped
  BY <1>1, <1>2, UnloopedEntries
<1>4. CacheGood(cache', size')
  <2>1. CacheGood(cache, size)
    BY <1>1, CacheIsGood
  <2> QED BY <1>2, <2>1 DEF CacheGood
<1>5. count' \in [Kinds -> Nat] /\ \A K \in Kinds : count'[K] = Len(list[K])
  BY <1>1, <1>2, EntryTyped DEF CountsMatch, TypeOK
<1>6. ~Claim(at)
  BY <1>2 DEF Claim, Current
<1>7. \A K \in Kinds : \A i \in 1..Len(list[K]) : list[K][i].sample \in running' => ~list[K][i].stopped
  BY <1>1, <1>2 DEF RunningInv
<1> QED BY <1>2, <1>3, <1>4, <1>5, <1>6, <1>7, Done

LEMMA StopEntryKeeps ==
  ASSUME IndInv, StopEntry
  PROVE  IndInv'
<1>1. TypeOK /\ RunningInv /\ CacheAccounted /\ EventsInv
  BY DEF IndInv
<1>2. /\ pc = "positional" /\ list' = Unlooped(list["positional"][at].event)
      /\ free' = free /\ count' = count /\ running' = running /\ requests' = requests /\ event' = event
      /\ cache' = cache /\ size' = size /\ pc' = pc /\ at' = at
  BY DEF StopEntry, AtEntry, files
<1>3. /\ SameEntries(list')
      /\ \A K \in Kinds : \A i \in 1..Len(list[K]) :
           /\ list'[K][i].releaseEvent = list[K][i].releaseEvent
           /\ list'[K][i].stopped = list[K][i].stopped
  BY <1>1, <1>2, UnloopedEntries
<1>4. CacheGood(cache', size')
  <2>1. CacheGood(cache, size)
    BY <1>1, CacheIsGood
  <2> QED BY <1>2, <2>1 DEF CacheGood
<1>5. \A K \in Kinds : \A i \in 1..Len(list[K]) :
        /\ list[K][i].sample \in running' => ~list'[K][i].stopped
        /\ ~list[K][i].releaseEvent => list'[K][i].stopped
  BY <1>1, <1>2, <1>3 DEF RunningInv, EventsInv, HandedOnInv
<1>6. event' \in [Events -> EventStates]
  BY <1>1, <1>2 DEF TypeOK
<1> QED BY <1>2, <1>3, <1>4, <1>5, <1>6, Altered

LEMMA DropKeeps ==
  ASSUME IndInv, at <= Len(requests), pc \in {"requests", "sample"}, Current.adding, Due(Current.event), Drop(Current.event)
  PROVE  IndInv'
<1>1. TypeOK /\ RunningInv /\ CountsMatch /\ CacheAccounted
  BY DEF IndInv
<1>2. PICK e \in Events : e = Current.event
  BY <1>1, CurrentTyped
<1>3. PICK K \in Kinds : K = Kind(e)
  BY AudioAssumption DEF Kind
<1>4. PICK p : p = NewAudio(e, Null)
  OBVIOUS
<1>5. p.event = e /\ p.sample = Null /\ p.handle = Null /\ p.releaseEvent
  BY <1>4 DEF NewAudio
<1>6. Release(K, p) /\ Finish /\ list' = list /\ size' = size
  BY <1>2, <1>3, <1>4 DEF Drop
<1>7. free' = free /\ count' = count /\ running' = running
  <2>1. free \in [Kinds -> Seq(Handles)] /\ count \in [Kinds -> Nat] /\ Null \notin running
    BY <1>1, AudioAssumption DEF TypeOK
  <2>2. free' = [free EXCEPT ![K] = free[K]] /\ count' = [count EXCEPT ![K] = count[K]] /\ running' = running \ {Null}
    BY <1>5, <1>6 DEF Release, HandlesBack, Silenced
  <2> QED BY <2>1, <2>2
<1>8. CacheGood(cache', size')
  <2>1. cache' = Closed(cache, p.handle)
    BY <1>6 DEF Release
  <2> QED BY <1>1, <1>6, <2>1, CacheIsGood, ClosedGood
<1>9. event' = [event EXCEPT ![Current.event] = Dead]
  BY <1>2, <1>5, <1>6 DEF Release
<1>10. Claim(at)
  BY DEF Claim, Current
<1>11. count' \in [Kinds -> Nat] /\ \A J \in Kinds : count'[J] = Len(list[J])
  BY <1>1, <1>7, EntryTyped DEF CountsMatch, TypeOK
<1>12. SameEntries(list')
  BY <1>1, <1>6 DEF SameEntries, TypeOK
<1>13. \A J \in Kinds : \A i \in 1..Len(list[J]) :
        /\ list'[J][i].releaseEvent = list[J][i].releaseEvent /\ list'[J][i].stopped = list[J][i].stopped
        /\ list[J][i].sample \in running' => ~list[J][i].stopped
  BY <1>1, <1>6, <1>7 DEF RunningInv
<1> QED BY <1>6, <1>7, <1>8, <1>9, <1>10, <1>11, <1>12, <1>13, Done

LEMMA DropsKeep ==
  ASSUME IndInv, DropReplacement \/ DropForWant
  PROVE  IndInv'
<1>1. CASE DropReplacement
  BY <1>1, DropKeeps DEF DropReplacement, AtRequest
<1>2. CASE DropForWant
  BY <1>2, DropKeeps DEF DropForWant, IndInv, CurrentInv, Busy
<1> QED BY <1>1, <1>2

\* The entry made last, while its sample is started.
LEMMA LastEntry ==
  ASSUME IndInv, pc = "start"
  PROVE  /\ at \in 1..Len(requests) /\ Current.event \in Events /\ Kind(Current.event) \in Kinds
         /\ \A n : n = Len(list[Kind(Current.event)]) =>
              /\ n \in 1..Len(list[Kind(Current.event)]) /\ list[Kind(Current.event)][n] \in Entries
              /\ list[Kind(Current.event)][n].event = Current.event /\ list[Kind(Current.event)][n].releaseEvent
              /\ ~list[Kind(Current.event)][n].stopped /\ list[Kind(Current.event)][n].sample \notin running
<1>1. TypeOK /\ at <= Len(requests)
  BY DEF IndInv, CurrentInv, Busy
<1>2. PICK K \in Kinds : K = Kind(Current.event)
  BY <1>1, CurrentTyped
<1>3. PICK n : n = Len(list[K])
  OBVIOUS
<1>4. n # 0 /\ list[K][n].event = Current.event /\ list[K][n].releaseEvent /\ ~list[K][n].stopped /\ list[K][n].sample \notin running
  BY <1>2, <1>3 DEF IndInv, StartingInv
<1>5. n \in 1..Len(list[K]) /\ list[K][n] \in Entries
  BY <1>1, <1>3, <1>4, EntryTyped
<1> QED BY <1>1, <1>2, <1>3, <1>4, <1>5, CurrentTyped

\* The counts while a sample is started: all entries but the last.
LEMMA CountsStarting ==
  ASSUME IndInv, pc = "start", NEW K \in Kinds
  PROVE  /\ K = Kind(Current.event) => count[K] = Len(list[K]) - 1
         /\ K # Kind(Current.event) => count[K] = Len(list[K])
         /\ count[K] \in Nat /\ Len(list[K]) \in Nat
<1>1. Len(list[K]) \in Nat /\ count[K] \in Nat
  BY EntryTyped DEF IndInv, TypeOK
<1>2. count[K] = Len(list[K]) - (IF pc = "start" /\ Kind(Current.event) = K THEN 1 ELSE 0)
  BY DEF IndInv, CountsMatch
<1>3. CASE K = Kind(Current.event)
  BY <1>1, <1>2, <1>3
<1>4. CASE K # Kind(Current.event)
  <2>1. count[K] = Len(list[K]) - 0
    BY <1>2, <1>4
  <2>2. count[K] = Len(list[K])
    BY <1>1, <2>1
  <2> QED BY <1>1, <1>4, <2>2
<1> QED BY <1>3, <1>4

LEMMA StartSampleKeeps ==
  ASSUME IndInv, StartSample
  PROVE  IndInv'
<1>1. TypeOK /\ RunningInv /\ CacheAccounted /\ pc = "start" /\ Finish /\ free' = free /\ event' = event
  BY DEF IndInv, StartSample
<1>2. PICK e \in Events : e = Current.event
  BY <1>1, LastEntry
<1>3. PICK K \in Kinds : K = Kind(e)
  BY AudioAssumption DEF Kind
<1>4. PICK n : n = Len(list[K])
  OBVIOUS
<1>5. PICK p : p = list[K][n]
  OBVIOUS
<1>6. n \in 1..Len(list[K]) /\ p \in Entries /\ p.releaseEvent /\ ~p.stopped /\ at \in 1..Len(requests)
  BY <1>1, <1>2, <1>3, <1>4, <1>5, LastEntry
<1>7. PICK o \in Played(e, event[e], cache, size) :
        /\ list' = [list EXCEPT ![K][n].handle = o.data]
        /\ running' = running \cup {list[K][n].sample} /\ cache' = o.cache /\ size' = o.size
  BY <1>2, <1>3, <1>4 DEF StartSample
<1>8. CacheGood(cache', size') /\ o.data \in Buffers \cup {Null}
  <2>1. CacheGood(cache, size) /\ event[e] \in EventStates
    BY <1>1, CacheIsGood DEF TypeOK
  <2> QED BY <1>7, <2>1, PlayedGood
<1>9. PICK q : q = [p EXCEPT !.handle = o.data]
  OBVIOUS
<1>10. q \in Entries /\ q.sample = p.sample /\ q.event = p.event /\ q.releaseEvent = p.releaseEvent /\ q.stopped = p.stopped
  BY <1>6, <1>8, <1>9 DEF Entries
<1>11. list' = [list EXCEPT ![K][n] = q]
  BY <1>5, <1>7, <1>9
<1>12. /\ SameEntries(list') /\ list'[K][n] = q
       /\ \A J \in Kinds : \A i \in 1..Len(list[J]) : J # K \/ i # n => list'[J][i] = list[J][i]
  BY <1>1, <1>5, <1>6, <1>10, <1>11, PutIs
<1>13. ASSUME NEW J \in Kinds, NEW i \in 1..Len(list[J])
       PROVE  /\ list'[J][i].releaseEvent = list[J][i].releaseEvent /\ list'[J][i].stopped = list[J][i].stopped
              /\ list[J][i].sample \in running' => ~list[J][i].stopped
  <2>1. CASE J = K /\ i = n
    BY <1>5, <1>6, <1>10, <1>12, <2>1
  <2>2. CASE ~(J = K /\ i = n)
    <3>1. list'[J][i] = list[J][i]
      BY <1>12, <2>2
    <3>2. list[J][i].sample # p.sample
      BY <1>1, <1>5, <1>6, <2>2, SamplesDiffer DEF IndInv
    <3>3. list[J][i].sample \in running' => list[J][i].sample \in running
      BY <1>5, <1>7, <3>2
    <3> QED BY <1>1, <3>1, <3>3 DEF RunningInv
  <2> QED BY <2>1, <2>2
<1>14. \A s \in running' : s \in running \/ \E J \in Kinds : \E i \in 1..Len(list[J]) : list[J][i].sample = s
  BY <1>5, <1>6, <1>7
<1>15. count' \in [Kinds -> Nat] /\ \A J \in Kinds : count'[J] = Len(list[J])
  <2>1. count' = [count EXCEPT ![K] = count[K] + 1] /\ count \in [Kinds -> Nat]
    BY <1>1, <1>2, <1>3 DEF StartSample, Started, TypeOK
  <2>2. count[K] + 1 = Len(list[K]) /\ \A J \in Kinds : J # K => count[J] = Len(list[J])
    <3>1. \A J \in Kinds : /\ J = K => count[J] = Len(list[J]) - 1
                           /\ J # K => count[J] = Len(list[J])
                           /\ count[J] \in Nat /\ Len(list[J]) \in Nat
      BY <1>1, <1>2, <1>3, CountsStarting
    <3> QED BY <3>1
  <2> QED BY <2>1, <2>2
<1>16. ~Claim(at)
  BY <1>1 DEF Claim
<1>17. at <= Len(requests)
  BY <1>6
<1> QED BY <1>1, <1>8, <1>12, <1>13, <1>14, <1>15, <1>16, <1>17, Done

\* A handle that is free is not that of an entry, and so does not run.
LEMMA FreeIsSilent ==
  ASSUME TypeOK, SamplesInv, RunningInv, NEW K \in Kinds, NEW x \in 1..Len(free[K])
  PROVE  free[K][x] \notin running
<1> SUFFICES ASSUME free[K][x] \in running PROVE FALSE
  OBVIOUS
<1>1. PICK J \in Kinds : \E i \in 1..Len(list[J]) : list[J][i].sample = free[K][x]
  BY DEF RunningInv
<1>2. PICK i \in 1..Len(list[J]) : list[J][i].sample = free[K][x]
  BY <1>1
<1>3. \A I \in Kinds : Members(free[I]) \cup {list[I][b].sample : b \in 1..Len(list[I])} = Members(Samples[I])
  BY DEF SamplesInv, HandlesApart
<1>4. free[K][x] \in Members(Samples[K]) /\ free[K][x] \in Members(Samples[J])
  <2>1. free[K][x] \in Members(free[K])
    BY DEF Members
  <2>2. free[K][x] \in {list[J][b].sample : b \in 1..Len(list[J])}
    BY <1>2
  <2> QED BY <1>3, <2>1, <2>2
<1>5. K = J
  BY <1>4, SampleKinds
<1> QED BY <1>2, <1>5 DEF SamplesInv, HandlesApart

LEMMA TakeSampleKeeps ==
  ASSUME IndInv, TakeSample
  PROVE  IndInv'
<1>1. TypeOK /\ SamplesInv /\ RunningInv /\ CurrentInv /\ EventsInv /\ CountsMatch /\ CacheAccounted
  BY DEF IndInv
<1>2. /\ pc = "sample" /\ pc' = "start" /\ count' = count /\ running' = running /\ requests' = requests
      /\ event' = event /\ cache' = cache /\ size' = size /\ at' = at
  BY DEF TakeSample, files
<1>3. at \in 1..Len(requests) /\ Current.adding /\ Due(Current.event)
  BY <1>1, <1>2, CurrentTyped DEF CurrentInv, Busy
<1>4. PICK e \in Events : e = Current.event
  BY <1>1, <1>3, CurrentTyped
<1>5. PICK K \in Kinds : K = Kind(e)
  BY AudioAssumption DEF Kind
<1>6. PICK f \in Seq(Handles) : f = free[K]
  BY <1>1, EntryTyped
<1>7. PICK l \in Seq(Entries) : l = list[K]
  BY <1>1, EntryTyped
<1>8. PICK p : p = NewAudio(e, Head(f))
  OBVIOUS
<1>9. PICK r : r = Append(l, p)
  OBVIOUS
<1>10. f # << >> /\ list' = [list EXCEPT ![K] = r] /\ free' = [free EXCEPT ![K] = Tail(f)]
  BY <1>4, <1>5, <1>6, <1>7, <1>8, <1>9 DEF TakeSample
<1>11. Head(f) \in Handles /\ Tail(f) \in Seq(Handles) /\ 1 \in 1..Len(f) /\ Head(f) = f[1]
  BY <1>10
<1>12. /\ p \in Entries /\ p.event = e /\ p.sample = Head(f) /\ ~p.stopped /\ p.releaseEvent
  BY <1>8, <1>11 DEF NewAudio, Entries
<1>13. /\ r \in Seq(Entries) /\ Len(r) = Len(l) + 1 /\ Len(l) \in Nat /\ r[Len(l) + 1] = p
       /\ \A i \in 1..Len(l) : i \in 1..Len(r) /\ r[i] = l[i]
       /\ \A i \in 1..Len(r) : i \in 1..Len(l) \/ i = Len(l) + 1
  <2>1. r \in Seq(Entries) /\ Len(r) = Len(l) + 1 /\ Len(l) \in Nat /\ r[Len(l) + 1] = p /\ \A i \in 1..Len(l) : r[i] = l[i]
    BY <1>9, <1>12
  <2>2. \A i \in 1..Len(l) : i \in 1..Len(r)
    BY <2>1
  <2>3. \A i \in 1..Len(r) : i \in 1..Len(l) \/ i = Len(l) + 1
    BY <2>1
  <2> QED BY <2>1, <2>2, <2>3
<1>14. /\ list' \in [Kinds -> Seq(Entries)] /\ free' \in [Kinds -> Seq(Handles)] /\ list'[K] = r /\ free'[K] = Tail(f)
       /\ \A J \in Kinds : J # K => list'[J] = list[J] /\ free'[J] = free[J]
  BY <1>1, <1>10, <1>11, <1>13 DEF TypeOK
<1>15. \A J \in Kinds : \A i \in 1..Len(list'[J]) :
         (i \in 1..Len(list[J]) /\ list'[J][i] = list[J][i]) \/ (J = K /\ i = Len(l) + 1 /\ list'[J][i] = p)
  BY <1>7, <1>13, <1>14
<1>16. \A J \in Kinds : \A i \in 1..Len(list[J]) : i \in 1..Len(list'[J]) /\ list'[J][i] = list[J][i]
  BY <1>7, <1>13, <1>14
<1>17. \A J \in Kinds : \A i \in 1..Len(list'[J]) : Kind(list'[J][i].event) = J
  BY <1>1, <1>5, <1>12, <1>15, EntryTyped
<1>18. SamplesInv'
  <2>1. HandlesApart(Tail(f), r, Samples[K])
    <3>1. HandlesApart(f, l, Samples[K])
      BY <1>1, <1>6, <1>7 DEF SamplesInv
    <3> QED BY <1>9, <1>10, <1>12, <3>1, ApartTaken
  <2> QED BY <1>1, <1>14, <2>1 DEF SamplesInv
<1>19. p.sample \notin running
  BY <1>1, <1>6, <1>11, <1>12, FreeIsSilent
<1>20. RunningInv'
  <2>1. ASSUME NEW s \in running PROVE \E J \in Kinds : \E i \in 1..Len(list'[J]) : list'[J][i].sample = s
    <3>1. PICK J \in Kinds : \E i \in 1..Len(list[J]) : list[J][i].sample = s
      BY <1>1 DEF RunningInv
    <3>2. PICK i \in 1..Len(list[J]) : list[J][i].sample = s
      BY <3>1
    <3> QED BY <1>16, <3>2
  <2>2. ASSUME NEW J \in Kinds, NEW i \in 1..Len(list'[J]), list'[J][i].sample \in running
        PROVE  ~list'[J][i].stopped
    <3>1. i \in 1..Len(list[J]) /\ list'[J][i] = list[J][i]
      BY <1>15, <1>19, <2>2
    <3> QED BY <1>1, <2>2, <3>1 DEF RunningInv
  <2> QED BY <1>2, <2>1, <2>2 DEF RunningInv
<1>21. CountsMatch'
  <2>1. Current' = Current
    BY <1>2 DEF Current
  <2>2. \A J \in Kinds : count[J] = Len(list[J]) /\ Len(list[J]) \in Nat
    BY <1>1, <1>2, EntryTyped DEF CountsMatch
  <2> SUFFICES ASSUME NEW J \in Kinds PROVE count[J] = Len(list'[J]) - (IF K = J THEN 1 ELSE 0)
    BY <1>2, <1>4, <1>5, <2>1 DEF CountsMatch, Kind
  <2> QED BY <1>7, <1>13, <1>14, <2>2
<1>22. TypeOK'
  <2>1. /\ count \in [Kinds -> Nat] /\ running \subseteq Handles /\ requests \in Seq(Requests) /\ event \in [Events -> EventStates]
        /\ cache \in [Files -> CacheItems] /\ size \in Nat /\ at \in Nat \ {0}
    BY <1>1 DEF TypeOK
  <2> QED BY <1>2, <1>14, <1>17, <2>1 DEF TypeOK
<1>23. CurrentInv' /\ CacheAccounted'
  BY <1>1, <1>2 DEF CurrentInv, CacheAccounted, Busy, Current
<1>24. StartingInv'
  <2>1. Current' = Current
    BY <1>2 DEF Current
  <2>2. Len(r) # 0 /\ r[Len(r)] = p
    BY <1>13
  <2> QED BY <1>2, <1>4, <1>5, <1>12, <1>14, <1>19, <2>1, <2>2 DEF StartingInv, Kind
<1>25. Claim(at) /\ \A c : Claim(c)' <=> Claim(c) /\ c # at
  BY <1>2, <1>3 DEF Claim, Current
<1>26. \A J \in Kinds : \A i \in 1..Len(list[J]) : list[J][i].event # e
  <2>1. at <= Len(requests) /\ pc \in {"requests", "sample", "start"}
    BY <1>2, <1>3
  <2> QED BY <1>1, <1>3, <1>4, <1>25, <2>1, NotYetPlayed
<1>27. OneEntryEach'
  <2> SUFFICES ASSUME NEW J \in Kinds, NEW i \in 1..Len(list'[J]), NEW j \in 1..Len(list'[J]),
                      list'[J][i].event = list'[J][j].event
               PROVE  i = j
    BY DEF OneEntryEach
  <2>1. CASE i \in 1..Len(list[J]) /\ j \in 1..Len(list[J])
    <3>1. list[J][i].event = list[J][j].event
      BY <1>16, <2>1
    <3> QED BY <1>1, <2>1, <3>1 DEF EventsInv, OneEntryEach
  <2>2. \A a \in 1..Len(list'[J]) : a \notin 1..Len(list[J]) =>
          a = Len(l) + 1 /\ list'[J][a].event = e
    BY <1>12, <1>15
  <2>3. \A a \in 1..Len(list[J]) : list'[J][a].event # e
    BY <1>16, <1>26
  <2> QED BY <2>1, <2>2, <2>3
<1>28. EntriesLive'
  <2>1. event[e].live
    BY <1>1, <1>3, <1>4 DEF EventsInv, RequestsLive, Current
  <2> SUFFICES ASSUME NEW J \in Kinds, NEW i \in 1..Len(list'[J]) PROVE event[list'[J][i].event].live
    BY <1>2 DEF EntriesLive
  <2> QED BY <1>1, <1>12, <1>15, <2>1 DEF EventsInv, EntriesLive
<1>29. RequestsLive' /\ OneClaimEach'
  BY <1>1, <1>2, <1>25 DEF EventsInv, RequestsLive, OneClaimEach
<1>30. OwnedOrClaimed'
  <2> SUFFICES ASSUME NEW J \in Kinds, NEW i \in 1..Len(list'[J]), NEW c \in 1..Len(requests),
                      list'[J][i].releaseEvent, Claim(c), c # at
               PROVE  list'[J][i].event # requests[c].event
    BY <1>2, <1>25 DEF OwnedOrClaimed
  <2>1. requests[c].event # e
    BY <1>1, <1>3, <1>4, <1>25 DEF EventsInv, OneClaimEach, Current
  <2>2. CASE list'[J][i] = p
    BY <1>12, <2>1, <2>2
  <2>3. CASE list'[J][i] # p
    <3>1. i \in 1..Len(list[J]) /\ list'[J][i] = list[J][i]
      BY <1>15, <2>3
    <3> QED BY <1>1, <3>1 DEF EventsInv, OwnedOrClaimed
  <2> QED BY <2>2, <2>3
<1>31. HandedOnInv'
  <2> SUFFICES ASSUME NEW J \in Kinds, NEW i \in 1..Len(list'[J]), ~list'[J][i].releaseEvent
               PROVE  /\ list'[J][i].stopped
                      /\ \E c \in 1..Len(requests) :
                           /\ Claim(c)' /\ requests[c].event = list'[J][i].event
                           /\ event[list'[J][i].event].delay = 0 => GoneInTime(J, i, c)'
    BY <1>2 DEF HandedOnInv, Due
  <2>1. i \in 1..Len(list[J]) /\ list'[J][i] = list[J][i]
    BY <1>12, <1>15
  <2>2. list[J][i].stopped
    BY <1>1, <2>1 DEF EventsInv, HandedOnInv
  <2>3. PICK c \in 1..Len(requests) : /\ Claim(c) /\ requests[c].event = list[J][i].event
                                      /\ Due(list[J][i].event) => GoneInTime(J, i, c)
    BY <1>1, <2>1 DEF EventsInv, HandedOnInv
  <2>4. c # at
    BY <1>4, <1>26, <2>1, <2>3 DEF Current
  <2>5. GoneInTime(J, i, c) => GoneInTime(J, i, c)'
    BY <1>2 DEF GoneInTime, Kinds
  <2> QED BY <1>25, <2>1, <2>2, <2>3, <2>4, <2>5 DEF Due
<1>32. EventsInv'
  BY <1>27, <1>28, <1>29, <1>30, <1>31 DEF EventsInv
<1> QED BY <1>18, <1>20, <1>21, <1>22, <1>23, <1>24, <1>32 DEF IndInv

\* The entry made last goes again, its event and its request with it.
LEMMA StartFailsEvents ==
  ASSUME TypeOK, EventsInv, at \in 1..Len(requests), requests' = RemoveAt(requests, at),
         pc = "start", pc' = "requests", at' = at,
         NEW K \in Kinds, NEW k \in 1..Len(list[K]), k = Len(list[K]), NEW r \in Seq(Entries), Cut(list[K], k, r),
         list' = [list EXCEPT ![K] = r], list[K][k].releaseEvent, event' = [event EXCEPT ![list[K][k].event] = Dead]
  PROVE  EventsInv'
<1>1. requests \in Seq(Requests) /\ Len(requests) \in Nat
  BY RequestTyped
<1>2. PICK e \in Events : e = list[K][k].event
  BY EntryTyped
<1>3. \A d \in Events : d # e => event'[d] = event[d]
  BY <1>2 DEF TypeOK
<1>4. PICK q : q = requests'
  OBVIOUS
<1>5. q \in Seq(Requests) /\ Cut(requests, at, q)
  BY <1>1, <1>4, RemoveCuts
<1>6. /\ \A c \in 1..Len(q) : \E d \in 1..Len(requests) : d # at /\ q[c] = requests[d] /\ (c < at => d = c) /\ (c >= at => d = c + 1)
      /\ \A d \in 1..Len(requests) : d # at => \E c \in 1..Len(q) : q[c] = requests[d] /\ c = IF d < at THEN d ELSE d - 1
  <2>1. /\ \A c \in 1..Len(q) : \E d \in 1..Len(requests) : d # at /\ q[c] = requests[d] /\ d >= c /\ (c < at => d = c) /\ (c >= at => d = c + 1)
        /\ \A d \in 1..Len(requests) : d # at => \E c \in 1..Len(q) : q[c] = requests[d] /\ c = IF d < at THEN d ELSE d - 1
    BY <1>1, <1>5, CutPlaces
  <2> QED BY <2>1
<1>7. \A c : Claim(c)' <=> q[c].adding
  BY <1>4 DEF Claim
<1>8. \A d \in 1..Len(requests) : Claim(d) <=> requests[d].adding /\ d # at
  BY DEF Claim
<1>9. \A d \in 1..Len(requests) : Claim(d) => requests[d].event # e /\ requests[d].event \in Events
  BY <1>2, RequestTyped DEF EventsInv, OwnedOrClaimed
<1>10. \A J \in Kinds : \A i \in 1..Len(list'[J]) : i \in 1..Len(list[J]) /\ list'[J][i] = list[J][i] /\ ~(J = K /\ i = k)
  <2>0. \A J \in Kinds : \A i \in 1..Len(list'[J]) :
          \E j \in 1..Len(list[J]) :
            /\ list'[J][i] = list[J][j] /\ ~(J = K /\ j = k) /\ j = IF J = K /\ i >= k THEN i + 1 ELSE i
    BY OthersStay, ZenonT(60)
  <2> SUFFICES ASSUME NEW J \in Kinds, NEW i \in 1..Len(list'[J])
               PROVE  i \in 1..Len(list[J]) /\ list'[J][i] = list[J][i] /\ ~(J = K /\ i = k)
    OBVIOUS
  <2>1. PICK j \in 1..Len(list[J]) :
          /\ list'[J][i] = list[J][j] /\ ~(J = K /\ j = k) /\ j = IF J = K /\ i >= k THEN i + 1 ELSE i
    BY <2>0
  <2>2. j = i
    <3>1. CASE J = K /\ i >= k
      <4>1. i \in Nat /\ j = i + 1 /\ Len(list[K]) \in Nat /\ j <= k
        BY <2>1, <3>1, EntryTyped
      <4> QED BY <3>1, <4>1
    <3> QED BY <2>1, <3>1
  <2> QED BY <2>1, <2>2
<1>11. \A J \in Kinds : \A i \in 1..Len(list'[J]) :
         list[J][i].event # e /\ list[J][i].event \in Events /\ event'[list[J][i].event] = event[list[J][i].event]
  <2> SUFFICES ASSUME NEW J \in Kinds, NEW i \in 1..Len(list'[J])
               PROVE  list[J][i].event # e /\ list[J][i].event \in Events /\ event'[list[J][i].event] = event[list[J][i].event]
    OBVIOUS
  <2>1. i \in 1..Len(list[J]) /\ ~(J = K /\ i = k)
    BY <1>10
  <2>2. list[J][i].event # e
    BY <1>2, <2>1, EventsDiffer DEF EventsInv
  <2>3. list[J][i].event \in Events
    BY <2>1, EntryTyped
  <2> QED BY <1>3, <2>2, <2>3
<1>12. OneEntryEach'
  BY <1>10 DEF EventsInv, OneEntryEach
<1>13. EntriesLive'
  <2> SUFFICES ASSUME NEW J \in Kinds, NEW i \in 1..Len(list'[J]) PROVE event'[list'[J][i].event].live
    BY DEF EntriesLive
  <2>1. i \in 1..Len(list[J]) /\ list'[J][i] = list[J][i] /\ event'[list[J][i].event] = event[list[J][i].event]
    BY <1>10, <1>11
  <2>2. event[list[J][i].event].live
    BY <2>1 DEF EventsInv, EntriesLive
  <2> QED BY <2>1, <2>2
<1>14. RequestsLive'
  <2> SUFFICES ASSUME NEW c \in 1..Len(q), q[c].adding PROVE event'[q[c].event].live
    BY <1>4 DEF RequestsLive
  <2>1. PICK d \in 1..Len(requests) : d # at /\ q[c] = requests[d]
    BY <1>6
  <2>2. event[requests[d].event].live
    BY <2>1 DEF EventsInv, RequestsLive
  <2>3. requests[d].event # e /\ requests[d].event \in Events
    BY <1>8, <1>9, <2>1
  <2> QED BY <1>3, <2>1, <2>2, <2>3
<1>15. OneClaimEach'
  <2> SUFFICES ASSUME NEW c \in 1..Len(q), NEW d \in 1..Len(q), q[c].adding, q[d].adding, q[c].event = q[d].event
               PROVE  c = d
    BY <1>4, <1>7 DEF OneClaimEach
  <2>1. PICK a \in 1..Len(requests) : a # at /\ q[c] = requests[a] /\ (c < at => a = c) /\ (c >= at => a = c + 1)
    BY <1>6
  <2>2. PICK b \in 1..Len(requests) : b # at /\ q[d] = requests[b] /\ (d < at => b = d) /\ (d >= at => b = d + 1)
    BY <1>6
  <2>3. a = b
    BY <1>8, <2>1, <2>2 DEF EventsInv, OneClaimEach
  <2>4. c \in Int /\ d \in Int /\ at \in Int
    BY <1>1, <1>5
  <2> QED BY <2>1, <2>2, <2>3, <2>4
<1>16. OwnedOrClaimed'
  <2> SUFFICES ASSUME NEW J \in Kinds, NEW i \in 1..Len(list'[J]), NEW c \in 1..Len(q), list'[J][i].releaseEvent, q[c].adding
               PROVE  list'[J][i].event # q[c].event
    BY <1>4, <1>7 DEF OwnedOrClaimed
  <2>1. PICK d \in 1..Len(requests) : d # at /\ q[c] = requests[d]
    BY <1>6
  <2>2. i \in 1..Len(list[J]) /\ list'[J][i] = list[J][i] /\ Claim(d)
    BY <1>8, <1>10, <2>1
  <2> QED BY <2>1, <2>2 DEF EventsInv, OwnedOrClaimed
<1>17. HandedOnInv'
  <2> SUFFICES ASSUME NEW J \in Kinds, NEW i \in 1..Len(list'[J]), ~list'[J][i].releaseEvent
               PROVE  /\ list'[J][i].stopped
                      /\ \E c \in 1..Len(q) : /\ Claim(c)' /\ q[c].event = list'[J][i].event
                                              /\ event'[list'[J][i].event].delay = 0 => GoneInTime(J, i, c)'
    BY <1>4 DEF HandedOnInv, Due
  <2>1. /\ i \in 1..Len(list[J]) /\ list'[J][i] = list[J][i] /\ event'[list[J][i].event] = event[list[J][i].event]
    BY <1>10, <1>11
  <2>2. list[J][i].stopped
    BY <2>1 DEF EventsInv, HandedOnInv
  <2>3. PICK d \in 1..Len(requests) : /\ Claim(d) /\ requests[d].event = list[J][i].event
                                      /\ Due(list[J][i].event) => GoneInTime(J, i, d)
    BY <2>1 DEF EventsInv, HandedOnInv
  <2>4. d # at /\ requests[d].adding
    BY <1>8, <2>3
  <2>5. PICK c \in 1..Len(q) : q[c] = requests[d] /\ c = IF d < at THEN d ELSE d - 1
    BY <1>6, <2>4
  <2>6. GoneInTime(J, i, d) => GoneInTime(J, i, c)'
    <3>1. d \in Int /\ at \in Int
      BY <1>1
    <3> QED BY <2>5, <3>1 DEF GoneInTime, Kinds
  <2> QED BY <1>7, <2>1, <2>2, <2>3, <2>4, <2>5, <2>6 DEF Due
<1> QED BY <1>12, <1>13, <1>14, <1>15, <1>16, <1>17 DEF EventsInv

LEMMA StartFailsKeeps ==
  ASSUME IndInv, StartFails
  PROVE  IndInv'
<1>1. TypeOK /\ SamplesInv /\ RunningInv /\ EventsInv /\ CountsMatch /\ CacheAccounted
  BY DEF IndInv
<1>2. /\ pc = "start" /\ pc' = "requests" /\ at' = at /\ requests' = RemoveAt(requests, at)
      /\ count' = count /\ running' = running /\ cache' = cache /\ size' = size
  BY DEF StartFails, Finish, files
<1>3. PICK e \in Events : e = Current.event
  BY <1>2, LastEntry
<1>4. PICK K \in Kinds : K = Kind(e)
  BY AudioAssumption DEF Kind
<1>5. PICK l \in Seq(Entries) : l = list[K]
  BY <1>1, EntryTyped
<1>6. PICK n : n = Len(l)
  OBVIOUS
<1>7. PICK p : p = l[n]
  OBVIOUS
<1>8. /\ n \in 1..Len(l) /\ p \in Entries /\ p.event = e /\ p.releaseEvent /\ p.sample \notin running
      /\ at \in 1..Len(requests)
  BY <1>2, <1>3, <1>4, <1>5, <1>6, <1>7, LastEntry
<1>9. p.sample # Null
  BY <1>1, <1>5, <1>7, <1>8, <1>4, EntryTyped
<1>10. PICK r : r = Front(l)
  OBVIOUS
<1>11. r \in Seq(Entries) /\ Cut(l, n, r)
  <2>1. Len(l) # 0
    BY <1>6, <1>8
  <2> QED BY <1>6, <1>10, <2>1, FrontCuts
<1>12. list' = [list EXCEPT ![K] = r] /\ event' = [event EXCEPT ![e] = Dead]
  BY <1>3, <1>4, <1>5, <1>10 DEF StartFails
<1>13. free' = [free EXCEPT ![K] = Append(free[K], p.sample)]
  BY <1>3, <1>4, <1>5, <1>6, <1>7, <1>9 DEF StartFails, HandlesBack
<1>14. running' = running \ {p.sample}
  BY <1>2, <1>8
<1>15. /\ list' \in [Kinds -> Seq(Entries)]
       /\ \A J \in Kinds : \A i \in 1..Len(list'[J]) : Kind(list'[J][i].event) = J
       /\ free' \in [Kinds -> Seq(Handles)] /\ running' \subseteq Handles
       /\ SamplesInv' /\ RunningInv'
  <2>1. n \in 1..Len(list[K]) /\ Cut(list[K], n, r) /\ p = list[K][n]
    BY <1>5, <1>7, <1>8, <1>11
  <2> QED BY <1>1, <1>11, <1>12, <1>13, <1>14, <2>1, EntryGone
<1>16. EventsInv'
  <2>1. n \in 1..Len(list[K]) /\ n = Len(list[K]) /\ Cut(list[K], n, r) /\ list[K][n].releaseEvent /\ list[K][n].event = e
    BY <1>5, <1>6, <1>7, <1>8, <1>11
  <2>2. event' = [event EXCEPT ![list[K][n].event] = Dead]
    BY <1>12, <2>1
  <2> QED BY <1>1, <1>2, <1>8, <1>11, <1>12, <2>1, <2>2, StartFailsEvents
<1>17. event' \in [Events -> EventStates]
  BY <1>1, <1>12, DeadState DEF TypeOK
<1>18. requests' \in Seq(Requests)
  <2>1. requests \in Seq(Requests)
    BY <1>1, RequestTyped
  <2> QED BY <1>2, <1>8, <2>1, RemoveCuts
<1>19. TypeOK'
  BY <1>1, <1>2, <1>15, <1>17, <1>18 DEF TypeOK
<1>20. CountsMatch'
  <2>1. \A J \in Kinds : /\ J = K => count[J] = Len(list[J]) - 1
                         /\ J # K => count[J] = Len(list[J])
                         /\ Len(list[J]) \in Nat
    BY <1>2, <1>3, <1>4, CountsStarting
  <2>2. Len(r) = Len(l) - 1 /\ Len(l) \in Nat
    BY <1>5, <1>11 DEF Cut
  <2>3. list'[K] = r /\ \A J \in Kinds : J # K => list'[J] = list[J]
    BY <1>1, <1>12 DEF TypeOK
  <2>4. \A J \in Kinds : count[J] = Len(list'[J]) /\ Len(list'[J]) \in Nat
    BY <1>5, <2>1, <2>2, <2>3
  <2>5. \A J \in Kinds : count[J] = Len(list'[J]) - 0
    BY <2>4
  <2> QED BY <1>2, <2>5 DEF CountsMatch
<1>21. CurrentInv' /\ StartingInv' /\ CacheAccounted'
  BY <1>1, <1>2 DEF CurrentInv, StartingInv, Busy, CacheAccounted
<1> QED BY <1>15, <1>16, <1>19, <1>20, <1>21 DEF IndInv

LEMMA ResetKeeps ==
  ASSUME IndInv, Reset
  PROVE  IndInv'
<1>1. TypeOK /\ SamplesInv /\ RunningInv /\ EventsInv /\ CountsMatch /\ CacheAccounted
  BY DEF IndInv
<1>2. PICK g \in Seq(Entries) : g = list["global"]
  BY <1>1, EntryTyped DEF Kinds
<1>3. PICK h \in Seq(Entries) : h = list["positional"]
  BY <1>1, EntryTyped DEF Kinds
<1>4. PICK items : items = g \o h
  OBVIOUS
<1>5. items \in Seq(Entries) /\ Len(items) \in Nat /\ DOMAIN items = 1..Len(items)
  BY <1>4
<1>6. /\ pc = "idle" /\ pc' = "idle" /\ at' = at /\ size' = size /\ requests' = << >>
      /\ list' = [K \in Kinds |-> << >>]
      /\ free' = [K \in Kinds |-> free[K] \o [i \in DOMAIN list[K] |-> list[K][i].sample]]
      /\ count' = [K \in Kinds |-> IF count[K] > Len(list[K]) THEN count[K] - Len(list[K]) ELSE 0]
      /\ running' = running \ {p.sample : p \in ToSet(items)}
      /\ cache' = [f \in Files |-> [cache[f] EXCEPT !.refs =
                     @ - Cardinality({i \in DOMAIN items : items[i].handle # Null /\ items[i].handle = cache[f].data})]]
      /\ event' = [e \in Events |->
                     IF \E p \in ToSet(items) : p.event = e /\ p.releaseEvent THEN Dead ELSE event[e]]
  BY <1>2, <1>3, <1>4 DEF Reset
<1>7. \A K \in Kinds : list'[K] = << >> /\ Len(list'[K]) = 0 /\ 1..Len(list'[K]) = {}
  BY <1>6
<1>8. list' \in [Kinds -> Seq(Entries)]
  BY <1>6
<1>9. \A K \in Kinds : free'[K] \in Seq(Handles) /\ HandlesApart(free'[K], list'[K], Samples[K])
  <2> SUFFICES ASSUME NEW K \in Kinds PROVE free'[K] \in Seq(Handles) /\ HandlesApart(free'[K], list'[K], Samples[K])
    OBVIOUS
  <2>1. PICK f \in Seq(Handles) : f = free[K]
    BY <1>1, EntryTyped
  <2>2. PICK l \in Seq(Entries) : l = list[K]
    BY <1>1, EntryTyped
  <2>3. HandlesApart(f, l, Samples[K])
    BY <1>1, <2>1, <2>2 DEF SamplesInv
  <2>4. PICK r : r = f \o [i \in DOMAIN l |-> l[i].sample]
    OBVIOUS
  <2>5. free'[K] = r
    BY <1>6, <2>1, <2>2, <2>4
  <2>6. PICK m : m = list'[K]
    OBVIOUS
  <2>7. r \in Seq(Handles) /\ HandlesApart(r, m, Samples[K])
    BY <1>7, <2>3, <2>4, <2>6, ApartEmptied
  <2> QED BY <2>5, <2>6, <2>7
<1>10. SamplesInv' /\ free' \in [Kinds -> Seq(Handles)]
  <2>1. free' = [K \in Kinds |-> free'[K]]
    BY <1>6
  <2> QED BY <1>9, <2>1 DEF SamplesInv
<1>11. running' = {}
  <2> SUFFICES ASSUME NEW s \in running PROVE s \in {p.sample : p \in ToSet(items)}
    BY <1>6
  <2>1. PICK K \in Kinds : \E i \in 1..Len(list[K]) : list[K][i].sample = s
    BY <1>1 DEF RunningInv
  <2>2. PICK i \in 1..Len(list[K]) : list[K][i].sample = s
    BY <2>1
  <2>3. \E j \in 1..Len(items) : items[j] = list[K][i]
    <3>1. CASE K = "global"
      <4>1. i \in 1..Len(g) /\ i \in 1..Len(items) /\ items[i] = g[i]
        BY <1>2, <1>4, <3>1
      <4> QED BY <1>2, <3>1, <4>1
    <3>2. CASE K = "positional"
      <4>1. i \in 1..Len(h) /\ Len(g) \in Nat /\ Len(items) = Len(g) + Len(h)
        BY <1>3, <1>4, <3>2
      <4>2. Len(g) + i \in 1..Len(items) /\ items[Len(g) + i] = h[i]
        BY <1>4, <4>1
      <4> QED BY <1>3, <3>2, <4>2
    <3> QED BY <3>1, <3>2 DEF Kinds
  <2>4. PICK p : p = list[K][i]
    OBVIOUS
  <2>5. p \in ToSet(items)
    BY <1>5, <2>3, <2>4 DEF ToSet
  <2> QED BY <2>2, <2>4, <2>5
<1>12. RunningInv'
  BY <1>7, <1>11 DEF RunningInv
<1>13. event' \in [Events -> EventStates]
  BY <1>1, <1>6, DeadState DEF TypeOK
<1>14. CacheGood(cache', size')
  <2>1. CacheGood(cache, size)
    BY <1>1, CacheIsGood
  <2>2. \A f \in Files : cache'[f] \in CacheItems /\ cache'[f].data = cache[f].data
    <3> SUFFICES ASSUME NEW f \in Files PROVE cache'[f] \in CacheItems /\ cache'[f].data = cache[f].data
      OBVIOUS
    <3>1. PICK c \in CacheItems : c = cache[f]
      BY <1>1 DEF TypeOK
    <3>2. PICK T : T = {i \in DOMAIN items : items[i].handle # Null /\ items[i].handle = c.data}
      OBVIOUS
    <3>3. IsFiniteSet(T) /\ Cardinality(T) \in Nat
      <4>1. IsFiniteSet(1..Len(items))
        BY <1>5, FS_Interval
      <4> QED BY <1>5, <3>2, <4>1, FS_Subset, FS_CardinalityType
    <3>4. cache'[f] = [c EXCEPT !.refs = c.refs - Cardinality(T)]
      BY <1>6, <3>1, <3>2
    <3> QED BY <3>1, <3>3, <3>4 DEF CacheItems
  <2>3. cache' \in [Files -> CacheItems]
    <3>1. cache' = [f \in Files |-> cache'[f]]
      BY <1>6
    <3> QED BY <2>2, <3>1
  <2> QED BY <1>6, <2>1, <2>2, <2>3, SameFiles
<1>15. cache' \in [Files -> CacheItems] /\ size' \in Nat /\ CacheAccounted'
  BY <1>14, CacheIsGood
<1>16. \A K \in Kinds : count'[K] = 0 /\ count[K] = Len(list[K]) /\ Len(list[K]) \in Nat
  <2>1. \A K \in Kinds : count[K] = Len(list[K]) /\ Len(list[K]) \in Nat
    BY <1>1, <1>6, EntryTyped DEF CountsMatch
  <2> QED BY <1>6, <2>1
<1>17. count' \in [Kinds -> Nat]
  <2>1. count' = [K \in Kinds |-> count'[K]]
    BY <1>6
  <2> QED BY <1>16, <2>1
<1>18. TypeOK'
  <2>1. requests' \in Seq(Requests) /\ running' \subseteq Handles /\ at' \in Nat \ {0}
        /\ pc' \in Kinds \cup {"idle", "requests", "sample", "start"}
    BY <1>1, <1>6, <1>11 DEF TypeOK
  <2>2. \A K \in Kinds : \A i \in 1..Len(list'[K]) : Kind(list'[K][i].event) = K
    BY <1>7
  <2> QED BY <1>8, <1>10, <1>13, <1>15, <1>17, <2>1, <2>2 DEF TypeOK
<1>19. CountsMatch'
  BY <1>6, <1>7, <1>16 DEF CountsMatch
<1>20. CurrentInv' /\ StartingInv'
  BY <1>6 DEF CurrentInv, StartingInv, Busy
<1>21. EventsInv'
  <2>1. Len(requests') = 0 /\ 1..Len(requests') = {}
    BY <1>6
  <2>2. OneEntryEach' /\ EntriesLive' /\ OwnedOrClaimed' /\ HandedOnInv'
    BY <1>7 DEF OneEntryEach, EntriesLive, OwnedOrClaimed, HandedOnInv
  <2>3. RequestsLive' /\ OneClaimEach'
    BY <2>1 DEF RequestsLive, OneClaimEach
  <2> QED BY <2>2, <2>3 DEF EventsInv
<1> QED BY <1>10, <1>12, <1>15, <1>18, <1>19, <1>20, <1>21 DEF IndInv

\* An entry whose sample is over.
LEMMA RunningEntry ==
  ASSUME IndInv, NEW K \in Kinds, NEW k \in 1..Len(list[K]), list[K][k].sample \in running,
         NEW p, p = list[K][k], NEW e, e = p.event
  PROVE  /\ p \in Entries /\ ~p.stopped /\ p.releaseEvent /\ e \in Events /\ event[e] \in EventStates /\ event[e].live
         /\ \A c \in 1..Len(requests) : Claim(c) => requests[c].event # e
         /\ \A J \in Kinds : \A i \in 1..Len(list[J]) : ~(J = K /\ i = k) =>
              list[J][i].event # e /\ list[J][i].sample # p.sample
<1>1. TypeOK /\ SamplesInv /\ RunningInv /\ EventsInv
  BY DEF IndInv
<1>2. p \in Entries /\ e \in Events
  BY <1>1, EntryTyped
<1>3. ~p.stopped
  BY <1>1 DEF RunningInv
<1>4. p.releaseEvent
  BY <1>1, <1>3 DEF EventsInv, HandedOnInv
<1>5. event[e].live /\ event[e] \in EventStates
  BY <1>1, <1>2 DEF EventsInv, EntriesLive, TypeOK
<1>6. \A c \in 1..Len(requests) : Claim(c) => requests[c].event # e
  BY <1>1, <1>4 DEF EventsInv, OwnedOrClaimed
<1>7. \A J \in Kinds : \A i \in 1..Len(list[J]) : ~(J = K /\ i = k) =>
        list[J][i].event # e /\ list[J][i].sample # p.sample
  BY <1>1, EventsDiffer, SamplesDiffer DEF EventsInv
<1> QED BY <1>2, <1>3, <1>4, <1>5, <1>6, <1>7

\* It changes and its event changes, and it still owns the event.
LEMMA OwnerAltered ==
  ASSUME IndInv, NEW K \in Kinds, NEW k \in 1..Len(list[K]), list[K][k].sample \in running,
         NEW q \in Entries, q.sample = list[K][k].sample, q.event = list[K][k].event, q.releaseEvent = list[K][k].releaseEvent,
         list' = [list EXCEPT ![K][k] = q],
         NEW ev \in EventStates, ev.live = event[list[K][k].event].live,
         event[list[K][k].event].delay = 0 => ev.delay = 0, event' = [event EXCEPT ![list[K][k].event] = ev],
         running' = IF q.stopped THEN running \ {list[K][k].sample} ELSE running,
         CacheGood(cache', size'), UNCHANGED <<free, count, requests, pc, at>>
  PROVE  IndInv'
<1>1. PICK p : p = list[K][k]
  OBVIOUS
<1>2. PICK e : e = p.event
  OBVIOUS
<1>3. /\ p \in Entries /\ ~p.stopped /\ p.releaseEvent /\ e \in Events
      /\ \A J \in Kinds : \A i \in 1..Len(list[J]) : ~(J = K /\ i = k) =>
           list[J][i].event # e /\ list[J][i].sample # p.sample
  BY <1>1, <1>2, RunningEntry
<1>4. TypeOK /\ event \in [Events -> EventStates]
  BY DEF IndInv, TypeOK
<1>5. /\ SameEntries(list') /\ list'[K][k] = q
      /\ \A J \in Kinds : \A i \in 1..Len(list[J]) : J # K \/ i # k => list'[J][i] = list[J][i]
  BY <1>4, PutIs
<1>6. event' \in [Events -> EventStates] /\ event'[e] = ev /\ \A d \in Events : d # e => event'[d] = event[d]
  BY <1>1, <1>2, <1>3, <1>4
<1>7. \A d \in Events : event'[d].live = event[d].live /\ (event[d].delay = 0 => event'[d].delay = 0)
  BY <1>1, <1>2, <1>6
<1>8. ASSUME NEW J \in Kinds, NEW i \in 1..Len(list[J])
      PROVE  /\ list[J][i].sample \in running' => ~list'[J][i].stopped
             /\ list'[J][i].releaseEvent = list[J][i].releaseEvent
             /\ ~list[J][i].releaseEvent => list'[J][i].stopped
                                            /\ event'[list[J][i].event].delay = event[list[J][i].event].delay
             /\ pc = "start" /\ list[J][i].sample \notin running => list'[J][i] = list[J][i]
  <2>1. CASE J = K /\ i = k
    <3>1. list[J][i] = p /\ list'[J][i] = q
      BY <1>1, <1>5, <2>1
    <3>2. q.stopped => p.sample \notin running'
      BY <1>1
    <3>3. q.releaseEvent = p.releaseEvent /\ p.sample \in running
      BY <1>1
    <3> QED BY <1>3, <3>1, <3>2, <3>3
  <2>2. CASE ~(J = K /\ i = k)
    <3>1. list'[J][i] = list[J][i] /\ list[J][i].event # e /\ list[J][i].event \in Events
      BY <1>3, <1>4, <1>5, <2>2, EntryTyped
    <3>2. event'[list[J][i].event] = event[list[J][i].event]
      BY <1>6, <3>1
    <3>3. list[J][i].sample \in running => ~list[J][i].stopped
      BY DEF IndInv, RunningInv
    <3>4. ~list[J][i].releaseEvent => list[J][i].stopped
      BY DEF IndInv, EventsInv, HandedOnInv
    <3> QED BY <3>1, <3>2, <3>3, <3>4
  <2> QED BY <2>1, <2>2
<1>9. running' \subseteq running
  OBVIOUS
<1> QED BY <1>5, <1>6, <1>7, <1>8, <1>9, Altered

\* The event a loop goes on with.
LEMMA LoopTyped ==
  ASSUME NEW e \in Events, event[e] \in EventStates, NEW f \in Info[e].sounds
  PROVE  /\ NextLoop(e, f) \in EventStates /\ NextLoop(e, f).live = event[e].live
         /\ NextLoop(e, f).delay = Info[e].delay
<1>1. PICK ev \in EventStates : ev = event[e]
  OBVIOUS
<1>2. Decreased(ev.loops) \in Int
  BY DEF EventStates, Decreased
<1>3. f \in FileNames /\ Info[e].delay \in 0..1
  BY AudioAssumption DEF FileNames
<1>4. PICK n \in Int : n = Decreased(ev.loops)
  BY <1>2
<1>5. PICK d \in 0..1 : d = Info[e].delay
  BY <1>3
<1>6. PICK w : w = [ev EXCEPT !.portion = 1, !.loops = n, !.file = f, !.delay = d]
  OBVIOUS
<1>7. NextLoop(e, f) = w
  BY <1>1, <1>4, <1>5, <1>6 DEF NextLoop
<1>8. w = [live |-> ev.live, portion |-> 1, file |-> f, loops |-> n, delay |-> d, kill |-> ev.kill]
  BY <1>6 DEF EventStates
<1>9. w \in EventStates /\ w.live = ev.live /\ w.delay = d
  <2>1. ev.live \in BOOLEAN /\ ev.kill \in Events \cup {Null}
    BY DEF EventStates
  <2> QED BY <1>3, <1>8, <2>1 DEF EventStates
<1> QED BY <1>1, <1>5, <1>7, <1>9

LEMMA AdvancedTyped ==
  ASSUME NEW e \in Events, event[e] \in EventStates
  PROVE  Advanced(e) \in EventStates /\ Advanced(e).live = event[e].live /\ Advanced(e).delay = event[e].delay
<1>1. PICK ev \in EventStates : ev = event[e]
  OBVIOUS
<1>2. PICK n \in Int : n = IF Looping(e) THEN Decreased(ev.loops) ELSE ev.loops
  BY DEF EventStates, Decreased
<1>3. PICK m \in 0..3 : m = IF Looping(e) THEN 1 ELSE ev.portion
  BY DEF EventStates
<1>4. PICK w : w = [ev EXCEPT !.portion = m, !.loops = n]
  OBVIOUS
<1>5. w \in EventStates /\ w.live = ev.live /\ w.delay = ev.delay
  BY <1>4 DEF EventStates
<1>6. w = [event[e] EXCEPT !.portion = IF Looping(e) THEN 1 ELSE @, !.loops = IF Looping(e) THEN Decreased(@) ELSE @]
  BY <1>1, <1>2, <1>3, <1>4 DEF EventStates
<1>7. PICK x \in 0..3 : x = IF w.portion = 0 THEN 1 ELSE IF w.portion = 1 /\ Info[e].decay # Null THEN 2 ELSE 3
  OBVIOUS
<1>8. Advanced(e) = [w EXCEPT !.portion = x]
  BY <1>6, <1>7 DEF Advanced
<1> QED BY <1>1, <1>5, <1>8 DEF EventStates

LEMMA LoopNowKeeps ==
  ASSUME IndInv, NEW K \in Kinds, NEW k \in 1..Len(list[K]), list[K][k].sample \in running, LoopNow(K, k),
         UNCHANGED <<pc, at>>
  PROVE  IndInv'
<1>1. PICK p : p = list[K][k]
  OBVIOUS
<1>2. PICK e : e = p.event
  OBVIOUS
<1>3. p \in Entries /\ ~p.stopped /\ e \in Events /\ event[e] \in EventStates
  BY <1>1, <1>2, RunningEntry
<1>4. PICK f \in Info[e].sounds :
        \E o \in Played(e, NextLoop(e, f), Closed(cache, p.handle), size) :
          /\ Put(K, k, [p EXCEPT !.handle = o.data]) /\ event' = [event EXCEPT ![e] = NextLoop(e, f)]
          /\ cache' = o.cache /\ size' = o.size
  BY <1>1, <1>2 DEF LoopNow
<1>5. PICK ev : ev = NextLoop(e, f)
  OBVIOUS
<1>6. ev \in EventStates /\ ev.live = event[e].live /\ ev.delay = 0
  <2>1. Info[e].delay = 0
    BY <1>1, <1>2 DEF LoopNow
  <2> QED BY <1>3, <1>5, <2>1, LoopTyped
<1>7. PICK o \in Played(e, ev, Closed(cache, p.handle), size) :
        /\ Put(K, k, [p EXCEPT !.handle = o.data]) /\ event' = [event EXCEPT ![e] = ev]
        /\ cache' = o.cache /\ size' = o.size
  BY <1>4, <1>5
<1>8. CacheGood(cache', size') /\ o.data \in Buffers \cup {Null}
  <2>1. CacheGood(Closed(cache, p.handle), size)
    BY CacheIsGood, ClosedGood DEF IndInv
  <2> QED BY <1>3, <1>6, <1>7, <2>1, PlayedGood
<1>9. PICK q : q = [p EXCEPT !.handle = o.data]
  OBVIOUS
<1>10. q \in Entries /\ q.sample = p.sample /\ q.event = p.event /\ q.releaseEvent = p.releaseEvent /\ q.stopped = p.stopped
  BY <1>3, <1>8, <1>9 DEF Entries
<1>11. list' = [list EXCEPT ![K][k] = q]
  BY <1>7, <1>9 DEF Put
<1>12. running' = running /\ UNCHANGED <<free, count, requests, pc, at>>
  BY DEF LoopNow
<1>13. running' = IF q.stopped THEN running \ {list[K][k].sample} ELSE running
  BY <1>3, <1>10, <1>12
<1> QED BY <1>1, <1>2, <1>6, <1>7, <1>8, <1>10, <1>11, <1>12, <1>13, OwnerAltered

LEMMA NextPortionKeeps ==
  ASSUME IndInv, NEW K \in Kinds, NEW k \in 1..Len(list[K]), list[K][k].sample \in running, NextPortion(K, k),
         UNCHANGED <<pc, at>>
  PROVE  IndInv'
<1>1. PICK p : p = list[K][k]
  OBVIOUS
<1>2. PICK e : e = p.event
  OBVIOUS
<1>3. p \in Entries /\ ~p.stopped /\ e \in Events /\ event[e] \in EventStates
  BY <1>1, <1>2, RunningEntry
<1>4. PICK ev : ev = Advanced(e)
  OBVIOUS
<1>5. ev \in EventStates /\ ev.live = event[e].live /\ ev.delay = event[e].delay
  BY <1>3, <1>4, AdvancedTyped
<1>6. event' = [event EXCEPT ![e] = ev] /\ UNCHANGED <<free, count, requests, pc, at>>
  BY <1>1, <1>2, <1>4 DEF NextPortion
<1>7. PICK o \in Played(e, ev, Closed(cache, p.handle), size) :
        /\ Put(K, k, [p EXCEPT !.handle = o.data, !.stopped = o.data = Null])
        /\ running' = IF o.data = Null THEN running \ {p.sample} ELSE running
        /\ cache' = o.cache /\ size' = o.size
  BY <1>1, <1>2, <1>4 DEF NextPortion
<1>8. CacheGood(cache', size') /\ o.data \in Buffers \cup {Null}
  <2>1. CacheGood(Closed(cache, p.handle), size)
    BY CacheIsGood, ClosedGood DEF IndInv
  <2> QED BY <1>3, <1>5, <1>7, <2>1, PlayedGood
<1>9. PICK b \in BOOLEAN : b = (o.data = Null)
  OBVIOUS
<1>10. PICK q : q = [p EXCEPT !.handle = o.data, !.stopped = b]
  OBVIOUS
<1>11. q \in Entries /\ q.sample = p.sample /\ q.event = p.event /\ q.releaseEvent = p.releaseEvent /\ q.stopped = b
  BY <1>3, <1>8, <1>10 DEF Entries
<1>12. list' = [list EXCEPT ![K][k] = q]
  BY <1>7, <1>9, <1>10 DEF Put
<1>13. running' = IF q.stopped THEN running \ {list[K][k].sample} ELSE running
  BY <1>1, <1>7, <1>9, <1>11
<1> QED BY <1>1, <1>2, <1>5, <1>6, <1>8, <1>11, <1>12, <1>13, OwnerAltered

LEMMA LastPortionKeeps ==
  ASSUME IndInv, NEW K \in Kinds, NEW k \in 1..Len(list[K]), list[K][k].sample \in running, LastPortion(K, k),
         UNCHANGED <<pc, at>>
  PROVE  IndInv'
<1>1. PICK p : p = list[K][k]
  OBVIOUS
<1>2. PICK e : e = p.event
  OBVIOUS
<1>3. p \in Entries /\ ~p.stopped /\ e \in Events /\ event[e] \in EventStates
  BY <1>1, <1>2, RunningEntry
<1>4. PICK ev : ev = Advanced(e)
  OBVIOUS
<1>5. ev \in EventStates /\ ev.live = event[e].live /\ ev.delay = event[e].delay
  BY <1>3, <1>4, AdvancedTyped
<1>6. event' = [event EXCEPT ![e] = ev] /\ UNCHANGED <<free, count, requests, pc, at>>
  BY <1>1, <1>2, <1>4 DEF LastPortion
<1>7. PICK h \in Buffers \cup {Null} : h = IF Looping(e) THEN Null ELSE p.handle
  BY <1>3 DEF Entries
<1>8. PICK q : q = [p EXCEPT !.stopped = TRUE, !.handle = h]
  OBVIOUS
<1>9. q \in Entries /\ q.sample = p.sample /\ q.event = p.event /\ q.releaseEvent = p.releaseEvent /\ q.stopped
  BY <1>3, <1>8 DEF Entries
<1>10. Put(K, k, q)
  <2>1. Put(K, k, [p EXCEPT !.stopped = TRUE, !.handle = IF Looping(e) THEN Null ELSE p.handle])
    BY <1>1, <1>2, <1>3 DEF LastPortion, Entries
  <2> QED BY <1>7, <1>8, <2>1
<1>11. running' = IF q.stopped THEN running \ {list[K][k].sample} ELSE running
  BY <1>1, <1>9 DEF LastPortion
<1>12. CacheGood(cache', size')
  <2>1. CacheGood(cache, size) /\ CacheGood(Closed(cache, p.handle), size)
    BY CacheIsGood, ClosedGood DEF IndInv
  <2>2. size' = size /\ (cache' = Closed(cache, p.handle) \/ cache' = cache)
    BY <1>1 DEF LastPortion
  <2> QED BY <2>1, <2>2
<1>13. list' = [list EXCEPT ![K][k] = q]
  BY <1>10 DEF Put
<1> QED BY <1>1, <1>2, <1>5, <1>6, <1>9, <1>11, <1>12, <1>13, OwnerAltered

\* A sound that loops after a delay: the event goes from the entry to a new request.
LEMMA LoopLaterEvents ==
  ASSUME IndInv, NEW K \in Kinds, NEW k \in 1..Len(list[K]), list[K][k].sample \in running,
         NEW e \in Events, e = list[K][k].event, SameEntries(list'), NEW q \in Entries, list'[K][k] = q, q.stopped, ~q.releaseEvent,
         \A J \in Kinds : \A i \in 1..Len(list[J]) : J # K \/ i # k => list'[J][i] = list[J][i],
         requests' = Append(requests, [adding |-> TRUE, event |-> e]), pc' = pc, at' = at,
         \A d \in Events : d # e => event'[d] = event[d], event'[e].live, event'[e].delay # 0
  PROVE  EventsInv'
<1>1. TypeOK /\ CurrentInv /\ EventsInv
  BY DEF IndInv
<1>2. /\ event[e].live
      /\ \A c \in 1..Len(requests) : Claim(c) => requests[c].event # e
      /\ \A J \in Kinds : \A i \in 1..Len(list[J]) : ~(J = K /\ i = k) => list[J][i].event # e
  <2>1. PICK p : p = list[K][k]
    OBVIOUS
  <2>2. e = p.event
    BY <2>1
  <2> QED BY <2>1, <2>2, RunningEntry
<1>3. PICK s \in Requests : s = [adding |-> TRUE, event |-> e]
  BY DEF Requests
<1>4. s.adding /\ s.event = e
  BY <1>3
<1>5. PICK n : n = Len(requests) + 1
  OBVIOUS
<1>6. /\ n \in 1..Len(requests') /\ requests'[n] = s
      /\ \A c \in 1..Len(requests) : c \in 1..Len(requests') /\ requests'[c] = requests[c]
      /\ \A c \in 1..Len(requests') : c \in 1..Len(requests) \/ c = n
  <2>1. requests' = Append(requests, s)
    BY <1>3
  <2>2. /\ Len(requests) + 1 \in 1..Len(requests') /\ requests'[Len(requests) + 1] = s
        /\ \A c \in 1..Len(requests) : c \in 1..Len(requests') /\ requests'[c] = requests[c]
        /\ \A c \in 1..Len(requests') : c \in 1..Len(requests) \/ c = Len(requests) + 1
    BY <1>1, <2>1, RequestAdded
  <2> QED BY <1>5, <2>2
<1>7. Claim(n)' /\ \A c \in 1..Len(requests) : Claim(c)' <=> Claim(c)
  <2>1. pc = "start" => n # at
    <3>1. Len(requests) \in Nat /\ at \in Nat
      BY <1>1, RequestTyped DEF TypeOK
    <3>2. pc = "start" => at <= Len(requests)
      BY <1>1 DEF CurrentInv, Busy
    <3> QED BY <1>5, <3>1, <3>2
  <2>2. Claim(n)'
    BY <1>4, <1>6, <2>1 DEF Claim
  <2>3. \A c \in 1..Len(requests) : Claim(c)' <=> Claim(c)
    BY <1>6 DEF Claim
  <2> QED BY <2>2, <2>3
<1>8. \A J \in Kinds : \A i \in 1..Len(list[J]) : list[J][i].event \in Events
  BY <1>1, EntryTyped
<1>9. \A J, i, c : GoneInTime(J, i, c) => GoneInTime(J, i, c)'
  BY DEF GoneInTime
<1>10. OneEntryEach'
  BY <1>1 DEF SameEntries, EventsInv, OneEntryEach
<1>11. \A d \in Events : event[d].live => event'[d].live
  <2> SUFFICES ASSUME NEW d \in Events, event[d].live PROVE event'[d].live
    OBVIOUS
  <2>1. CASE d = e
    BY <2>1
  <2>2. CASE d # e
    BY <2>2
  <2> QED BY <2>1, <2>2
<1>12. EntriesLive'
  <2> SUFFICES ASSUME NEW J \in Kinds, NEW i \in 1..Len(list'[J]) PROVE event'[list'[J][i].event].live
    BY DEF EntriesLive
  <2>1. i \in 1..Len(list[J]) /\ list'[J][i].event = list[J][i].event
    BY DEF SameEntries
  <2>2. event[list[J][i].event].live
    BY <1>1, <2>1 DEF EventsInv, EntriesLive
  <2> QED BY <1>8, <1>11, <2>1, <2>2
<1>13. RequestsLive'
  <2> SUFFICES ASSUME NEW c \in 1..Len(requests'), requests'[c].adding PROVE event'[requests'[c].event].live
    BY DEF RequestsLive
  <2>1. CASE c = n
    BY <1>4, <1>6, <2>1
  <2>2. CASE c \in 1..Len(requests)
    <3>1. requests[c].event \in Events /\ requests'[c] = requests[c]
      BY <1>1, <1>6, <2>2, RequestTyped
    <3>2. event[requests[c].event].live
      BY <1>1, <2>2, <3>1 DEF EventsInv, RequestsLive
    <3> QED BY <1>11, <3>1, <3>2
  <2> QED BY <1>6, <2>1, <2>2
<1>14. OneClaimEach'
  <2> SUFFICES ASSUME NEW c \in 1..Len(requests'), NEW d \in 1..Len(requests'), Claim(c)', Claim(d)',
                      requests'[c].event = requests'[d].event
               PROVE  c = d
    BY DEF OneClaimEach
  <2>1. CASE c \in 1..Len(requests) /\ d \in 1..Len(requests)
    <3>1. Claim(c) /\ Claim(d) /\ requests[c].event = requests[d].event
      BY <1>6, <1>7, <2>1
    <3> QED BY <1>1, <2>1, <3>1 DEF EventsInv, OneClaimEach
  <2>2. CASE c = n \/ d = n
    <3>1. \A b \in 1..Len(requests) : Claim(b)' => requests'[b].event # e
      BY <1>2, <1>6, <1>7
    <3> QED BY <1>4, <1>6, <2>2, <3>1
  <2> QED BY <1>6, <2>1, <2>2
<1>15. OwnedOrClaimed'
  <2> SUFFICES ASSUME NEW J \in Kinds, NEW i \in 1..Len(list'[J]), NEW c \in 1..Len(requests'),
                      list'[J][i].releaseEvent, Claim(c)'
               PROVE  list'[J][i].event # requests'[c].event
    BY DEF OwnedOrClaimed
  <2>1. i \in 1..Len(list[J]) /\ ~(J = K /\ i = k) /\ list'[J][i] = list[J][i]
    BY DEF SameEntries
  <2>2. CASE c = n
    BY <1>2, <1>4, <1>6, <2>1, <2>2
  <2>3. CASE c \in 1..Len(requests)
    <3>1. Claim(c) /\ requests'[c] = requests[c]
      BY <1>6, <1>7, <2>3
    <3> QED BY <1>1, <2>1, <2>3, <3>1 DEF EventsInv, OwnedOrClaimed
  <2> QED BY <1>6, <2>2, <2>3
<1>16. HandedOnInv'
  <2> SUFFICES ASSUME NEW J \in Kinds, NEW i \in 1..Len(list'[J]), ~list'[J][i].releaseEvent
               PROVE  /\ list'[J][i].stopped
                      /\ \E c \in 1..Len(requests') :
                           /\ Claim(c)' /\ requests'[c].event = list'[J][i].event
                           /\ event'[list'[J][i].event].delay = 0 => GoneInTime(J, i, c)'
    BY DEF HandedOnInv, Due
  <2>1. i \in 1..Len(list[J]) /\ list'[J][i].event = list[J][i].event
    BY DEF SameEntries
  <2>2. CASE J = K /\ i = k
    <3>1. list'[J][i].stopped /\ list'[J][i].event = e
      BY <2>1, <2>2
    <3> QED BY <1>4, <1>6, <1>7, <3>1
  <2>3. CASE ~(J = K /\ i = k)
    <3>1. list'[J][i] = list[J][i] /\ event'[list[J][i].event] = event[list[J][i].event]
      BY <1>2, <1>8, <2>1, <2>3
    <3>2. list[J][i].stopped
      BY <1>1, <2>1, <3>1 DEF EventsInv, HandedOnInv
    <3>3. PICK c \in 1..Len(requests) : /\ Claim(c) /\ requests[c].event = list[J][i].event
                                        /\ Due(list[J][i].event) => GoneInTime(J, i, c)
      BY <1>1, <2>1, <3>1 DEF EventsInv, HandedOnInv
    <3>4. c \in 1..Len(requests') /\ Claim(c)' /\ requests'[c] = requests[c]
      BY <1>6, <1>7, <3>3
    <3> QED BY <1>9, <3>1, <3>2, <3>3, <3>4 DEF Due
  <2> QED BY <2>2, <2>3
<1> QED BY <1>10, <1>12, <1>13, <1>14, <1>15, <1>16 DEF EventsInv

LEMMA LoopLaterKeeps ==
  ASSUME IndInv, NEW K \in Kinds, NEW k \in 1..Len(list[K]), list[K][k].sample \in running, LoopLater(K, k),
         UNCHANGED <<pc, at>>
  PROVE  IndInv'
<1>1. TypeOK /\ SamplesInv /\ RunningInv /\ CurrentInv /\ StartingInv /\ EventsInv /\ CountsMatch /\ CacheAccounted
  BY DEF IndInv
<1>2. PICK p : p = list[K][k]
  OBVIOUS
<1>3. PICK e : e = p.event
  OBVIOUS
<1>4. /\ p \in Entries /\ ~p.stopped /\ p.releaseEvent /\ e \in Events /\ event[e] \in EventStates /\ event[e].live
      /\ \A c \in 1..Len(requests) : Claim(c) => requests[c].event # e
      /\ \A J \in Kinds : \A i \in 1..Len(list[J]) : ~(J = K /\ i = k) =>
           list[J][i].event # e /\ list[J][i].sample # p.sample
  BY <1>2, <1>3, RunningEntry
<1>5. PICK f \in Info[e].sounds : event' = [event EXCEPT ![e] = NextLoop(e, f)]
  BY <1>2, <1>3 DEF LoopLater
<1>6. PICK ev : ev = NextLoop(e, f)
  OBVIOUS
<1>7. ev \in EventStates /\ ev.live /\ ev.delay # 0
  <2>1. Info[e].delay > 0 /\ Info[e].delay \in 0..1
    BY <1>2, <1>3, <1>4, AudioAssumption DEF LoopLater
  <2> QED BY <1>4, <1>6, <2>1, LoopTyped
<1>8. event' \in [Events -> EventStates] /\ event'[e] = ev /\ \A d \in Events : d # e => event'[d] = event[d]
  BY <1>1, <1>4, <1>5, <1>6, <1>7 DEF TypeOK
<1>9. PICK q : q = HandedOn(p)
  OBVIOUS
<1>10. q \in Entries /\ q.sample = p.sample /\ q.event = p.event /\ ~q.releaseEvent /\ q.stopped
  BY <1>4, <1>9 DEF HandedOn, Entries
<1>11. list' = [list EXCEPT ![K][k] = q]
  BY <1>2, <1>9 DEF LoopLater, Put
<1>12. /\ SameEntries(list') /\ list'[K][k] = q
       /\ \A J \in Kinds : \A i \in 1..Len(list[J]) : J # K \/ i # k => list'[J][i] = list[J][i]
  BY <1>1, <1>2, <1>10, <1>11, PutIs
<1>13. /\ running' = running \ {p.sample} /\ free' = free /\ count' = count /\ size' = size /\ pc' = pc /\ at' = at
       /\ cache' = Closed(cache, p.handle) /\ requests' = Append(requests, [adding |-> TRUE, event |-> e])
  BY <1>2, <1>3 DEF LoopLater
<1>14. /\ \A J \in Kinds : \A i \in 1..Len(list'[J]) : Kind(list'[J][i].event) = J
       /\ SamplesInv' /\ RunningInv'
  <2>1. ASSUME NEW J \in Kinds, NEW i \in 1..Len(list[J]), list[J][i].sample \in running'
        PROVE  ~list'[J][i].stopped
    <3>1. ~(J = K /\ i = k)
      BY <1>2, <1>13, <2>1
    <3>2. list[J][i].sample \in running /\ list'[J][i] = list[J][i]
      BY <1>12, <1>13, <2>1, <3>1
    <3> QED BY <1>1, <3>2 DEF RunningInv
  <2>2. \A s \in running' : s \in running \/ \E J \in Kinds : \E i \in 1..Len(list[J]) : list[J][i].sample = s
    BY <1>13
  <2> QED BY <1>1, <1>12, <1>13, <2>1, <2>2, EntriesChanged, SMTT(20)
<1>15. EventsInv'
  BY <1>2, <1>3, <1>4, <1>7, <1>8, <1>10, <1>12, <1>13, LoopLaterEvents, SMTT(60)
<1>16. cache' \in [Files -> CacheItems] /\ size' \in Nat /\ CacheAccounted'
  <2>1. CacheGood(cache', size')
    BY <1>1, <1>13, CacheIsGood, ClosedGood
  <2> QED BY <2>1, CacheIsGood
<1>17. requests' \in Seq(Requests) /\ \A c \in 1..Len(requests) : c \in 1..Len(requests') /\ requests'[c] = requests[c]
  <2>1. PICK s \in Requests : s = [adding |-> TRUE, event |-> e]
    BY <1>4 DEF Requests
  <2>2. requests' = Append(requests, s)
    BY <1>13, <2>1
  <2> QED BY <1>1, <2>2, RequestAdded
<1>18. TypeOK'
  <2>1. /\ free \in [Kinds -> Seq(Handles)] /\ count \in [Kinds -> Nat] /\ running' \subseteq Handles
        /\ pc \in Kinds \cup {"idle", "requests", "sample", "start"} /\ at \in Nat \ {0}
    BY <1>1, <1>13 DEF TypeOK
  <2>2. list' \in [Kinds -> Seq(Entries)]
    BY <1>12 DEF SameEntries
  <2> QED BY <1>8, <1>13, <1>14, <1>16, <1>17, <2>1, <2>2 DEF TypeOK
<1>19. Busy => at \in 1..Len(requests) /\ at \in 1..Len(requests') /\ Current' = Current /\ Current.event \in Events
  <2>1. Busy => at \in 1..Len(requests) /\ Current.event \in Events
    BY <1>1, CurrentTyped DEF CurrentInv
  <2> QED BY <1>13, <1>17, <2>1 DEF Current
<1>20. CurrentInv'
  <2>1. Busy' => at <= Len(requests') /\ Current'.adding
    <3>1. Len(requests') \in Nat
      BY <1>17
    <3> QED BY <1>1, <1>13, <1>19, <3>1 DEF CurrentInv, Busy
  <2>2. pc = "sample" => event'[Current'.event].delay = 0
    <3> SUFFICES ASSUME pc = "sample" PROVE event'[Current'.event].delay = 0
      OBVIOUS
    <3>1. Claim(at) /\ at \in 1..Len(requests) /\ Current' = Current /\ Current.event \in Events
      BY <1>1, <1>19 DEF CurrentInv, Busy, Claim, Current
    <3>2. Current.event # e
      BY <1>4, <3>1 DEF Current
    <3>3. event[Current.event].delay = 0
      BY <1>1 DEF CurrentInv, Due
    <3> QED BY <1>8, <3>1, <3>2, <3>3
  <2> QED BY <1>13, <2>1, <2>2 DEF CurrentInv, Due
<1>21. StartingInv'
  <2> SUFFICES ASSUME pc = "start" PROVE StartingInv'
    BY <1>13 DEF StartingInv
  <2>1. PICK J \in Kinds : J = Kind(Current.event)
    BY <1>1, <1>19, AudioAssumption DEF Busy, Kind
  <2>2. PICK n : n = Len(list[J])
    OBVIOUS
  <2>3. /\ n \in 1..Len(list[J]) /\ list[J][n].event = Current.event /\ list[J][n].releaseEvent
        /\ ~list[J][n].stopped /\ list[J][n].sample \notin running
    BY <2>1, <2>2, LastEntry
  <2>4. list'[J][n] = list[J][n] /\ Len(list'[J]) = n /\ n # 0
    <3>1. ~(J = K /\ n = k)
      BY <2>3
    <3>2. n \in Nat /\ n # 0
      BY <1>1, <2>2, <2>3, EntryTyped
    <3> QED BY <1>12, <2>2, <2>3, <3>1, <3>2 DEF SameEntries
  <2>5. Current' = Current
    BY <1>19 DEF Busy
  <2>6. list[J][n].sample \notin running'
    BY <1>13, <2>3
  <2> QED BY <2>1, <2>3, <2>4, <2>5, <2>6 DEF StartingInv, Kind
<1>22. CountsMatch'
  <2>1. pc = "start" => Current' = Current
    BY <1>19 DEF Busy
  <2> SUFFICES ASSUME NEW J \in Kinds
               PROVE  count[J] = Len(list'[J]) - (IF pc = "start" /\ Kind(Current'.event) = J THEN 1 ELSE 0)
    BY <1>13 DEF CountsMatch, Kind
  <2>2. Len(list'[J]) = Len(list[J])
    BY <1>12 DEF SameEntries
  <2>3. count[J] = Len(list[J]) - (IF pc = "start" /\ Kind(Current.event) = J THEN 1 ELSE 0)
    BY <1>1 DEF CountsMatch
  <2>4. (pc = "start" /\ Kind(Current'.event) = J) <=> (pc = "start" /\ Kind(Current.event) = J)
    BY <2>1
  <2> QED BY <2>2, <2>3, <2>4
<1> QED BY <1>14, <1>15, <1>16, <1>18, <1>20, <1>21, <1>22 DEF IndInv

-----------------------------------------------------------------------------
(* The invariant.                                                            *)

LEMMA IndInvInit == Init => IndInv
<1> SUFFICES ASSUME Init PROVE IndInv
  OBVIOUS
<1>1. /\ list = [K \in Kinds |-> << >>] /\ free = Samples /\ count = [K \in Kinds |-> 0] /\ running = {} /\ requests = << >>
      /\ event = [e \in Events |-> Dead] /\ cache = [f \in Files |-> Uncached] /\ size = 0 /\ pc = "idle" /\ at = 1
  BY DEF Init
<1>2. \A K \in Kinds : list[K] = << >> /\ Len(list[K]) = 0 /\ 1..Len(list[K]) = {}
  BY <1>1
<1>3. Len(requests) = 0 /\ 1..Len(requests) = {}
  BY <1>1
<1>4. Cached(cache) = {}
  BY <1>1 DEF Cached, Uncached
<1>5. MaxSize \in Nat /\ Samples \in [Kinds -> Seq(Handles)] /\ \A K \in Kinds : IsInjective(Samples[K])
  BY AudioAssumption
<1>6. TypeOK
  <2>1. Uncached \in CacheItems
    BY DEF Uncached, CacheItems
  <2>2. list \in [Kinds -> Seq(Entries)] /\ requests \in Seq(Requests)
    BY <1>1
  <2>3. event \in [Events -> EventStates] /\ cache \in [Files -> CacheItems]
    BY <1>1, <2>1, DeadState
  <2>4. count \in [Kinds -> Nat] /\ size \in Nat /\ at \in Nat \ {0} /\ free \in [Kinds -> Seq(Handles)] /\ running \subseteq Handles
    BY <1>1, <1>5
  <2> QED BY <1>1, <1>2, <2>2, <2>3, <2>4 DEF TypeOK
<1>7. SamplesInv
  <2> SUFFICES ASSUME NEW K \in Kinds PROVE HandlesApart(free[K], list[K], Samples[K])
    BY DEF SamplesInv
  <2>1. PICK s \in Seq(Handles) : s = Samples[K]
    BY <1>5
  <2>2. Distinct(s)
    <3>1. DOMAIN s = 1..Len(s)
      BY LenProperties
    <3> QED BY <1>5, <2>1, <3>1 DEF Distinct, IsInjective
  <2>3. PICK l : l = list[K]
    OBVIOUS
  <2>4. 1..Len(l) = {}
    BY <1>2, <2>3
  <2>5. {l[i].sample : i \in 1..Len(l)} = {}
    BY <2>4
  <2>6. /\ \A i, j \in 1..Len(l) : l[i].sample = l[j].sample => i = j
        /\ \A x \in 1..Len(s), i \in 1..Len(l) : s[x] # l[i].sample
    BY <2>4
  <2>7. HandlesApart(s, l, s)
    BY <2>2, <2>5, <2>6 DEF HandlesApart
  <2> QED BY <1>1, <2>1, <2>3, <2>7
<1>8. RunningInv /\ CurrentInv /\ StartingInv
  BY <1>1, <1>2 DEF RunningInv, CurrentInv, Busy, StartingInv
<1>9. EventsInv
  <2>1. OneEntryEach /\ EntriesLive /\ OwnedOrClaimed /\ HandedOnInv
    BY <1>2 DEF OneEntryEach, EntriesLive, OwnedOrClaimed, HandedOnInv
  <2>2. RequestsLive /\ OneClaimEach
    BY <1>3 DEF RequestsLive, OneClaimEach
  <2> QED BY <2>1, <2>2 DEF EventsInv
<1>10. CountsMatch
  <2> SUFFICES ASSUME NEW K \in Kinds PROVE count[K] = Len(list[K]) - 0
    BY <1>1 DEF CountsMatch
  <2> QED BY <1>1, <1>2
<1>11. CacheAccounted
  <2>1. Total(Cached(cache)) = 0
    BY <1>4, SumOfNone
  <2>2. size = 0 /\ size <= MaxSize
    BY <1>1, <1>5
  <2> QED BY <2>1, <2>2 DEF CacheAccounted
<1> QED BY <1>6, <1>7, <1>8, <1>9, <1>10, <1>11 DEF IndInv

LEMMA CompletionKeeps ==
  ASSUME IndInv, NEW K \in Kinds, NEW k \in DOMAIN list[K], Completion(K, k)
  PROVE  IndInv'
<1>1. k \in 1..Len(list[K])
  <2>1. list[K] \in Seq(Entries)
    BY EntryTyped DEF IndInv
  <2> QED BY <2>1, LenProperties
<1>2. list[K][k].sample \in running /\ UNCHANGED <<pc, at>>
  BY DEF Completion
<1>3. CASE LoopLater(K, k)
  BY <1>1, <1>2, <1>3, LoopLaterKeeps
<1>4. CASE LoopNow(K, k)
  BY <1>1, <1>2, <1>4, LoopNowKeeps
<1>5. CASE NextPortion(K, k)
  BY <1>1, <1>2, <1>5, NextPortionKeeps
<1>6. CASE LastPortion(K, k)
  BY <1>1, <1>2, <1>6, LastPortionKeeps
<1> QED BY <1>3, <1>4, <1>5, <1>6 DEF Completion

LEMMA IndInvStep == IndInv /\ [Next]_vars => IndInv'
<1> SUFFICES ASSUME IndInv, [Next]_vars PROVE IndInv'
  OBVIOUS
<1>1. CASE GameCalls
  <2>1. ASSUME NEW e \in Events, AddEvent(e) \/ RemoveEvent(e) \/ KillEvent(e) PROVE IndInv'
    BY <2>1, AddEventKeeps, RemoveEventKeeps, KillEventKeeps
  <2>2. ASSUME NEW K \in Kinds, StopAudio(K) PROVE IndInv'
    BY <2>2, StopAudioKeeps
  <2>3. CASE Reset
    BY <2>3, ResetKeeps
  <2> QED BY <1>1, <2>1, <2>2, <2>3 DEF GameCalls
<1>2. CASE Update
  <2>1. CASE BeginUpdate \/ PlayRequest \/ EndRequests \/ \E K \in Kinds : PassEntry(K) \/ EndList(K)
    BY <2>1, UpdateGoesOn
  <2>2. CASE DelayRequest
    BY <2>2, DelayRequestKeeps
  <2>3. CASE StopRequest
    BY <2>3, StopRequestKeeps
  <2>4. CASE KillReplaced
    BY <2>4, KillReplacedKeeps
  <2>5. CASE DropReplacement \/ DropForWant
    BY <2>5, DropsKeep
  <2>6. CASE KillLowest
    BY <2>6, KillLowestKeeps
  <2>7. CASE TakeSample
    BY <2>7, TakeSampleKeeps
  <2>8. CASE StartSample
    BY <2>8, StartSampleKeeps
  <2>9. CASE StartFails
    BY <2>9, StartFailsKeeps
  <2>10. ASSUME NEW K \in Kinds, ReleaseEntry(K) PROVE IndInv'
    BY <2>10, ReleaseEntryKeeps
  <2>11. CASE StopEntry
    BY <2>11, StopEntryKeeps
  <2> QED BY <1>2, <2>1, <2>2, <2>3, <2>4, <2>5, <2>6, <2>7, <2>8, <2>9, <2>10, <2>11 DEF Update
<1>3. CASE \E K \in Kinds : \E i \in DOMAIN list[K] : Completion(K, i)
  BY <1>3, CompletionKeeps
<1>4. CASE UNCHANGED vars
  <2>1. /\ list' = list /\ free' = free /\ count' = count /\ running' = running /\ requests' = requests /\ event' = event
        /\ cache' = cache /\ size' = size /\ pc' = pc /\ at' = at
    BY <1>4 DEF vars
  <2>2. TypeOK' /\ SamplesInv' /\ RunningInv'
    BY <2>1 DEF IndInv, TypeOK, SamplesInv, RunningInv
  <2>3. CurrentInv' /\ StartingInv'
    BY <2>1 DEF IndInv, CurrentInv, StartingInv, Busy, Current, Due, Kind
  <2>4. EventsInv'
    <3>1. \A c : Claim(c)' <=> Claim(c)
      BY <2>1 DEF Claim
    <3>2. \A K, i, c : GoneInTime(K, i, c)' <=> GoneInTime(K, i, c)
      BY <2>1 DEF GoneInTime
    <3>3. SameEntries(list')
      BY <2>1 DEF IndInv, TypeOK, SameEntries
    <3>4. \A K \in Kinds : \A i \in 1..Len(list[K]) :
            /\ list'[K][i].releaseEvent = list[K][i].releaseEvent
            /\ ~list[K][i].releaseEvent => list'[K][i].stopped
                                           /\ event'[list[K][i].event].delay = event[list[K][i].event].delay
      BY <2>1 DEF IndInv, EventsInv, HandedOnInv
    <3> QED BY <2>1, <3>3, <3>4, EventsSame DEF IndInv
  <2>5. CountsMatch' /\ CacheAccounted'
    BY <2>1 DEF IndInv, CountsMatch, CacheAccounted, Current, Kind
  <2> QED BY <2>2, <2>3, <2>4, <2>5 DEF IndInv
<1> QED BY <1>1, <1>2, <1>3, <1>4 DEF Next

\* The inductive invariant holds in every reachable state.
THEOREM AudioInvariant == Spec => []IndInv
<1> QED BY IndInvInit, IndInvStep, PTL DEF Spec

-----------------------------------------------------------------------------
(* The properties.                                                           *)

\* The types: sequences of entries of the right kind, handles of known samples.
THEOREM AudioTypeOK == Spec => []TypeOK
<1>1. IndInv => TypeOK
  BY DEF IndInv
<1> QED BY <1>1, AudioInvariant, PTL

LEMMA AtMostOne ==
  ASSUME NEW S, \A x, y \in S : x = y
  PROVE  Cardinality(S) \in 0..1 /\ (S = {} => Cardinality(S) = 0)
<1>1. CASE S = {}
  BY <1>1, FS_EmptySet
<1>2. CASE S # {}
  <2>1. PICK x \in S : S = {x}
    BY <1>2
  <2> QED BY <1>2, <2>1, FS_Singleton
<1> QED BY <1>1, <1>2

LEMMA OwnedByOne == IndInv => EventsOwned
<1> SUFFICES ASSUME IndInv PROVE EventsOwned
  OBVIOUS
<1>1. TypeOK /\ EventsInv
  BY DEF IndInv
<1>2. \A K \in Kinds : DOMAIN list[K] = 1..Len(list[K])
  BY <1>1, EntryTyped, LenProperties
<1>3. DOMAIN requests = 1..Len(requests)
  BY <1>1, RequestTyped, LenProperties
<1>4. \A K \in Kinds : \A p \in ToSet(list[K]) : event[p.event].live
  BY <1>1, <1>2 DEF ToSet, EventsInv, EntriesLive
<1>5. \A q \in ToSet(requests) : q.adding => event[q.event].live
  BY <1>1, <1>3 DEF ToSet, EventsInv, RequestsLive
<1>6. ASSUME NEW e \in Events PROVE Cardinality(Owners(e)) + Cardinality(Claims(e)) <= 1
  <2>1. PICK K \in Kinds : K = Kind(e)
    BY AudioAssumption DEF Kind
  <2>2. PICK S : S = Owners(e)
    OBVIOUS
  <2>3. PICK C : C = Claims(e)
    OBVIOUS
  <2>4. \A i \in S : i \in 1..Len(list[K]) /\ list[K][i].event = e /\ list[K][i].releaseEvent
    BY <1>2, <2>1, <2>2 DEF Owners
  <2>5. \A c \in C : c \in 1..Len(requests) /\ requests[c].event = e /\ Claim(c)
    BY <1>3, <2>3 DEF Claims, Claim
  <2>6. \A i, j \in S : i = j
    BY <1>1, <2>4 DEF EventsInv, OneEntryEach
  <2>7. \A c, d \in C : c = d
    BY <1>1, <2>5 DEF EventsInv, OneClaimEach
  <2>8. S = {} \/ C = {}
    <3> SUFFICES ASSUME NEW i \in S, NEW c \in C PROVE FALSE
      OBVIOUS
    <3> QED BY <1>1, <2>4, <2>5 DEF EventsInv, OwnedOrClaimed
  <2>9. Cardinality(S) \in 0..1 /\ (S = {} => Cardinality(S) = 0)
    BY <2>6, AtMostOne
  <2>10. Cardinality(C) \in 0..1 /\ (C = {} => Cardinality(C) = 0)
    BY <2>7, AtMostOne
  <2> QED BY <2>2, <2>3, <2>8, <2>9, <2>10
<1> QED BY <1>4, <1>5, <1>6 DEF EventsOwned

\* Who plays or requests an event finds it alive, and at most one is to free it,
\* wherever the completion callback hands an event on between steps of Update.
THEOREM AudioEventsOwned == Spec => []EventsOwned
<1> QED BY OwnedByOne, AudioInvariant, PTL

LEMMA HandlesConserved == IndInv => SamplesConserved
<1> SUFFICES ASSUME IndInv, NEW K \in Kinds, NEW held, held = free[K] \o [i \in DOMAIN list[K] |-> list[K][i].sample]
             PROVE  IsInjective(held) /\ ToSet(held) = ToSet(Samples[K])
  BY DEF SamplesConserved
<1>1. PICK f \in Seq(Handles) : f = free[K]
  BY EntryTyped DEF IndInv
<1>2. PICK l \in Seq(Entries) : l = list[K]
  BY EntryTyped DEF IndInv
<1>3. PICK s \in Seq(Handles) : s = Samples[K]
  BY AudioAssumption
<1>4. HandlesApart(f, l, s)
  BY <1>1, <1>2, <1>3 DEF IndInv, SamplesInv
<1>5. held = f \o [i \in DOMAIN l |-> l[i].sample]
  BY <1>1, <1>2
<1>6. PICK r : r = << >>
  OBVIOUS
<1>7. held \in Seq(Handles) /\ HandlesApart(held, r, s)
  BY <1>4, <1>5, <1>6, ApartEmptied
<1>8. DOMAIN held = 1..Len(held) /\ DOMAIN s = 1..Len(s)
  BY <1>7, LenProperties
<1>9. IsInjective(held)
  BY <1>7, <1>8 DEF HandlesApart, Distinct, IsInjective
<1>10. Members(held) = Members(s)
  <2>1. {r[i].sample : i \in 1..Len(r)} = {}
    BY <1>6
  <2> QED BY <1>7, <2>1 DEF HandlesApart
<1>11. ToSet(held) = ToSet(s)
  BY <1>8, <1>10 DEF ToSet, Members
<1> QED BY <1>3, <1>9, <1>11

\* Every Miles handle is in its free list or in one entry, and none gets lost.
THEOREM AudioSamplesConserved == Spec => []SamplesConserved
<1> QED BY HandlesConserved, AudioInvariant, PTL

LEMMA EntriesFound == IndInv => CallbacksFindEntry
<1> SUFFICES ASSUME IndInv, NEW s \in running PROVE \E K \in Kinds : \E p \in ToSet(list[K]) : s = p.sample
  BY DEF CallbacksFindEntry
<1>1. PICK K \in Kinds : \E i \in 1..Len(list[K]) : list[K][i].sample = s
  BY DEF IndInv, RunningInv
<1>2. PICK i \in 1..Len(list[K]) : list[K][i].sample = s
  BY <1>1
<1>3. list[K] \in Seq(Entries)
  BY EntryTyped DEF IndInv
<1>4. list[K][i] \in ToSet(list[K])
  BY <1>3, LenProperties DEF ToSet
<1> QED BY <1>2, <1>4

\* The callback of a sample finds the entry that plays it.
THEOREM AudioCallbacksFindEntry == Spec => []CallbacksFindEntry
<1> QED BY EntriesFound, AudioInvariant, PTL

\* The sound manager's counts are the numbers of started entries.
THEOREM AudioCountsMatch == Spec => []CountsMatch
<1>1. IndInv => CountsMatch
  BY DEF IndInv
<1> QED BY <1>1, AudioInvariant, PTL

\* The size of the cache is that of the files it holds, and within the footprint.
THEOREM AudioCacheAccounted == Spec => []CacheAccounted
<1>1. IndInv => CacheAccounted
  BY DEF IndInv
<1> QED BY <1>1, AudioInvariant, PTL
=============================================================================
