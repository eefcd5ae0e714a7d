--------------------------- MODULE AllocatorProofs ---------------------------
(* The allocator keeps its blocks, counts and lists, and is a heap to its      *)
(* callers, for any pools, size classes and numbers of blocks.                 *)
EXTENDS DynamicAllocator, FiniteSetTheorems, WellFoundedInduction, TLAPS

-----------------------------------------------------------------------------
(* Numbers.                                                                  *)

\* A set of numbers that is not empty has a least one.
LEMMA Least ==
  ASSUME NEW T, T \subseteq Nat, T # {}
  PROVE  \E x \in T : \A y \in T : x <= y
<1>1. PICK R : R = OpToRel(<, Nat)
  OBVIOUS
<1>2. IsWellFoundedOn(R, Nat)
  BY <1>1, NatLessThanWellFounded
<1>3. PICK x \in T : \A y \in T : ~(<<y, x>> \in R)
  BY <1>2, WFMin
<1>4. \A y \in T : ~(y < x)
  <2> SUFFICES ASSUME NEW y \in T, y < x PROVE FALSE
    OBVIOUS
  <2>1. R = {ss \in Nat \X Nat : ss[1] < ss[2]}
    BY <1>1 DEF OpToRel
  <2>2. <<y, x>> \in Nat \X Nat
    OBVIOUS
  <2>3. <<y, x>>[1] = y /\ <<y, x>>[2] = x
    OBVIOUS
  <2> QED BY <1>3, <2>1, <2>2, <2>3
<1> QED BY <1>4, SMT

\* Of a set of finite sets that is not empty, one that has none of the others below it.
LEMMA LeastSet ==
  ASSUME NEW S, IsFiniteSet(S), NEW C, C \subseteq SUBSET S, C # {}
  PROVE  \E s \in C : \A t \in C : Cardinality(s) <= Cardinality(t)
<1>1. PICK T : T = {Cardinality(s) : s \in C}
  OBVIOUS
<1>2. \A s \in C : Cardinality(s) \in Nat
  BY FS_Subset, FS_CardinalityType
<1>3. T \subseteq Nat /\ T # {}
  BY <1>1, <1>2
<1>4. PICK n \in T : \A k \in T : n <= k
  BY <1>3, Least
<1>5. PICK s \in C : n = Cardinality(s)
  BY <1>1
<1> QED BY <1>1, <1>4, <1>5

-----------------------------------------------------------------------------
(* Sums over finite sets.                                                    *)

\* The element of a set that is added last, and the function that the definition of a sum of f over S has inside.
Picked(s) == CHOOSE x \in s : TRUE
IsSum(f, it, S) ==
  it = [s \in SUBSET S |->
          IF s = {} THEN 0
          ELSE f[Picked(s)] + it[s \ {Picked(s)}]]

LEMMA SumIs ==
  ASSUME NEW f, NEW S
  PROVE  SumFunctionOnSet(f, S) = (CHOOSE it : IsSum(f, it, S))[S]
BY DEF SumFunctionOnSet, FoldFunctionOnSet, MapThenFoldSet, IsSum, Picked

\* What it says of a set that is not empty, and of the empty one.
LEMMA SumStep ==
  ASSUME NEW f, NEW it, NEW S, IsSum(f, it, S), NEW s, s \subseteq S, s # {}
  PROVE  Picked(s) \in s /\ it[s] = f[Picked(s)] + it[s \ {Picked(s)}]
BY DEF IsSum, Picked

LEMMA SumEmpty ==
  ASSUME NEW f, NEW it, NEW S, IsSum(f, it, S)
  PROVE  it[{}] = 0
BY DEF IsSum

\* Two such functions agree where both are defined.
LEMMA SumsAgree ==
  ASSUME NEW f, NEW it, NEW S, IsSum(f, it, S), NEW jt, NEW T, IsSum(f, jt, T),
         IsFiniteSet(S), NEW s, s \subseteq S, s \subseteq T
  PROVE  it[s] = jt[s]
<1> DEFINE C == {t \in SUBSET S : t \subseteq T /\ it[t] # jt[t]}
<1> SUFFICES ASSUME C # {} PROVE FALSE
  OBVIOUS
<1>1. PICK t \in C : \A u \in C : Cardinality(t) <= Cardinality(u)
  BY LeastSet
<1>2. t # {}
  BY SumEmpty
<1>3. PICK x : x = Picked(t)
  OBVIOUS
<1>4. x \in t /\ it[t] = f[x] + it[t \ {x}] /\ jt[t] = f[x] + jt[t \ {x}]
  <2>1. t \subseteq S /\ t \subseteq T
    OBVIOUS
  <2>2. x \in t /\ it[t] = f[x] + it[t \ {x}]
    <3>1. Picked(t) \in t /\ it[t] = f[Picked(t)] + it[t \ {Picked(t)}]
      BY <1>2, <2>1, SumStep
    <3> QED BY <1>3, <3>1
  <2>3. jt[t] = f[x] + jt[t \ {x}]
    <3>1. jt[t] = f[Picked(t)] + jt[t \ {Picked(t)}]
      BY <1>2, <2>1, SumStep
    <3> QED BY <1>3, <3>1
  <2> QED BY <2>2, <2>3
<1>5. IsFiniteSet(t) /\ Cardinality(t \ {x}) = Cardinality(t) - 1 /\ Cardinality(t) \in Nat
  BY <1>4, FS_Subset, FS_RemoveElement, FS_CardinalityType
<1>6. t \ {x} \notin C
  BY <1>1, <1>5
<1> QED BY <1>4, <1>6

\* There is one for every finite set.
LEMMA SumExists ==
  ASSUME NEW f, NEW S, IsFiniteSet(S)
  PROVE  \E it : IsSum(f, it, S)
<1> DEFINE C == {s \in SUBSET S : ~ \E it : IsSum(f, it, s)}
<1> SUFFICES ASSUME C # {} PROVE FALSE
  OBVIOUS
<1>1. PICK s \in C : \A u \in C : Cardinality(s) <= Cardinality(u)
  BY LeastSet
<1> DEFINE it(t) == CHOOSE g : IsSum(f, g, t)
           h == [t \in SUBSET s |-> IF t = {} THEN 0
                  ELSE f[Picked(t)] + it(t \ {Picked(t)})[t \ {Picked(t)}]]
<1>2. IsFiniteSet(s) /\ \A u \in SUBSET s : IsFiniteSet(u)
  BY FS_Subset
<1>3. ASSUME NEW t \in SUBSET s, t # s PROVE IsSum(f, it(t), t)
  <2>1. Cardinality(t) < Cardinality(s)
    BY <1>2, <1>3, FS_Subset, FS_CardinalityType
  <2>2. t \notin C
    BY <1>1, <1>2, <2>1, FS_CardinalityType
  <2> QED BY <2>2
<1>4. ASSUME NEW t \in SUBSET s, t # s PROVE h[t] = it(t)[t]
  <2>1. CASE t = {}
    <3>1. it(t)[{}] = 0
      BY <1>3, <1>4, SumEmpty
    <3> QED BY <2>1, <3>1
  <2>2. CASE t # {}
    <3>1. PICK x : x = Picked(t)
      OBVIOUS
    <3>2. x \in t /\ it(t)[t] = f[x] + it(t)[t \ {x}]
      <4>1. IsSum(f, it(t), t) /\ t \subseteq t
        BY <1>3, <1>4
      <4> HIDE DEF it
      <4>2. Picked(t) \in t /\ it(t)[t] = f[Picked(t)] + it(t)[t \ {Picked(t)}]
        BY <2>2, <4>1, SumStep
      <4> QED BY <3>1, <4>2
    <3>3. h[t] = f[x] + it(t \ {x})[t \ {x}]
      BY <2>2, <3>1
    <3>4. IsSum(f, it(t), t) /\ IsSum(f, it(t \ {x}), t \ {x})
      BY <1>3, <1>4, <3>2
    <3>5. it(t)[t \ {x}] = it(t \ {x})[t \ {x}]
      BY <1>2, <3>4, SumsAgree
    <3> QED BY <3>2, <3>3, <3>5
  <2> QED BY <2>1, <2>2
<1>5. IsSum(f, h, s)
  <2>1. ASSUME NEW t \in SUBSET s, t # {}, NEW x, x = Picked(t)
        PROVE  h[t] = f[x] + h[t \ {x}]
    <3>1. x \in t
      BY <2>1 DEF Picked
    <3>2. h[t \ {x}] = it(t \ {x})[t \ {x}]
      BY <1>4, <3>1
    <3>3. h[t] = f[x] + it(t \ {x})[t \ {x}]
      BY <2>1
    <3> QED BY <3>2, <3>3
  <2>2. h[{}] = 0
    OBVIOUS
  <2>3. h = [t \in SUBSET s |-> h[t]]
    OBVIOUS
  <2> HIDE DEF h
  <2> QED BY <2>1, <2>2, <2>3 DEF IsSum
<1> QED BY <1>1, <1>5

\* The value at a subset is the sum over the subset.
LEMMA SumAt ==
  ASSUME NEW f, NEW S, IsFiniteSet(S), NEW it, IsSum(f, it, S), NEW s \in SUBSET S
  PROVE  it[s] = SumFunctionOnSet(f, s)
<1>1. IsFiniteSet(s)
  BY FS_Subset
<1>2. IsSum(f, CHOOSE jt : IsSum(f, jt, s), s)
  BY <1>1, SumExists
<1>3. it[s] = (CHOOSE jt : IsSum(f, jt, s))[s]
  BY <1>2, SumsAgree
<1> QED BY <1>3, SumIs

\* The sum over no elements, and the sum over some.
LEMMA SumOfNone ==
  ASSUME NEW f
  PROVE  SumFunctionOnSet(f, {}) = 0
<1>1. PICK it : IsSum(f, it, {})
  BY FS_EmptySet, SumExists
<1> QED BY <1>1, FS_EmptySet, SumAt, SumEmpty

LEMMA SumOfSome ==
  ASSUME NEW f, NEW S, IsFiniteSet(S), S # {}
  PROVE  \E x \in S : SumFunctionOnSet(f, S) = f[x] + SumFunctionOnSet(f, S \ {x})
<1>1. PICK it : IsSum(f, it, S)
  BY SumExists
<1>2. PICK x : x = Picked(S)
  OBVIOUS
<1>3. x \in S /\ it[S] = f[x] + it[S \ {x}]
  BY <1>1, <1>2, SumStep
<1>4. it[S] = SumFunctionOnSet(f, S)
  BY <1>1, SumAt
<1>5. it[S \ {x}] = SumFunctionOnSet(f, S \ {x})
  <2>1. PICK r \in SUBSET S : r = S \ {x}
    OBVIOUS
  <2>2. it[r] = SumFunctionOnSet(f, r)
    BY <1>1, <2>1, SumAt, ZenonT(30)
  <2> QED BY <2>1, <2>2
<1> QED BY <1>3, <1>4, <1>5, Zenon

LEMMA SumIsNat ==
  ASSUME NEW f, NEW S, IsFiniteSet(S), \A x \in S : f[x] \in Nat
  PROVE  SumFunctionOnSet(f, S) \in Nat
<1> DEFINE C == {s \in SUBSET S : SumFunctionOnSet(f, s) \notin Nat}
<1> SUFFICES ASSUME C # {} PROVE FALSE
  OBVIOUS
<1>1. PICK s \in C : \A u \in C : Cardinality(s) <= Cardinality(u)
  BY LeastSet
<1>2. IsFiniteSet(s) /\ s # {}
  <2>1. s # {}
    BY SumOfNone
  <2> QED BY <2>1, FS_Subset
<1>3. PICK x \in s : SumFunctionOnSet(f, s) = f[x] + SumFunctionOnSet(f, s \ {x})
  BY <1>2, SumOfSome
<1>4. Cardinality(s \ {x}) = Cardinality(s) - 1 /\ Cardinality(s) \in Nat
  BY <1>2, FS_RemoveElement, FS_CardinalityType
<1>5. s \ {x} \notin C
  BY <1>1, <1>4
<1> QED BY <1>3, <1>5

\* Any element may be the one that is added last.
LEMMA SumWithout ==
  ASSUME NEW f, NEW S, IsFiniteSet(S), \A x \in S : f[x] \in Nat, NEW z \in S
  PROVE  SumFunctionOnSet(f, S) = f[z] + SumFunctionOnSet(f, S \ {z})
<1> DEFINE Bad(s, y) == SumFunctionOnSet(f, s) # f[y] + SumFunctionOnSet(f, s \ {y})
           C == {s \in SUBSET S : \E y \in s : Bad(s, y)}
<1> SUFFICES ASSUME C # {} PROVE FALSE
  OBVIOUS
<1>1. PICK s \in C : \A u \in C : Cardinality(s) <= Cardinality(u)
  BY LeastSet
<1>2. PICK y \in s : Bad(s, y)
  OBVIOUS
<1>3. IsFiniteSet(s)
  BY FS_Subset
<1>4. PICK x \in s : SumFunctionOnSet(f, s) = f[x] + SumFunctionOnSet(f, s \ {x})
  BY <1>2, <1>3, SumOfSome
<1>5. x # y
  BY <1>2, <1>4
<1> DEFINE a == s \ {x}  b == s \ {y}  c == a \ {y}
<1>6. y \in a /\ x \in b /\ c = b \ {x} /\ a \in SUBSET S /\ b \in SUBSET S
  BY <1>4, <1>5
<1>7. Cardinality(a) = Cardinality(s) - 1 /\ Cardinality(b) = Cardinality(s) - 1 /\ Cardinality(s) \in Nat
  BY <1>3, FS_RemoveElement, FS_CardinalityType
<1>8. a \notin C /\ b \notin C
  BY <1>1, <1>7
<1>9. SumFunctionOnSet(f, a) = f[y] + SumFunctionOnSet(f, c)
  BY <1>6, <1>8
<1>10. SumFunctionOnSet(f, b) = f[x] + SumFunctionOnSet(f, b \ {x})
  BY <1>6, <1>8
<1>11. f[x] \in Nat /\ f[y] \in Nat /\ SumFunctionOnSet(f, c) \in Nat
  <2>1. IsFiniteSet(c) /\ \A w \in c : f[w] \in Nat
    BY <1>3, FS_Subset
  <2>2. SumFunctionOnSet(f, c) \in Nat
    BY <2>1, SumIsNat
  <2> QED BY <2>2
<1>12. SumFunctionOnSet(f, s) = f[y] + SumFunctionOnSet(f, b)
  BY <1>4, <1>6, <1>9, <1>10, <1>11
<1> QED BY <1>2, <1>12

LEMMA SumWith ==
  ASSUME NEW f, NEW S, IsFiniteSet(S), NEW z, z \notin S, \A x \in S \cup {z} : f[x] \in Nat
  PROVE  SumFunctionOnSet(f, S \cup {z}) = f[z] + SumFunctionOnSet(f, S)
<1>1. PICK T : T = S \cup {z}
  OBVIOUS
<1>2. IsFiniteSet(T) /\ z \in T /\ T \ {z} = S
  BY <1>1, FS_AddElement
<1>3. SumFunctionOnSet(f, T) = f[z] + SumFunctionOnSet(f, T \ {z})
  BY <1>1, <1>2, SumWithout
<1> QED BY <1>1, <1>2, <1>3

\* A sum is that of the values at the elements and of nothing else.
LEMMA SumSame ==
  ASSUME NEW f, NEW g, NEW S, IsFiniteSet(S), \A x \in S : f[x] \in Nat /\ f[x] = g[x]
  PROVE  SumFunctionOnSet(f, S) = SumFunctionOnSet(g, S)
<1> DEFINE C == {s \in SUBSET S : SumFunctionOnSet(f, s) # SumFunctionOnSet(g, s)}
<1> SUFFICES ASSUME C # {} PROVE FALSE
  OBVIOUS
<1>1. PICK s \in C : \A u \in C : Cardinality(s) <= Cardinality(u)
  BY LeastSet
<1>2. s # {}
  BY SumOfNone
<1>3. IsFiniteSet(s)
  BY FS_Subset
<1>4. PICK x \in s : SumFunctionOnSet(f, s) = f[x] + SumFunctionOnSet(f, s \ {x})
  BY <1>2, <1>3, SumOfSome
<1>5. SumFunctionOnSet(g, s) = g[x] + SumFunctionOnSet(g, s \ {x})
  <2>1. \A y \in s : g[y] \in Nat
    OBVIOUS
  <2> QED BY <1>3, <1>4, <2>1, SumWithout
<1>6. Cardinality(s \ {x}) = Cardinality(s) - 1 /\ Cardinality(s) \in Nat
  BY <1>3, FS_RemoveElement, FS_CardinalityType
<1>7. s \ {x} \notin C
  BY <1>1, <1>6
<1> QED BY <1>4, <1>5, <1>7

LEMMA SumOfZeros ==
  ASSUME NEW f, NEW S, IsFiniteSet(S), \A x \in S : f[x] = 0
  PROVE  SumFunctionOnSet(f, S) = 0
<1> DEFINE C == {s \in SUBSET S : SumFunctionOnSet(f, s) # 0}
<1> SUFFICES ASSUME C # {} PROVE FALSE
  OBVIOUS
<1>1. PICK s \in C : \A u \in C : Cardinality(s) <= Cardinality(u)
  BY LeastSet
<1>2. s # {}
  BY SumOfNone
<1>3. IsFiniteSet(s)
  BY FS_Subset
<1>4. PICK x \in s : SumFunctionOnSet(f, s) = f[x] + SumFunctionOnSet(f, s \ {x})
  BY <1>2, <1>3, SumOfSome
<1>5. Cardinality(s \ {x}) = Cardinality(s) - 1 /\ Cardinality(s) \in Nat
  BY <1>3, FS_RemoveElement, FS_CardinalityType
<1>6. s \ {x} \notin C
  BY <1>1, <1>5
<1> QED BY <1>4, <1>6

\* The sum over a set is the sum over a part and over the rest.
LEMMA SumOfParts ==
  ASSUME NEW f, NEW S, IsFiniteSet(S), \A x \in S : f[x] \in Nat, NEW D \in SUBSET S
  PROVE  SumFunctionOnSet(f, S) = SumFunctionOnSet(f, D) + SumFunctionOnSet(f, S \ D)
<1> DEFINE C == {s \in SUBSET D : SumFunctionOnSet(f, S) # SumFunctionOnSet(f, s) + SumFunctionOnSet(f, S \ s)}
<1> SUFFICES ASSUME C # {} PROVE FALSE
  OBVIOUS
<1>0. IsFiniteSet(D)
  BY FS_Subset
<1>1. PICK s \in C : \A u \in C : Cardinality(s) <= Cardinality(u)
  BY <1>0, LeastSet
<1>2. SumFunctionOnSet(f, S) \in Nat
  BY SumIsNat
<1>3. s # {}
  <2>1. S \ {} = S
    OBVIOUS
  <2> QED BY <1>2, <2>1, SumOfNone
<1>4. PICK x : x \in s
  BY <1>3
<1> DEFINE r == s \ {x}
<1>5. IsFiniteSet(s) /\ IsFiniteSet(r) /\ IsFiniteSet(S \ r) /\ s \in SUBSET S
  BY <1>0, FS_Subset
<1>6. Cardinality(r) = Cardinality(s) - 1 /\ Cardinality(s) \in Nat
  BY <1>4, <1>5, FS_RemoveElement, FS_CardinalityType
<1>7. r \notin C
  BY <1>1, <1>6
<1>8. SumFunctionOnSet(f, S) = SumFunctionOnSet(f, r) + SumFunctionOnSet(f, S \ r)
  BY <1>7
<1>9. SumFunctionOnSet(f, s) = f[x] + SumFunctionOnSet(f, r)
  BY <1>4, <1>5, SumWithout
<1>10. SumFunctionOnSet(f, S \ r) = f[x] + SumFunctionOnSet(f, S \ s)
  <2>1. PICK T : T = S \ r
    OBVIOUS
  <2>2. x \in T /\ IsFiniteSet(T) /\ T \ {x} = S \ s /\ \A w \in T : f[w] \in Nat
    BY <1>4, <1>5, <2>1
  <2>3. SumFunctionOnSet(f, T) = f[x] + SumFunctionOnSet(f, T \ {x})
    BY <2>2, SumWithout
  <2> QED BY <2>1, <2>2, <2>3
<1>11. f[x] \in Nat /\ SumFunctionOnSet(f, r) \in Nat /\ SumFunctionOnSet(f, S \ s) \in Nat
  <2>1. IsFiniteSet(S \ s) /\ (\A w \in r : f[w] \in Nat) /\ (\A w \in S \ s : f[w] \in Nat)
    BY <1>5, FS_Subset
  <2>2. SumFunctionOnSet(f, r) \in Nat
    BY <1>5, <2>1, SumIsNat
  <2>3. SumFunctionOnSet(f, S \ s) \in Nat
    BY <2>1, SumIsNat
  <2> QED BY <1>4, <1>5, <2>2, <2>3
<1> QED BY <1>8, <1>9, <1>10, <1>11

-----------------------------------------------------------------------------
(* Lists without a repetition.                                               *)

Distinct(q) == \A i, j \in 1..Len(q) : q[i] = q[j] => i = j

LEMMA AppendedDistinct ==
  ASSUME NEW S, NEW q \in Seq(S), Distinct(q), NEW x \in S, x \notin Entries(q)
  PROVE  Append(q, x) \in Seq(S) /\ Distinct(Append(q, x))
<1>1. Append(q, x) \in Seq(S) /\ Len(Append(q, x)) = Len(q) + 1 /\ Len(q) \in Nat
  OBVIOUS
<1>2. \A i \in 1..(Len(q) + 1) : Append(q, x)[i] = IF i = Len(q) + 1 THEN x ELSE q[i]
  OBVIOUS
<1>3. \A i \in 1..Len(q) : q[i] # x
  BY DEF Entries
<1>4. \A i \in 1..(Len(q) + 1) : i = Len(q) + 1 \/ i \in 1..Len(q)
  BY <1>1
<1> QED BY <1>1, <1>2, <1>3, <1>4 DEF Distinct

\* g is the function inside the definition of Without, as far as m.
IsLeft(q, D, g, m) ==
  g = [n \in 0..m |-> IF n = 0 THEN << >>
                      ELSE IF q[n] \in D THEN g[n - 1] ELSE Append(g[n - 1], q[n])]

LEMMA LeftExists ==
  ASSUME NEW q, NEW D, NEW m \in Nat
  PROVE  \E g : IsLeft(q, D, g, m)
<1> DEFINE T == {n \in Nat : ~ \E g : IsLeft(q, D, g, n)}
<1> SUFFICES ASSUME T # {} PROVE FALSE
  OBVIOUS
<1>1. PICK n \in T : \A k \in T : n <= k
  BY Least
<1>2. n # 0
  <2> DEFINE g == [i \in 0..0 |-> << >>]
  <2>1. IsLeft(q, D, g, 0)
    BY DEF IsLeft
  <2> QED BY <2>1
<1>3. PICK g : IsLeft(q, D, g, n - 1)
  BY <1>1, <1>2
<1> DEFINE h == [i \in 0..n |-> IF i = 0 THEN << >>
                      ELSE IF q[i] \in D THEN g[i - 1] ELSE Append(g[i - 1], q[i])]
<1>4. ASSUME NEW i \in 0..(n - 1) PROVE h[i] = g[i]
  <2>1. n \in Nat /\ i \in 0..n
    OBVIOUS
  <2>2. g[i] = IF i = 0 THEN << >> ELSE IF q[i] \in D THEN g[i - 1] ELSE Append(g[i - 1], q[i])
    BY <1>3 DEF IsLeft
  <2> QED BY <2>1, <2>2
<1>5. \A i \in 0..n : i # 0 => i - 1 \in 0..(n - 1)
  OBVIOUS
<1>6. h = [i \in 0..n |-> IF i = 0 THEN << >>
                      ELSE IF q[i] \in D THEN h[i - 1] ELSE Append(h[i - 1], q[i])]
  BY <1>4, <1>5
<1>7. IsLeft(q, D, h, n)
  BY <1>6 DEF IsLeft
<1> QED BY <1>1, <1>7

\* What is left of a list without repetition: its other entries, each once.
LEMMA WithoutKeepsRest ==
  ASSUME NEW S, NEW q \in Seq(S), Distinct(q), NEW D
  PROVE  /\ Without(q, D) \in Seq(S)
         /\ Distinct(Without(q, D))
         /\ Entries(Without(q, D)) = Entries(q) \ D
<1>1. Len(q) \in Nat /\ q \in [1..Len(q) -> S]
  OBVIOUS
<1>2. PICK left : IsLeft(q, D, left, Len(q)) /\ Without(q, D) = left[Len(q)]
  <2>1. \E g : IsLeft(q, D, g, Len(q))
    BY <1>1, LeftExists
  <2>2. IsLeft(q, D, CHOOSE g : IsLeft(q, D, g, Len(q)), Len(q))
    BY <2>1
  <2>3. Without(q, D) = (CHOOSE g : IsLeft(q, D, g, Len(q)))[Len(q)]
    BY DEF Without, IsLeft
  <2> QED BY <2>2, <2>3
<1> DEFINE Kept(n) == /\ left[n] \in Seq(S)
                      /\ Distinct(left[n])
                      /\ Entries(left[n]) = {q[i] : i \in 1..n} \ D
           T == {n \in 0..Len(q) : ~Kept(n)}
<1>3. T = {}
  <2> SUFFICES ASSUME T # {} PROVE FALSE
    OBVIOUS
  <2>0. T \subseteq Nat
    OBVIOUS
  <2>1. PICK n \in T : \A k \in T : n <= k
    BY <2>0, Least
  <2>2. n # 0
    <3>1. left[0] = << >>
      BY <1>1, <1>2 DEF IsLeft
    <3>2. Kept(0)
      BY <3>1 DEF Distinct, Entries
    <3> QED BY <3>2
  <2>3. n - 1 \in 0..Len(q) /\ n - 1 \notin T /\ n \in 1..Len(q)
    <3>1. n \in 1..Len(q)
      BY <1>1, <2>2
    <3>2. ~ n <= n - 1
      BY <3>1
    <3> HIDE DEF T
    <3> QED BY <1>1, <2>1, <3>1, <3>2
  <2>4. Kept(n - 1)
    BY <2>3
  <2>5. PICK r \in Seq(S) : r = left[n - 1]
    BY <2>4
  <2>6. left[n] = IF q[n] \in D THEN r ELSE Append(r, q[n])
    <3>1. n \in 0..Len(q) /\ n # 0
      BY <1>1, <2>3
    <3>2. left[n] = IF q[n] \in D THEN left[n - 1] ELSE Append(left[n - 1], q[n])
      BY <1>2, <3>1 DEF IsLeft
    <3> QED BY <2>5, <3>2
  <2>7. {q[i] : i \in 1..n} = {q[i] : i \in 1..(n - 1)} \cup {q[n]}
    <3>1. \A i : i \in 1..n <=> i \in 1..(n - 1) \/ i = n
      BY <1>1, <2>3
    <3> QED BY <3>1, Zenon
  <2>8. q[n] \notin {q[i] : i \in 1..(n - 1)}
    BY <1>1, <2>3 DEF Distinct
  <2>9. CASE q[n] \in D
    BY <2>4, <2>5, <2>6, <2>7, <2>9
  <2>10. CASE q[n] \notin D
    <3>1. q[n] \in S /\ q[n] \notin Entries(r)
      BY <1>1, <2>3, <2>4, <2>5, <2>8
    <3>2. Append(r, q[n]) \in Seq(S) /\ Distinct(Append(r, q[n]))
      BY <2>4, <2>5, <3>1, AppendedDistinct
    <3>3. Entries(Append(r, q[n])) = Entries(r) \cup {q[n]}
      BY <3>1 DEF Entries
    <3> QED BY <2>4, <2>5, <2>6, <2>7, <2>10, <3>2, <3>3
  <2> QED BY <2>1, <2>9, <2>10
<1>4. Kept(Len(q))
  <2>1. Len(q) \in 0..Len(q)
    BY <1>1
  <2> HIDE DEF Kept
  <2> QED BY <1>3, <2>1
<1> QED BY <1>2, <1>4 DEF Entries

\* The entries of a list are finitely many, and as many as its length when no two are alike.
LEMMA EntriesCounted ==
  ASSUME NEW S, NEW q \in Seq(S)
  PROVE  /\ IsFiniteSet(Entries(q))
         /\ Distinct(q) <=> Cardinality(Entries(q)) = Len(q)
<1>1. Len(q) \in Nat /\ q \in [1..Len(q) -> Entries(q)]
  BY DEF Entries
<1>2. q \in Surjection(1..Len(q), Entries(q))
  BY <1>1 DEF Surjection, Entries
<1>3. IsFiniteSet(1..Len(q)) /\ Cardinality(1..Len(q)) = Len(q)
  BY <1>1, FS_Interval
<1>4. IsFiniteSet(Entries(q)) /\ (Cardinality(Entries(q)) = Len(q) <=> q \in Injection(1..Len(q), Entries(q)))
  BY <1>2, <1>3, FS_Surjection
<1>5. q \in Injection(1..Len(q), Entries(q)) <=> Distinct(q)
  BY <1>1 DEF Injection, IsInjective, Distinct
<1> QED BY <1>4, <1>5

-----------------------------------------------------------------------------
(* The invariant of the pools.                                              *)

Out(b) == {i \in 1..size[b] : <<b, i>> \in held}

PoolsTypeOK ==
  /\ blobs \in [Pools -> Seq(Blobs)] /\ firstFree \in [Pools -> Blobs \cup {NoBlob}]
  /\ size \in [Blobs -> Nat] /\ free \in [Blobs -> Seq(Nat)] /\ usedInBlob \in [Blobs -> Int]
  /\ used \in [Pools -> Int] /\ total \in [Pools -> Int] /\ peak \in [Pools -> Int]
  /\ held \subseteq Blobs \X Nat /\ IsFiniteSet(held)

\* A blob is in one list at most and there once.
BlobsApart ==
  /\ \A p \in Pools : Distinct(blobs[p])
  /\ \A p, q \in Pools : p # q => Live(p) \cap Live(q) = {}

\* A pool that has blobs remembers one of them: this is why FreeBlock never counts down,
\* and why a pool that has none to allocate from has none at all or only full ones.
RemembersOwn ==
  \A p \in Pools : IF firstFree[p] = NoBlob THEN blobs[p] = << >> ELSE firstFree[p] \in Live(p)

\* Callers have blocks of blobs that are there, in pools of the size classes.
HeldPlaces ==
  \A block \in held : \E p \in ClassPools : block[1] \in Live(p) /\ block[2] \in 1..size[block[1]]

SizesKnown == \A p \in Pools : \A b \in Live(p) : size[b] \in BlobSizes

ChainOK(b) ==
  /\ Distinct(free[b])
  /\ Entries(free[b]) = (1..size[b]) \ Out(b)
  /\ usedInBlob[b] = Cardinality(Out(b))
ChainsOK == \A p \in Pools : \A b \in Live(p) : ChainOK(b)

PoolsInv ==
  /\ PoolsTypeOK /\ BlobsApart /\ RemembersOwn /\ HeldPlaces /\ SizesKnown /\ ChainsOK
  /\ CountsCoverUse

(* The invariant of the raw blocks. *)
RawTypeOK ==
  /\ rawHead \in RawBlocks \cup {Null} /\ raw \subseteq RawBlocks
  /\ rawNext \in [RawBlocks -> RawBlocks \cup {Null}]
  /\ rawPrev \in [RawBlocks -> RawBlocks \cup {Null}]

\* The raw blocks are those of q, in its order.
Listed(q) ==
  /\ q \in Seq(RawBlocks) /\ Distinct(q) /\ Entries(q) = raw
  /\ rawHead = IF Len(q) = 0 THEN Null ELSE q[1]
  /\ \A i \in 1..Len(q) : /\ rawNext[q[i]] = IF i = Len(q) THEN Null ELSE q[i + 1]
                          /\ rawPrev[q[i]] = IF i = 1 THEN Null ELSE q[i - 1]

RawListed == \E q : Listed(q)

IndInv == PoolsInv /\ RawTypeOK /\ RawListed /\ inUse \in Int

-----------------------------------------------------------------------------
(* Steps of a pool.                                                         *)

\* The blobs of a pool.
LEMMA LiveBlobs ==
  ASSUME PoolsTypeOK, NEW p \in Pools
  PROVE  /\ blobs[p] \in Seq(Blobs) /\ Len(blobs[p]) \in Nat
         /\ Live(p) = Entries(blobs[p]) /\ Live(p) \subseteq Blobs /\ IsFiniteSet(Live(p))
<1>1. blobs[p] \in Seq(Blobs) /\ Len(blobs[p]) \in Nat
  BY DEF PoolsTypeOK
<1>2. Live(p) = Entries(blobs[p]) /\ Live(p) \subseteq Blobs
  BY <1>1 DEF Live, Entries
<1> QED BY <1>1, <1>2, EntriesCounted

\* The blob that is chosen has a free block; when there is none, no blob of the pool has one.
LEMMA ChosenHasFree ==
  ASSUME PoolsTypeOK, RemembersOwn, NEW p \in Pools
  PROVE  IF FirstWithFree(p) = NoBlob THEN \A b \in Live(p) : ~HasFree(b)
         ELSE FirstWithFree(p) \in Live(p) /\ HasFree(FirstWithFree(p))
<1>1. NoBlob \notin Live(p)
  BY LiveBlobs, PoolAssumption
<1>2. CASE firstFree[p] = NoBlob
  <2>1. blobs[p] = << >>
    BY <1>2 DEF RemembersOwn
  <2> QED BY <1>2, <2>1 DEF FirstWithFree, Live
<1>3. CASE firstFree[p] # NoBlob /\ HasFree(firstFree[p])
  BY <1>3 DEF FirstWithFree, RemembersOwn
<1>4. CASE firstFree[p] # NoBlob /\ ~HasFree(firstFree[p])
  <2>1. CASE \A b \in Live(p) : ~HasFree(b)
    BY <1>4, <2>1 DEF FirstWithFree
  <2>2. CASE ~ \A b \in Live(p) : ~HasFree(b)
    <3> DEFINE I == {i \in 1..Len(blobs[p]) : HasFree(blobs[p][i])}
               i0 == CHOOSE i \in 1..Len(blobs[p]) : HasFree(blobs[p][i]) /\ \A j \in 1..(i - 1) : ~HasFree(blobs[p][j])
    <3>1. I # {} /\ I \subseteq Nat
      BY <2>2 DEF Live
    <3>2. PICK i \in I : \A j \in I : i <= j
      BY <3>1, Least
    <3>3. \A j \in 1..(i - 1) : ~HasFree(blobs[p][j])
      <4>1. Len(blobs[p]) \in Nat
        BY LiveBlobs
      <4>2. \A j \in 1..(i - 1) : j \in 1..Len(blobs[p]) /\ ~ i <= j
        BY <4>1
      <4> QED BY <3>2, <4>2
    <3>4. i0 \in 1..Len(blobs[p]) /\ HasFree(blobs[p][i0])
      BY <3>2, <3>3
    <3>5. FirstWithFree(p) = blobs[p][i0]
      BY <1>4, <2>2 DEF FirstWithFree
    <3> HIDE DEF i0
    <3> QED BY <1>1, <3>4, <3>5 DEF Live
  <2> QED BY <2>1, <2>2
<1> QED BY <1>2, <1>3, <1>4

\* Nothing changes for a blob of which nothing changes.
LEMMA ChainFrame ==
  ASSUME NEW b, ChainOK(b), size'[b] = size[b], free'[b] = free[b], usedInBlob'[b] = usedInBlob[b],
         \A i : <<b, i>> \in held' <=> <<b, i>> \in held
  PROVE  ChainOK(b)'
<1>1. Out(b)' = Out(b)
  BY DEF Out
<1> QED BY <1>1 DEF ChainOK, Distinct, Entries

\* Taking the first block off a chain.
LEMMA TailEntries ==
  ASSUME NEW S, NEW q \in Seq(S), Distinct(q), q # << >>
  PROVE  /\ Tail(q) \in Seq(S) /\ Distinct(Tail(q)) /\ Head(q) \in Entries(q)
         /\ Entries(Tail(q)) = Entries(q) \ {Head(q)}
<1>1. Len(q) \in Nat \ {0} /\ Tail(q) \in Seq(S) /\ Len(Tail(q)) = Len(q) - 1 /\ Head(q) = q[1]
  OBVIOUS
<1>2. \A i \in 1..(Len(q) - 1) : Tail(q)[i] = q[i + 1]
  OBVIOUS
<1>3. Head(q) \in Entries(q)
  BY <1>1 DEF Entries
<1>4. Distinct(Tail(q))
  <2> SUFFICES ASSUME NEW i \in 1..(Len(q) - 1), NEW j \in 1..(Len(q) - 1), Tail(q)[i] = Tail(q)[j]
               PROVE  i = j
    BY <1>1 DEF Distinct
  <2>1. i + 1 \in 1..Len(q) /\ j + 1 \in 1..Len(q)
    BY <1>1
  <2>2. q[i + 1] = q[j + 1]
    BY <1>2
  <2> QED BY <2>1, <2>2 DEF Distinct
<1>5. ASSUME NEW x \in Entries(Tail(q)) PROVE x \in Entries(q) \ {Head(q)}
  <2>1. PICK i \in 1..(Len(q) - 1) : x = Tail(q)[i]
    BY <1>1 DEF Entries
  <2>2. x = q[i + 1] /\ i + 1 \in 1..Len(q) /\ i + 1 # 1
    BY <1>1, <1>2, <2>1
  <2>3. 1 \in 1..Len(q)
    BY <1>1
  <2>4. x # q[1]
    BY <2>2, <2>3 DEF Distinct
  <2> QED BY <1>1, <2>2, <2>4 DEF Entries
<1>6. ASSUME NEW x \in Entries(q) \ {Head(q)} PROVE x \in Entries(Tail(q))
  <2>1. PICK i \in 1..Len(q) : x = q[i]
    BY DEF Entries
  <2>2. i # 1
    BY <1>1, <2>1
  <2>3. i - 1 \in 1..(Len(q) - 1) /\ (i - 1) + 1 = i
    BY <1>1, <2>2
  <2>4. x = Tail(q)[i - 1]
    BY <1>2, <2>1, <2>3
  <2> QED BY <1>1, <2>3, <2>4 DEF Entries
<1> QED BY <1>1, <1>3, <1>4, <1>5, <1>6

\* A chain that is built anew.
LEMMA FullChainEntries ==
  ASSUME NEW n \in Nat
  PROVE  /\ FullChain(n) \in Seq(Nat) /\ Distinct(FullChain(n)) /\ Entries(FullChain(n)) = 1..n
         /\ n > 0 => FullChain(n) # << >> /\ Head(FullChain(n)) = 1
<1>1. FullChain(n) \in Seq(Nat) /\ Len(FullChain(n)) = n /\ \A i \in 1..n : FullChain(n)[i] = i
  BY DEF FullChain
<1>2. n > 0 => FullChain(n) # << >> /\ Head(FullChain(n)) = 1
  BY <1>1
<1> QED BY <1>1, <1>2 DEF Distinct, Entries

LEMMA HeldCounted ==
  ASSUME PoolsTypeOK, NEW p \in Pools
  PROVE  IsFiniteSet(HeldFrom(p)) /\ Cardinality(HeldFrom(p)) \in Nat
<1>1. HeldFrom(p) \in SUBSET held /\ IsFiniteSet(held)
  BY DEF HeldFrom, PoolsTypeOK
<1> QED BY <1>1, FS_Subset, FS_CardinalityType

LEMMA OutCounted ==
  ASSUME PoolsTypeOK, NEW b \in Blobs
  PROVE  /\ size[b] \in Nat /\ IsFiniteSet(1..size[b]) /\ Cardinality(1..size[b]) = size[b]
         /\ Out(b) \subseteq 1..size[b] /\ IsFiniteSet(Out(b)) /\ Cardinality(Out(b)) \in Nat
<1>1. size[b] \in Nat /\ Out(b) \in SUBSET (1..size[b])
  BY DEF PoolsTypeOK, Out
<1>2. IsFiniteSet(1..size[b]) /\ Cardinality(1..size[b]) = size[b]
  BY <1>1, FS_Interval, SMTT(30)
<1>3. IsFiniteSet(Out(b))
  BY <1>1, <1>2, FS_Subset
<1> QED BY <1>1, <1>2, <1>3, FS_CardinalityType

\* The pools of the size classes are pools.
LEMMA ClassPoolsArePools == ClassPools \subseteq Pools
BY AllocatorAssumption DEF ClassPools

\* A block of a blob of p is in no other pool.
LEMMA OnlyOwnGrows ==
  ASSUME BlobsApart, NEW p \in Pools, NEW b \in Live(p), NEW q \in Pools, q # p
  PROVE  b \notin Live(q)
BY DEF BlobsApart

\* Allocate_Block from a blob that has a free block.
LEMMA AllocateBlockKeeps ==
  ASSUME PoolsInv, NEW p \in ClassPools, AllocateBlock(p)
  PROVE  /\ PoolsInv'
         /\ \E block \in BlocksOfPools : block \notin held /\ held' = held \cup {block}
<1>1. PICK b : b = FirstWithFree(p)
  OBVIOUS
<1>2. p \in Pools
  BY ClassPoolsArePools
<1>3. b \in Live(p) /\ HasFree(b) /\ b \in Blobs
  <2>1. b # NoBlob
    BY <1>1 DEF AllocateBlock
  <2>2. b \in Live(p) /\ HasFree(b)
    BY <1>1, <1>2, <2>1, ChosenHasFree DEF PoolsInv
  <2> QED BY <1>2, <2>2, LiveBlobs DEF PoolsInv
<1>4. PICK x : x = Head(free[b])
  OBVIOUS
<1>5. /\ held' = held \cup {<<b, x>>} /\ free' = [free EXCEPT ![b] = Tail(@)]
      /\ usedInBlob' = [usedInBlob EXCEPT ![b] = @ + 1] /\ firstFree' = [firstFree EXCEPT ![p] = b]
      /\ Taken(p) /\ blobs' = blobs /\ size' = size /\ total' = total
  BY <1>1, <1>4 DEF AllocateBlock
<1>6. free[b] \in Seq(Nat) /\ ChainOK(b) /\ free[b] # << >>
  BY <1>2, <1>3 DEF PoolsInv, PoolsTypeOK, ChainsOK, HasFree
<1>7. /\ Tail(free[b]) \in Seq(Nat) /\ Distinct(Tail(free[b]))
      /\ Entries(Tail(free[b])) = Entries(free[b]) \ {x} /\ x \in Entries(free[b])
  BY <1>4, <1>6, TailEntries DEF ChainOK
<1>8. x \in 1..size[b] /\ <<b, x>> \notin held /\ x \in Nat
  <2>1. x \in 1..size[b] /\ x \notin Out(b)
    BY <1>6, <1>7 DEF ChainOK
  <2>2. size[b] \in Nat
    BY <1>3 DEF PoolsInv, PoolsTypeOK
  <2> QED BY <2>1, <2>2 DEF Out
<1>9. IsFiniteSet(held) /\ IsFiniteSet(held')
  <2>1. IsFiniteSet(held)
    BY DEF PoolsInv, PoolsTypeOK
  <2>2. IsFiniteSet(held \cup {<<b, x>>})
    BY <2>1, FS_AddElement
  <2> QED BY <1>5, <2>1, <2>2
<1>10. PoolsTypeOK'
  BY <1>2, <1>3, <1>5, <1>7, <1>8, <1>9, SMTT(20) DEF PoolsInv, PoolsTypeOK, Taken, Larger
<1>11. \A q : Live(q)' = Live(q)
  BY <1>5 DEF Live
<1>12. BlobsApart' /\ SizesKnown' /\ HeldPlaces'
  <2>1. BlobsApart' /\ SizesKnown'
    BY <1>5, <1>11 DEF PoolsInv, BlobsApart, SizesKnown
  <2>2. HeldPlaces'
    BY <1>3, <1>5, <1>8, <1>11 DEF PoolsInv, HeldPlaces
  <2> QED BY <2>1, <2>2
<1>13. RemembersOwn'
  <2>1. b # NoBlob
    BY <1>3, PoolAssumption
  <2> QED BY <1>2, <1>3, <1>5, <1>11, <2>1 DEF PoolsInv, PoolsTypeOK, RemembersOwn
<1>14. ChainsOK'
  <2> SUFFICES ASSUME NEW q \in Pools, NEW c \in Live(q) PROVE ChainOK(c)'
    BY <1>11 DEF ChainsOK
  <2>1. c \in Blobs /\ ChainOK(c)
    BY LiveBlobs DEF PoolsInv, ChainsOK
  <2>2. CASE c # b
    <3>1. free'[c] = free[c] /\ usedInBlob'[c] = usedInBlob[c] /\ size'[c] = size[c]
      BY <1>5, <2>1, <2>2 DEF PoolsInv, PoolsTypeOK
    <3>2. \A i : <<c, i>> \in held' <=> <<c, i>> \in held
      BY <1>5, <2>2
    <3> QED BY <2>1, <3>1, <3>2, ChainFrame
  <2>3. CASE c = b
    <3>1. free'[b] = Tail(free[b]) /\ usedInBlob'[b] = usedInBlob[b] + 1 /\ size'[b] = size[b]
      BY <1>3, <1>5 DEF PoolsInv, PoolsTypeOK
    <3>2. Out(b)' = Out(b) \cup {x}
      BY <1>5, <1>8, <3>1 DEF Out
    <3>3. x \notin Out(b)
      BY <1>8 DEF Out
    <3>4. IsFiniteSet(Out(b)) /\ Cardinality(Out(b)) \in Nat
      BY <1>3, OutCounted DEF PoolsInv
    <3>5. Cardinality(Out(b) \cup {x}) = Cardinality(Out(b)) + 1
      BY <3>3, <3>4, FS_AddElement
    <3>6. Distinct(free'[b]) /\ Entries(free'[b]) = (1..size'[b]) \ (Out(b) \cup {x})
      BY <1>6, <1>7, <3>1 DEF ChainOK
    <3>7. usedInBlob'[b] = Cardinality(Out(b) \cup {x})
      BY <1>6, <3>1, <3>5 DEF ChainOK
    <3> QED BY <2>3, <3>2, <3>6, <3>7 DEF ChainOK, Distinct, Entries
  <2> QED BY <2>2, <2>3
<1>15. CountsCoverUse'
  <2> SUFFICES ASSUME NEW q \in Pools
               PROVE  /\ Cardinality(HeldFrom(q)') <= used'[q] /\ used'[q] <= peak'[q]
                      /\ total'[q] = SumFunctionOnSet(size', Live(q)')
    BY DEF CountsCoverUse
  <2>1. /\ Cardinality(HeldFrom(q)) <= used[q] /\ used[q] <= peak[q] /\ used[q] \in Int /\ peak[q] \in Int
        /\ total[q] = SumFunctionOnSet(size, Live(q))
    BY DEF PoolsInv, PoolsTypeOK, CountsCoverUse
  <2>2. total'[q] = SumFunctionOnSet(size', Live(q)')
    BY <1>5, <1>11, <2>1
  <2>3. CASE q = p
    <3>1. used'[p] = used[p] + 1 /\ peak'[p] = Larger(peak[p], used[p] + 1)
      BY <1>2, <1>5 DEF PoolsInv, PoolsTypeOK, Taken
    <3>2. HeldFrom(p)' = HeldFrom(p) \cup {<<b, x>>} /\ <<b, x>> \notin HeldFrom(p)
      BY <1>3, <1>5, <1>8, <1>11 DEF HeldFrom
    <3>3. Cardinality(HeldFrom(p)') = Cardinality(HeldFrom(p)) + 1 /\ Cardinality(HeldFrom(p)) \in Nat
      BY <1>2, <3>2, HeldCounted, FS_AddElement DEF PoolsInv
    <3> QED BY <2>1, <2>2, <2>3, <3>1, <3>3 DEF Larger
  <2>4. CASE q # p
    <3>1. used'[q] = used[q] /\ peak'[q] = peak[q]
      BY <1>2, <1>5, <2>4 DEF PoolsInv, PoolsTypeOK, Taken
    <3>2. HeldFrom(q)' = HeldFrom(q)
      BY <1>2, <1>3, <1>5, <1>11, <2>4, OnlyOwnGrows DEF HeldFrom, PoolsInv
    <3> QED BY <2>1, <2>2, <3>1, <3>2
  <2> QED BY <2>3, <2>4
<1>16. <<b, x>> \in BlocksOfPools
  <2>1. size[b] \in BlobSizes
    BY <1>2, <1>3 DEF PoolsInv, SizesKnown
  <2> QED BY <1>3, <1>8, <2>1 DEF BlocksOfPools
<1> QED BY <1>5, <1>8, <1>10, <1>12, <1>13, <1>14, <1>15, <1>16 DEF PoolsInv

\* Allocate_Block when every block is in use: a new blob whose first block is taken.
LEMMA AllocateOverflowKeeps ==
  ASSUME PoolsInv, NEW p \in ClassPools, NEW b \in Blobs, AllocateOverflow(p, b)
  PROVE  /\ PoolsInv'
         /\ \E block \in BlocksOfPools : block \notin held /\ held' = held \cup {block}
<1>1. p \in Pools
  BY ClassPoolsArePools
<1>2. PICK n \in Nat \ {0} : n = OverflowCount[p] /\ n \in BlobSizes
  BY <1>1, PoolAssumption DEF BlobSizes
<1>3. /\ blobs' = [blobs EXCEPT ![p] = Append(@, b)] /\ size' = [size EXCEPT ![b] = n]
      /\ free' = [free EXCEPT ![b] = Tail(FullChain(n))] /\ usedInBlob' = [usedInBlob EXCEPT ![b] = 1]
      /\ firstFree' = [firstFree EXCEPT ![p] = b] /\ total' = [total EXCEPT ![p] = @ + n]
      /\ held' = held \cup {<<b, 1>>} /\ Taken(p) /\ \A q \in Pools : b \notin Live(q)
  BY <1>2 DEF AllocateOverflow
<1>4. blobs[p] \in Seq(Blobs) /\ Live(p) = Entries(blobs[p]) /\ Distinct(blobs[p])
  BY <1>1, LiveBlobs DEF PoolsInv, BlobsApart
<1>5. Append(blobs[p], b) \in Seq(Blobs) /\ Distinct(Append(blobs[p], b))
  BY <1>1, <1>3, <1>4, AppendedDistinct
<1>6. blobs'[p] = Append(blobs[p], b) /\ \A q \in Pools : q # p => blobs'[q] = blobs[q]
  BY <1>1, <1>3 DEF PoolsInv, PoolsTypeOK
<1>7. Live(p)' = Live(p) \cup {b} /\ \A q \in Pools : q # p => Live(q)' = Live(q)
  <2>1. Len(Append(blobs[p], b)) = Len(blobs[p]) + 1 /\ Len(blobs[p]) \in Nat
    BY <1>4
  <2>2. \A i \in 1..(Len(blobs[p]) + 1) : Append(blobs[p], b)[i] = IF i = Len(blobs[p]) + 1 THEN b ELSE blobs[p][i]
    BY <1>4
  <2>3. \A i : i \in 1..(Len(blobs[p]) + 1) <=> i \in 1..Len(blobs[p]) \/ i = Len(blobs[p]) + 1
    BY <2>1
  <2>4. {Append(blobs[p], b)[i] : i \in 1..Len(Append(blobs[p], b))} = {blobs[p][i] : i \in 1..Len(blobs[p])} \cup {b}
    BY <2>1, <2>2, <2>3
  <2> QED BY <1>6, <2>4 DEF Live
<1>8. /\ FullChain(n) \in Seq(Nat) /\ Distinct(FullChain(n)) /\ Entries(FullChain(n)) = 1..n
      /\ FullChain(n) # << >> /\ Head(FullChain(n)) = 1
  <2>1. n \in Nat /\ n > 0
    BY <1>2
  <2> QED BY <2>1, FullChainEntries
<1>9. /\ Tail(FullChain(n)) \in Seq(Nat) /\ Distinct(Tail(FullChain(n)))
      /\ Entries(Tail(FullChain(n))) = (1..n) \ {1}
  BY <1>8, TailEntries
<1>10. \A i : <<b, i>> \notin held
  <2> SUFFICES ASSUME NEW i, <<b, i>> \in held PROVE FALSE
    OBVIOUS
  <2>1. PICK q \in ClassPools : <<b, i>>[1] \in Live(q)
    BY DEF PoolsInv, HeldPlaces
  <2> QED BY <1>3, <2>1, ClassPoolsArePools
<1>11. IsFiniteSet(held) /\ IsFiniteSet(held')
  <2>1. IsFiniteSet(held)
    BY DEF PoolsInv, PoolsTypeOK
  <2>2. IsFiniteSet(held \cup {<<b, 1>>})
    BY <2>1, FS_AddElement
  <2> QED BY <1>3, <2>1, <2>2
<1>12. PoolsTypeOK'
  <2>1. /\ size' \in [Blobs -> Nat] /\ usedInBlob' \in [Blobs -> Int] /\ free' \in [Blobs -> Seq(Nat)]
    BY <1>2, <1>3, <1>9 DEF PoolsInv, PoolsTypeOK
  <2>2. blobs' \in [Pools -> Seq(Blobs)] /\ firstFree' \in [Pools -> Blobs \cup {NoBlob}]
    BY <1>3, <1>5 DEF PoolsInv, PoolsTypeOK
  <2>3. used' \in [Pools -> Int] /\ total' \in [Pools -> Int] /\ peak' \in [Pools -> Int]
    BY <1>1, <1>2, <1>3 DEF PoolsInv, PoolsTypeOK, Taken, Larger
  <2>4. held' \subseteq Blobs \X Nat
    BY <1>3 DEF PoolsInv, PoolsTypeOK
  <2> QED BY <1>11, <2>1, <2>2, <2>3, <2>4 DEF PoolsTypeOK
<1>13. BlobsApart'
  <2>1. \A q \in Pools : Distinct(blobs'[q])
    BY <1>5, <1>6 DEF PoolsInv, BlobsApart
  <2>2. \A q, r \in Pools : q # r => Live(q)' \cap Live(r)' = {}
    BY <1>1, <1>3, <1>7 DEF PoolsInv, BlobsApart
  <2> QED BY <2>1, <2>2 DEF BlobsApart, Distinct
<1>14. RemembersOwn'
  <2>1. b # NoBlob /\ firstFree'[p] = b /\ \A q \in Pools : q # p => firstFree'[q] = firstFree[q]
    BY <1>1, <1>3, PoolAssumption DEF PoolsInv, PoolsTypeOK
  <2> SUFFICES ASSUME NEW q \in Pools
               PROVE  IF firstFree'[q] = NoBlob THEN blobs'[q] = << >> ELSE firstFree'[q] \in Live(q)'
    BY DEF RemembersOwn
  <2> QED BY <1>6, <1>7, <2>1 DEF PoolsInv, RemembersOwn
<1>15. HeldPlaces'
  <2> SUFFICES ASSUME NEW block \in held'
               PROVE  \E q \in ClassPools : block[1] \in Live(q)' /\ block[2] \in 1..size'[block[1]]
    BY DEF HeldPlaces
  <2>1. CASE block \in held
    <3>1. PICK q \in ClassPools : block[1] \in Live(q) /\ block[2] \in 1..size[block[1]]
      BY <2>1 DEF PoolsInv, HeldPlaces
    <3>2. q \in Pools /\ block[1] \in Blobs /\ block[1] # b
      BY <1>3, <3>1, ClassPoolsArePools, LiveBlobs DEF PoolsInv
    <3>3. size'[block[1]] = size[block[1]] /\ block[1] \in Live(q)'
      BY <1>3, <1>7, <3>1, <3>2 DEF PoolsInv, PoolsTypeOK
    <3> QED BY <3>1, <3>3
  <2>2. CASE block = <<b, 1>>
    <3>1. size'[b] = n /\ b \in Live(p)'
      BY <1>3, <1>7 DEF PoolsInv, PoolsTypeOK
    <3> QED BY <1>2, <2>2, <3>1
  <2> QED BY <1>3, <2>1, <2>2
<1>16. SizesKnown'
  <2> SUFFICES ASSUME NEW q \in Pools, NEW c \in Live(q)' PROVE size'[c] \in BlobSizes
    BY DEF SizesKnown, BlobSizes
  <2>1. c = b \/ (c \in Live(q) /\ c # b /\ c \in Blobs)
    BY <1>3, <1>7, LiveBlobs, SMTT(20) DEF PoolsInv
  <2> QED BY <1>2, <1>3, <2>1 DEF PoolsInv, PoolsTypeOK, SizesKnown
<1>17. ChainsOK'
  <2> SUFFICES ASSUME NEW q \in Pools, NEW c \in Live(q)' PROVE ChainOK(c)'
    BY DEF ChainsOK
  <2>1. CASE c # b
    <3>1. c \in Live(q) /\ c \in Blobs /\ ChainOK(c)
      BY <1>7, <2>1, LiveBlobs DEF PoolsInv, ChainsOK
    <3>2. free'[c] = free[c] /\ usedInBlob'[c] = usedInBlob[c] /\ size'[c] = size[c]
      BY <1>3, <2>1, <3>1 DEF PoolsInv, PoolsTypeOK
    <3>3. \A i : <<c, i>> \in held' <=> <<c, i>> \in held
      BY <1>3, <2>1
    <3> QED BY <3>1, <3>2, <3>3, ChainFrame
  <2>2. CASE c = b
    <3>1. free'[b] = Tail(FullChain(n)) /\ usedInBlob'[b] = 1 /\ size'[b] = n
      BY <1>3 DEF PoolsInv, PoolsTypeOK
    <3>2. Out(b)' = {1}
      BY <1>2, <1>3, <1>10, <3>1 DEF Out
    <3>3. Cardinality({1}) = 1
      BY FS_Singleton
    <3>4. Distinct(free'[b]) /\ Entries(free'[b]) = (1..size'[b]) \ {1}
      BY <1>9, <3>1
    <3> QED BY <2>2, <3>1, <3>2, <3>3, <3>4 DEF ChainOK, Distinct, Entries
  <2> QED BY <2>1, <2>2
<1>18. CountsCoverUse'
  <2> SUFFICES ASSUME NEW q \in Pools
               PROVE  /\ Cardinality(HeldFrom(q)') <= used'[q] /\ used'[q] <= peak'[q]
                      /\ total'[q] = SumFunctionOnSet(size', Live(q)')
    BY DEF CountsCoverUse
  <2>1. /\ Cardinality(HeldFrom(q)) <= used[q] /\ used[q] <= peak[q] /\ used[q] \in Int /\ peak[q] \in Int
        /\ total[q] = SumFunctionOnSet(size, Live(q)) /\ total[q] \in Int
    BY DEF PoolsInv, PoolsTypeOK, CountsCoverUse
  <2>2. IsFiniteSet(Live(q)) /\ b \notin Live(q) /\ \A c \in Live(q) : size[c] \in Nat /\ size'[c] = size[c]
    <3>1. IsFiniteSet(Live(q)) /\ b \notin Live(q) /\ Live(q) \subseteq Blobs
      BY <1>3, LiveBlobs DEF PoolsInv
    <3> QED BY <1>3, <3>1 DEF PoolsInv, PoolsTypeOK
  <2>3. SumFunctionOnSet(size, Live(q)) = SumFunctionOnSet(size', Live(q))
    BY <2>2, SumSame
  <2>4. CASE q = p
    <3>1. used'[p] = used[p] + 1 /\ peak'[p] = Larger(peak[p], used[p] + 1) /\ total'[p] = total[p] + n
      BY <1>1, <1>3 DEF PoolsInv, PoolsTypeOK, Taken
    <3>2. HeldFrom(p)' = HeldFrom(p) \cup {<<b, 1>>} /\ <<b, 1>> \notin HeldFrom(p)
      BY <1>3, <1>7, <1>10 DEF HeldFrom, PoolsInv, PoolsTypeOK
    <3>3. Cardinality(HeldFrom(p)') = Cardinality(HeldFrom(p)) + 1 /\ Cardinality(HeldFrom(p)) \in Nat
      BY <1>1, <3>2, HeldCounted, FS_AddElement DEF PoolsInv
    <3>4. size'[b] = n /\ n \in Nat /\ \A c \in Live(p) \cup {b} : size'[c] \in Nat
      BY <1>2, <1>3, <2>2, <2>4 DEF PoolsInv, PoolsTypeOK
    <3>5. SumFunctionOnSet(size', Live(p) \cup {b}) = size'[b] + SumFunctionOnSet(size', Live(p))
      BY <2>2, <2>4, <3>4, SumWith
    <3>6. total'[p] = SumFunctionOnSet(size', Live(p)')
      BY <1>7, <2>1, <2>3, <2>4, <3>1, <3>4, <3>5
    <3> QED BY <2>1, <2>4, <3>1, <3>3, <3>6 DEF Larger
  <2>5. CASE q # p
    <3>1. used'[q] = used[q] /\ peak'[q] = peak[q] /\ total'[q] = total[q] /\ Live(q)' = Live(q)
      BY <1>1, <1>3, <1>7, <2>5 DEF PoolsInv, PoolsTypeOK, Taken
    <3>2. HeldFrom(q)' = HeldFrom(q)
      BY <1>3, <2>2, <3>1 DEF HeldFrom
    <3> QED BY <2>1, <2>3, <3>1, <3>2
  <2> QED BY <2>4, <2>5
<1>19. <<b, 1>> \in BlocksOfPools
  BY <1>2 DEF BlocksOfPools
<1> QED BY <1>3, <1>10, <1>12, <1>13, <1>14, <1>15, <1>16, <1>17, <1>18, <1>19 DEF PoolsInv

\* Putting a block at the front of a chain it is not in.
LEMMA FrontEntries ==
  ASSUME NEW S, NEW q \in Seq(S), Distinct(q), NEW x \in S, x \notin Entries(q)
  PROVE  /\ <<x>> \o q \in Seq(S) /\ Distinct(<<x>> \o q)
         /\ Entries(<<x>> \o q) = Entries(q) \cup {x}
<1>1. PICK r : r = <<x>> \o q
  OBVIOUS
<1>2. r \in Seq(S) /\ Len(r) = Len(q) + 1 /\ Len(q) \in Nat
  BY <1>1
<1>3. r[1] = x /\ \A i \in 1..Len(q) : r[i + 1] = q[i]
  BY <1>1
<1>4. \A i \in 1..(Len(q) + 1) : i = 1 \/ (i - 1 \in 1..Len(q) /\ r[i] = q[i - 1] /\ (i - 1) + 1 = i)
  <2> SUFFICES ASSUME NEW i \in 1..(Len(q) + 1), i # 1
               PROVE  i - 1 \in 1..Len(q) /\ r[i] = q[i - 1] /\ (i - 1) + 1 = i
    OBVIOUS
  <2>1. i - 1 \in 1..Len(q) /\ (i - 1) + 1 = i
    BY <1>2
  <2> QED BY <1>3, <2>1
<1>5. \A i \in 1..Len(q) : q[i] # x
  BY DEF Entries
<1>6. Distinct(r)
  <2> SUFFICES ASSUME NEW i \in 1..(Len(q) + 1), NEW j \in 1..(Len(q) + 1), r[i] = r[j] PROVE i = j
    BY <1>2 DEF Distinct
  <2>1. CASE i = 1 \/ j = 1
    BY <1>3, <1>4, <1>5, <2>1
  <2>2. CASE i # 1 /\ j # 1
    <3>1. i - 1 = j - 1
      BY <1>4, <2>2 DEF Distinct
    <3> QED BY <3>1
  <2> QED BY <2>1, <2>2
<1>7. ASSUME NEW y \in Entries(r) PROVE y \in Entries(q) \cup {x}
  <2>1. PICK i \in 1..(Len(q) + 1) : y = r[i]
    BY <1>2 DEF Entries
  <2> QED BY <1>3, <1>4, <2>1 DEF Entries
<1>8. ASSUME NEW y \in Entries(q) \cup {x} PROVE y \in Entries(r)
  <2>1. CASE y = x
    BY <1>2, <1>3, <2>1 DEF Entries
  <2>2. CASE y \in Entries(q)
    <3>1. PICK i \in 1..Len(q) : y = q[i]
      BY <2>2 DEF Entries
    <3>2. i + 1 \in 1..Len(r) /\ y = r[i + 1]
      BY <1>2, <1>3, <3>1
    <3> QED BY <3>2 DEF Entries
  <2> QED BY <2>1, <2>2
<1> QED BY <1>1, <1>2, <1>6, <1>7, <1>8

\* Free_Block.
LEMMA FreeBlockKeeps ==
  ASSUME PoolsInv, NEW p \in ClassPools, NEW block \in held, FreeBlock(p, block)
  PROVE  PoolsInv' /\ held' = held \ {block} /\ block \in BlocksOfPools
<1>1. p \in Pools
  BY ClassPoolsArePools
<1>2. PICK b \in Blobs, x \in Nat : block = <<b, x>>
  BY DEF PoolsInv, PoolsTypeOK
<1>3. /\ b \in Live(p) /\ <<b, x>> \in held /\ held' = held \ {<<b, x>>}
      /\ free' = [free EXCEPT ![b] = <<x>> \o @] /\ usedInBlob' = [usedInBlob EXCEPT ![b] = @ - 1]
      /\ blobs' = blobs /\ size' = size /\ total' = total /\ peak' = peak
  BY <1>2 DEF FreeBlock, HeldFrom, Chained
<1>4. firstFree' = firstFree /\ used' = used
  <2>1. firstFree[p] # NoBlob
    <3>1. blobs[p] # << >>
      BY <1>3 DEF Live
    <3> QED BY <1>1, <3>1 DEF PoolsInv, RemembersOwn
  <2> QED BY <2>1 DEF FreeBlock
<1>5. x \in 1..size[b]
  <2>1. PICK q \in ClassPools : <<b, x>>[1] \in Live(q) /\ <<b, x>>[2] \in 1..size[<<b, x>>[1]]
    BY <1>3 DEF PoolsInv, HeldPlaces
  <2> QED BY <2>1
<1>6. free[b] \in Seq(Nat) /\ ChainOK(b)
  BY <1>1, <1>3 DEF PoolsInv, PoolsTypeOK, ChainsOK
<1>7. x \notin Entries(free[b])
  BY <1>3, <1>5, <1>6 DEF ChainOK, Out
<1>8. /\ <<x>> \o free[b] \in Seq(Nat) /\ Distinct(<<x>> \o free[b])
      /\ Entries(<<x>> \o free[b]) = Entries(free[b]) \cup {x}
  BY <1>6, <1>7, FrontEntries DEF ChainOK
<1>9. IsFiniteSet(held')
  <2>1. IsFiniteSet(held)
    BY DEF PoolsInv, PoolsTypeOK
  <2>2. IsFiniteSet(held \ {<<b, x>>})
    BY <2>1, FS_RemoveElement
  <2> QED BY <1>3, <2>2
<1>10. PoolsTypeOK'
  BY <1>3, <1>4, <1>8, <1>9 DEF PoolsInv, PoolsTypeOK
<1>11. \A q : Live(q)' = Live(q)
  BY <1>3 DEF Live
<1>12. BlobsApart' /\ SizesKnown' /\ HeldPlaces' /\ RemembersOwn'
  <2>1. BlobsApart' /\ SizesKnown'
    BY <1>3, <1>11 DEF PoolsInv, BlobsApart, SizesKnown
  <2>2. HeldPlaces'
    BY <1>3, <1>11 DEF PoolsInv, HeldPlaces
  <2>3. RemembersOwn'
    BY <1>3, <1>4, <1>11 DEF PoolsInv, RemembersOwn
  <2> QED BY <2>1, <2>2, <2>3
<1>13. ChainsOK'
  <2> SUFFICES ASSUME NEW q \in Pools, NEW c \in Live(q) PROVE ChainOK(c)'
    BY <1>11 DEF ChainsOK
  <2>1. c \in Blobs /\ ChainOK(c)
    BY LiveBlobs DEF PoolsInv, ChainsOK
  <2>2. CASE c # b
    <3>1. free'[c] = free[c] /\ usedInBlob'[c] = usedInBlob[c] /\ size'[c] = size[c]
      BY <1>3, <2>1, <2>2 DEF PoolsInv, PoolsTypeOK
    <3>2. \A i : <<c, i>> \in held' <=> <<c, i>> \in held
      BY <1>3, <2>2
    <3> QED BY <2>1, <3>1, <3>2, ChainFrame
  <2>3. CASE c = b
    <3>1. free'[b] = <<x>> \o free[b] /\ usedInBlob'[b] = usedInBlob[b] - 1 /\ size'[b] = size[b]
      BY <1>3 DEF PoolsInv, PoolsTypeOK
    <3>2. Out(b)' = Out(b) \ {x} /\ x \in Out(b)
      BY <1>3, <1>5, <3>1 DEF Out
    <3>3. IsFiniteSet(Out(b)) /\ Cardinality(Out(b)) \in Nat
      BY <1>3, OutCounted DEF PoolsInv
    <3>4. Cardinality(Out(b) \ {x}) = Cardinality(Out(b)) - 1
      BY <3>2, <3>3, FS_RemoveElement
    <3>5. Distinct(free'[b]) /\ Entries(free'[b]) = (1..size'[b]) \ (Out(b) \ {x})
      BY <1>5, <1>6, <1>8, <3>1 DEF ChainOK
    <3>6. usedInBlob'[b] = Cardinality(Out(b) \ {x})
      BY <1>6, <3>1, <3>4 DEF ChainOK
    <3> QED BY <2>3, <3>2, <3>5, <3>6 DEF ChainOK, Distinct, Entries
  <2> QED BY <2>2, <2>3
<1>14. CountsCoverUse'
  <2> SUFFICES ASSUME NEW q \in Pools
               PROVE  /\ Cardinality(HeldFrom(q)') <= used'[q] /\ used'[q] <= peak'[q]
                      /\ total'[q] = SumFunctionOnSet(size', Live(q)')
    BY DEF CountsCoverUse
  <2>1. /\ Cardinality(HeldFrom(q)) <= used[q] /\ used[q] <= peak[q] /\ used[q] \in Int
        /\ total[q] = SumFunctionOnSet(size, Live(q))
    BY DEF PoolsInv, PoolsTypeOK, CountsCoverUse
  <2>2. HeldFrom(q)' = HeldFrom(q) \ {<<b, x>>}
    BY <1>3, <1>11 DEF HeldFrom
  <2>3. PICK H : H = HeldFrom(q)
    OBVIOUS
  <2>4. IsFiniteSet(H) /\ H \ {<<b, x>>} \in SUBSET H
    BY <2>3, HeldCounted DEF PoolsInv
  <2>5. /\ Cardinality(H) \in Nat /\ Cardinality(H \ {<<b, x>>}) \in Nat
        /\ Cardinality(H \ {<<b, x>>}) <= Cardinality(H)
    BY <2>4, FS_Subset, FS_CardinalityType
  <2> QED BY <1>3, <1>4, <1>11, <2>1, <2>2, <2>3, <2>5
<1>15. <<b, x>> \in BlocksOfPools
  <2>1. size[b] \in BlobSizes
    BY <1>1, <1>3 DEF PoolsInv, SizesKnown
  <2> QED BY <1>5, <2>1 DEF BlocksOfPools
<1> QED BY <1>2, <1>3, <1>10, <1>12, <1>13, <1>14, <1>15 DEF PoolsInv

\* Release_Empties: the blobs D that are freed have no block in use.
LEMMA ReleaseEmptiesKeeps ==
  ASSUME PoolsInv, NEW p \in Pools, ReleaseEmpties(p)
  PROVE  PoolsInv' /\ held' = held
<1>1. PICK n \in 1..Len(blobs[p]) : Freed(p, {blobs[p][i] : i \in 1..n} \cap Empties(p))
  BY DEF ReleaseEmpties
<1>2. PICK D : D = {blobs[p][i] : i \in 1..n} \cap Empties(p)
  OBVIOUS
<1>3. PICK rest : rest = Without(blobs[p], D)
  OBVIOUS
<1>4. /\ blobs' = [blobs EXCEPT ![p] = rest]
      /\ used' = [used EXCEPT ![p] = used[p] - SumFunctionOnSet(usedInBlob, D)]
      /\ total' = [total EXCEPT ![p] = @ - SumFunctionOnSet(size, D)]
      /\ firstFree' = [firstFree EXCEPT ![p] = IF @ \notin D THEN @
                                               ELSE IF rest = << >> THEN NoBlob ELSE Head(rest)]
  BY <1>1, <1>2, <1>3 DEF Freed, CountWithout
<1>5. size' = size /\ free' = free /\ usedInBlob' = usedInBlob /\ peak' = peak /\ held' = held
  BY DEF ReleaseEmpties
<1>6. /\ blobs[p] \in Seq(Blobs) /\ Live(p) = Entries(blobs[p]) /\ Live(p) \subseteq Blobs
      /\ IsFiniteSet(Live(p)) /\ Distinct(blobs[p])
  BY LiveBlobs DEF PoolsInv, BlobsApart
<1>7. D \in SUBSET Live(p) /\ IsFiniteSet(D) /\ \A b \in D : usedInBlob[b] = 0
  <2>1. D \in SUBSET Live(p) /\ \A b \in D : usedInBlob[b] = 0
    BY <1>2 DEF Empties
  <2> QED BY <1>6, <2>1, FS_Subset
<1>8. rest \in Seq(Blobs) /\ Distinct(rest) /\ Entries(rest) = Live(p) \ D
  BY <1>3, <1>6, WithoutKeepsRest
<1>9. blobs'[p] = rest /\ \A q \in Pools : q # p => blobs'[q] = blobs[q]
  BY <1>4 DEF PoolsInv, PoolsTypeOK
<1>10. Live(p)' = Live(p) \ D /\ \A q \in Pools : q # p => Live(q)' = Live(q)
  <2>1. {rest[i] : i \in 1..Len(rest)} = Live(p) \ D
    BY <1>8 DEF Entries
  <2> QED BY <1>9, <2>1 DEF Live
<1>11. \A q \in Pools : Live(q)' \subseteq Live(q)
  BY <1>10
<1>12. SumFunctionOnSet(usedInBlob, D) = 0
  BY <1>7, SumOfZeros
<1>13. \A b \in Live(p) : size[b] \in Nat
  BY <1>6 DEF PoolsInv, PoolsTypeOK
<1>14. /\ SumFunctionOnSet(size, D) \in Nat /\ SumFunctionOnSet(size, Live(p) \ D) \in Nat
       /\ SumFunctionOnSet(size, Live(p)) = SumFunctionOnSet(size, D) + SumFunctionOnSet(size, Live(p) \ D)
  <2>1. SumFunctionOnSet(size, Live(p)) = SumFunctionOnSet(size, D) + SumFunctionOnSet(size, Live(p) \ D)
    BY <1>6, <1>7, <1>13, SumOfParts
  <2>2. SumFunctionOnSet(size, D) \in Nat
    <3>1. \A b \in D : size[b] \in Nat
      BY <1>7, <1>13
    <3> QED BY <1>7, <3>1, SumIsNat
  <2>3. SumFunctionOnSet(size, Live(p) \ D) \in Nat
    <3>1. PICK L \in SUBSET Live(p) : L = Live(p) \ D
      OBVIOUS
    <3>2. IsFiniteSet(L) /\ \A b \in L : size[b] \in Nat
      BY <1>6, <1>13, <3>1, FS_Subset
    <3> QED BY <3>1, <3>2, SumIsNat
  <2> QED BY <2>1, <2>2, <2>3
<1>15. used' = used
  BY <1>4, <1>12 DEF PoolsInv, PoolsTypeOK
<1>16. \A block \in held : block[1] \notin D
  <2> SUFFICES ASSUME NEW block \in held, block[1] \in D PROVE FALSE
    OBVIOUS
  <2>1. PICK b \in Blobs, i \in Nat : block = <<b, i>>
    BY DEF PoolsInv, PoolsTypeOK
  <2>2. PICK q \in ClassPools : block[1] \in Live(q) /\ block[2] \in 1..size[block[1]]
    BY DEF PoolsInv, HeldPlaces
  <2>3. i \in Out(b)
    BY <2>1, <2>2 DEF Out
  <2>4. IsFiniteSet(Out(b)) /\ Cardinality(Out(b)) = 0
    <3>1. ChainOK(b) /\ usedInBlob[b] = 0
      BY <1>7, <2>1 DEF PoolsInv, ChainsOK
    <3> QED BY <3>1, OutCounted DEF ChainOK, PoolsInv
  <2> QED BY <2>3, <2>4, FS_EmptySet
<1>17. rest # << >> => Head(rest) \in Live(p) \ D
  <2>1. rest # << >> => Head(rest) = rest[1] /\ 1 \in 1..Len(rest)
    BY <1>8
  <2> QED BY <1>8, <2>1 DEF Entries
<1>18. /\ firstFree'[p] = IF firstFree[p] \notin D THEN firstFree[p]
                          ELSE IF rest = << >> THEN NoBlob ELSE Head(rest)
       /\ \A q \in Pools : q # p => firstFree'[q] = firstFree[q]
  BY <1>4 DEF PoolsInv, PoolsTypeOK
<1>19. PoolsTypeOK'
  <2>1. blobs' \in [Pools -> Seq(Blobs)]
    BY <1>4, <1>8 DEF PoolsInv, PoolsTypeOK
  <2>2. firstFree' \in [Pools -> Blobs \cup {NoBlob}]
    BY <1>4, <1>6, <1>17 DEF PoolsInv, PoolsTypeOK
  <2>3. total' \in [Pools -> Int]
    <3>1. PICK z : z = SumFunctionOnSet(size, D)
      OBVIOUS
    <3>2. z \in Nat /\ total' = [total EXCEPT ![p] = total[p] - z]
      BY <1>4, <1>14, <3>1
    <3>3. total \in [Pools -> Int]
      BY DEF PoolsInv, PoolsTypeOK
    <3>4. total[p] - z \in Int
      BY <3>2, <3>3
    <3> QED BY <3>2, <3>3, <3>4
  <2> QED BY <1>5, <1>15, <2>1, <2>2, <2>3 DEF PoolsInv, PoolsTypeOK
<1>20. BlobsApart'
  <2>1. \A q \in Pools : Distinct(blobs'[q])
    BY <1>8, <1>9 DEF PoolsInv, BlobsApart
  <2>2. \A q, r \in Pools : q # r => Live(q)' \cap Live(r)' = {}
    BY <1>11 DEF PoolsInv, BlobsApart
  <2> QED BY <2>1, <2>2 DEF BlobsApart, Distinct
<1>21. RemembersOwn'
  <2> SUFFICES ASSUME NEW q \in Pools
               PROVE  IF firstFree'[q] = NoBlob THEN blobs'[q] = << >> ELSE firstFree'[q] \in Live(q)'
    BY DEF RemembersOwn
  <2>1. IF firstFree[q] = NoBlob THEN blobs[q] = << >> ELSE firstFree[q] \in Live(q)
    BY DEF PoolsInv, RemembersOwn
  <2>2. NoBlob \notin Live(p)
    BY <1>6, PoolAssumption
  <2>3. CASE q # p
    BY <1>9, <1>10, <1>18, <2>1, <2>3
  <2>4. CASE q = p /\ firstFree[p] # NoBlob
    BY <1>9, <1>10, <1>17, <1>18, <2>1, <2>2, <2>4
  <2>5. CASE q = p /\ firstFree[p] = NoBlob
    <3>1. FALSE
      BY <1>1, <2>1, <2>5
    <3> QED BY <3>1
  <2> QED BY <2>3, <2>4, <2>5
<1>22. HeldPlaces'
  <2> SUFFICES ASSUME NEW block \in held
               PROVE  \E q \in ClassPools : block[1] \in Live(q)' /\ block[2] \in 1..size[block[1]]
    BY <1>5 DEF HeldPlaces
  <2>1. PICK q \in ClassPools : block[1] \in Live(q) /\ block[2] \in 1..size[block[1]]
    BY DEF PoolsInv, HeldPlaces
  <2>2. block[1] \in Live(q)'
    BY <1>10, <1>16, <2>1, ClassPoolsArePools
  <2> QED BY <2>1, <2>2
<1>23. SizesKnown' /\ ChainsOK'
  <2>1. SizesKnown'
    BY <1>5, <1>11 DEF PoolsInv, SizesKnown, BlobSizes
  <2>2. ChainsOK'
    <3> SUFFICES ASSUME NEW q \in Pools, NEW c \in Live(q)' PROVE ChainOK(c)'
      BY DEF ChainsOK
    <3>1. ChainOK(c)
      BY <1>11 DEF PoolsInv, ChainsOK
    <3> QED BY <1>5, <3>1, ChainFrame
  <2> QED BY <2>1, <2>2
<1>24. CountsCoverUse'
  <2> SUFFICES ASSUME NEW q \in Pools
               PROVE  /\ Cardinality(HeldFrom(q)') <= used'[q] /\ used'[q] <= peak'[q]
                      /\ total'[q] = SumFunctionOnSet(size', Live(q)')
    BY DEF CountsCoverUse
  <2>1. /\ Cardinality(HeldFrom(q)) <= used[q] /\ used[q] <= peak[q]
        /\ total[q] = SumFunctionOnSet(size, Live(q)) /\ total[q] \in Int
    BY DEF PoolsInv, PoolsTypeOK, CountsCoverUse
  <2>2. HeldFrom(q)' = HeldFrom(q)
    BY <1>5, <1>10, <1>16 DEF HeldFrom
  <2>3. total'[q] = SumFunctionOnSet(size', Live(q)')
    <3>1. CASE q = p
      <4>1. total'[p] = total[p] - SumFunctionOnSet(size, D)
        BY <1>4 DEF PoolsInv, PoolsTypeOK
      <4>2. total'[p] = SumFunctionOnSet(size, Live(p) \ D)
        BY <1>14, <2>1, <3>1, <4>1
      <4> QED BY <1>5, <1>10, <3>1, <4>2
    <3>2. CASE q # p
      <4>1. total'[q] = total[q] /\ Live(q)' = Live(q)
        BY <1>4, <1>10, <3>2 DEF PoolsInv, PoolsTypeOK
      <4> QED BY <1>5, <2>1, <4>1
    <3> QED BY <3>1, <3>2
  <2> QED BY <1>5, <1>15, <2>1, <2>2, <2>3
<1> QED BY <1>5, <1>19, <1>20, <1>21, <1>22, <1>23, <1>24 DEF PoolsInv

\* A new blob is whole, and none of its blocks is out.
LEMMA FreshChain ==
  ASSUME NEW b, NEW n \in Nat, size'[b] = n, free'[b] = FullChain(n), usedInBlob'[b] = 0, held' = {}
  PROVE  ChainOK(b)'
<1>1. Out(b)' = {}
  BY DEF Out
<1>2. Distinct(free'[b]) /\ Entries(free'[b]) = 1..n
  BY FullChainEntries
<1>3. Cardinality({}) = 0
  BY FS_EmptySet
<1> QED BY <1>1, <1>2, <1>3 DEF ChainOK, Distinct, Entries

\* Reset of the pools of the size classes: no block is out any more.
LEMMA ResetPoolsKeeps ==
  ASSUME PoolsInv, ResetPools(ClassPools)
  PROVE  PoolsInv' /\ held' = {}
<1>1. PICK first \in [ClassPools -> Blobs \ UNION {Live(q) : q \in Pools \ ClassPools}] : InitialBlob(ClassPools, first)
  BY DEF ResetPools
<1>2. PICK fresh : fresh = {first[p] : p \in ClassPools}
  OBVIOUS
<1>3. \A p, q \in ClassPools : first[p] = first[q] => p = q
  BY <1>1 DEF InitialBlob
<1>4. ClassPools \subseteq Pools
  BY ClassPoolsArePools
<1>5. held' = {}
  <2>1. \A block \in held : \E p \in ClassPools : block \in HeldFrom(p)
    BY DEF PoolsInv, HeldPlaces, HeldFrom
  <2>2. held' = held \ UNION {HeldFrom(p) : p \in ClassPools}
    BY DEF ResetPools
  <2> QED BY <2>1, <2>2
<1>6. \A p \in ClassPools : InitialCount[p] \in Nat \ {0} /\ InitialCount[p] \in BlobSizes
  BY <1>4, PoolAssumption DEF BlobSizes
<1>7. blobs' = [p \in Pools |-> IF p \in ClassPools THEN <<first[p]>> ELSE blobs[p]]
  BY <1>1 DEF InitialBlob
<1>8. /\ firstFree' = [p \in Pools |-> IF p \in ClassPools THEN first[p] ELSE firstFree[p]]
      /\ used' = [p \in Pools |-> IF p \in ClassPools THEN 0 ELSE used[p]]
      /\ total' = [p \in Pools |-> IF p \in ClassPools THEN InitialCount[p] ELSE total[p]]
      /\ peak' = [p \in Pools |-> IF p \in ClassPools THEN 0 ELSE peak[p]]
  BY <1>1 DEF InitialBlob
<1> DEFINE count(b) == InitialCount[CHOOSE p \in ClassPools : first[p] = b]
<1>9. /\ size' = [b \in Blobs |-> IF b \in fresh THEN count(b) ELSE size[b]]
      /\ free' = [b \in Blobs |-> IF b \in fresh THEN FullChain(count(b)) ELSE free[b]]
      /\ usedInBlob' = [b \in Blobs |-> IF b \in fresh THEN 0 ELSE usedInBlob[b]]
  BY <1>1, <1>2 DEF InitialBlob
<1>10. \A p \in ClassPools : count(first[p]) = InitialCount[p]
  <2> SUFFICES ASSUME NEW p \in ClassPools PROVE (CHOOSE q \in ClassPools : first[q] = first[p]) = p
    OBVIOUS
  <2> QED BY <1>3
<1> HIDE DEF count
<1>11. \A p \in ClassPools : first[p] \in Blobs /\ \A q \in Pools \ ClassPools : first[p] \notin Live(q)
  OBVIOUS
<1>12. \A b \in fresh : b \in Blobs /\ count(b) \in Nat /\ FullChain(count(b)) \in Seq(Nat)
  BY <1>2, <1>6, <1>10, <1>11, FullChainEntries
<1>13. /\ \A p \in ClassPools : Live(p)' = {first[p]} /\ blobs'[p] = <<first[p]>>
       /\ \A q \in Pools \ ClassPools : Live(q)' = Live(q) /\ blobs'[q] = blobs[q]
  <2>1. \A p \in ClassPools : blobs'[p] = <<first[p]>>
    BY <1>4, <1>7
  <2>2. \A q \in Pools \ ClassPools : blobs'[q] = blobs[q]
    BY <1>7
  <2>3. \A p \in ClassPools : Live(p)' = {first[p]}
    BY <2>1 DEF Live
  <2> QED BY <2>1, <2>2, <2>3 DEF Live
<1>14. PoolsTypeOK'
  <2>1. blobs' \in [Pools -> Seq(Blobs)] /\ firstFree' \in [Pools -> Blobs \cup {NoBlob}]
    <3>1. blobs' \in [Pools -> Seq(Blobs)]
      BY <1>7, <1>11 DEF PoolsInv, PoolsTypeOK
    <3> QED BY <1>8, <1>11, <3>1 DEF PoolsInv, PoolsTypeOK
  <2>2. /\ size' \in [Blobs -> Nat] /\ free' \in [Blobs -> Seq(Nat)] /\ usedInBlob' \in [Blobs -> Int]
    <3>1. size' \in [Blobs -> Nat]
      BY <1>9, <1>12 DEF PoolsInv, PoolsTypeOK
    <3>2. free' \in [Blobs -> Seq(Nat)]
      BY <1>9, <1>12 DEF PoolsInv, PoolsTypeOK
    <3>3. usedInBlob' \in [Blobs -> Int]
      BY <1>9 DEF PoolsInv, PoolsTypeOK
    <3> QED BY <3>1, <3>2, <3>3
  <2>3. used' \in [Pools -> Int] /\ total' \in [Pools -> Int] /\ peak' \in [Pools -> Int]
    BY <1>6, <1>8 DEF PoolsInv, PoolsTypeOK
  <2>4. held' \subseteq Blobs \X Nat /\ IsFiniteSet(held')
    BY <1>5, FS_EmptySet
  <2> QED BY <2>1, <2>2, <2>3, <2>4 DEF PoolsTypeOK
<1>15. BlobsApart'
  <2>1. \A q \in Pools : Distinct(blobs'[q])
    BY <1>13 DEF PoolsInv, BlobsApart, Distinct
  <2>2. \A q, r \in Pools : q # r => Live(q)' \cap Live(r)' = {}
    <3> SUFFICES ASSUME NEW q \in Pools, NEW r \in Pools, q # r, NEW b, b \in Live(q)', b \in Live(r)'
                 PROVE  FALSE
      OBVIOUS
    <3> QED BY <1>3, <1>11, <1>13 DEF PoolsInv, BlobsApart
  <2> QED BY <2>1, <2>2 DEF BlobsApart, Distinct
<1>16. RemembersOwn'
  <2> SUFFICES ASSUME NEW q \in Pools
               PROVE  IF firstFree'[q] = NoBlob THEN blobs'[q] = << >> ELSE firstFree'[q] \in Live(q)'
    BY DEF RemembersOwn
  <2> QED BY <1>8, <1>11, <1>13, PoolAssumption DEF PoolsInv, RemembersOwn
<1>17. HeldPlaces'
  BY <1>5 DEF HeldPlaces
<1>18. \A q \in Pools \ ClassPools : \A c \in Live(q) : /\ size'[c] = size[c] /\ free'[c] = free[c]
                                                        /\ usedInBlob'[c] = usedInBlob[c]
  <2> SUFFICES ASSUME NEW q \in Pools \ ClassPools, NEW c \in Live(q)
               PROVE  size'[c] = size[c] /\ free'[c] = free[c] /\ usedInBlob'[c] = usedInBlob[c]
    OBVIOUS
  <2>1. c \in Blobs /\ c \notin fresh
    BY <1>2, <1>11, LiveBlobs DEF PoolsInv
  <2> QED BY <1>9, <2>1
<1>19. \A p \in ClassPools : /\ size'[first[p]] = InitialCount[p] /\ free'[first[p]] = FullChain(InitialCount[p])
                             /\ usedInBlob'[first[p]] = 0
  <2> SUFFICES ASSUME NEW p \in ClassPools
               PROVE  /\ size'[first[p]] = InitialCount[p] /\ free'[first[p]] = FullChain(InitialCount[p])
                      /\ usedInBlob'[first[p]] = 0
    OBVIOUS
  <2>1. first[p] \in Blobs /\ first[p] \in fresh /\ count(first[p]) = InitialCount[p]
    BY <1>2, <1>10, <1>11
  <2> QED BY <1>9, <2>1
<1>20. SizesKnown'
  <2> SUFFICES ASSUME NEW q \in Pools, NEW c \in Live(q)' PROVE size'[c] \in BlobSizes
    BY DEF SizesKnown, BlobSizes
  <2> QED BY <1>6, <1>13, <1>18, <1>19 DEF PoolsInv, SizesKnown
<1>21. ChainsOK'
  <2> SUFFICES ASSUME NEW q \in Pools, NEW c \in Live(q)' PROVE ChainOK(c)'
    BY DEF ChainsOK
  <2>1. CASE q \in ClassPools
    <3>1. /\ InitialCount[q] \in Nat /\ size'[c] = InitialCount[q] /\ free'[c] = FullChain(InitialCount[q])
          /\ usedInBlob'[c] = 0
      BY <1>6, <1>13, <1>19, <2>1
    <3> QED BY <1>5, <3>1, FreshChain
  <2>2. CASE q \notin ClassPools
    <3>1. c \in Live(q) /\ ChainOK(c)
      BY <1>13, <2>2 DEF PoolsInv, ChainsOK
    <3>2. \A i : <<c, i>> \notin held
      <4> SUFFICES ASSUME NEW i, <<c, i>> \in held PROVE FALSE
        OBVIOUS
      <4>1. PICK p \in ClassPools : <<c, i>>[1] \in Live(p)
        BY DEF PoolsInv, HeldPlaces
      <4> QED BY <1>4, <2>2, <3>1, <4>1 DEF PoolsInv, BlobsApart
    <3>3. size'[c] = size[c] /\ free'[c] = free[c] /\ usedInBlob'[c] = usedInBlob[c]
      BY <1>18, <2>2, <3>1
    <3> QED BY <1>5, <3>1, <3>2, <3>3, ChainFrame
  <2> QED BY <2>1, <2>2
<1>22. CountsCoverUse'
  <2> SUFFICES ASSUME NEW q \in Pools
               PROVE  /\ Cardinality(HeldFrom(q)') <= used'[q] /\ used'[q] <= peak'[q]
                      /\ total'[q] = SumFunctionOnSet(size', Live(q)')
    BY DEF CountsCoverUse
  <2>1. Cardinality(HeldFrom(q)') = 0
    <3>1. HeldFrom(q)' = {}
      BY <1>5 DEF HeldFrom
    <3> QED BY <3>1, FS_EmptySet
  <2>2. CASE q \in ClassPools
    <3>1. used'[q] = 0 /\ peak'[q] = 0 /\ total'[q] = InitialCount[q]
      BY <1>8, <2>2
    <3>2. InitialCount[q] \in Nat /\ size'[first[q]] = InitialCount[q] /\ Live(q)' = {first[q]}
      BY <1>6, <1>13, <1>19, <2>2
    <3>3. SumFunctionOnSet(size', {} \cup {first[q]}) = size'[first[q]] + SumFunctionOnSet(size', {})
      BY <3>2, SumWith, FS_EmptySet
    <3>4. SumFunctionOnSet(size', {first[q]}) = InitialCount[q] + 0
      BY <3>2, <3>3, SumOfNone
    <3> QED BY <2>1, <3>1, <3>2, <3>4
  <2>3. CASE q \notin ClassPools
    <3>1. used'[q] = used[q] /\ peak'[q] = peak[q] /\ total'[q] = total[q] /\ Live(q)' = Live(q)
      BY <1>8, <1>13, <2>3
    <3>2. /\ Cardinality(HeldFrom(q)) <= used[q] /\ used[q] <= peak[q] /\ used[q] \in Int
          /\ total[q] = SumFunctionOnSet(size, Live(q)) /\ Cardinality(HeldFrom(q)) \in Nat
      BY HeldCounted DEF PoolsInv, PoolsTypeOK, CountsCoverUse
    <3>3. IsFiniteSet(Live(q)) /\ \A c \in Live(q) : size[c] \in Nat /\ size[c] = size'[c]
      BY <1>18, <2>3, LiveBlobs DEF PoolsInv, PoolsTypeOK
    <3>4. SumFunctionOnSet(size, Live(q)) = SumFunctionOnSet(size', Live(q))
      BY <3>3, SumSame
    <3> QED BY <2>1, <3>1, <3>2, <3>4
  <2> QED BY <2>2, <2>3
<1> QED BY <1>5, <1>14, <1>15, <1>16, <1>17, <1>20, <1>21, <1>22 DEF PoolsInv

-----------------------------------------------------------------------------
(* Steps of the list of raw blocks.                                         *)

\* Raw_Allocate_Single_Block: the new block comes first.
LEMMA AllocateRawKeeps ==
  ASSUME RawTypeOK, RawListed, NEW bytes, NEW r \in RawBlocks, AllocateRaw(bytes, r)
  PROVE  RawTypeOK' /\ RawListed'
<1>1. PICK q : Listed(q)
  BY DEF RawListed
<1>2. /\ q \in Seq(RawBlocks) /\ Len(q) \in Nat /\ Distinct(q) /\ r \notin Entries(q)
      /\ rawHead = IF Len(q) = 0 THEN Null ELSE q[1]
      /\ \A i \in 1..Len(q) : /\ rawNext[q[i]] = IF i = Len(q) THEN Null ELSE q[i + 1]
                              /\ rawPrev[q[i]] = IF i = 1 THEN Null ELSE q[i - 1]
  BY <1>1 DEF Listed, AllocateRaw
<1>3. PICK l : l = <<r>> \o q
  OBVIOUS
<1>4. l \in Seq(RawBlocks) /\ Distinct(l) /\ Entries(l) = Entries(q) \cup {r}
  BY <1>2, <1>3, FrontEntries
<1>5. Len(l) = Len(q) + 1 /\ l[1] = r /\ \A i \in 1..Len(q) : l[i + 1] = q[i]
  BY <1>2, <1>3
<1>6. /\ rawNext' = [rawNext EXCEPT ![r] = rawHead] /\ rawHead' = r /\ raw' = raw \cup {r}
      /\ rawPrev' = [x \in RawBlocks |-> IF x = rawHead THEN r ELSE IF x = r THEN Null ELSE rawPrev[x]]
  BY DEF AllocateRaw
<1>7. RawTypeOK'
  BY <1>6 DEF RawTypeOK
<1>8. \A i \in 1..Len(q) : q[i] \in RawBlocks /\ q[i] # r /\ (i > 1 => q[i] # rawHead)
  <2> SUFFICES ASSUME NEW i \in 1..Len(q) PROVE q[i] \in RawBlocks /\ q[i] # r /\ (i > 1 => q[i] # rawHead)
    OBVIOUS
  <2>1. q[i] \in RawBlocks /\ q[i] # r
    BY <1>2 DEF Entries
  <2>2. i > 1 => q[i] # q[1]
    BY <1>2 DEF Distinct
  <2> QED BY <1>2, <2>1, <2>2
<1>9. ASSUME NEW i \in 1..Len(l)
      PROVE  /\ rawNext'[l[i]] = IF i = Len(l) THEN Null ELSE l[i + 1]
             /\ rawPrev'[l[i]] = IF i = 1 THEN Null ELSE l[i - 1]
  <2>1. CASE i = 1
    <3>1. rawNext'[r] = rawHead /\ (rawHead # r => rawPrev'[r] = Null)
      BY <1>6 DEF RawTypeOK
    <3>2. rawHead # r
      BY <1>2, <1>8, AllocatorAssumption
    <3>3. Len(q) # 0 => l[2] = q[1]
      BY <1>2, <1>5
    <3> QED BY <1>2, <1>5, <2>1, <3>1, <3>2, <3>3
  <2>2. CASE i # 1
    <3>1. PICK k \in 1..Len(q) : i = k + 1 /\ i - 1 = k
      <4>1. i - 1 \in 1..Len(q) /\ i = (i - 1) + 1
        BY <1>2, <1>5, <2>2
      <4> QED BY <4>1
    <3>2. l[i] = q[k]
      BY <1>5, <3>1
    <3>3. rawNext'[q[k]] = rawNext[q[k]] /\ rawPrev'[q[k]] = IF k = 1 THEN r ELSE rawPrev[q[k]]
      BY <1>2, <1>6, <1>8 DEF RawTypeOK
    <3>4. i # Len(l) => k # Len(q) /\ k + 1 \in 1..Len(q) /\ l[i + 1] = q[k + 1]
      <4>1. i # Len(l) => k # Len(q) /\ k + 1 \in 1..Len(q)
        BY <1>2, <1>5, <3>1
      <4> QED BY <1>5, <3>1, <4>1
    <3>5. k # 1 => l[i - 1] = q[k - 1]
      <4>1. k # 1 => k - 1 \in 1..Len(q) /\ (k - 1) + 1 = i - 1
        BY <1>2, <3>1
      <4> QED BY <1>5, <4>1
    <3>6. rawNext'[l[i]] = IF i = Len(l) THEN Null ELSE l[i + 1]
      BY <1>2, <1>5, <3>1, <3>2, <3>3, <3>4
    <3>7. rawPrev'[l[i]] = l[i - 1]
      BY <1>2, <1>5, <3>1, <3>2, <3>3, <3>5
    <3> QED BY <2>2, <3>6, <3>7
  <2> QED BY <2>1, <2>2
<1>10. Entries(l) = raw'
  BY <1>1, <1>4, <1>6 DEF Listed
<1>11. rawHead' = IF Len(l) = 0 THEN Null ELSE l[1]
  BY <1>2, <1>5, <1>6
<1>12. Listed(l)'
  BY <1>4, <1>9, <1>10, <1>11 DEF Listed, Distinct, Entries
<1> QED BY <1>7, <1>12 DEF RawListed

\* A list without the entry at one place.
Skipping(q, k) == [i \in 1..(Len(q) - 1) |-> IF i < k THEN q[i] ELSE q[i + 1]]

LEMMA SkippingKeepsRest ==
  ASSUME NEW S, NEW q \in Seq(S), Distinct(q), NEW k \in 1..Len(q)
  PROVE  /\ Skipping(q, k) \in Seq(S) /\ Len(Skipping(q, k)) = Len(q) - 1
         /\ Distinct(Skipping(q, k)) /\ Entries(Skipping(q, k)) = Entries(q) \ {q[k]}
<1>1. PICK l : l = Skipping(q, k)
  OBVIOUS
<1>2. Len(q) \in Nat /\ Len(q) - 1 \in Nat
  OBVIOUS
<1>3. l \in Seq(S) /\ Len(l) = Len(q) - 1
  BY <1>1, <1>2 DEF Skipping
<1> DEFINE from(i) == IF i < k THEN i ELSE i + 1
<1>4. \A i \in 1..Len(l) : from(i) \in 1..Len(q) /\ from(i) # k /\ l[i] = q[from(i)]
  BY <1>1, <1>2, <1>3 DEF Skipping
<1>5. \A i, j \in 1..Len(l) : from(i) = from(j) => i = j
  BY <1>3
<1>6. \A m \in 1..Len(q) : m # k => \E i \in 1..Len(l) : from(i) = m
  <2> SUFFICES ASSUME NEW m \in 1..Len(q), m # k PROVE \E i \in 1..Len(l) : from(i) = m
    OBVIOUS
  <2>1. CASE m < k
    <3>1. m \in 1..Len(l) /\ from(m) = m
      BY <1>3, <2>1
    <3> QED BY <3>1
  <2>2. CASE ~(m < k)
    <3>1. m - 1 \in 1..Len(l) /\ from(m - 1) = m
      BY <1>3, <2>2
    <3> QED BY <3>1
  <2> QED BY <2>1, <2>2
<1> HIDE DEF from
<1>7. Distinct(l)
  BY <1>4, <1>5 DEF Distinct
<1>8. Entries(l) = Entries(q) \ {q[k]}
  <2>1. ASSUME NEW x \in Entries(l) PROVE x \in Entries(q) \ {q[k]}
    <3>1. PICK i \in 1..Len(l) : x = l[i]
      BY DEF Entries
    <3> QED BY <1>4, <3>1 DEF Entries, Distinct
  <2>2. ASSUME NEW x \in Entries(q) \ {q[k]} PROVE x \in Entries(l)
    <3>1. PICK m \in 1..Len(q) : x = q[m] /\ m # k
      BY DEF Entries
    <3>2. PICK i \in 1..Len(l) : from(i) = m
      BY <1>6, <3>1
    <3>3. x = l[i]
      BY <1>4, <3>1, <3>2
    <3> QED BY <3>3 DEF Entries
  <2> QED BY <2>1, <2>2
<1> QED BY <1>1, <1>3, <1>7, <1>8

\* Remove_Block_From_List of the k-th block: the one before it and the one after it are linked.
LEMMA FreeRawKeeps ==
  ASSUME RawTypeOK, RawListed, NEW r \in raw, FreeRaw(r)
  PROVE  RawTypeOK' /\ RawListed'
<1>1. PICK q : Listed(q)
  BY DEF RawListed
<1>2. /\ q \in Seq(RawBlocks) /\ Len(q) \in Nat /\ Distinct(q) /\ Entries(q) = raw
      /\ rawHead = IF Len(q) = 0 THEN Null ELSE q[1]
  BY <1>1 DEF Listed
<1>3. \A i \in 1..Len(q) : /\ q[i] \in RawBlocks /\ q[i] # Null
                           /\ rawNext[q[i]] = IF i = Len(q) THEN Null ELSE q[i + 1]
                           /\ rawPrev[q[i]] = IF i = 1 THEN Null ELSE q[i - 1]
  <2>1. \A i \in 1..Len(q) : q[i] \in RawBlocks
    BY <1>2
  <2> QED BY <1>1, <2>1, AllocatorAssumption DEF Listed
<1>4. PICK k \in 1..Len(q) : r = q[k]
  BY <1>2 DEF Entries
<1>5. /\ rawHead' = IF rawPrev[r] = Null THEN rawNext[r] ELSE rawHead
      /\ rawNext' = [x \in RawBlocks |-> IF x = rawPrev[r] THEN rawNext[r] ELSE rawNext[x]]
      /\ rawPrev' = [x \in RawBlocks |-> IF x = rawNext[r] THEN rawPrev[r] ELSE rawPrev[x]]
      /\ raw' = raw \ {r}
  BY DEF FreeRaw, Unlinked
<1>6. RawTypeOK'
  BY <1>5 DEF RawTypeOK
<1>7. PICK l : l = Skipping(q, k)
  OBVIOUS
<1>8. l \in Seq(RawBlocks) /\ Len(l) = Len(q) - 1 /\ Distinct(l) /\ Entries(l) = raw'
  BY <1>2, <1>4, <1>5, <1>7, SkippingKeepsRest
<1>9. \A i \in 1..(Len(q) - 1) : l[i] = IF i < k THEN q[i] ELSE q[i + 1]
  BY <1>7 DEF Skipping
<1>10. rawPrev[r] = IF k = 1 THEN Null ELSE q[k - 1]
  BY <1>3, <1>4
<1>11. rawNext[r] = IF k = Len(q) THEN Null ELSE q[k + 1]
  BY <1>3, <1>4
<1>12. ASSUME NEW j \in 1..Len(q)
       PROVE  /\ rawNext'[q[j]] = IF k # 1 /\ j = k - 1 THEN rawNext[r] ELSE rawNext[q[j]]
              /\ rawPrev'[q[j]] = IF k # Len(q) /\ j = k + 1 THEN rawPrev[r] ELSE rawPrev[q[j]]
  <2>1. q[j] = rawPrev[r] <=> k # 1 /\ j = k - 1
    <3>1. k # 1 => k - 1 \in 1..Len(q)
      BY <1>2
    <3> QED BY <1>2, <1>3, <1>10, <3>1 DEF Distinct
  <2>2. q[j] = rawNext[r] <=> k # Len(q) /\ j = k + 1
    <3>1. k # Len(q) => k + 1 \in 1..Len(q)
      BY <1>2
    <3> QED BY <1>2, <1>3, <1>11, <3>1 DEF Distinct
  <2> QED BY <1>3, <1>5, <2>1, <2>2
<1>13. rawHead' = IF Len(l) = 0 THEN Null ELSE l[1]
  <2>1. CASE k = 1
    <3>1. Len(l) # 0 => l[1] = q[2]
      BY <1>2, <1>8, <1>9, <2>1
    <3> QED BY <1>2, <1>5, <1>8, <1>10, <1>11, <2>1, <3>1
  <2>2. CASE k # 1
    <3>1. k - 1 \in 1..Len(q) /\ Len(l) # 0 /\ l[1] = q[1]
      BY <1>2, <1>8, <1>9, <2>2
    <3>2. rawPrev[r] # Null
      BY <1>3, <1>10, <2>2, <3>1
    <3> QED BY <1>2, <1>5, <3>1, <3>2
  <2> QED BY <2>1, <2>2
<1>14. ASSUME NEW i \in 1..Len(l)
       PROVE  rawNext'[l[i]] = IF i = Len(l) THEN Null ELSE l[i + 1]
  <2>1. CASE i < k - 1
    <3>1. i \in 1..Len(q) /\ i # k - 1 /\ i # Len(q) /\ i # Len(l) /\ l[i] = q[i] /\ l[i + 1] = q[i + 1]
      BY <1>2, <1>8, <1>9, <2>1
    <3> QED BY <1>3, <1>12, <3>1
  <2>2. CASE i = k - 1
    <3>1. i \in 1..Len(q) /\ k # 1 /\ l[i] = q[i] /\ (i = Len(l) <=> k = Len(q))
      BY <1>2, <1>8, <1>9, <2>2
    <3>2. i # Len(l) => l[i + 1] = q[k + 1]
      BY <1>2, <1>8, <1>9, <2>2
    <3> QED BY <1>11, <1>12, <2>2, <3>1, <3>2
  <2>3. CASE i > k - 1
    <3>1. i + 1 \in 1..Len(q) /\ i + 1 # k - 1 /\ l[i] = q[i + 1] /\ (i = Len(l) <=> i + 1 = Len(q))
      BY <1>2, <1>8, <1>9, <2>3
    <3>2. i # Len(l) => l[i + 1] = q[(i + 1) + 1]
      BY <1>2, <1>8, <1>9, <2>3
    <3> QED BY <1>3, <1>12, <3>1, <3>2
  <2> QED BY <1>8, <2>1, <2>2, <2>3
<1>15. ASSUME NEW i \in 1..Len(l)
       PROVE  rawPrev'[l[i]] = IF i = 1 THEN Null ELSE l[i - 1]
  <2>1. CASE i < k
    <3>1. i \in 1..Len(q) /\ i # k + 1 /\ l[i] = q[i] /\ (i # 1 => l[i - 1] = q[i - 1])
      BY <1>2, <1>8, <1>9, <2>1
    <3> QED BY <1>3, <1>12, <3>1
  <2>2. CASE i = k
    <3>1. k + 1 \in 1..Len(q) /\ k # Len(q) /\ l[i] = q[k + 1] /\ (i # 1 => l[i - 1] = q[k - 1])
      BY <1>2, <1>8, <1>9, <2>2
    <3> QED BY <1>10, <1>12, <2>2, <3>1
  <2>3. CASE i > k
    <3>1. i + 1 \in 1..Len(q) /\ i + 1 # k + 1 /\ i + 1 # 1 /\ i # 1 /\ l[i] = q[i + 1] /\ l[i - 1] = q[i]
      BY <1>2, <1>8, <1>9, <2>3
    <3>2. (i + 1) - 1 = i
      BY <1>8
    <3> QED BY <1>3, <1>12, <3>1, <3>2
  <2> QED BY <1>8, <2>1, <2>2, <2>3
<1>16. Listed(l)'
  BY <1>8, <1>13, <1>14, <1>15 DEF Listed, Distinct, Entries
<1> QED BY <1>6, <1>16 DEF RawListed

-----------------------------------------------------------------------------
(* The invariant holds of every behaviour.                                  *)

LEMMA InitInv == Init => IndInv
<1> SUFFICES ASSUME Init PROVE IndInv
  OBVIOUS
<1>1. RawTypeOK /\ inUse \in Int
  BY DEF Init, RawTypeOK
<1>2. RawListed
  <2>1. Listed(<< >>)
    BY DEF Init, Listed, Distinct, Entries
  <2> QED BY <2>1 DEF RawListed
<1> DEFINE owners(first, b) == {p \in Pools : first[p] = b}
           count(first, b) == IF owners(first, b) = {} THEN 0
                              ELSE InitialCount[CHOOSE p \in owners(first, b) : TRUE]
<1>3. PICK first \in [Pools -> Blobs] :
        /\ \A p, q \in Pools : first[p] = first[q] => p = q
        /\ size = [b \in Blobs |-> count(first, b)]
        /\ free = [b \in Blobs |-> FullChain(count(first, b))]
        /\ blobs = [p \in Pools |-> <<first[p]>>]
        /\ firstFree = first
  BY DEF Init, PoolsInit
<1>4. /\ usedInBlob = [b \in Blobs |-> 0] /\ held = {}
      /\ used = [p \in Pools |-> 0] /\ peak = [p \in Pools |-> 0] /\ total = InitialCount
  BY DEF Init, PoolsInit
<1>5. \A p \in Pools : InitialCount[p] \in Nat /\ InitialCount[p] \in BlobSizes
  BY PoolAssumption DEF BlobSizes
<1>6. \A p \in Pools : count(first, first[p]) = InitialCount[p]
  <2> SUFFICES ASSUME NEW p \in Pools PROVE count(first, first[p]) = InitialCount[p]
    OBVIOUS
  <2>1. owners(first, first[p]) = {p}
    BY <1>3
  <2> QED BY <2>1
<1>7. \A b \in Blobs : count(first, b) \in Nat
  BY <1>5
<1> HIDE DEF count
<1>8. \A p \in Pools : /\ size[first[p]] = InitialCount[p] /\ free[first[p]] = FullChain(InitialCount[p])
                       /\ usedInBlob[first[p]] = 0 /\ Live(p) = {first[p]} /\ Distinct(blobs[p])
  <2> SUFFICES ASSUME NEW p \in Pools
               PROVE  /\ size[first[p]] = InitialCount[p] /\ free[first[p]] = FullChain(InitialCount[p])
                      /\ usedInBlob[first[p]] = 0 /\ Live(p) = {first[p]} /\ Distinct(blobs[p])
    OBVIOUS
  <2>1. first[p] \in Blobs /\ blobs[p] = <<first[p]>>
    BY <1>3
  <2> QED BY <1>3, <1>4, <1>6, <2>1 DEF Live, Distinct
<1>9. PoolsTypeOK
  <2>1. blobs \in [Pools -> Seq(Blobs)] /\ size \in [Blobs -> Nat]
    BY <1>3, <1>7
  <2>2. free \in [Blobs -> Seq(Nat)]
    BY <1>3, <1>7, FullChainEntries
  <2>3. firstFree \in [Pools -> Blobs \cup {NoBlob}] /\ total \in [Pools -> Int]
    BY <1>3, <1>4, PoolAssumption
  <2> QED BY <1>4, <2>1, <2>2, <2>3, FS_EmptySet DEF PoolsTypeOK
<1>10. BlobsApart /\ RemembersOwn /\ HeldPlaces /\ SizesKnown
  <2>1. BlobsApart
    <3>1. \A p, q \in Pools : p # q => first[p] # first[q]
      BY <1>3
    <3>2. \A p, q \in Pools : p # q => Live(p) \cap Live(q) = {}
      BY <1>8, <3>1
    <3> QED BY <1>8, <3>2 DEF BlobsApart
  <2>2. RemembersOwn
    <3> SUFFICES ASSUME NEW p \in Pools PROVE firstFree[p] # NoBlob /\ firstFree[p] \in Live(p)
      BY DEF RemembersOwn
    <3>1. firstFree = first /\ first[p] \in Blobs
      BY <1>3
    <3> QED BY <1>8, <3>1, PoolAssumption
  <2> QED BY <1>4, <1>5, <1>8, <2>1, <2>2 DEF HeldPlaces, SizesKnown
<1>11. ChainsOK
  <2> SUFFICES ASSUME NEW p \in Pools PROVE ChainOK(first[p])
    BY <1>8 DEF ChainsOK
  <2>1. Distinct(FullChain(InitialCount[p])) /\ Entries(FullChain(InitialCount[p])) = 1..InitialCount[p]
    BY <1>5, FullChainEntries
  <2>2. Out(first[p]) = {} /\ Cardinality({}) = 0
    BY <1>4, FS_EmptySet DEF Out
  <2> QED BY <1>8, <2>1, <2>2 DEF ChainOK
<1>12. CountsCoverUse
  <2> SUFFICES ASSUME NEW p \in Pools
               PROVE  /\ Cardinality(HeldFrom(p)) <= used[p] /\ used[p] <= peak[p]
                      /\ total[p] = SumFunctionOnSet(size, Live(p))
    BY DEF CountsCoverUse
  <2>1. HeldFrom(p) = {} /\ Cardinality({}) = 0
    BY <1>4, FS_EmptySet DEF HeldFrom
  <2>2. SumFunctionOnSet(size, {} \cup {first[p]}) = size[first[p]] + SumFunctionOnSet(size, {})
    BY <1>5, <1>8, SumWith, FS_EmptySet
  <2>3. SumFunctionOnSet(size, {first[p]}) = InitialCount[p] + 0
    BY <1>8, <2>2, SumOfNone
  <2>4. used[p] = 0 /\ peak[p] = 0 /\ total[p] = InitialCount[p] /\ InitialCount[p] \in Nat
    BY <1>4, <1>5
  <2>5. Cardinality(HeldFrom(p)) = 0
    BY <2>1
  <2>6. SumFunctionOnSet(size, Live(p)) = InitialCount[p]
    <3>1. Live(p) = {first[p]}
      BY <1>8
    <3>2. SumFunctionOnSet(size, {first[p]}) = InitialCount[p]
      BY <2>3, <2>4
    <3> QED BY <3>1, <3>2
  <2> QED BY <2>4, <2>5, <2>6
<1> QED BY <1>1, <1>2, <1>9, <1>10, <1>11, <1>12 DEF IndInv, PoolsInv

\* A step that touches no pool, and one that touches no raw block.
LEMMA PoolsFrame ==
  ASSUME PoolsInv, UNCHANGED poolVars
  PROVE  PoolsInv'
<1>1. /\ blobs' = blobs /\ size' = size /\ free' = free /\ usedInBlob' = usedInBlob /\ firstFree' = firstFree
      /\ used' = used /\ total' = total /\ peak' = peak /\ held' = held
  BY DEF poolVars
<1>2. PoolsTypeOK'
  BY <1>1 DEF PoolsInv, PoolsTypeOK
<1>3. \A p : Live(p)' = Live(p) /\ HeldFrom(p)' = HeldFrom(p)
  BY <1>1 DEF Live, HeldFrom
<1>4. BlobsApart' /\ RemembersOwn'
  BY <1>1, <1>3 DEF PoolsInv, BlobsApart, RemembersOwn, Distinct
<1>5. HeldPlaces' /\ SizesKnown'
  BY <1>1, <1>3 DEF PoolsInv, HeldPlaces, SizesKnown, BlobSizes
<1>6. ChainsOK'
  <2> SUFFICES ASSUME NEW p \in Pools, NEW b \in Live(p) PROVE ChainOK(b)'
    BY <1>3 DEF ChainsOK
  <2> QED BY <1>1, ChainFrame DEF PoolsInv, ChainsOK
<1>7. CountsCoverUse'
  BY <1>1, <1>3 DEF PoolsInv, CountsCoverUse
<1> QED BY <1>2, <1>4, <1>5, <1>6, <1>7 DEF PoolsInv

LEMMA RawFrame ==
  ASSUME RawTypeOK, RawListed, UNCHANGED rawVars
  PROVE  RawTypeOK' /\ RawListed'
BY DEF rawVars, RawTypeOK, RawListed, Listed, Distinct, Entries

\* What a step does to the blocks callers have, and to their number.
HeapStep ==
  \/ \E block \in BlocksOfPools :
       \/ block \notin held /\ held' = held \cup {block} /\ raw' = raw /\ inUse' = inUse + 1
       \/ block \in held /\ held' = held \ {block} /\ raw' = raw /\ inUse' = inUse - 1
  \/ \E r \in RawBlocks :
       \/ r \notin raw /\ raw' = raw \cup {r} /\ held' = held /\ inUse' = inUse + 1
       \/ r \in raw /\ raw' = raw \ {r} /\ held' = held /\ inUse' = inUse - 1
  \/ held' = {} /\ raw' = {} /\ inUse' = 0
  \/ held' = held /\ raw' = raw /\ inUse' = inUse

LEMMA Step ==
  ASSUME IndInv, [Next]_vars
  PROVE  IndInv' /\ HeapStep
<1> USE DEF IndInv
<1>1. ASSUME NEW bytes \in Sizes, AllocateFromPool(bytes) PROVE IndInv' /\ HeapStep
  <2>1. PICK p \in ClassPools : Allocate(p)
    <3>1. Fitting(bytes) # {} /\ Fitting(bytes) \subseteq 1..Len(Classes) /\ Len(Classes) \in Nat
      BY <1>1, AllocatorAssumption DEF AllocateFromPool, Fitting
    <3>2. PICK i \in Fitting(bytes) : \A j \in Fitting(bytes) : i <= j
      <4>1. Fitting(bytes) \subseteq Nat
        BY <3>1
      <4> QED BY <3>1, <4>1, Least
    <3>3. \E k \in Fitting(bytes) : FindPoolForSize(bytes) = Classes[k]
      BY <3>2 DEF FindPoolForSize
    <3> QED BY <1>1, <3>1, <3>3 DEF AllocateFromPool, ClassPools
  <2>2. PoolsInv' /\ \E block \in BlocksOfPools : block \notin held /\ held' = held \cup {block}
    BY <2>1, AllocateBlockKeeps, AllocateOverflowKeeps DEF Allocate
  <2>3. RawTypeOK' /\ RawListed'
    BY <1>1, RawFrame DEF AllocateFromPool
  <2> QED BY <1>1, <2>2, <2>3 DEF AllocateFromPool, HeapStep, rawVars
<1>2. ASSUME NEW bytes \in Sizes, NEW r \in RawBlocks, AllocateRaw(bytes, r) PROVE IndInv' /\ HeapStep
  <2>1. RawTypeOK' /\ RawListed'
    BY <1>2, AllocateRawKeeps
  <2>2. PoolsInv'
    BY <1>2, PoolsFrame DEF AllocateRaw
  <2> QED BY <1>2, <2>1, <2>2 DEF AllocateRaw, HeapStep, poolVars
<1>3. ASSUME NEW block \in held, FreeToPool(block) PROVE IndInv' /\ HeapStep
  <2>1. PoolsInv' /\ held' = held \ {block} /\ block \in BlocksOfPools
    BY <1>3, FreeBlockKeeps DEF FreeToPool
  <2>2. RawTypeOK' /\ RawListed'
    BY <1>3, RawFrame DEF FreeToPool
  <2> QED BY <1>3, <2>1, <2>2 DEF FreeToPool, HeapStep, rawVars
<1>4. ASSUME NEW r \in raw, FreeRaw(r) PROVE IndInv' /\ HeapStep
  <2>1. RawTypeOK' /\ RawListed'
    BY <1>4, FreeRawKeeps
  <2>2. PoolsInv' /\ r \in RawBlocks
    BY <1>4, PoolsFrame DEF FreeRaw, RawTypeOK
  <2> QED BY <1>4, <2>1, <2>2 DEF FreeRaw, CountAfterFree, HeapStep, poolVars
<1>5. ASSUME NEW p \in Pools, ReleaseEmpties(p), UNCHANGED <<rawVars, inUse>> PROVE IndInv' /\ HeapStep
  <2>1. PoolsInv' /\ held' = held
    BY <1>5, ReleaseEmptiesKeeps
  <2>2. RawTypeOK' /\ RawListed'
    BY <1>5, RawFrame
  <2> QED BY <1>5, <2>1, <2>2 DEF HeapStep, rawVars
<1>6. ASSUME Reset PROVE IndInv' /\ HeapStep
  <2>1. PoolsInv' /\ held' = {}
    BY <1>6, ResetPoolsKeeps DEF Reset
  <2>2. RawTypeOK' /\ inUse' = 0 /\ raw' = {}
    BY <1>6 DEF Reset, RawTypeOK
  <2>3. Listed(<< >>)'
    BY <1>6 DEF Reset, Listed, Distinct, Entries
  <2> QED BY <2>1, <2>2, <2>3 DEF HeapStep, RawListed
<1>7. ASSUME UNCHANGED vars PROVE IndInv' /\ HeapStep
  <2>1. PoolsInv' /\ RawTypeOK' /\ RawListed'
    BY <1>7, PoolsFrame, RawFrame DEF vars
  <2> QED BY <1>7, <2>1 DEF vars, rawVars, poolVars, HeapStep
<1> QED BY <1>1, <1>2, <1>3, <1>4, <1>5, <1>6, <1>7 DEF Next

\* The inductive invariant: the lists of blobs are apart and without repetition, each
\* pool that has blobs remembers one, callers have blocks of live blobs, every chain
\* is the complement of what is out, the counts cover it, and the raw blocks are
\* those of a list.
THEOREM AllocatorInvariant == Spec => []IndInv
<1>1. IndInv /\ [Next]_vars => IndInv'
  BY Step
<1> QED BY <1>1, InitInv, PTL DEF Spec

\* Whatever is allocated, freed, released and reset, a block of a blob is either on
\* the blob's chain, once, or with a caller, and the blob's count tells how many are.
THEOREM BlocksOnce == Spec => []EveryBlockOnce
<1>1. IndInv => EveryBlockOnce
  <2> SUFFICES ASSUME IndInv, NEW p \in Pools, NEW b \in Live(p)
               PROVE  LET out == {i \in 1..size[b] : <<b, i>> \in held} IN
                      /\ Cardinality(Entries(free[b])) = Len(free[b])
                      /\ Entries(free[b]) = (1..size[b]) \ out
                      /\ usedInBlob[b] = Cardinality(out)
    BY DEF EveryBlockOnce
  <2>1. ChainOK(b) /\ free[b] \in Seq(Nat)
    <3>1. b \in Blobs
      BY LiveBlobs DEF IndInv, PoolsInv
    <3> QED BY <3>1 DEF IndInv, PoolsInv, ChainsOK, PoolsTypeOK
  <2>2. Cardinality(Entries(free[b])) = Len(free[b])
    BY <2>1, EntriesCounted DEF ChainOK
  <2> QED BY <2>1, <2>2 DEF ChainOK, Out
<1> QED BY <1>1, AllocatorInvariant, PTL

\* A pool's own count of used blocks never falls below the truth, its peak not below
\* that, and its total is that of its blobs.
THEOREM CountsCover == Spec => []CountsCoverUse
<1>1. IndInv => CountsCoverUse
  BY DEF IndInv, PoolsInv
<1> QED BY <1>1, AllocatorInvariant, PTL

\* The raw blocks callers have are one list from the head to the end.
THEOREM RawBlocksListed == Spec => []RawListIntact
<1>1. IndInv => RawListIntact
  <2> SUFFICES ASSUME IndInv PROVE RawListIntact
    OBVIOUS
  <2>1. PICK q : Listed(q)
    BY DEF IndInv, RawListed
  <2>2. Cardinality(raw) = Len(q) /\ Len(q) \in Nat
    BY <2>1, EntriesCounted DEF Listed
  <2>3. q \in [1..Len(q) -> raw]
    BY <2>1 DEF Listed, Entries
  <2> QED BY <2>1, <2>2, <2>3 DEF RawListIntact, Listed, Distinct
<1> QED BY <1>1, AllocatorInvariant, PTL

-----------------------------------------------------------------------------
(* A pool grows only when it is full.                                       *)

\* The blocks of the blobs of s that callers have.
HeldIn(s) == {block \in held : block[1] \in s}

\* Of one blob they are as many as its places that are out.
LEMMA HeldInOne ==
  ASSUME PoolsInv, NEW p \in Pools, NEW b \in Live(p)
  PROVE  IsFiniteSet(HeldIn({b})) /\ Cardinality(HeldIn({b})) = Cardinality(Out(b))
<1>1. b \in Blobs /\ IsFiniteSet(Out(b))
  BY LiveBlobs, OutCounted DEF PoolsInv
<1>2. \A block \in HeldIn({b}) : block = <<b, block[2]>> /\ block[2] \in Out(b)
  <2> SUFFICES ASSUME NEW block \in HeldIn({b}) PROVE block = <<b, block[2]>> /\ block[2] \in Out(b)
    OBVIOUS
  <2>1. block \in held /\ block \in Blobs \X Nat /\ block[1] = b
    BY DEF HeldIn, PoolsInv, PoolsTypeOK
  <2>2. block = <<b, block[2]>> /\ block[2] \in 1..size[b]
    BY <2>1 DEF PoolsInv, HeldPlaces
  <2> QED BY <2>1, <2>2 DEF Out
<1>3. \A i \in Out(b) : <<b, i>> \in HeldIn({b})
  BY DEF Out, HeldIn
<1>4. PICK f : f = [i \in Out(b) |-> <<b, i>>]
  OBVIOUS
<1>5. f \in Bijection(Out(b), HeldIn({b}))
  <2>1. f \in [Out(b) -> HeldIn({b})]
    BY <1>3, <1>4
  <2>2. \A i, j \in Out(b) : f[i] = f[j] => i = j
    BY <1>4
  <2>3. \A block \in HeldIn({b}) : \E i \in Out(b) : f[i] = block
    BY <1>2, <1>4
  <2> QED BY <2>1, <2>2, <2>3 DEF Bijection, Injection, Surjection, IsInjective
<1> QED BY <1>1, <1>5, FS_Bijection DEF ExistsBijection

\* Of the blobs of a pool that has no free block they are all.
LEMMA FullPool ==
  ASSUME PoolsInv, NEW p \in Pools, \A b \in Live(p) : ~HasFree(b)
  PROVE  Cardinality(HeldFrom(p)) = total[p]
<1>1. Live(p) \subseteq Blobs /\ IsFiniteSet(Live(p))
  BY LiveBlobs DEF PoolsInv
<1>2. \A b \in Live(p) : size[b] \in Nat /\ IsFiniteSet(HeldIn({b})) /\ Cardinality(HeldIn({b})) = size[b]
  <2> SUFFICES ASSUME NEW b \in Live(p)
               PROVE  size[b] \in Nat /\ IsFiniteSet(HeldIn({b})) /\ Cardinality(HeldIn({b})) = size[b]
    OBVIOUS
  <2>1. size[b] \in Nat /\ Cardinality(1..size[b]) = size[b] /\ Out(b) \subseteq 1..size[b]
    BY <1>1, OutCounted DEF PoolsInv
  <2>2. Entries(free[b]) = {}
    BY DEF HasFree, Entries
  <2>3. Out(b) = 1..size[b]
    BY <2>1, <2>2 DEF PoolsInv, ChainsOK, ChainOK
  <2> QED BY <2>1, <2>3, HeldInOne
<1> DEFINE C == {s \in SUBSET Live(p) : Cardinality(HeldIn(s)) # SumFunctionOnSet(size, s)}
<1>3. C = {}
  <2> SUFFICES ASSUME C # {} PROVE FALSE
    OBVIOUS
  <2>1. PICK s \in C : \A u \in C : Cardinality(s) <= Cardinality(u)
    <3>1. C \subseteq SUBSET Live(p)
      OBVIOUS
    <3> HIDE DEF C
    <3> QED BY <1>1, <3>1, LeastSet
  <2>2. s \in SUBSET Live(p) /\ IsFiniteSet(s) /\ Cardinality(s) \in Nat
    BY <1>1, FS_Subset, FS_CardinalityType
  <2>3. HeldIn({}) = {} /\ Cardinality({}) = 0
    BY FS_EmptySet DEF HeldIn
  <2>4. s # {}
    BY <2>3, SumOfNone
  <2>5. PICK x \in s : SumFunctionOnSet(size, s) = size[x] + SumFunctionOnSet(size, s \ {x})
    BY <2>2, <2>4, SumOfSome
  <2>6. PICK r \in SUBSET Live(p) : r = s \ {x}
    BY <2>2
  <2>7. Cardinality(r) = Cardinality(s) - 1
    BY <2>2, <2>6, FS_RemoveElement
  <2>8. Cardinality(HeldIn(r)) = SumFunctionOnSet(size, r)
    BY <2>1, <2>2, <2>7
  <2>9. HeldIn(s) = HeldIn({x}) \cup HeldIn(r) /\ HeldIn({x}) \cap HeldIn(r) = {}
    BY <2>6 DEF HeldIn
  <2>10. IsFiniteSet(HeldIn(r)) /\ Cardinality(HeldIn(r)) \in Nat
    <3>1. HeldIn(r) \in SUBSET held /\ IsFiniteSet(held)
      BY DEF HeldIn, PoolsInv, PoolsTypeOK
    <3> QED BY <3>1, FS_Subset, FS_CardinalityType
  <2>11. x \in Live(p) /\ IsFiniteSet(HeldIn({x})) /\ Cardinality(HeldIn({x})) = size[x] /\ size[x] \in Nat
    BY <1>2, <2>2
  <2>12. Cardinality(HeldIn({x}) \cup HeldIn(r)) = Cardinality(HeldIn({x})) + Cardinality(HeldIn(r)) - Cardinality({})
    BY <2>9, <2>10, <2>11, FS_Union
  <2>13. Cardinality(HeldIn(s)) = size[x] + SumFunctionOnSet(size, r)
    BY <2>3, <2>8, <2>9, <2>10, <2>11, <2>12
  <2> QED BY <2>5, <2>6, <2>13
<1>4. Cardinality(HeldIn(Live(p))) = SumFunctionOnSet(size, Live(p))
  BY <1>3
<1>5. HeldIn(Live(p)) = HeldFrom(p)
  BY DEF HeldIn, HeldFrom
<1> QED BY <1>4, <1>5 DEF PoolsInv, CountsCoverUse

\* A pool takes another blob only when every block of those it has is with a caller.
LEMMA GrowsFull ==
  ASSUME IndInv, [Next]_vars, NEW p \in Pools, Len(blobs'[p]) > Len(blobs[p])
  PROVE  Cardinality(HeldFrom(p)) = total[p]
<1> USE DEF IndInv
<1>1. PoolsInv /\ PoolsTypeOK /\ Len(blobs[p]) \in Nat
  BY LiveBlobs DEF PoolsInv
<1>2. blobs' # blobs
  BY <1>1
<1>3. ASSUME NEW bytes \in Sizes, AllocateFromPool(bytes) PROVE Cardinality(HeldFrom(p)) = total[p]
  <2>1. PICK b \in Blobs : AllocateOverflow(FindPoolForSize(bytes), b)
    BY <1>2, <1>3 DEF AllocateFromPool, Allocate, AllocateBlock
  <2>2. FindPoolForSize(bytes) = p
    BY <1>1, <2>1 DEF AllocateOverflow, PoolsTypeOK
  <2>3. \A c \in Live(p) : ~HasFree(c)
    BY <2>1, <2>2, ChosenHasFree DEF AllocateOverflow, PoolsInv
  <2> QED BY <2>3, FullPool
<1>4. ASSUME NEW q \in Pools, ReleaseEmpties(q) PROVE FALSE
  <2>1. PICK D : blobs' = [blobs EXCEPT ![q] = Without(blobs[q], D)]
    BY <1>4 DEF ReleaseEmpties, Freed
  <2>2. q = p
    BY <1>1, <2>1 DEF PoolsTypeOK
  <2>3. blobs'[p] = Without(blobs[p], D) /\ blobs[p] \in Seq(Blobs) /\ Distinct(blobs[p])
    BY <1>1, <2>1, <2>2 DEF PoolsTypeOK, PoolsInv, BlobsApart
  <2>4. /\ Without(blobs[p], D) \in Seq(Blobs) /\ Distinct(Without(blobs[p], D))
        /\ Entries(Without(blobs[p], D)) \in SUBSET Entries(blobs[p])
    BY <2>3, WithoutKeepsRest
  <2>5. IsFiniteSet(Entries(blobs[p])) /\ Cardinality(Entries(blobs[p])) = Len(blobs[p])
    BY <2>3, EntriesCounted
  <2>6. Cardinality(Entries(Without(blobs[p], D))) = Len(Without(blobs[p], D))
    BY <2>4, EntriesCounted
  <2>7. Cardinality(Entries(Without(blobs[p], D))) <= Cardinality(Entries(blobs[p]))
    BY <2>4, <2>5, FS_Subset
  <2> QED BY <1>1, <2>3, <2>4, <2>5, <2>6, <2>7
<1>5. ASSUME Reset PROVE Cardinality(HeldFrom(p)) = total[p]
  <2>1. PICK first : blobs' = [q \in Pools |-> IF q \in ClassPools THEN <<first[q]>> ELSE blobs[q]]
    BY <1>5 DEF Reset, ResetPools, InitialBlob
  <2>2. Len(blobs'[p]) = 1
    BY <2>1
  <2>3. Live(p) = {}
    BY <1>1, <2>2 DEF Live
  <2> QED BY <1>1, <2>3, FullPool
<1> QED BY <1>2, <1>3, <1>4, <1>5
        DEF Next, AllocateRaw, FreeToPool, FreeBlock, FreeRaw, vars, poolVars

\* A pool takes a new blob only when all its blocks are in use, although it looks for a
\* free one from the blob that it remembers.
THEOREM PoolsGrowOnlyWhenFull == Spec => GrowsOnlyWhenFull
<1>1. IndInv /\ [Next]_vars =>
        [\A p \in Pools : Len(blobs'[p]) > Len(blobs[p]) => Cardinality(HeldFrom(p)) = total[p]]_poolVars
  BY GrowsFull
<1> QED BY <1>1, AllocatorInvariant, PTL DEF Spec, GrowsOnlyWhenFull

-----------------------------------------------------------------------------
(* The allocator is a heap to its callers.                                  *)

Given == {<<"pool", b>> : b \in held} \cup {<<"raw", r>> : r \in raw}

LEMMA HeapStepIsHeap ==
  ASSUME HeapStep
  PROVE  HeapOf!Next \/ UNCHANGED <<Given, inUse>>
<1>1. ASSUME NEW block \in BlocksOfPools, block \notin held, held' = held \cup {block}, raw' = raw, inUse' = inUse + 1
      PROVE  HeapOf!Allocate(<<"pool", block>>)
  BY <1>1 DEF HeapOf!Allocate
<1>2. ASSUME NEW block \in BlocksOfPools, block \in held, held' = held \ {block}, raw' = raw, inUse' = inUse - 1
      PROVE  HeapOf!Free(<<"pool", block>>)
  BY <1>2 DEF HeapOf!Free
<1>3. ASSUME NEW r \in RawBlocks, r \notin raw, raw' = raw \cup {r}, held' = held, inUse' = inUse + 1
      PROVE  HeapOf!Allocate(<<"raw", r>>)
  BY <1>3 DEF HeapOf!Allocate
<1>4. ASSUME NEW r \in RawBlocks, r \in raw, raw' = raw \ {r}, held' = held, inUse' = inUse - 1
      PROVE  HeapOf!Free(<<"raw", r>>)
  BY <1>4 DEF HeapOf!Free
<1>5. ASSUME held' = {}, raw' = {}, inUse' = 0
      PROVE  HeapOf!Reset
  BY <1>5 DEF HeapOf!Reset
<1>6. ASSUME held' = held, raw' = raw, inUse' = inUse
      PROVE  UNCHANGED <<Given, inUse>>
  BY <1>6 DEF Given
<1> QED BY <1>1, <1>2, <1>3, <1>4, <1>5, <1>6 DEF HeapStep, HeapOf!Next

\* Every behaviour of the allocator is one of a heap: a block that is handed out was
\* nobody's, one that is freed was its caller's, Reset takes them all back, and the
\* count follows.
THEOREM AllocatorImplementsHeap == Spec => ImplementsHeap
<1>1. Init => HeapOf!Init
  BY DEF Init, PoolsInit, HeapOf!Init
<1>2. IndInv /\ [Next]_vars => HeapOf!Next \/ UNCHANGED <<Given, inUse>>
  BY Step, HeapStepIsHeap
<1>3. IndInv /\ [Next]_vars =>
        [HeapOf!Next]_<<{<<"pool", b>> : b \in held} \cup {<<"raw", r>> : r \in raw}, inUse>>
  BY <1>2 DEF Given
<1> QED BY <1>1, <1>3, AllocatorInvariant, PTL DEF Spec, ImplementsHeap, HeapOf!Spec

-----------------------------------------------------------------------------
(* The count that Free_Block does not lower.                                 *)

FreesKeepCount == [][\A block \in held : FreeToPool(block) => used' = used]_vars

\* Free_Block's decrement of m_usedBlocksInPool is under the test that the pool remembers no
\* blob, and a pool that has a block to free always remembers one: the decrement never runs.
THEOREM FreesNeverCountDown == Spec => FreesKeepCount
<1>1. ASSUME IndInv, NEW block \in held, FreeToPool(block) PROVE used' = used
  <2>1. PICK p \in ClassPools : FreeBlock(p, block)
    BY <1>1 DEF FreeToPool
  <2>2. p \in Pools
    BY ClassPoolsArePools
  <2>3. block[1] \in Live(p)
    BY <2>1 DEF FreeBlock, HeldFrom
  <2>4. blobs[p] # << >>
    BY <2>3 DEF Live
  <2>5. firstFree[p] # NoBlob
    BY <1>1, <2>2, <2>4 DEF IndInv, PoolsInv, RemembersOwn
  <2> QED BY <2>1, <2>5 DEF FreeBlock
<1>2. IndInv /\ [Next]_vars => [\A block \in held : FreeToPool(block) => used' = used]_vars
  BY <1>1
<1> QED BY <1>2, AllocatorInvariant, PTL DEF Spec, FreesKeepCount
=============================================================================
