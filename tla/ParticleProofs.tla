--------------------------- MODULE ParticleProofs ---------------------------
(* The pointers, lists and counts of the particle systems agree, ids are       *)
(* unique and the limit is kept, for any systems, particles, templates,        *)
(* priorities and limit.                                                       *)
EXTENDS ParticleSystems, FiniteSetTheorems, SequenceTheorems, WellFoundedInduction, TLAPS

-----------------------------------------------------------------------------
(* Numbers and sequences.                                                    *)

\* A set of numbers that is not empty has a least one.
LEMMA Least ==
  ASSUME NEW T, T \subseteq Nat, T # {}
  PROVE  \E x \in T : \A y \in T : x <= y
<1>1. PICK R : R = OpToRel(<, Nat)
  OBVIOUS
<1>2. IsWellFoundedOn(R, Nat)
  BY <1>1, NatLessThanWellFounded
<1>3. PICK x \in T : \A y \in T : ~(<<y, x>> \in R)
  BY <1>2, WFMin
<1>4. \A y \in T : ~(y < x)
  <2> SUFFICES ASSUME NEW y \in T, y < x PROVE FALSE
    OBVIOUS
  <2>1. R = {ss \in Nat \X Nat : ss[1] < ss[2]}
    BY <1>1 DEF OpToRel
  <2>2. <<y, x>> \in Nat \X Nat
    OBVIOUS
  <2>3. <<y, x>>[1] = y /\ <<y, x>>[2] = x
    OBVIOUS
  <2> QED BY <1>3, <2>1, <2>2, <2>3
<1> QED BY <1>4, SMT

\* What holds at 0 and is handed on from n - 1 to n holds up to L.
LEMMA Climb ==
  ASSUME NEW L \in Nat, NEW T, 0 \in T, \A n \in 1..L : n - 1 \in T => n \in T
  PROVE  \A n \in 0..L : n \in T
<1> DEFINE C == {n \in 0..L : n \notin T}
<1> SUFFICES ASSUME C # {} PROVE FALSE
  OBVIOUS
<1>1. C \subseteq Nat
  OBVIOUS
<1>2. PICK n \in C : \A m \in C : n <= m
  BY <1>1, Least
<1>3. n \in 1..L /\ n - 1 \in 0..L /\ n - 1 \notin C
  BY <1>2
<1> QED BY <1>3

LEMMA InToSet ==
  ASSUME NEW S, NEW q \in Seq(S)
  PROVE  \A x : x \in ToSet(q) <=> \E i \in 1..Len(q) : q[i] = x
<1>1. DOMAIN q = 1..Len(q)
  BY LenProperties
<1> QED BY <1>1 DEF ToSet

\* The place RemoveFirst takes an element from.
LEMMA FirstPlace ==
  ASSUME NEW S, NEW q \in Seq(S), NEW e, e \in ToSet(q)
  PROVE  \E k \in 1..Len(q) : q[k] = e /\ RemoveFirst(q, e) = RemoveAt(q, k)
<1> DEFINE I == {i \in 1..Len(q) : q[i] = e}
<1>1. Len(q) \in Nat /\ DOMAIN q = 1..Len(q)
  BY LenProperties
<1>2. I # {} /\ I \subseteq Nat
  BY <1>1 DEF ToSet
<1>3. \E k \in I : \A j \in I : k <= j
  BY <1>2, Least
<1>4. Min(I) \in I
  BY <1>3 DEF Min
<1>5. RemoveFirst(q, e) = RemoveAt(q, SelectInSeq(q, LAMBDA v : v = e))
  BY <1>2 DEF RemoveFirst
<1>6. SelectInSeq(q, LAMBDA v : v = e) = Min(I)
  BY <1>2 DEF SelectInSeq
<1> QED BY <1>4, <1>5, <1>6

\* A sequence without the element at place k.
LEMMA CutAt ==
  ASSUME NEW S, NEW q \in Seq(S), NEW k \in 1..Len(q), NEW r, r = RemoveAt(q, k)
  PROVE  /\ r \in Seq(S) /\ Len(r) = Len(q) - 1
         /\ \A i \in 1..Len(r) : r[i] = IF i < k THEN q[i] ELSE q[i + 1]
<1>1. Len(q) \in Nat /\ k \in Nat /\ k - 1 \in 0..Len(q)
  OBVIOUS
<1> DEFINE a == SubSeq(q, 1, k - 1)
           b == SubSeq(q, k + 1, Len(q))
<1>2. /\ a \in Seq(S) /\ Len(a) = k - 1 /\ \A i \in 1..(k - 1) : a[i] = q[i]
  BY <1>1
<1>3. /\ b \in Seq(S) /\ Len(b) = Len(q) - k /\ \A i \in 1..(Len(q) - k) : b[i] = q[k + i]
  BY <1>1
<1>4. r = a \o b
  BY DEF RemoveAt
<1> HIDE DEF a, b
<1>5. r \in Seq(S) /\ Len(r) = Len(q) - 1
  BY <1>1, <1>2, <1>3, <1>4, ConcatProperties
<1>6. ASSUME NEW i \in 1..Len(r)
      PROVE  r[i] = IF i < k THEN q[i] ELSE q[i + 1]
  <2>1. CASE i < k
    BY <1>1, <1>2, <1>3, <1>4, <1>5, <2>1
  <2>2. CASE i >= k
    <3>1. i - (k - 1) \in 1..(Len(q) - k) /\ k + (i - (k - 1)) = i + 1
      BY <1>1, <1>5, <2>2
    <3>2. r[i] = b[i - (k - 1)]
      <4>1. i \in 1..(Len(a) + Len(b)) /\ ~(i <= Len(a))
        BY <1>1, <1>2, <1>3, <1>5, <2>2
      <4>2. (a \o b)[i] = b[i - Len(a)]
        BY <1>2, <1>3, <4>1, ConcatProperties
      <4> QED BY <1>2, <1>4, <4>2
    <3> QED BY <1>1, <1>3, <2>2, <3>1, <3>2
  <2> QED BY <1>1, <2>1, <2>2
<1> QED BY <1>5, <1>6

\* A list of different elements that loses one.
LEMMA Removed ==
  ASSUME NEW S, NEW q \in Seq(S), IsInjective(q), NEW e, e \in ToSet(q), NEW r, r = RemoveFirst(q, e)
  PROVE  r \in Seq(S) /\ IsInjective(r) /\ ToSet(r) = ToSet(q) \ {e} /\ Len(r) = Len(q) - 1
<1>1. PICK k \in 1..Len(q) : q[k] = e /\ r = RemoveAt(q, k)
  BY FirstPlace
<1>2. /\ r \in Seq(S) /\ Len(r) = Len(q) - 1
      /\ \A i \in 1..Len(r) : r[i] = IF i < k THEN q[i] ELSE q[i + 1]
  BY <1>1, CutAt, SMTT(60)
<1>3. Len(q) \in Nat /\ Len(r) \in Nat /\ DOMAIN q = 1..Len(q) /\ DOMAIN r = 1..Len(r)
  BY <1>2, LenProperties
<1>4. \A i, j \in 1..Len(q) : q[i] = q[j] => i = j
  BY <1>3 DEF IsInjective
<1>5. \A i \in 1..Len(r) : \E j \in 1..Len(q) : j # k /\ r[i] = q[j] /\ j = IF i < k THEN i ELSE i + 1
  BY <1>2, <1>3
<1>6. \A j \in 1..Len(q) : j # k => \E i \in 1..Len(r) : r[i] = q[j]
  <2> SUFFICES ASSUME NEW j \in 1..Len(q), j # k PROVE \E i \in 1..Len(r) : r[i] = q[j]
    OBVIOUS
  <2>1. CASE j < k
    BY <1>2, <1>3, <2>1
  <2>2. CASE j > k
    <3>1. j - 1 \in 1..Len(r) /\ ~(j - 1 < k) /\ (j - 1) + 1 = j
      BY <1>2, <1>3, <2>2
    <3> QED BY <1>2, <3>1
  <2> QED BY <1>3, <2>1, <2>2
<1>7. IsInjective(r)
  BY <1>3, <1>4, <1>5 DEF IsInjective
<1>8. \A x : x \in ToSet(r) <=> x \in ToSet(q) /\ x # e
  <2>1. /\ \A x : x \in ToSet(r) <=> \E i \in 1..Len(r) : r[i] = x
        /\ \A x : x \in ToSet(q) <=> \E i \in 1..Len(q) : q[i] = x
    BY <1>2, InToSet
  <2>2. \A i \in 1..Len(r) : r[i] # e
    BY <1>1, <1>4, <1>5
  <2> QED BY <1>1, <1>5, <1>6, <2>1, <2>2
<1> QED BY <1>2, <1>7, <1>8

\* One that gets another.
LEMMA Appended ==
  ASSUME NEW S, NEW q \in Seq(S), IsInjective(q), NEW e \in S, e \notin ToSet(q)
  PROVE  /\ Append(q, e) \in Seq(S) /\ IsInjective(Append(q, e)) /\ ToSet(Append(q, e)) = ToSet(q) \cup {e}
         /\ Len(Append(q, e)) = Len(q) + 1
<1>0. PICK r : r = Append(q, e)
  OBVIOUS
<1>1. /\ r \in Seq(S) /\ Len(r) = Len(q) + 1 /\ r[Len(q) + 1] = e
      /\ \A i \in 1..Len(q) : r[i] = q[i]
  BY <1>0, AppendProperties
<1>2. Len(q) \in Nat /\ DOMAIN q = 1..Len(q) /\ DOMAIN r = 1..(Len(q) + 1)
  BY <1>1, LenProperties
<1>3. IsInjective(r)
  BY <1>1, <1>2 DEF IsInjective, ToSet
<1>4. \A x : x \in ToSet(r) <=> x \in ToSet(q) \/ x = e
  BY <1>1, <1>2 DEF ToSet
<1> QED BY <1>0, <1>1, <1>3, <1>4

Both(q, r) == q \o r

\* Two of them one after the other.
LEMMA Joined ==
  ASSUME NEW S, NEW q \in Seq(S), NEW r \in Seq(S), IsInjective(q), IsInjective(r), ToSet(q) \cap ToSet(r) = {},
         NEW c, c = Both(q, r)
  PROVE  c \in Seq(S) /\ IsInjective(c) /\ ToSet(c) = ToSet(q) \cup ToSet(r) /\ Len(c) = Len(q) + Len(r)
<1>1. /\ c \in Seq(S) /\ Len(c) = Len(q) + Len(r)
      /\ \A i \in 1..(Len(q) + Len(r)) : c[i] = IF i <= Len(q) THEN q[i] ELSE r[i - Len(q)]
  BY ConcatProperties DEF Both
<1>2. /\ Len(q) \in Nat /\ Len(r) \in Nat /\ DOMAIN q = 1..Len(q) /\ DOMAIN r = 1..Len(r)
      /\ DOMAIN c = 1..(Len(q) + Len(r))
  BY <1>1, LenProperties
<1>3. \A i \in 1..Len(q) : i \in DOMAIN c /\ c[i] = q[i]
  BY <1>1, <1>2
<1>4. \A i \in 1..Len(r) : i + Len(q) \in DOMAIN c /\ c[i + Len(q)] = r[i]
  <2> TAKE i \in 1..Len(r)
  <2>1. i + Len(q) \in 1..(Len(q) + Len(r)) /\ ~(i + Len(q) <= Len(q)) /\ (i + Len(q)) - Len(q) = i
    BY <1>2
  <2> QED BY <1>1, <1>2, <2>1
<1>5. \A i \in DOMAIN c : \/ i \in 1..Len(q) /\ c[i] = q[i]
                          \/ i - Len(q) \in 1..Len(r) /\ c[i] = r[i - Len(q)]
  BY <1>1, <1>2
<1>6. \A x : x \in ToSet(c) <=> x \in ToSet(q) \/ x \in ToSet(r)
  <2>1. /\ \A x : x \in ToSet(r) <=> \E i \in 1..Len(r) : r[i] = x
        /\ \A x : x \in ToSet(q) <=> \E i \in 1..Len(q) : q[i] = x
    BY InToSet
  <2>2. \A x : x \in ToSet(c) <=> \E i \in DOMAIN c : c[i] = x
    BY DEF ToSet
  <2>3. ASSUME NEW x, x \in ToSet(c) PROVE x \in ToSet(q) \/ x \in ToSet(r)
    BY <1>5, <2>1, <2>2, <2>3
  <2>4. ASSUME NEW x, x \in ToSet(q) \/ x \in ToSet(r) PROVE x \in ToSet(c)
    <3>1. CASE x \in ToSet(q)
      BY <1>3, <2>1, <2>2, <3>1
    <3>2. CASE x \in ToSet(r)
      <4>1. PICK i \in 1..Len(r) : r[i] = x
        BY <2>1, <3>2
      <4>2. i + Len(q) \in DOMAIN c /\ c[i + Len(q)] = x
        BY <1>4, <4>1
      <4> QED BY <2>2, <4>2
    <3> QED BY <2>4, <3>1, <3>2
  <2> QED BY <2>3, <2>4
<1>7. ASSUME NEW i \in DOMAIN c, NEW j \in DOMAIN c, c[i] = c[j] PROVE i = j
  <2>1. CASE i \in 1..Len(q) /\ j \in 1..Len(q)
    BY <1>1, <1>2, <1>3, <1>7, <2>1 DEF IsInjective
  <2>2. CASE i - Len(q) \in 1..Len(r) /\ j - Len(q) \in 1..Len(r)
    <3>1. c[i] = r[i - Len(q)] /\ c[j] = r[j - Len(q)]
      BY <1>1, <1>2, <2>2
    <3>2. i - Len(q) = j - Len(q)
      BY <1>2, <1>7, <2>2, <3>1 DEF IsInjective
    <3> QED BY <1>2, <3>2
  <2>3. ASSUME NEW a \in DOMAIN c, NEW b \in DOMAIN c, a \in 1..Len(q), b - Len(q) \in 1..Len(r)
        PROVE  c[a] # c[b]
    <3>1. c[a] \in ToSet(q)
      BY <1>2, <1>3, <2>3 DEF ToSet
    <3>2. c[b] = r[b - Len(q)]
      BY <1>1, <1>2, <2>3
    <3>3. c[b] \in ToSet(r)
      BY <1>2, <2>3, <3>2 DEF ToSet
    <3> QED BY <3>1, <3>3
  <2> QED BY <1>5, <1>7, <2>1, <2>2, <2>3
<1>8. IsInjective(c)
  BY <1>7 DEF IsInjective
<1> QED BY <1>1, <1>6, <1>8

\* One turned around.
LEMMA Reversed ==
  ASSUME NEW S, NEW q \in Seq(S), IsInjective(q), NEW r, r = Reverse(q)
  PROVE  r \in Seq(S) /\ IsInjective(r) /\ ToSet(r) = ToSet(q) /\ Len(r) = Len(q)
<1>1. Len(q) \in Nat /\ DOMAIN q = 1..Len(q) /\ \A i \in 1..Len(q) : q[i] \in S
  BY LenProperties, ElementOfSeq
<1>2. \A i \in 1..Len(q) : (Len(q) - i) + 1 \in 1..Len(q)
  BY <1>1
<1>3. r = [i \in 1..Len(q) |-> q[(Len(q) - i) + 1]]
  BY DEF Reverse
<1>4. r \in Seq(S) /\ Len(r) = Len(q) /\ DOMAIN r = 1..Len(q)
  <2>1. r \in [1..Len(q) -> S]
    BY <1>1, <1>2, <1>3
  <2> QED BY <1>1, <2>1, IsASeq, LenProperties
<1>5. \A i \in 1..Len(q) : r[i] = q[(Len(q) - i) + 1]
  BY <1>3
<1>6. \A i \in 1..Len(q) : q[i] = r[(Len(q) - i) + 1]
  <2> TAKE i \in 1..Len(q)
  <2>1. (Len(q) - ((Len(q) - i) + 1)) + 1 = i
    BY <1>1
  <2> QED BY <1>2, <1>5, <2>1
<1>7. IsInjective(r)
  <2> SUFFICES ASSUME NEW i \in 1..Len(q), NEW j \in 1..Len(q), r[i] = r[j] PROVE i = j
    BY <1>4 DEF IsInjective
  <2>1. (Len(q) - i) + 1 = (Len(q) - j) + 1
    BY <1>1, <1>2, <1>5 DEF IsInjective
  <2> QED BY <1>1, <2>1
<1>8. \A x : x \in ToSet(r) <=> x \in ToSet(q)
  BY <1>1, <1>2, <1>4, <1>5, <1>6 DEF ToSet
<1> QED BY <1>4, <1>7, <1>8

-----------------------------------------------------------------------------
(* The inductive invariant, of a state given as a record.                    *)

States ==
  [sys : [Systems -> SystemRecords \cup {NoSystem}], part : [Particles -> ParticleRecords \cup {NoParticle}],
   order : Seq(Systems), overall : [Priorities -> Seq(Particles)],
   count : Int, systemCount : Int, lastID : Nat]

\* The priority of the particle p.
Rank(h, p) == Priority[h.sys[h.part[p].home].template]

SystemsListed(h) ==
  h.systemCount = Len(h.order) /\ ToSet(h.order) = Live(h) /\ IsInjective(h.order)

ParticlesListed(h) ==
  /\ h.count = Cardinality(Present(h))
  /\ \A p \in Present(h) : h.part[p].home \in Live(h)
  /\ \A q \in Priorities :
       IsInjective(h.overall[q]) /\ ToSet(h.overall[q]) = {p \in Present(h) : Rank(h, p) = q}
  /\ \A s \in Live(h) :
       IsInjective(h.sys[s].particles) /\ ToSet(h.sys[s].particles) = {p \in Present(h) : h.part[p].home = s}

Slaves(h) ==
  \A s \in Live(h) :
    LET slave == h.sys[s].slave IN
    IF slave = NoSystem THEN h.sys[s].slaveID = 0
    ELSE /\ slave \in Live(h) /\ h.sys[slave].master = s /\ h.sys[s].slaveID = h.sys[slave].id
         /\ h.sys[slave].id > h.sys[s].id
Masters(h) ==
  \A s \in Live(h) :
    LET master == h.sys[s].master IN
    IF master = NoSystem THEN h.sys[s].masterID = 0
    ELSE master \in Live(h) /\ h.sys[master].slave = s /\ h.sys[s].masterID = h.sys[master].id

Controls(h) ==
  /\ \A s \in Live(h) :
       LET control == h.sys[s].control IN
       control # NoParticle => control \in Present(h) /\ h.part[control].controls = s
  /\ \A p \in Present(h) :
       LET s == h.part[p].controls IN s # NoSystem => s \in Live(h) /\ h.sys[s].control = p

SlavesDestroyed(h) ==
  \A s \in Live(h) : h.sys[s].destroyed /\ h.sys[s].slave # NoSystem => h.sys[h.sys[s].slave].destroyed

IDs(h) ==
  /\ \A s \in Live(h) : h.sys[s].id \in 1..h.lastID
  /\ \A s, t \in Live(h) : h.sys[s].id = h.sys[t].id => s = t

\* All but the list of the systems.
GoodObjects(h) ==
  h \in States /\ ParticlesListed(h) /\ Slaves(h) /\ Masters(h) /\ Controls(h) /\ SlavesDestroyed(h) /\ IDs(h)
Good(h) == GoodObjects(h) /\ SystemsListed(h)

IndInv == Good(Now) /\ lastID <= MaxID /\ LimitKept

-----------------------------------------------------------------------------
(* Records that are changed.                                                 *)

\* What a system keeps when particles come and go.
Alike(x, r) ==
  /\ x.template = r.template /\ x.id = r.id /\ x.slave = r.slave /\ x.slaveID = r.slaveID
  /\ x.master = r.master /\ x.masterID = r.masterID

LEMMA DestroyedRecord ==
  ASSUME NEW r \in SystemRecords, NEW x, x = [r EXCEPT !.destroyed = TRUE]
  PROVE  x \in SystemRecords /\ Alike(x, r) /\ x.destroyed /\ x.control = r.control /\ x.particles = r.particles
BY DEF SystemRecords, Alike

LEMMA ControlledRecord ==
  ASSUME NEW r \in SystemRecords, NEW c \in Particles \cup {NoParticle}, NEW x, x = [r EXCEPT !.control = c]
  PROVE  /\ x \in SystemRecords /\ Alike(x, r) /\ x.destroyed = r.destroyed /\ x.control = c
         /\ x.particles = r.particles
BY DEF SystemRecords, Alike

LEMMA ListedRecord ==
  ASSUME NEW r \in SystemRecords, NEW ps \in Seq(Particles), NEW x, x = [r EXCEPT !.particles = ps]
  PROVE  /\ x \in SystemRecords /\ Alike(x, r) /\ x.destroyed = r.destroyed /\ x.control = r.control
         /\ x.particles = ps
BY DEF SystemRecords, Alike

LEMMA RecordFields ==
  ASSUME NEW r \in SystemRecords
  PROVE  /\ r.template \in Templates /\ r.id \in Nat /\ r.slave \in Systems \cup {NoSystem}
         /\ r.slaveID \in Nat /\ r.master \in Systems \cup {NoSystem} /\ r.masterID \in Nat
         /\ r.destroyed \in BOOLEAN /\ r.saveable \in BOOLEAN
         /\ r.control \in Particles \cup {NoParticle} /\ r.particles \in Seq(Particles)
BY DEF SystemRecords

LEMMA StateFields ==
  ASSUME NEW h \in States
  PROVE  /\ h.sys \in [Systems -> SystemRecords \cup {NoSystem}]
         /\ h.part \in [Particles -> ParticleRecords \cup {NoParticle}]
         /\ h.order \in Seq(Systems) /\ h.overall \in [Priorities -> Seq(Particles)]
         /\ h.count \in Int /\ h.systemCount \in Int /\ h.lastID \in Nat
BY DEF States

\* The objects there are, and the fields they have.
LEMMA Objects ==
  ASSUME NEW h \in States
  PROVE  /\ \A s \in Live(h) : s \in Systems /\ h.sys[s] \in SystemRecords
         /\ \A s \in Systems : s \in Live(h) <=> h.sys[s] \in SystemRecords
         /\ \A p \in Present(h) : p \in Particles /\ h.part[p] \in ParticleRecords
         /\ \A p \in Particles : p \in Present(h) <=> h.part[p] \in ParticleRecords
         /\ \A s \in Systems : s \notin Live(h) => h.sys[s] = NoSystem
         /\ \A p \in Particles : p \notin Present(h) => h.part[p] = NoParticle
BY StateFields, ParticleAssumption DEF Live, Present

LEMMA ParticleFields ==
  ASSUME NEW r \in ParticleRecords
  PROVE  r.home \in Systems /\ r.controls \in Systems \cup {NoSystem}
BY DEF ParticleRecords

\* The priority of a particle is one that there is.
LEMMA RankIn ==
  ASSUME NEW h \in States, ParticlesListed(h), NEW p \in Present(h)
  PROVE  Rank(h, p) \in Priorities /\ h.part[p].home \in Live(h)
<1>1. h.part[p].home \in Live(h)
  BY DEF ParticlesListed
<1>2. h.sys[h.part[p].home].template \in Templates
  BY <1>1, Objects, RecordFields
<1> QED BY <1>1, <1>2, ParticleAssumption DEF Rank

\* The state h with other systems.
LEMMA SystemsChanged ==
  ASSUME NEW h \in States, NEW f \in [Systems -> SystemRecords \cup {NoSystem}], NEW g, g = [h EXCEPT !.sys = f]
  PROVE  /\ g \in States /\ g.sys = f /\ g.part = h.part /\ g.order = h.order /\ g.overall = h.overall
         /\ g.count = h.count /\ g.systemCount = h.systemCount /\ g.lastID = h.lastID
BY DEF States

-----------------------------------------------------------------------------
(* Destroying a system.                                                      *)

\* The chain of a system has the slaves of its members.
LEMMA ChainClosed ==
  ASSUME NEW h, NEW s \in Live(h), \A u \in Live(h) : h.sys[u].slave \in Live(h) \cup {NoSystem}
  PROVE  /\ s \in Chain(h, s) /\ Chain(h, s) \subseteq Live(h)
         /\ \A t \in Chain(h, s) : h.sys[t].slave \in Chain(h, s) \cup {NoSystem}
<1>1. s \in Chain(h, s) /\ Chain(h, s) \subseteq Live(h)
  BY DEF Chain
<1>2. ASSUME NEW t \in Chain(h, s), h.sys[t].slave # NoSystem
      PROVE  h.sys[t].slave \in Chain(h, s)
  <2>1. h.sys[t].slave \in Live(h)
    BY <1>1, <1>2
  <2>2. ASSUME NEW S \in SUBSET Live(h), s \in S, \A u \in S : h.sys[u].slave \in S \cup {NoSystem}
        PROVE  h.sys[t].slave \in S
    <3>1. t \in S
      BY <2>2 DEF Chain
    <3> QED BY <1>2, <2>2, <3>1
  <2> QED BY <2>1, <2>2 DEF Chain
<1> QED BY <1>1, <1>2

\* What is the same but for what the end of a particle changes: marks, controls, lists.
SameSystems(h, g) ==
  Live(g) = Live(h) /\ \A t \in Live(h) : Alike(g.sys[t], h.sys[t])

LEMMA DestroyedIs ==
  ASSUME NEW h \in States, NEW s \in Live(h), Slaves(h), NEW g, g = Destroyed(h, s)
  PROVE  /\ g \in States /\ SameSystems(h, g)
         /\ g.part = h.part /\ g.order = h.order /\ g.overall = h.overall
         /\ g.count = h.count /\ g.systemCount = h.systemCount /\ g.lastID = h.lastID
         /\ \A t \in Live(h) : /\ g.sys[t].destroyed <=> h.sys[t].destroyed \/ t \in Chain(h, s)
                               /\ g.sys[t].control = h.sys[t].control
                               /\ g.sys[t].particles = h.sys[t].particles
<1>1. Chain(h, s) \subseteq Live(h)
  BY DEF Chain
<1> DEFINE f == [t \in Systems |-> IF t \in Chain(h, s) THEN [h.sys[t] EXCEPT !.destroyed = TRUE] ELSE h.sys[t]]
<1>2. g = [h EXCEPT !.sys = f]
  BY DEF Destroyed
<1>3. \A t \in Live(h) : h.sys[t] \in SystemRecords /\ t \in Systems
  BY Objects
<1>4. \A t \in Chain(h, s) : f[t] = [h.sys[t] EXCEPT !.destroyed = TRUE] /\ f[t] \in SystemRecords
  BY <1>1, <1>3, DestroyedRecord
<1>5. \A t \in Systems \ Chain(h, s) : f[t] = h.sys[t]
  OBVIOUS
<1>6. f \in [Systems -> SystemRecords \cup {NoSystem}]
  BY <1>4, <1>5, StateFields
<1> HIDE DEF f
<1>7. /\ g \in States /\ g.sys = f /\ g.part = h.part /\ g.order = h.order /\ g.overall = h.overall
      /\ g.count = h.count /\ g.systemCount = h.systemCount /\ g.lastID = h.lastID
  BY <1>2, <1>6, SystemsChanged
<1>8. \A t \in Systems : t \in Live(g) <=> t \in Live(h)
  BY <1>1, <1>3, <1>4, <1>5, <1>7, Objects
<1>9. Live(g) = Live(h)
  BY <1>8 DEF Live
<1>10. ASSUME NEW t \in Live(h)
       PROVE  /\ Alike(g.sys[t], h.sys[t])
              /\ g.sys[t].destroyed <=> h.sys[t].destroyed \/ t \in Chain(h, s)
              /\ g.sys[t].control = h.sys[t].control
              /\ g.sys[t].particles = h.sys[t].particles
  <2>1. CASE t \in Chain(h, s)
    <3>1. g.sys[t] = [h.sys[t] EXCEPT !.destroyed = TRUE]
      BY <1>4, <1>7, <2>1
    <3> QED BY <1>3, <2>1, <3>1, DestroyedRecord
  <2>2. CASE t \notin Chain(h, s)
    BY <1>3, <1>5, <1>7, <2>2 DEF Alike
  <2> QED BY <2>1, <2>2
<1> QED BY <1>7, <1>9, <1>10 DEF SameSystems

-----------------------------------------------------------------------------
(* A particle that goes.                                                     *)

\* What is left of h when the particle p is gone, before its system is taken from its control.
Freed(h, c) == [h EXCEPT !.sys[c].control = NoParticle]

LEMMA FreedIs ==
  ASSUME NEW h \in States, NEW c \in Live(h), Slaves(h), NEW g, g = Freed(h, c)
  PROVE  /\ g \in States /\ SameSystems(h, g) /\ Slaves(g)
         /\ g.part = h.part /\ g.order = h.order /\ g.overall = h.overall
         /\ g.count = h.count /\ g.systemCount = h.systemCount /\ g.lastID = h.lastID
         /\ \A t \in Live(h) : /\ g.sys[t].destroyed = h.sys[t].destroyed
                               /\ g.sys[t].control = IF t = c THEN NoParticle ELSE h.sys[t].control
                               /\ g.sys[t].particles = h.sys[t].particles
<1>1. PICK r : r = [h.sys[c] EXCEPT !.control = NoParticle]
  OBVIOUS
<1>2. /\ \A t \in Live(h) : h.sys[t] \in SystemRecords /\ t \in Systems
      /\ r \in SystemRecords /\ Alike(r, h.sys[c]) /\ r.destroyed = h.sys[c].destroyed
      /\ r.control = NoParticle /\ r.particles = h.sys[c].particles
  <2>1. \A t \in Live(h) : h.sys[t] \in SystemRecords /\ t \in Systems
    BY Objects
  <2> QED BY <1>1, <2>1, ControlledRecord
<1>3. PICK f : f = [h.sys EXCEPT ![c] = r]
  OBVIOUS
<1>4. /\ f \in [Systems -> SystemRecords \cup {NoSystem}]
      /\ \A t \in Systems : f[t] = IF t = c THEN r ELSE h.sys[t]
  BY <1>2, <1>3, StateFields
<1>5. g = [h EXCEPT !.sys = f]
  BY <1>1, <1>3 DEF Freed
<1>6. /\ g \in States /\ g.sys = f /\ g.part = h.part /\ g.order = h.order /\ g.overall = h.overall
      /\ g.count = h.count /\ g.systemCount = h.systemCount /\ g.lastID = h.lastID
  BY <1>4, <1>5, SystemsChanged
<1>7. \A t \in Systems : t \in Live(g) <=> t \in Live(h)
  BY <1>2, <1>4, <1>6, Objects
<1>8. Live(g) = Live(h)
  BY <1>7 DEF Live
<1>9. ASSUME NEW t \in Live(h)
      PROVE  /\ Alike(g.sys[t], h.sys[t])
             /\ g.sys[t].destroyed = h.sys[t].destroyed
             /\ g.sys[t].control = IF t = c THEN NoParticle ELSE h.sys[t].control
             /\ g.sys[t].particles = h.sys[t].particles
  <2>1. CASE t = c
    BY <1>2, <1>4, <1>6, <2>1
  <2>2. CASE t # c
    <3>1. g.sys[t] = h.sys[t]
      BY <1>2, <1>4, <1>6, <2>2
    <3> QED BY <2>2, <3>1 DEF Alike
  <2> QED BY <2>1, <2>2
<1>10. SameSystems(h, g)
  BY <1>8, <1>9 DEF SameSystems
<1>11. Slaves(g)
  BY <1>10 DEF Slaves, SameSystems, Alike
<1> QED BY <1>6, <1>9, <1>10, <1>11

\* The order of the systems relates slaves, masters and ids only.
LEMMA SameSystemsKeep ==
  ASSUME NEW h, NEW g, SameSystems(h, g), g.lastID = h.lastID
  PROVE  (Slaves(h) => Slaves(g)) /\ (Masters(h) => Masters(g)) /\ (IDs(h) => IDs(g))
<1>1. Slaves(h) => Slaves(g)
  BY DEF SameSystems, Alike, Slaves
<1>2. Masters(h) => Masters(g)
  BY DEF SameSystems, Alike, Masters
<1>3. IDs(h) => IDs(g)
  BY DEF SameSystems, Alike, IDs
<1> QED BY <1>1, <1>2, <1>3

LEMMA SameSystemsOn ==
  ASSUME NEW h, NEW g, NEW k, SameSystems(h, g), SameSystems(g, k)
  PROVE  SameSystems(h, k)
BY DEF SameSystems, Alike

\* What Gone does to each field.
GoneFrom(h, p, g) ==
  LET c == h.part[p].controls
      home == h.part[p].home IN
  /\ g \in States /\ SameSystems(h, g)
  /\ g.part = [h.part EXCEPT ![p] = NoParticle] /\ g.order = h.order
  /\ g.overall = [h.overall EXCEPT ![Rank(h, p)] = RemoveFirst(@, p)]
  /\ g.count = h.count - 1 /\ g.systemCount = h.systemCount /\ g.lastID = h.lastID
  /\ \A t \in Live(h) :
       /\ g.sys[t].control = IF t = c THEN NoParticle ELSE h.sys[t].control
       /\ g.sys[t].particles = IF t = home THEN RemoveFirst(h.sys[t].particles, p) ELSE h.sys[t].particles
  /\ SlavesDestroyed(g)

LEMMA GoneIs ==
  ASSUME NEW h, GoodObjects(h), NEW p \in Present(h), NEW g, g = Gone(h, p)
  PROVE  GoneFrom(h, p, g)
<1>1. h \in States /\ Slaves(h) /\ SlavesDestroyed(h) /\ ParticlesListed(h) /\ Controls(h)
  BY DEF GoodObjects
<1>2. PICK c : c = h.part[p].controls
  OBVIOUS
<1>3. PICK home : home = h.part[p].home
  OBVIOUS
<1>4. home \in Live(h) /\ (c = NoSystem \/ c \in Live(h)) /\ NoSystem \notin Live(h)
  BY <1>1, <1>2, <1>3, ParticleAssumption DEF ParticlesListed, Controls, Live
<1>5. PICK d : d = IF c = NoSystem THEN h ELSE Destroyed(Freed(h, c), c)
  OBVIOUS
<1>6. /\ d \in States /\ SameSystems(h, d)
      /\ d.part = h.part /\ d.order = h.order /\ d.overall = h.overall
      /\ d.count = h.count /\ d.systemCount = h.systemCount /\ d.lastID = h.lastID
      /\ \A t \in Live(h) : /\ d.sys[t].control = IF t = c THEN NoParticle ELSE h.sys[t].control
                            /\ d.sys[t].particles = h.sys[t].particles
      /\ SlavesDestroyed(d)
  <2>1. CASE c = NoSystem
    BY <1>1, <1>4, <1>5, <2>1 DEF SameSystems, Alike
  <2>2. CASE c # NoSystem
    <3>1. PICK e : e = Freed(h, c)
      OBVIOUS
    <3>2. /\ e \in States /\ SameSystems(h, e) /\ Slaves(e)
          /\ e.part = h.part /\ e.order = h.order /\ e.overall = h.overall
          /\ e.count = h.count /\ e.systemCount = h.systemCount /\ e.lastID = h.lastID
          /\ \A t \in Live(h) : /\ e.sys[t].destroyed = h.sys[t].destroyed
                                /\ e.sys[t].control = IF t = c THEN NoParticle ELSE h.sys[t].control
                                /\ e.sys[t].particles = h.sys[t].particles
      BY <1>1, <1>4, <2>2, <3>1, FreedIs
    <3>3. c \in Live(e) /\ Live(e) = Live(h)
      BY <1>4, <2>2, <3>2 DEF SameSystems
    <3>4. d = Destroyed(e, c)
      BY <1>5, <2>2, <3>1
    <3>5. /\ d \in States /\ SameSystems(e, d)
          /\ d.part = e.part /\ d.order = e.order /\ d.overall = e.overall
          /\ d.count = e.count /\ d.systemCount = e.systemCount /\ d.lastID = e.lastID
          /\ \A t \in Live(e) : /\ d.sys[t].destroyed <=> e.sys[t].destroyed \/ t \in Chain(e, c)
                                /\ d.sys[t].control = e.sys[t].control
                                /\ d.sys[t].particles = e.sys[t].particles
      BY <3>2, <3>3, <3>4, DestroyedIs
    <3>6. SameSystems(h, d)
      BY <3>2, <3>5, SameSystemsOn
    <3>7. \A u \in Live(e) : e.sys[u].slave \in Live(e) \cup {NoSystem}
      BY <3>2 DEF Slaves
    <3>8. \A t \in Chain(e, c) : e.sys[t].slave \in Chain(e, c) \cup {NoSystem}
      BY <3>3, <3>7, ChainClosed
    <3>9. SlavesDestroyed(d)
      <4> SUFFICES ASSUME NEW s \in Live(h), d.sys[s].destroyed, d.sys[s].slave # NoSystem
                   PROVE  d.sys[d.sys[s].slave].destroyed
        BY <3>6 DEF SlavesDestroyed, SameSystems
      <4>1. PICK u : u = d.sys[s].slave
        OBVIOUS
      <4>2. u = h.sys[s].slave /\ u = e.sys[s].slave
        BY <3>2, <3>6, <4>1 DEF SameSystems, Alike
      <4>3. u \in Live(h)
        BY <1>1, <4>1, <4>2 DEF Slaves
      <4>4. CASE e.sys[s].destroyed
        <5>1. h.sys[s].destroyed /\ u # NoSystem
          BY <3>2, <4>1, <4>4
        <5>2. h.sys[u].destroyed
          BY <1>1, <4>2, <5>1 DEF SlavesDestroyed
        <5> QED BY <3>2, <3>3, <3>5, <4>1, <4>3, <5>2
      <4>5. CASE s \in Chain(e, c)
        <5>1. u \in Chain(e, c)
          BY <3>8, <4>1, <4>2, <4>5
        <5> QED BY <3>3, <3>5, <4>1, <4>3, <5>1
      <4> QED BY <3>3, <3>5, <4>4, <4>5
    <3> QED BY <3>2, <3>3, <3>5, <3>6, <3>9
  <2> QED BY <2>1, <2>2
<1>7. PICK ps : ps = RemoveFirst(d.sys[home].particles, p)
  OBVIOUS
<1>8. ps = RemoveFirst(h.sys[home].particles, p) /\ ps \in Seq(Particles)
  <2>1. h.sys[home].particles \in Seq(Particles)
    BY <1>1, <1>4, Objects, RecordFields
  <2>2. IsInjective(h.sys[home].particles) /\ p \in ToSet(h.sys[home].particles)
    BY <1>1, <1>3, <1>4 DEF ParticlesListed
  <2> QED BY <1>4, <1>6, <1>7, <2>1, <2>2, Removed
<1>9. PICK r : r = [d.sys[home] EXCEPT !.particles = ps]
  OBVIOUS
<1>10. /\ d.sys[home] \in SystemRecords
       /\ r \in SystemRecords /\ Alike(r, d.sys[home]) /\ r.destroyed = d.sys[home].destroyed
       /\ r.control = d.sys[home].control /\ r.particles = ps
  <2>1. d.sys[home] \in SystemRecords
    BY <1>4, <1>6, Objects DEF SameSystems
  <2> QED BY <1>8, <1>9, <2>1, ListedRecord
<1>11. PICK f : f = [d.sys EXCEPT ![home] = r]
  OBVIOUS
<1>12. /\ f \in [Systems -> SystemRecords \cup {NoSystem}]
       /\ \A t \in Systems : f[t] = IF t = home THEN r ELSE d.sys[t]
  BY <1>6, <1>10, <1>11, StateFields
<1>13. PICK k : k = Rank(h, p)
  OBVIOUS
<1>14. /\ k \in Priorities /\ p \in ToSet(h.overall[k]) /\ IsInjective(h.overall[k])
       /\ h.overall[k] \in Seq(Particles)
  BY <1>1, <1>13, RankIn, StateFields DEF ParticlesListed
<1>15. PICK o : o = [h.overall EXCEPT ![k] = RemoveFirst(@, p)]
  OBVIOUS
<1>16. o \in [Priorities -> Seq(Particles)]
  <2>1. RemoveFirst(h.overall[k], p) \in Seq(Particles)
    BY <1>14, Removed
  <2>2. h.overall \in [Priorities -> Seq(Particles)]
    BY <1>1, StateFields
  <2> QED BY <1>15, <2>1, <2>2
<1>17. PICK w : w = [h.part EXCEPT ![p] = NoParticle]
  OBVIOUS
<1>18. w \in [Particles -> ParticleRecords \cup {NoParticle}]
  BY <1>1, <1>17, StateFields
<1>19. g = [d EXCEPT !.part = w, !.sys = f, !.overall = o, !.count = @ - 1]
  <2>1. g = [d EXCEPT !.part[p] = NoParticle,
                      !.sys[home].particles = RemoveFirst(@, p),
                      !.overall[Priority[h.sys[home].template]] = RemoveFirst(@, p),
                      !.count = @ - 1]
    BY <1>2, <1>3, <1>5, ZenonT(60) DEF Gone, Freed
  <2>2. k = Priority[h.sys[home].template]
    BY <1>3, <1>13 DEF Rank
  <2>3. w = [d.part EXCEPT ![p] = NoParticle]
    BY <1>6, <1>17
  <2>4. f = [d.sys EXCEPT ![home].particles = RemoveFirst(@, p)]
    BY <1>7, <1>9, <1>11
  <2>5. o = [d.overall EXCEPT ![Priority[h.sys[home].template]] = RemoveFirst(@, p)]
    BY <1>6, <1>15, <2>2
  <2> QED BY <2>1, <2>3, <2>4, <2>5, SMTT(60)
<1>20. /\ g \in States /\ g.sys = f /\ g.part = w /\ g.order = d.order /\ g.overall = o
       /\ g.count = d.count - 1 /\ g.systemCount = d.systemCount /\ g.lastID = d.lastID
  <2>1. d \in States /\ d.count - 1 \in Int
    BY <1>6, StateFields
  <2>2. /\ f \in [Systems -> SystemRecords \cup {NoSystem}] /\ w \in [Particles -> ParticleRecords \cup {NoParticle}]
        /\ o \in [Priorities -> Seq(Particles)]
    BY <1>12, <1>16, <1>18
  <2> QED BY <1>19, <2>1, <2>2 DEF States
<1>21. \A t \in Systems : t \in Live(g) <=> t \in Live(d)
  BY <1>6, <1>10, <1>12, <1>20, Objects
<1>22. Live(g) = Live(h)
  BY <1>6, <1>21 DEF Live, SameSystems
<1>23. ASSUME NEW t \in Live(h)
       PROVE  /\ Alike(g.sys[t], d.sys[t])
              /\ g.sys[t].destroyed = d.sys[t].destroyed
              /\ g.sys[t].control = d.sys[t].control
              /\ g.sys[t].particles = IF t = home THEN ps ELSE d.sys[t].particles
  <2>1. t \in Systems
    BY DEF Live
  <2>2. CASE t = home
    BY <1>10, <1>12, <1>20, <2>1, <2>2
  <2>3. CASE t # home
    <3>1. g.sys[t] = d.sys[t]
      BY <1>12, <1>20, <2>1, <2>3
    <3> QED BY <2>3, <3>1 DEF Alike
  <2> QED BY <2>2, <2>3
<1>24. SameSystems(d, g)
  BY <1>6, <1>22, <1>23 DEF SameSystems
<1>25. SameSystems(h, g)
  BY <1>6, <1>24, SameSystemsOn
<1>26. SlavesDestroyed(g)
  <2> SUFFICES ASSUME NEW s \in Live(h), g.sys[s].destroyed, g.sys[s].slave # NoSystem
               PROVE  g.sys[g.sys[s].slave].destroyed
    BY <1>22 DEF SlavesDestroyed
  <2>1. g.sys[s].slave = d.sys[s].slave /\ g.sys[s].slave = h.sys[s].slave
    BY <1>6, <1>23 DEF SameSystems, Alike
  <2>2. g.sys[s].slave \in Live(h)
    BY <1>1, <2>1 DEF Slaves
  <2> QED BY <1>6, <1>23, <2>1, <2>2 DEF SlavesDestroyed, SameSystems
<1>27. \A t \in Live(h) :
         /\ g.sys[t].control = IF t = c THEN NoParticle ELSE h.sys[t].control
         /\ g.sys[t].particles = IF t = home THEN RemoveFirst(h.sys[t].particles, p) ELSE h.sys[t].particles
  BY <1>6, <1>8, <1>23
<1> QED BY <1>2, <1>3, <1>6, <1>13, <1>15, <1>17, <1>20, <1>25, <1>26, <1>27 DEF GoneFrom

\* g is h without the particles P; systems may have been marked as destroyed.
Lost(h, g, P) ==
  /\ SameSystems(h, g) /\ g.order = h.order /\ g.systemCount = h.systemCount /\ g.lastID = h.lastID
  /\ Present(g) = Present(h) \ P /\ \A r \in Present(g) : g.part[r] = h.part[r]

LEMMA GoneGood ==
  ASSUME NEW h, GoodObjects(h), NEW p \in Present(h), NEW g, g = Gone(h, p)
  PROVE  GoodObjects(g) /\ Lost(h, g, {p}) /\ g.count = h.count - 1
<1>1. h \in States /\ Slaves(h) /\ Masters(h) /\ ParticlesListed(h) /\ Controls(h) /\ IDs(h)
  BY DEF GoodObjects
<1>2. PICK c : c = h.part[p].controls
  OBVIOUS
<1>3. PICK home : home = h.part[p].home
  OBVIOUS
<1>4. GoneFrom(h, p, g)
  BY GoneIs
<1>5. /\ g \in States /\ SameSystems(h, g)
      /\ g.part = [h.part EXCEPT ![p] = NoParticle] /\ g.order = h.order
      /\ g.overall = [h.overall EXCEPT ![Rank(h, p)] = RemoveFirst(@, p)]
      /\ g.count = h.count - 1 /\ g.systemCount = h.systemCount /\ g.lastID = h.lastID
      /\ \A t \in Live(h) :
           /\ g.sys[t].control = IF t = c THEN NoParticle ELSE h.sys[t].control
           /\ g.sys[t].particles = IF t = home THEN RemoveFirst(h.sys[t].particles, p) ELSE h.sys[t].particles
      /\ SlavesDestroyed(g)
  BY <1>2, <1>3, <1>4 DEF GoneFrom
<1>6. p \in Particles /\ home \in Live(h)
  BY <1>1, <1>3 DEF Present, ParticlesListed
<1>7. /\ \A r \in Particles : g.part[r] = IF r = p THEN NoParticle ELSE h.part[r]
      /\ \A r : r \in Present(h) <=> r \in Particles /\ h.part[r] # NoParticle
      /\ \A r : r \in Present(g) <=> r \in Particles /\ g.part[r] # NoParticle
  BY <1>1, <1>5, StateFields DEF Present
<1>8. Present(g) = Present(h) \ {p} /\ \A r \in Present(g) : g.part[r] = h.part[r]
  BY <1>7
<1>9. Lost(h, g, {p})
  BY <1>5, <1>8, SMTT(60) DEF Lost
<1>10. \A r \in Present(g) : h.part[r].home \in Live(h) /\ Rank(g, r) = Rank(h, r)
  <2> TAKE r \in Present(g)
  <2>1. h.part[r].home \in Live(h) /\ g.part[r] = h.part[r]
    BY <1>1, <1>8 DEF ParticlesListed
  <2> QED BY <1>5, <2>1, ZenonT(60) DEF Rank, SameSystems, Alike
<1>11. g.count = Cardinality(Present(g))
  <2>1. IsFiniteSet(Present(h))
    BY FS_Subset, ParticleAssumption DEF Present
  <2> QED BY <1>1, <1>5, <1>8, <2>1, FS_RemoveElement DEF ParticlesListed
<1>12. ASSUME NEW q \in Priorities
       PROVE  IsInjective(g.overall[q]) /\ ToSet(g.overall[q]) = {r \in Present(g) : Rank(g, r) = q}
  <2>1. /\ IsInjective(h.overall[q]) /\ ToSet(h.overall[q]) = {r \in Present(h) : Rank(h, r) = q}
        /\ h.overall[q] \in Seq(Particles) /\ h.overall \in [Priorities -> Seq(Particles)]
    BY <1>1, StateFields DEF ParticlesListed
  <2>2. CASE q = Rank(h, p)
    <3>1. g.overall[q] = RemoveFirst(h.overall[q], p)
      BY <1>5, <2>1, <2>2
    <3>2. p \in ToSet(h.overall[q])
      BY <2>1, <2>2
    <3>3. IsInjective(g.overall[q]) /\ ToSet(g.overall[q]) = ToSet(h.overall[q]) \ {p}
      BY <2>1, <3>1, <3>2, Removed
    <3> QED BY <1>8, <1>10, <2>1, <3>3
  <2>3. CASE q # Rank(h, p)
    <3>1. g.overall[q] = h.overall[q]
      BY <1>5, <2>1, <2>3
    <3> QED BY <1>8, <1>10, <2>1, <2>3, <3>1
  <2> QED BY <2>2, <2>3
<1>13. ASSUME NEW s \in Live(g)
       PROVE  IsInjective(g.sys[s].particles) /\ ToSet(g.sys[s].particles) = {r \in Present(g) : g.part[r].home = s}
  <2>1. s \in Live(h)
    BY <1>5 DEF SameSystems
  <2>2. /\ IsInjective(h.sys[s].particles) /\ ToSet(h.sys[s].particles) = {r \in Present(h) : h.part[r].home = s}
        /\ h.sys[s].particles \in Seq(Particles)
    BY <1>1, <2>1, Objects, RecordFields DEF ParticlesListed
  <2>3. CASE s = home
    <3>1. g.sys[s].particles = RemoveFirst(h.sys[s].particles, p) /\ p \in ToSet(h.sys[s].particles)
      BY <1>3, <1>5, <2>1, <2>2, <2>3
    <3>2. IsInjective(g.sys[s].particles) /\ ToSet(g.sys[s].particles) = ToSet(h.sys[s].particles) \ {p}
      BY <2>2, <3>1, Removed
    <3> QED BY <1>8, <2>2, <3>2
  <2>4. CASE s # home
    <3>1. g.sys[s].particles = h.sys[s].particles
      BY <1>5, <2>1, <2>4
    <3> QED BY <1>3, <1>8, <2>2, <2>4, <3>1
  <2> QED BY <2>3, <2>4
<1>14. ParticlesListed(g)
  BY <1>5, <1>8, <1>10, <1>11, <1>12, <1>13 DEF ParticlesListed, SameSystems
<1>15. Controls(g)
  <2>1. ASSUME NEW s \in Live(g), g.sys[s].control # NoParticle
        PROVE  g.sys[s].control \in Present(g) /\ g.part[g.sys[s].control].controls = s
    <3>1. s \in Live(h) /\ s # c /\ g.sys[s].control = h.sys[s].control
      BY <1>5, <2>1 DEF SameSystems
    <3>2. h.sys[s].control \in Present(h) /\ h.part[h.sys[s].control].controls = s
      BY <1>1, <2>1, <3>1 DEF Controls
    <3> QED BY <1>2, <1>8, <3>1, <3>2
  <2>2. ASSUME NEW r \in Present(g), g.part[r].controls # NoSystem
        PROVE  g.part[r].controls \in Live(g) /\ g.sys[g.part[r].controls].control = r
    <3>1. r \in Present(h) /\ r # p /\ g.part[r].controls = h.part[r].controls
      BY <1>8
    <3>2. h.part[r].controls \in Live(h) /\ h.sys[h.part[r].controls].control = r
      BY <1>1, <2>2, <3>1 DEF Controls
    <3>3. h.part[r].controls # c
      <4> SUFFICES ASSUME h.part[r].controls = c PROVE FALSE
        OBVIOUS
      <4>1. h.sys[c].control = p
        BY <1>1, <1>2, <2>2, <3>1 DEF Controls
      <4> QED BY <3>1, <3>2, <4>1
    <3> QED BY <1>5, <3>1, <3>2, <3>3 DEF SameSystems
  <2> QED BY <2>1, <2>2 DEF Controls
<1>16. Slaves(g) /\ Masters(g) /\ IDs(g)
  BY <1>1, <1>5, SameSystemsKeep
<1> QED BY <1>5, <1>9, <1>14, <1>15, <1>16 DEF GoodObjects

-----------------------------------------------------------------------------
(* Particles that go one after the other.                                    *)

\* The function that the definition of AllGone has inside.
GoneRun(f, h, ps, L) == f = [n \in 0..L |-> IF n = 0 THEN h ELSE Gone(f[n - 1], ps[n])]

LEMMA AllGoneIs ==
  ASSUME NEW h, NEW ps
  PROVE  AllGone(h, ps) = (CHOOSE f : GoneRun(f, h, ps, Len(ps)))[Len(ps)]
BY DEF AllGone, GoneRun

LEMMA GoneRunExists ==
  ASSUME NEW h, NEW ps, NEW L \in Nat
  PROVE  \E f : GoneRun(f, h, ps, L)
<1> DEFINE T == {n \in 0..L : \E f : GoneRun(f, h, ps, n)}
<1>1. 0 \in T
  <2>1. GoneRun([n \in 0..0 |-> h], h, ps, 0)
    BY DEF GoneRun
  <2> QED BY <2>1
<1>2. ASSUME NEW n \in 1..L, n - 1 \in T PROVE n \in T
  <2>1. PICK f : GoneRun(f, h, ps, n - 1)
    BY <1>2
  <2> DEFINE g == [m \in 0..n |-> IF m = n THEN Gone(f[n - 1], ps[n]) ELSE f[m]]
  <2>2. n \in Nat /\ n - 1 \in Nat /\ n # 0
    OBVIOUS
  <2>3. \A m \in 0..(n - 1) : f[m] = IF m = 0 THEN h ELSE Gone(f[m - 1], ps[m])
    BY <2>1, Zenon DEF GoneRun
  <2>4. \A m \in 0..(n - 1) : g[m] = f[m]
    BY <2>2
  <2>5. ASSUME NEW m \in 0..n PROVE g[m] = IF m = 0 THEN h ELSE Gone(g[m - 1], ps[m])
    <3>1. CASE m = n
      <4>1. n - 1 \in 0..(n - 1) /\ n \in 0..n
        BY <2>2
      <4>2. g[n] = Gone(f[n - 1], ps[n])
        BY <4>1
      <4> QED BY <2>2, <2>4, <3>1, <4>1, <4>2
    <3>2. CASE m # n
      <4>1. m \in 0..(n - 1) /\ (m # 0 => m - 1 \in 0..(n - 1))
        BY <2>2, <3>2
      <4> HIDE DEF g
      <4> QED BY <2>3, <2>4, <4>1
    <3> QED BY <3>1, <3>2
  <2>6. g = [m \in 0..n |-> g[m]]
    OBVIOUS
  <2> HIDE DEF g
  <2>7. g = [m \in 0..n |-> IF m = 0 THEN h ELSE Gone(g[m - 1], ps[m])]
    BY <2>5, <2>6
  <2> QED BY <2>7 DEF GoneRun
<1> HIDE DEF T
<1>3. \A n \in 0..L : n \in T
  BY <1>1, <1>2, Climb
<1> QED BY <1>3 DEF T

\* The states on the way.
LEMMA GoneSteps ==
  ASSUME NEW h, NEW ps, Len(ps) \in Nat
  PROVE  \E f : /\ f[0] = h /\ f[Len(ps)] = AllGone(h, ps)
                /\ \A n \in 1..Len(ps) : f[n] = Gone(f[n - 1], ps[n])
<1>1. PICK f : f = CHOOSE g : GoneRun(g, h, ps, Len(ps))
  OBVIOUS
<1>2. GoneRun(f, h, ps, Len(ps))
  BY <1>1, GoneRunExists
<1>3. f[0] = h
  <2>1. 0 \in 0..Len(ps)
    OBVIOUS
  <2> QED BY <1>2, <2>1 DEF GoneRun
<1>4. \A n \in 1..Len(ps) : f[n] = Gone(f[n - 1], ps[n])
  <2> TAKE n \in 1..Len(ps)
  <2>1. n \in 0..Len(ps) /\ n # 0
    OBVIOUS
  <2> QED BY <1>2, <2>1 DEF GoneRun
<1>5. f[Len(ps)] = AllGone(h, ps)
  BY <1>1, AllGoneIs
<1> QED BY <1>3, <1>4, <1>5

LEMMA AllGoneGood ==
  ASSUME NEW h, GoodObjects(h), NEW ps \in Seq(Particles), IsInjective(ps), ToSet(ps) \subseteq Present(h),
         NEW g, g = AllGone(h, ps)
  PROVE  GoodObjects(g) /\ Lost(h, g, ToSet(ps)) /\ g.count = h.count - Len(ps)
<1>1. Len(ps) \in Nat /\ DOMAIN ps = 1..Len(ps)
  BY LenProperties
<1>2. PICK f : /\ f[0] = h /\ f[Len(ps)] = g
               /\ \A n \in 1..Len(ps) : f[n] = Gone(f[n - 1], ps[n])
  BY <1>1, GoneSteps
<1> DEFINE P(n) == {ps[i] : i \in 1..n}
           T == {n \in 0..Len(ps) : GoodObjects(f[n]) /\ Lost(h, f[n], P(n)) /\ f[n].count = h.count - n}
<1>3. 0 \in T
  <2>1. P(0) = {}
    OBVIOUS
  <2>2. Lost(h, h, {})
    BY DEF Lost, SameSystems, Alike
  <2>3. h.count = h.count - 0
    BY StateFields DEF GoodObjects
  <2> QED BY <1>1, <1>2, <2>1, <2>2, <2>3
<1>4. ASSUME NEW n \in 1..Len(ps), n - 1 \in T PROVE n \in T
  <2>1. PICK k : k = f[n - 1]
    OBVIOUS
  <2>2. GoodObjects(k) /\ Lost(h, k, P(n - 1)) /\ k.count = h.count - (n - 1)
    BY <1>4, <2>1
  <2>3. ps[n] \in Present(h) /\ ps[n] \notin P(n - 1)
    BY <1>1 DEF IsInjective, ToSet
  <2>4. ps[n] \in Present(k)
    BY <2>2, <2>3 DEF Lost
  <2>5. GoodObjects(f[n]) /\ Lost(k, f[n], {ps[n]}) /\ (f[n]).count = k.count - 1
    BY <1>2, <2>1, <2>2, <2>4, GoneGood
  <2>6. P(n) = P(n - 1) \cup {ps[n]}
    BY <1>1
  <2> HIDE DEF P
  <2>7. Lost(h, f[n], P(n))
    <3>1. SameSystems(h, f[n])
      BY <2>2, <2>5, SameSystemsOn DEF Lost
    <3>2. Present(f[n]) = Present(h) \ P(n)
      BY <2>2, <2>5, <2>6 DEF Lost
    <3>3. \A r \in Present(f[n]) : (f[n]).part[r] = h.part[r]
      BY <2>2, <2>5, <3>2 DEF Lost
    <3> QED BY <2>2, <2>5, <3>1, <3>2, <3>3 DEF Lost
  <2>8. (f[n]).count = h.count - n
    BY <2>2, <2>5, StateFields DEF GoodObjects
  <2> QED BY <2>5, <2>7, <2>8
<1>5. P(Len(ps)) = ToSet(ps)
  BY <1>1 DEF ToSet
<1> HIDE DEF T, P
<1>6. \A n \in 0..Len(ps) : n \in T
  BY <1>1, <1>3, <1>4, Climb
<1>7. Len(ps) \in T
  BY <1>1, <1>6
<1> QED BY <1>2, <1>5, <1>7 DEF T

-----------------------------------------------------------------------------
(* A system that is deleted.                                                 *)

\* What a system keeps when its links are cut.
LinksApart(x, r) ==
  /\ x.template = r.template /\ x.id = r.id /\ x.destroyed = r.destroyed
  /\ x.control = r.control /\ x.particles = r.particles

LEMMA UnlinkedRecord ==
  ASSUME NEW r \in SystemRecords, NEW x,
         x = [r EXCEPT !.slave = NoSystem, !.slaveID = 0, !.master = NoSystem, !.masterID = 0]
  PROVE  /\ x \in SystemRecords /\ LinksApart(x, r)
         /\ x.slave = NoSystem /\ x.slaveID = 0 /\ x.master = NoSystem /\ x.masterID = 0
BY DEF SystemRecords, LinksApart

LEMMA NoMasterRecord ==
  ASSUME NEW r \in SystemRecords, NEW x, x = [r EXCEPT !.master = NoSystem, !.masterID = 0]
  PROVE  /\ x \in SystemRecords /\ LinksApart(x, r)
         /\ x.slave = r.slave /\ x.slaveID = r.slaveID /\ x.master = NoSystem /\ x.masterID = 0
BY DEF SystemRecords, LinksApart

LEMMA NoSlaveRecord ==
  ASSUME NEW r \in SystemRecords, NEW x, x = [r EXCEPT !.slave = NoSystem, !.slaveID = 0]
  PROVE  /\ x \in SystemRecords /\ LinksApart(x, r)
         /\ x.slave = NoSystem /\ x.slaveID = 0 /\ x.master = r.master /\ x.masterID = r.masterID
BY DEF SystemRecords, LinksApart

\* The links of the system t, once those of s are cut.
LinksOf(h, s, t, x) ==
  /\ LinksApart(x, h.sys[t])
  /\ IF t = s \/ t = h.sys[s].master THEN x.slave = NoSystem /\ x.slaveID = 0
     ELSE x.slave = h.sys[t].slave /\ x.slaveID = h.sys[t].slaveID
  /\ IF t = s \/ t = h.sys[s].slave THEN x.master = NoSystem /\ x.masterID = 0
     ELSE x.master = h.sys[t].master /\ x.masterID = h.sys[t].masterID

LEMMA UnlinkedIs ==
  ASSUME NEW h, GoodObjects(h), NEW s \in Live(h), NEW g, g = Unlinked(h, s)
  PROVE  /\ g \in States /\ g.part = h.part /\ g.order = h.order /\ g.overall = h.overall
         /\ g.count = h.count /\ g.systemCount = h.systemCount /\ g.lastID = h.lastID
         /\ Live(g) = Live(h) /\ \A t \in Live(h) : LinksOf(h, s, t, g.sys[t])
<1>1. h \in States /\ Slaves(h) /\ Masters(h) /\ IDs(h)
  BY DEF GoodObjects
<1> DEFINE slave == h.sys[s].slave
           master == h.sys[s].master
           f == [t \in Systems |->
      CASE t = s -> [h.sys[t] EXCEPT !.slave = NoSystem, !.slaveID = 0, !.master = NoSystem, !.masterID = 0]
        [] t = slave /\ t # s -> [h.sys[t] EXCEPT !.master = NoSystem, !.masterID = 0]
        [] t = master /\ t # s -> [h.sys[t] EXCEPT !.slave = NoSystem, !.slaveID = 0]
        [] OTHER -> h.sys[t]]
<1>7. g = [h EXCEPT !.sys = f]
  BY DEF Unlinked
<1>2. slave = h.sys[s].slave /\ master = h.sys[s].master
  OBVIOUS
<1>3. \A t \in Systems : f[t] =
      CASE t = s -> [h.sys[t] EXCEPT !.slave = NoSystem, !.slaveID = 0, !.master = NoSystem, !.masterID = 0]
        [] t = slave /\ t # s -> [h.sys[t] EXCEPT !.master = NoSystem, !.masterID = 0]
        [] t = master /\ t # s -> [h.sys[t] EXCEPT !.slave = NoSystem, !.slaveID = 0]
        [] OTHER -> h.sys[t]
  OBVIOUS
<1>15. f = [t \in Systems |-> f[t]]
  OBVIOUS
<1> HIDE DEF f, slave, master
<1>4. \A t \in Live(h) : h.sys[t] \in SystemRecords /\ t \in Systems /\ h.sys[t].id \in Nat
  BY <1>1, Objects, RecordFields
<1>5. /\ slave # NoSystem => slave \in Live(h) /\ h.sys[slave].id > h.sys[s].id
      /\ master # NoSystem => master \in Live(h) /\ h.sys[s].id > h.sys[master].id
      /\ NoSystem \notin Live(h)
  <2>1. slave # NoSystem => slave \in Live(h) /\ h.sys[slave].id > h.sys[s].id
    BY <1>1, <1>2 DEF Slaves
  <2>2. ASSUME master # NoSystem PROVE master \in Live(h) /\ h.sys[s].id > h.sys[master].id
    <3>1. master \in Live(h) /\ h.sys[master].slave = s
      BY <1>1, <1>2, <2>2 DEF Masters
    <3>2. s # NoSystem
      BY ParticleAssumption DEF Live
    <3> QED BY <1>1, <3>1, <3>2 DEF Slaves
  <2>3. NoSystem \notin Live(h)
    BY ParticleAssumption DEF Live
  <2> QED BY <2>1, <2>2, <2>3
<1>6. slave # s /\ master # s /\ (slave = master => slave = NoSystem)
  BY <1>4, <1>5
<1>8. ASSUME NEW t \in Live(h)
      PROVE  f[t] \in SystemRecords /\ LinksOf(h, s, t, f[t])
  <2>1. CASE t = s
    <3>1. f[t] = [h.sys[t] EXCEPT !.slave = NoSystem, !.slaveID = 0, !.master = NoSystem, !.masterID = 0]
      BY <1>3, <1>4, <2>1
    <3> QED BY <1>4, <2>1, <3>1, UnlinkedRecord, ZenonT(60) DEF LinksOf
  <2>2. CASE t = slave
    <3>1. t # s /\ t # master
      BY <1>5, <1>6, <2>2
    <3>2. f[t] = [h.sys[t] EXCEPT !.master = NoSystem, !.masterID = 0]
      BY <1>3, <1>4, <2>2, <3>1
    <3>3. /\ f[t] \in SystemRecords /\ LinksApart(f[t], h.sys[t])
          /\ (f[t]).slave = h.sys[t].slave /\ (f[t]).slaveID = h.sys[t].slaveID
          /\ (f[t]).master = NoSystem /\ (f[t]).masterID = 0
      BY <1>4, <3>2, NoMasterRecord, ZenonT(60)
    <3> QED BY <1>2, <2>2, <3>1, <3>3, ZenonT(60) DEF LinksOf
  <2>3. CASE t = master
    <3>1. t # s /\ t # slave
      BY <1>5, <1>6, <2>3
    <3>2. f[t] = [h.sys[t] EXCEPT !.slave = NoSystem, !.slaveID = 0]
      BY <1>3, <1>4, <2>3, <3>1
    <3>3. /\ f[t] \in SystemRecords /\ LinksApart(f[t], h.sys[t])
          /\ (f[t]).slave = NoSystem /\ (f[t]).slaveID = 0
          /\ (f[t]).master = h.sys[t].master /\ (f[t]).masterID = h.sys[t].masterID
      BY <1>4, <3>2, NoSlaveRecord, ZenonT(60)
    <3> QED BY <1>2, <2>3, <3>1, <3>3, ZenonT(60) DEF LinksOf
  <2>4. CASE t # s /\ t # slave /\ t # master
    <3>1. f[t] = h.sys[t]
      BY <1>3, <1>4, <2>4, ZenonT(60)
    <3> QED BY <1>2, <1>4, <2>4, <3>1, ZenonT(60) DEF LinksOf, LinksApart
  <2> QED BY <2>1, <2>2, <2>3, <2>4
<1>9. \A t \in Systems : t \notin Live(h) => f[t] = h.sys[t]
  <2> TAKE t \in Systems
  <2> HAVE t \notin Live(h)
  <2>1. t # s /\ t # slave /\ t # master
    BY <1>5, ParticleAssumption
  <2> QED BY <1>3, <2>1
<1>10. f \in [Systems -> SystemRecords \cup {NoSystem}]
  <2>1. \A t \in Systems : f[t] \in SystemRecords \cup {NoSystem}
    BY <1>1, <1>8, <1>9, Objects
  <2> QED BY <1>15, <2>1
<1>11. /\ g \in States /\ g.sys = f /\ g.part = h.part /\ g.order = h.order /\ g.overall = h.overall
       /\ g.count = h.count /\ g.systemCount = h.systemCount /\ g.lastID = h.lastID
  BY <1>1, <1>7, <1>10, SystemsChanged
<1>12. \A t \in Systems : t \in Live(g) <=> t \in Live(h)
  BY <1>1, <1>4, <1>8, <1>9, <1>11, Objects
<1>13. Live(g) = Live(h)
  BY <1>12 DEF Live
<1> QED BY <1>8, <1>11, <1>13

LEMMA UnlinkedGood ==
  ASSUME NEW h, GoodObjects(h), NEW s \in Live(h), NEW g, g = Unlinked(h, s)
  PROVE  /\ GoodObjects(g) /\ g.sys[s].slave = NoSystem /\ g.sys[s].master = NoSystem
         /\ \A t \in Live(g) : g.sys[t].slave # s /\ g.sys[t].master # s
<1>1. h \in States /\ Slaves(h) /\ Masters(h) /\ ParticlesListed(h) /\ Controls(h) /\ IDs(h) /\ SlavesDestroyed(h)
  BY DEF GoodObjects
<1>2. /\ g \in States /\ g.part = h.part /\ g.order = h.order /\ g.overall = h.overall
      /\ g.count = h.count /\ g.systemCount = h.systemCount /\ g.lastID = h.lastID
      /\ Live(g) = Live(h) /\ \A t \in Live(h) : LinksOf(h, s, t, g.sys[t])
  BY UnlinkedIs
<1>3. Present(g) = Present(h) /\ NoSystem \notin Live(h)
  BY <1>2, ParticleAssumption DEF Present, Live
<1>4. \A t \in Live(h) : /\ g.sys[t].template = h.sys[t].template /\ g.sys[t].id = h.sys[t].id
                         /\ g.sys[t].destroyed = h.sys[t].destroyed /\ g.sys[t].control = h.sys[t].control
                         /\ g.sys[t].particles = h.sys[t].particles
  BY <1>2 DEF LinksOf, LinksApart
<1>5. \A t \in Live(h) :
        /\ IF t = s \/ t = h.sys[s].master THEN g.sys[t].slave = NoSystem /\ g.sys[t].slaveID = 0
           ELSE g.sys[t].slave = h.sys[t].slave /\ g.sys[t].slaveID = h.sys[t].slaveID
        /\ IF t = s \/ t = h.sys[s].slave THEN g.sys[t].master = NoSystem /\ g.sys[t].masterID = 0
           ELSE g.sys[t].master = h.sys[t].master /\ g.sys[t].masterID = h.sys[t].masterID
  BY <1>2 DEF LinksOf
<1>6. \A p \in Present(h) : h.part[p].home \in Live(h) /\ Rank(g, p) = Rank(h, p)
  BY <1>1, <1>2, <1>4 DEF ParticlesListed, Rank
<1>7. ParticlesListed(g)
  <2>1. g.count = Cardinality(Present(g)) /\ \A p \in Present(g) : g.part[p].home \in Live(g)
    BY <1>1, <1>2, <1>3 DEF ParticlesListed
  <2>2. \A q \in Priorities :
          IsInjective(g.overall[q]) /\ ToSet(g.overall[q]) = {p \in Present(g) : Rank(g, p) = q}
    <3> TAKE q \in Priorities
    <3>1. IsInjective(h.overall[q]) /\ ToSet(h.overall[q]) = {p \in Present(h) : Rank(h, p) = q}
      BY <1>1 DEF ParticlesListed
    <3> QED BY <1>2, <1>3, <1>6, <3>1
  <2>3. \A t \in Live(g) :
          IsInjective(g.sys[t].particles) /\ ToSet(g.sys[t].particles) = {p \in Present(g) : g.part[p].home = t}
    <3> TAKE t \in Live(g)
    <3>1. IsInjective(h.sys[t].particles) /\ ToSet(h.sys[t].particles) = {p \in Present(h) : h.part[p].home = t}
      BY <1>1, <1>2 DEF ParticlesListed
    <3> QED BY <1>2, <1>3, <1>4, <3>1
  <2> QED BY <2>1, <2>2, <2>3 DEF ParticlesListed
<1>8. Controls(g)
  BY <1>1, <1>2, <1>3, <1>4 DEF Controls
<1>9. IDs(g)
  BY <1>1, <1>2, <1>4 DEF IDs
<1>10. \A t \in Live(h) : /\ h.sys[t].slave = s => t = h.sys[s].master
                          /\ h.sys[t].master = s => t = h.sys[s].slave
  <2> TAKE t \in Live(h)
  <2>1. h.sys[t].slave = s => t = h.sys[s].master
    BY <1>1, <1>3 DEF Slaves
  <2>2. h.sys[t].master = s => t = h.sys[s].slave
    BY <1>1, <1>3 DEF Masters
  <2> QED BY <2>1, <2>2
<1>11. /\ g.sys[s].slave = NoSystem /\ g.sys[s].master = NoSystem
       /\ \A t \in Live(g) : g.sys[t].slave # s /\ g.sys[t].master # s
  BY <1>2, <1>3, <1>5, <1>10
<1>12. Slaves(g)
  <2> SUFFICES ASSUME NEW t \in Live(h)
               PROVE  IF g.sys[t].slave = NoSystem THEN g.sys[t].slaveID = 0
                      ELSE /\ g.sys[t].slave \in Live(h) /\ g.sys[g.sys[t].slave].master = t
                           /\ g.sys[t].slaveID = g.sys[g.sys[t].slave].id
                           /\ g.sys[g.sys[t].slave].id > g.sys[t].id
    BY <1>2 DEF Slaves
  <2>1. CASE t = s \/ t = h.sys[s].master
    BY <1>5, <2>1
  <2>2. CASE ~(t = s \/ t = h.sys[s].master)
    <3>1. PICK u : u = h.sys[t].slave
      OBVIOUS
    <3>2. g.sys[t].slave = u /\ g.sys[t].slaveID = h.sys[t].slaveID /\ u # s
      BY <1>2, <1>5, <1>11, <2>2, <3>1
    <3>3. CASE u = NoSystem
      BY <1>1, <3>1, <3>2, <3>3 DEF Slaves
    <3>4. CASE u # NoSystem
      <4>1. u \in Live(h) /\ h.sys[u].master = t /\ h.sys[t].slaveID = h.sys[u].id /\ h.sys[u].id > h.sys[t].id
        BY <1>1, <3>1, <3>4 DEF Slaves
      <4>2. u # h.sys[s].slave
        <5> SUFFICES ASSUME u = h.sys[s].slave PROVE FALSE
          OBVIOUS
        <5>1. h.sys[u].master = s
          BY <1>1, <3>4 DEF Slaves
        <5> QED BY <2>2, <4>1, <5>1
      <4>3. g.sys[u].master = t
        BY <1>5, <3>2, <4>1, <4>2
      <4> QED BY <1>4, <3>2, <3>4, <4>1, <4>3
    <3> QED BY <3>3, <3>4
  <2> QED BY <2>1, <2>2
<1>13. Masters(g)
  <2> SUFFICES ASSUME NEW t \in Live(h)
               PROVE  IF g.sys[t].master = NoSystem THEN g.sys[t].masterID = 0
                      ELSE /\ g.sys[t].master \in Live(h) /\ g.sys[g.sys[t].master].slave = t
                           /\ g.sys[t].masterID = g.sys[g.sys[t].master].id
    BY <1>2 DEF Masters
  <2>1. CASE t = s \/ t = h.sys[s].slave
    BY <1>5, <2>1
  <2>2. CASE ~(t = s \/ t = h.sys[s].slave)
    <3>1. PICK u : u = h.sys[t].master
      OBVIOUS
    <3>2. g.sys[t].master = u /\ g.sys[t].masterID = h.sys[t].masterID /\ u # s
      BY <1>2, <1>5, <1>11, <2>2, <3>1
    <3>3. CASE u = NoSystem
      BY <1>1, <3>1, <3>2, <3>3 DEF Masters
    <3>4. CASE u # NoSystem
      <4>1. u \in Live(h) /\ h.sys[u].slave = t /\ h.sys[t].masterID = h.sys[u].id
        BY <1>1, <3>1, <3>4 DEF Masters
      <4>2. u # h.sys[s].master
        <5> SUFFICES ASSUME u = h.sys[s].master PROVE FALSE
          OBVIOUS
        <5>1. h.sys[u].slave = s
          BY <1>1, <3>4 DEF Masters
        <5> QED BY <2>2, <4>1, <5>1
      <4>3. g.sys[u].slave = t
        BY <1>5, <3>2, <4>1, <4>2
      <4> QED BY <1>4, <3>2, <3>4, <4>1, <4>3
    <3> QED BY <3>3, <3>4
  <2> QED BY <2>1, <2>2
<1>14. SlavesDestroyed(g)
  <2> SUFFICES ASSUME NEW t \in Live(h), g.sys[t].destroyed, g.sys[t].slave # NoSystem
               PROVE  g.sys[g.sys[t].slave].destroyed
    BY <1>2 DEF SlavesDestroyed
  <2>1. g.sys[t].slave = h.sys[t].slave /\ h.sys[t].destroyed
    BY <1>4, <1>5
  <2>2. h.sys[t].slave \in Live(h)
    BY <1>1, <2>1 DEF Slaves
  <2> QED BY <1>1, <1>4, <2>1, <2>2 DEF SlavesDestroyed
<1> QED BY <1>2, <1>7, <1>8, <1>9, <1>11, <1>12, <1>13, <1>14 DEF GoodObjects

\* What the destructor of the system s leaves: s and its particles are gone.
SystemLost(h, s, g) ==
  /\ Live(g) = Live(h) \ {s} /\ Present(g) = {p \in Present(h) : h.part[p].home # s}
  /\ \A t \in Live(g) : g.sys[t].template = h.sys[t].template
  /\ \A p \in Present(g) : g.part[p].home = h.part[p].home
  /\ g.lastID = h.lastID

\* The controlling particle of s lets it go.
LEMMA ReleasedIs ==
  ASSUME NEW h, GoodObjects(h), NEW s \in Live(h), NEW g, g = Released(h, s)
  PROVE  /\ g \in States /\ g.sys = h.sys /\ g.order = h.order /\ g.overall = h.overall
         /\ g.count = h.count /\ g.systemCount = h.systemCount /\ g.lastID = h.lastID
         /\ Present(g) = Present(h)
         /\ \A p \in Present(h) : /\ (g.part[p]).home = h.part[p].home
                                 /\ (g.part[p]).controls = IF h.part[p].controls = s THEN NoSystem ELSE h.part[p].controls
<1>1. h \in States /\ Controls(h) /\ NoSystem \notin Live(h)
  BY ParticleAssumption DEF GoodObjects, Live
<1>2. PICK c : c = h.sys[s].control
  OBVIOUS
<1>3. s # NoSystem
  BY <1>1
<1>4. CASE c = NoParticle
  <2>1. g = h
    BY <1>2, <1>4 DEF Released
  <2>2. \A p \in Present(h) : h.part[p].controls # s
    <3> SUFFICES ASSUME NEW p \in Present(h), h.part[p].controls = s PROVE FALSE
      OBVIOUS
    <3>1. h.sys[s].control = p /\ p \in Particles
      BY <1>1, <1>3 DEF Controls, Present
    <3> QED BY <1>2, <1>4, <3>1, ParticleAssumption
  <2> QED BY <1>1, <2>1, <2>2
<1>5. CASE c # NoParticle
  <2>1. c \in Present(h) /\ h.part[c].controls = s
    BY <1>1, <1>2, <1>5 DEF Controls
  <2>2. c \in Particles /\ h.part[c] \in ParticleRecords
    BY <1>1, <2>1, Objects
  <2>3. PICK x : x = [h.part[c] EXCEPT !.controls = NoSystem]
    OBVIOUS
  <2>4. x \in ParticleRecords /\ x.home = h.part[c].home /\ x.controls = NoSystem
    BY <2>2, <2>3 DEF ParticleRecords
  <2>5. PICK w : w = [h.part EXCEPT ![c] = x]
    OBVIOUS
  <2>6. /\ w \in [Particles -> ParticleRecords \cup {NoParticle}]
        /\ \A p \in Particles : w[p] = IF p = c THEN x ELSE h.part[p]
    BY <1>1, <2>4, <2>5, StateFields
  <2>7. g = [h EXCEPT !.part = w]
    BY <1>2, <1>5, <2>3, <2>5 DEF Released
  <2>8. /\ g \in States /\ g.sys = h.sys /\ g.part = w /\ g.order = h.order /\ g.overall = h.overall
        /\ g.count = h.count /\ g.systemCount = h.systemCount /\ g.lastID = h.lastID
    BY <1>1, <2>6, <2>7 DEF States
  <2>9. \A p \in Particles : p \in Present(g) <=> p \in Present(h)
    BY <1>1, <2>2, <2>4, <2>6, <2>8, Objects
  <2>10. Present(g) = Present(h)
    BY <2>9 DEF Present
  <2>11. ASSUME NEW p \in Present(h)
         PROVE  /\ (g.part[p]).home = h.part[p].home
                /\ (g.part[p]).controls = IF h.part[p].controls = s THEN NoSystem ELSE h.part[p].controls
    <3>1. p \in Particles
      BY DEF Present
    <3>2. CASE p = c
      BY <2>1, <2>4, <2>6, <2>8, <3>1, <3>2
    <3>3. CASE p # c
      <4>1. g.part[p] = h.part[p]
        BY <2>6, <2>8, <3>1, <3>3
      <4>2. h.part[p].controls # s
        BY <1>1, <1>2, <1>3, <3>3 DEF Controls
      <4> QED BY <4>1, <4>2
    <3> QED BY <3>2, <3>3
  <2> QED BY <2>8, <2>10, <2>11
<1> QED BY <1>4, <1>5

LEMMA DeletedGood ==
  ASSUME NEW h, Good(h), NEW s \in Live(h), NEW g, g = Deleted(h, s)
  PROVE  Good(g) /\ SystemLost(h, s, g)
<1>1. PICK u : u = Unlinked(h, s)
  OBVIOUS
<1>2. /\ GoodObjects(u) /\ u.sys[s].slave = NoSystem /\ u.sys[s].master = NoSystem
      /\ \A t \in Live(u) : u.sys[t].slave # s /\ u.sys[t].master # s
  BY <1>1, UnlinkedGood DEF Good
<1>3. /\ u \in States /\ u.part = h.part /\ u.order = h.order
      /\ u.systemCount = h.systemCount /\ u.lastID = h.lastID
      /\ Live(u) = Live(h) /\ \A t \in Live(h) : u.sys[t].template = h.sys[t].template
  BY <1>1, UnlinkedIs DEF Good, LinksOf, LinksApart
<1>4. PICK ps : ps = u.sys[s].particles
  OBVIOUS
<1>5. /\ ps \in Seq(Particles) /\ IsInjective(ps)
      /\ ToSet(ps) = {p \in Present(u) : u.part[p].home = s}
  BY <1>2, <1>3, <1>4, Objects, RecordFields DEF GoodObjects, ParticlesListed
<1>6. PICK v : v = AllGone(u, ps)
  OBVIOUS
<1>7. GoodObjects(v) /\ Lost(u, v, ToSet(ps))
  <2>1. ToSet(ps) \subseteq Present(u)
    BY <1>5
  <2> QED BY <1>2, <1>5, <1>6, <2>1, AllGoneGood
<1>8. Present(u) = Present(h)
  BY <1>3 DEF Present
<1>9. /\ v \in States /\ ParticlesListed(v) /\ Slaves(v) /\ Masters(v) /\ Controls(v) /\ SlavesDestroyed(v) /\ IDs(v)
      /\ v.order = h.order /\ v.systemCount = h.systemCount /\ v.lastID = h.lastID
      /\ Live(v) = Live(h)
  BY <1>3, <1>7 DEF GoodObjects, Lost, SameSystems
<1>10. /\ Present(v) = {p \in Present(h) : h.part[p].home # s}
       /\ \A p \in Present(v) : v.part[p] = h.part[p]
  BY <1>3, <1>5, <1>7, <1>8 DEF Lost
<1>11. /\ \A t \in Live(v) : v.sys[t].template = h.sys[t].template
       /\ \A t \in Live(v) : v.sys[t].slave # s /\ v.sys[t].master # s
  BY <1>2, <1>3, <1>7 DEF Lost, SameSystems, Alike
<1>12. PICK r : r = Released(v, s)
  OBVIOUS
<1>13. /\ r \in States /\ r.sys = v.sys /\ r.order = h.order /\ r.overall = v.overall
       /\ r.count = v.count /\ r.systemCount = h.systemCount /\ r.lastID = h.lastID
       /\ Present(r) = Present(v)
       /\ \A p \in Present(v) : /\ (r.part[p]).home = v.part[p].home
                               /\ (r.part[p]).controls = IF v.part[p].controls = s THEN NoSystem ELSE v.part[p].controls
  BY <1>7, <1>9, <1>12, ReleasedIs
<1>14. g = [r EXCEPT !.sys[s] = NoSystem, !.order = RemoveFirst(@, s), !.systemCount = @ - 1]
  BY <1>1, <1>4, <1>6, <1>12 DEF Deleted
<1>15. PICK o : o = RemoveFirst(h.order, s)
  OBVIOUS
<1>16. o \in Seq(Systems) /\ IsInjective(o) /\ ToSet(o) = Live(h) \ {s} /\ h.systemCount - 1 = Len(o)
  <2>1. /\ h.order \in Seq(Systems) /\ IsInjective(h.order) /\ ToSet(h.order) = Live(h)
        /\ h.systemCount = Len(h.order)
    BY StateFields DEF Good, GoodObjects, SystemsListed
  <2> QED BY <1>15, <2>1, Removed
<1>17. PICK f : f = [v.sys EXCEPT ![s] = NoSystem]
  OBVIOUS
<1>18. /\ f \in [Systems -> SystemRecords \cup {NoSystem}]
       /\ \A t \in Systems : f[t] = IF t = s THEN NoSystem ELSE v.sys[t]
  <2>1. v.sys \in [Systems -> SystemRecords \cup {NoSystem}]
    BY <1>9, StateFields
  <2> QED BY <1>17, <2>1
<1>19. g = [r EXCEPT !.sys = f, !.order = o, !.systemCount = @ - 1]
  BY <1>13, <1>14, <1>15, <1>17
<1>20. /\ g \in States /\ g.sys = f /\ g.part = r.part /\ g.order = o /\ g.overall = v.overall
       /\ g.count = v.count /\ g.systemCount = h.systemCount - 1 /\ g.lastID = h.lastID
  <2>1. r \in States /\ r.systemCount - 1 \in Int
    BY <1>13, StateFields
  <2>2. f \in [Systems -> SystemRecords \cup {NoSystem}] /\ o \in Seq(Systems)
    BY <1>16, <1>18
  <2>3. /\ g \in States /\ g.sys = f /\ g.part = r.part /\ g.order = o /\ g.overall = r.overall
        /\ g.count = r.count /\ g.systemCount = r.systemCount - 1 /\ g.lastID = r.lastID
    BY <1>19, <2>1, <2>2 DEF States
  <2> QED BY <1>13, <2>3
<1>21. Live(g) = Live(h) \ {s}
  <2>1. \A t \in Systems : t \in Live(g) <=> t \in Live(v) /\ t # s
    BY <1>18, <1>20 DEF Live
  <2> QED BY <1>9, <2>1 DEF Live
<1>22. \A t \in Live(g) : t \in Systems /\ t \in Live(v) /\ t # s /\ g.sys[t] = v.sys[t]
  BY <1>9, <1>18, <1>20, <1>21 DEF Live
<1>23. Present(g) = Present(v)
  BY <1>13, <1>20 DEF Present
<1>24. \A p \in Present(g) :
         /\ (g.part[p]).home = h.part[p].home /\ (g.part[p]).home = v.part[p].home
         /\ h.part[p].home # s /\ h.part[p].home \in Live(g)
         /\ (g.part[p]).controls = IF v.part[p].controls = s THEN NoSystem ELSE v.part[p].controls
  <2> TAKE p \in Present(g)
  <2>1. p \in Present(h) /\ h.part[p].home # s /\ v.part[p] = h.part[p]
    BY <1>10, <1>23
  <2>2. h.part[p].home \in Live(h)
    BY <2>1 DEF Good, GoodObjects, ParticlesListed
  <2> QED BY <1>13, <1>20, <1>21, <1>23, <2>1, <2>2
<1>25. SystemLost(h, s, g)
  BY <1>10, <1>11, <1>20, <1>21, <1>22, <1>23, <1>24 DEF SystemLost
<1>26. ParticlesListed(g)
  <2>1. g.count = Cardinality(Present(g)) /\ \A p \in Present(g) : g.part[p].home \in Live(g)
    BY <1>9, <1>20, <1>23, <1>24 DEF ParticlesListed
  <2>2. \A p \in Present(g) : Rank(g, p) = Rank(v, p)
    BY <1>22, <1>24 DEF Rank
  <2>3. ASSUME NEW q \in Priorities
        PROVE  IsInjective(g.overall[q]) /\ ToSet(g.overall[q]) = {p \in Present(g) : Rank(g, p) = q}
    <3>1. IsInjective(v.overall[q]) /\ ToSet(v.overall[q]) = {p \in Present(v) : Rank(v, p) = q}
      BY <1>9 DEF ParticlesListed
    <3> QED BY <1>20, <1>23, <2>2, <3>1
  <2>4. ASSUME NEW t \in Live(g)
        PROVE  IsInjective(g.sys[t].particles) /\ ToSet(g.sys[t].particles) = {p \in Present(g) : g.part[p].home = t}
    <3>1. IsInjective(v.sys[t].particles) /\ ToSet(v.sys[t].particles) = {p \in Present(v) : v.part[p].home = t}
      BY <1>9, <1>22 DEF ParticlesListed
    <3> QED BY <1>22, <1>23, <1>24, <3>1
  <2> QED BY <2>1, <2>3, <2>4 DEF ParticlesListed
<1>27. Controls(g)
  <2>1. ASSUME NEW t \in Live(g), g.sys[t].control # NoParticle
        PROVE  g.sys[t].control \in Present(g) /\ g.part[g.sys[t].control].controls = t
    <3>1. g.sys[t].control \in Present(v) /\ v.part[g.sys[t].control].controls = t
      BY <1>9, <1>22, <2>1 DEF Controls
    <3> QED BY <1>22, <1>23, <1>24, <3>1
  <2>2. ASSUME NEW p \in Present(g), g.part[p].controls # NoSystem
        PROVE  g.part[p].controls \in Live(g) /\ g.sys[g.part[p].controls].control = p
    <3>1. g.part[p].controls = v.part[p].controls /\ v.part[p].controls # s /\ p \in Present(v)
      BY <1>23, <1>24, <2>2
    <3>2. v.part[p].controls \in Live(v) /\ v.sys[v.part[p].controls].control = p
      BY <1>9, <2>2, <3>1 DEF Controls
    <3>3. v.part[p].controls \in Live(g)
      BY <1>9, <1>21, <3>1, <3>2
    <3> QED BY <1>22, <3>1, <3>2, <3>3
  <2> QED BY <2>1, <2>2 DEF Controls
<1>28. Slaves(g) /\ Masters(g)
  <2>1. \A t \in Live(v) : t # s => t \in Live(g)
    BY <1>9, <1>21
  <2>2. Slaves(g)
    BY <1>9, <1>11, <1>22, <2>1 DEF Slaves
  <2>3. Masters(g)
    BY <1>9, <1>11, <1>22, <2>1 DEF Masters
  <2> QED BY <2>2, <2>3
<1>29. SlavesDestroyed(g)
  <2> SUFFICES ASSUME NEW t \in Live(g), g.sys[t].destroyed, g.sys[t].slave # NoSystem
               PROVE  g.sys[g.sys[t].slave].destroyed
    BY DEF SlavesDestroyed
  <2>1. g.sys[t].slave \in Live(g) /\ g.sys[t] = v.sys[t] /\ t \in Live(v)
    BY <1>22, <1>28 DEF Slaves
  <2> QED BY <1>9, <1>22, <2>1 DEF SlavesDestroyed
<1>30. IDs(g)
  BY <1>9, <1>20, <1>22 DEF IDs
<1>31. SystemsListed(g)
  BY <1>16, <1>20, <1>21 DEF SystemsListed
<1> QED BY <1>20, <1>25, <1>26, <1>27, <1>28, <1>29, <1>30, <1>31 DEF Good, GoodObjects

-----------------------------------------------------------------------------
(* All systems that are deleted.                                             *)

\* The function that the definition of AllDeleted has inside.
DeletedRun(f, h, ss, L) == f = [n \in 0..L |-> IF n = 0 THEN h ELSE Deleted(f[n - 1], ss[n])]

LEMMA AllDeletedIs ==
  ASSUME NEW h, NEW ss
  PROVE  AllDeleted(h, ss) = (CHOOSE f : DeletedRun(f, h, ss, Len(ss)))[Len(ss)]
BY DEF AllDeleted, DeletedRun

LEMMA DeletedRunExists ==
  ASSUME NEW h, NEW ss, NEW L \in Nat
  PROVE  \E f : DeletedRun(f, h, ss, L)
<1> DEFINE T == {n \in 0..L : \E f : DeletedRun(f, h, ss, n)}
<1>1. 0 \in T
  <2>1. DeletedRun([n \in 0..0 |-> h], h, ss, 0)
    BY DEF DeletedRun
  <2> QED BY <2>1
<1>2. ASSUME NEW n \in 1..L, n - 1 \in T PROVE n \in T
  <2>1. PICK f : DeletedRun(f, h, ss, n - 1)
    BY <1>2
  <2> DEFINE g == [m \in 0..n |-> IF m = n THEN Deleted(f[n - 1], ss[n]) ELSE f[m]]
  <2>2. n \in Nat /\ n - 1 \in Nat /\ n # 0
    OBVIOUS
  <2>3. \A m \in 0..(n - 1) : f[m] = IF m = 0 THEN h ELSE Deleted(f[m - 1], ss[m])
    BY <2>1, Zenon DEF DeletedRun
  <2>4. \A m \in 0..(n - 1) : g[m] = f[m]
    BY <2>2
  <2>5. ASSUME NEW m \in 0..n PROVE g[m] = IF m = 0 THEN h ELSE Deleted(g[m - 1], ss[m])
    <3>1. CASE m = n
      <4>1. n - 1 \in 0..(n - 1) /\ n \in 0..n
        BY <2>2
      <4>2. g[n] = Deleted(f[n - 1], ss[n])
        BY <4>1
      <4> QED BY <2>2, <2>4, <3>1, <4>1, <4>2
    <3>2. CASE m # n
      <4>1. m \in 0..(n - 1) /\ (m # 0 => m - 1 \in 0..(n - 1))
        BY <2>2, <3>2
      <4> HIDE DEF g
      <4> QED BY <2>3, <2>4, <4>1
    <3> QED BY <3>1, <3>2
  <2>6. g = [m \in 0..n |-> g[m]]
    OBVIOUS
  <2> HIDE DEF g
  <2>7. g = [m \in 0..n |-> IF m = 0 THEN h ELSE Deleted(g[m - 1], ss[m])]
    BY <2>5, <2>6
  <2> QED BY <2>7 DEF DeletedRun
<1> HIDE DEF T
<1>3. \A n \in 0..L : n \in T
  BY <1>1, <1>2, Climb
<1> QED BY <1>3 DEF T

\* The states on the way.
LEMMA DeletedSteps ==
  ASSUME NEW h, NEW ss, Len(ss) \in Nat
  PROVE  \E f : /\ f[0] = h /\ f[Len(ss)] = AllDeleted(h, ss)
                /\ \A n \in 1..Len(ss) : f[n] = Deleted(f[n - 1], ss[n])
<1>1. PICK f : f = CHOOSE g : DeletedRun(g, h, ss, Len(ss))
  OBVIOUS
<1>2. DeletedRun(f, h, ss, Len(ss))
  BY <1>1, DeletedRunExists
<1>3. f[0] = h
  <2>1. 0 \in 0..Len(ss)
    OBVIOUS
  <2> QED BY <1>2, <2>1 DEF DeletedRun
<1>4. \A n \in 1..Len(ss) : f[n] = Deleted(f[n - 1], ss[n])
  <2> TAKE n \in 1..Len(ss)
  <2>1. n \in 0..Len(ss) /\ n # 0
    OBVIOUS
  <2> QED BY <1>2, <2>1 DEF DeletedRun
<1>5. f[Len(ss)] = AllDeleted(h, ss)
  BY <1>1, AllDeletedIs
<1> QED BY <1>3, <1>4, <1>5

LEMMA AllDeletedGood ==
  ASSUME NEW h, Good(h), NEW g, g = AllDeleted(h, h.order)
  PROVE  Good(g) /\ Live(g) = {} /\ Present(g) = {}
<1>1. PICK ss : ss = h.order
  OBVIOUS
<1>2. /\ ss \in Seq(Systems) /\ IsInjective(ss) /\ ToSet(ss) = Live(h)
      /\ Len(ss) \in Nat /\ DOMAIN ss = 1..Len(ss)
  <2>1. ss \in Seq(Systems) /\ IsInjective(ss) /\ ToSet(ss) = Live(h)
    BY <1>1, StateFields DEF Good, GoodObjects, SystemsListed
  <2> QED BY <2>1, LenProperties
<1>3. PICK f : /\ f[0] = h /\ f[Len(ss)] = g
               /\ \A n \in 1..Len(ss) : f[n] = Deleted(f[n - 1], ss[n])
  BY <1>1, <1>2, DeletedSteps
<1> DEFINE P(n) == {ss[i] : i \in 1..n}
           T == {n \in 0..Len(ss) : Good(f[n]) /\ Live(f[n]) = Live(h) \ P(n)}
<1>4. 0 \in T
  <2>1. P(0) = {}
    OBVIOUS
  <2> QED BY <1>2, <1>3, <2>1
<1>5. ASSUME NEW n \in 1..Len(ss), n - 1 \in T PROVE n \in T
  <2>1. PICK k : k = f[n - 1]
    OBVIOUS
  <2>2. Good(k) /\ Live(k) = Live(h) \ P(n - 1)
    BY <1>5, <2>1
  <2>3. ss[n] \in Live(h) /\ ss[n] \notin P(n - 1)
    BY <1>2 DEF IsInjective, ToSet
  <2>4. P(n) = P(n - 1) \cup {ss[n]}
    BY <1>2
  <2> HIDE DEF P
  <2>5. Good(f[n]) /\ SystemLost(k, ss[n], f[n])
    BY <1>3, <2>1, <2>2, <2>3, DeletedGood
  <2>6. Live(f[n]) = Live(h) \ P(n)
    BY <2>2, <2>4, <2>5 DEF SystemLost
  <2> QED BY <2>5, <2>6
<1>6. P(Len(ss)) = Live(h)
  BY <1>2 DEF ToSet
<1> HIDE DEF T, P
<1>7. \A n \in 0..Len(ss) : n \in T
  BY <1>2, <1>4, <1>5, Climb
<1>8. Len(ss) \in T
  BY <1>2, <1>7
<1>9. Good(g) /\ Live(g) = {}
  BY <1>3, <1>6, <1>8 DEF T
<1>10. Present(g) = {}
  BY <1>9 DEF Good, GoodObjects, ParticlesListed
<1> QED BY <1>9, <1>10

-----------------------------------------------------------------------------
(* Particles that come.                                                      *)

\* g is h with the particles P of the system s besides.
Gained(h, s, P, g) ==
  /\ SameSystems(h, g) /\ g.order = h.order /\ g.systemCount = h.systemCount /\ g.lastID = h.lastID
  /\ Present(g) = Present(h) \cup P /\ \A r \in Present(h) : g.part[r] = h.part[r]
  /\ \A r \in P : g.part[r].home = s

LEMMA EmittedGood ==
  ASSUME NEW h, GoodObjects(h), NEW s \in Live(h), NEW p \in Particles, p \notin Present(h),
         NEW g, g = Emitted(h, s, p)
  PROVE  GoodObjects(g) /\ Gained(h, s, {p}, g) /\ g.count = h.count + 1
<1>1. /\ h \in States /\ Slaves(h) /\ Masters(h) /\ ParticlesListed(h) /\ Controls(h) /\ IDs(h)
      /\ SlavesDestroyed(h) /\ NoSystem \notin Live(h) /\ s \in Systems
  BY ParticleAssumption DEF GoodObjects, Live
<1>2. PICK k : k = Priority[h.sys[s].template]
  OBVIOUS
<1>3. /\ k \in Priorities /\ h.overall \in [Priorities -> Seq(Particles)] /\ h.overall[k] \in Seq(Particles)
      /\ h.sys[s] \in SystemRecords /\ h.sys[s].particles \in Seq(Particles)
  BY <1>1, <1>2, Objects, RecordFields, StateFields, ParticleAssumption
<1>4. PICK w : w = [h.part EXCEPT ![p] = [home |-> s, controls |-> NoSystem]]
  OBVIOUS
<1>5. /\ w \in [Particles -> ParticleRecords \cup {NoParticle}]
      /\ \A r \in Particles : r # p => w[r] = h.part[r]
      /\ w[p] \in ParticleRecords /\ w[p].home = s /\ w[p].controls = NoSystem
  <2>1. [home |-> s, controls |-> NoSystem] \in ParticleRecords
    BY <1>1 DEF ParticleRecords
  <2> QED BY <1>1, <1>4, <2>1, StateFields
<1>6. PICK ps : ps = Append(h.sys[s].particles, p)
  OBVIOUS
<1>7. IsInjective(h.sys[s].particles) /\ ToSet(h.sys[s].particles) = {r \in Present(h) : h.part[r].home = s}
  BY <1>1 DEF ParticlesListed
<1>8. ps \in Seq(Particles) /\ IsInjective(ps) /\ ToSet(ps) = {r \in Present(h) : h.part[r].home = s} \cup {p}
  <2>1. PICK before : before = h.sys[s].particles
    OBVIOUS
  <2>2. /\ before \in Seq(Particles) /\ IsInjective(before) /\ p \notin ToSet(before) /\ ps = Append(before, p)
        /\ ToSet(before) = {r \in Present(h) : h.part[r].home = s}
    BY <1>3, <1>6, <1>7, <2>1
  <2>3. ps \in Seq(Particles) /\ IsInjective(ps) /\ ToSet(ps) = ToSet(before) \cup {p}
    BY <2>2, Appended
  <2> QED BY <2>2, <2>3
<1>9. PICK x : x = [h.sys[s] EXCEPT !.particles = ps]
  OBVIOUS
<1>10. /\ x \in SystemRecords /\ Alike(x, h.sys[s]) /\ x.destroyed = h.sys[s].destroyed
       /\ x.control = h.sys[s].control /\ x.particles = ps
  BY <1>3, <1>8, <1>9, ListedRecord
<1>11. PICK f : f = [h.sys EXCEPT ![s] = x]
  OBVIOUS
<1>12. /\ f \in [Systems -> SystemRecords \cup {NoSystem}]
       /\ \A t \in Systems : f[t] = IF t = s THEN x ELSE h.sys[t]
  BY <1>1, <1>10, <1>11, StateFields
<1>13. IsInjective(h.overall[k]) /\ ToSet(h.overall[k]) = {r \in Present(h) : Rank(h, r) = k}
  BY <1>1, <1>3 DEF ParticlesListed
<1>14. PICK old : old = Append(h.overall[k], p)
  OBVIOUS
<1>15. /\ old \in Seq(Particles) /\ IsInjective(old)
       /\ ToSet(old) = {r \in Present(h) : Rank(h, r) = k} \cup {p}
  <2>1. PICK before : before = h.overall[k]
    OBVIOUS
  <2>2. /\ before \in Seq(Particles) /\ IsInjective(before) /\ p \notin ToSet(before) /\ old = Append(before, p)
        /\ ToSet(before) = {r \in Present(h) : Rank(h, r) = k}
    BY <1>3, <1>13, <1>14, <2>1
  <2>3. old \in Seq(Particles) /\ IsInjective(old) /\ ToSet(old) = ToSet(before) \cup {p}
    BY <2>2, Appended
  <2> QED BY <2>2, <2>3
<1>16. PICK o : o = [h.overall EXCEPT ![k] = old]
  OBVIOUS
<1>17. /\ o \in [Priorities -> Seq(Particles)]
       /\ \A q \in Priorities : o[q] = IF q = k THEN old ELSE h.overall[q]
  BY <1>3, <1>15, <1>16
<1>18. g = [h EXCEPT !.part = w, !.sys = f, !.overall = o, !.count = @ + 1]
  BY <1>2, <1>4, <1>6, <1>9, <1>11, <1>14, <1>16 DEF Emitted
<1>19. /\ g \in States /\ g.sys = f /\ g.part = w /\ g.order = h.order /\ g.overall = o
       /\ g.count = h.count + 1 /\ g.systemCount = h.systemCount /\ g.lastID = h.lastID
  <2>1. h \in States /\ h.count + 1 \in Int
    BY <1>1, StateFields
  <2>2. /\ f \in [Systems -> SystemRecords \cup {NoSystem}] /\ w \in [Particles -> ParticleRecords \cup {NoParticle}]
        /\ o \in [Priorities -> Seq(Particles)]
    BY <1>5, <1>12, <1>17
  <2> QED BY <1>18, <2>1, <2>2 DEF States
<1>20. \A t \in Systems : t \in Live(g) <=> t \in Live(h)
  BY <1>1, <1>10, <1>12, <1>19, Objects
<1>21. Live(g) = Live(h)
  BY <1>20 DEF Live
<1>22. ASSUME NEW t \in Live(h)
       PROVE  /\ Alike(g.sys[t], h.sys[t]) /\ g.sys[t].destroyed = h.sys[t].destroyed
              /\ g.sys[t].control = h.sys[t].control
              /\ g.sys[t].particles = IF t = s THEN ps ELSE h.sys[t].particles
  <2>1. t \in Systems
    BY DEF Live
  <2>2. CASE t = s
    BY <1>10, <1>12, <1>19, <2>1, <2>2
  <2>3. CASE t # s
    <3>1. g.sys[t] = h.sys[t]
      BY <1>12, <1>19, <2>1, <2>3
    <3> QED BY <2>3, <3>1 DEF Alike
  <2> QED BY <2>2, <2>3
<1>23. SameSystems(h, g)
  BY <1>21, <1>22 DEF SameSystems
<1>24. \A r \in Particles : r \in Present(g) <=> r \in Present(h) \/ r = p
  BY <1>1, <1>5, <1>19, Objects
<1>25. Present(g) = Present(h) \cup {p}
  BY <1>24 DEF Present
<1>26. /\ \A r \in Present(h) : g.part[r] = h.part[r]
       /\ (g.part[p]).home = s /\ (g.part[p]).controls = NoSystem
  BY <1>5, <1>19 DEF Present
<1>27. Gained(h, s, {p}, g)
  BY <1>19, <1>23, <1>25, <1>26 DEF Gained
<1>28. /\ Rank(g, p) = k
       /\ \A r \in Present(h) : h.part[r].home \in Live(h) /\ Rank(g, r) = Rank(h, r)
  <2>1. g.sys[s].template = h.sys[s].template
    BY <1>22 DEF Alike
  <2>2. ASSUME NEW r \in Present(h) PROVE h.part[r].home \in Live(h) /\ Rank(g, r) = Rank(h, r)
    <3>1. h.part[r].home \in Live(h)
      BY <1>1 DEF ParticlesListed
    <3>2. g.sys[h.part[r].home].template = h.sys[h.part[r].home].template
      BY <1>22, <3>1 DEF Alike
    <3> QED BY <1>26, <3>1, <3>2 DEF Rank
  <2> QED BY <1>2, <1>26, <2>1, <2>2 DEF Rank
<1>29. ParticlesListed(g)
  <2>1. g.count = Cardinality(Present(g))
    <3>1. IsFiniteSet(Present(h))
      BY FS_Subset, ParticleAssumption DEF Present
    <3> QED BY <1>1, <1>19, <1>25, <3>1, FS_AddElement DEF ParticlesListed
  <2>2. \A r \in Present(g) : g.part[r].home \in Live(g)
    BY <1>21, <1>25, <1>26, <1>28
  <2>3. ASSUME NEW q \in Priorities
        PROVE  IsInjective(g.overall[q]) /\ ToSet(g.overall[q]) = {r \in Present(g) : Rank(g, r) = q}
    <3>1. IsInjective(h.overall[q]) /\ ToSet(h.overall[q]) = {r \in Present(h) : Rank(h, r) = q}
      BY <1>1 DEF ParticlesListed
    <3>2. CASE q = k
      BY <1>15, <1>17, <1>19, <1>25, <1>28, <3>2
    <3>3. CASE q # k
      BY <1>17, <1>19, <1>25, <1>28, <3>1, <3>3
    <3> QED BY <3>2, <3>3
  <2>4. ASSUME NEW t \in Live(g)
        PROVE  IsInjective(g.sys[t].particles) /\ ToSet(g.sys[t].particles) = {r \in Present(g) : g.part[r].home = t}
    <3>1. IsInjective(h.sys[t].particles) /\ ToSet(h.sys[t].particles) = {r \in Present(h) : h.part[r].home = t}
      BY <1>1, <1>21 DEF ParticlesListed
    <3>2. g.sys[t].particles = IF t = s THEN ps ELSE h.sys[t].particles
      BY <1>21, <1>22
    <3>3. CASE t = s
      BY <1>8, <1>25, <1>26, <3>2, <3>3
    <3>4. CASE t # s
      BY <1>25, <1>26, <3>1, <3>2, <3>4
    <3> QED BY <3>3, <3>4
  <2> QED BY <2>1, <2>2, <2>3, <2>4 DEF ParticlesListed
<1>30. Controls(g)
  <2>1. ASSUME NEW t \in Live(g), g.sys[t].control # NoParticle
        PROVE  g.sys[t].control \in Present(g) /\ g.part[g.sys[t].control].controls = t
    <3>1. g.sys[t].control = h.sys[t].control
      BY <1>21, <1>22
    <3>2. h.sys[t].control \in Present(h) /\ h.part[h.sys[t].control].controls = t
      BY <1>1, <1>21, <2>1, <3>1 DEF Controls
    <3> QED BY <1>25, <1>26, <3>1, <3>2
  <2>2. ASSUME NEW r \in Present(g), g.part[r].controls # NoSystem
        PROVE  g.part[r].controls \in Live(g) /\ g.sys[g.part[r].controls].control = r
    <3>1. r \in Present(h) /\ g.part[r] = h.part[r]
      BY <1>25, <1>26, <2>2
    <3>2. h.part[r].controls \in Live(h) /\ h.sys[h.part[r].controls].control = r
      BY <1>1, <2>2, <3>1 DEF Controls
    <3> QED BY <1>21, <1>22, <3>1, <3>2
  <2> QED BY <2>1, <2>2 DEF Controls
<1>31. Slaves(g) /\ Masters(g) /\ IDs(g)
  BY <1>1, <1>19, <1>23, SameSystemsKeep
<1>32. SlavesDestroyed(g)
  <2> SUFFICES ASSUME NEW t \in Live(h), g.sys[t].destroyed, g.sys[t].slave # NoSystem
               PROVE  g.sys[g.sys[t].slave].destroyed
    BY <1>21 DEF SlavesDestroyed
  <2>1. g.sys[t].slave = h.sys[t].slave /\ h.sys[t].destroyed
    BY <1>22 DEF Alike
  <2>2. h.sys[t].slave \in Live(h)
    BY <1>1, <2>1 DEF Slaves
  <2> QED BY <1>1, <1>22, <2>1, <2>2 DEF SlavesDestroyed
<1> QED BY <1>19, <1>27, <1>29, <1>30, <1>31, <1>32 DEF GoodObjects

\* The function that the definition of AllEmitted has inside.
EmittedRun(f, h, s, ps, L) == f = [n \in 0..L |-> IF n = 0 THEN h ELSE Emitted(f[n - 1], s, ps[n])]

LEMMA AllEmittedIs ==
  ASSUME NEW h, NEW s, NEW ps
  PROVE  AllEmitted(h, s, ps) = (CHOOSE f : EmittedRun(f, h, s, ps, Len(ps)))[Len(ps)]
BY DEF AllEmitted, EmittedRun

LEMMA EmittedRunExists ==
  ASSUME NEW h, NEW s, NEW ps, NEW L \in Nat
  PROVE  \E f : EmittedRun(f, h, s, ps, L)
<1> DEFINE T == {n \in 0..L : \E f : EmittedRun(f, h, s, ps, n)}
<1>1. 0 \in T
  <2>1. EmittedRun([n \in 0..0 |-> h], h, s, ps, 0)
    BY DEF EmittedRun
  <2> QED BY <2>1
<1>2. ASSUME NEW n \in 1..L, n - 1 \in T PROVE n \in T
  <2>1. PICK f : EmittedRun(f, h, s, ps, n - 1)
    BY <1>2
  <2> DEFINE g == [m \in 0..n |-> IF m = n THEN Emitted(f[n - 1], s, ps[n]) ELSE f[m]]
  <2>2. n \in Nat /\ n - 1 \in Nat /\ n # 0
    OBVIOUS
  <2>3. \A m \in 0..(n - 1) : f[m] = IF m = 0 THEN h ELSE Emitted(f[m - 1], s, ps[m])
    BY <2>1, Zenon DEF EmittedRun
  <2>4. \A m \in 0..(n - 1) : g[m] = f[m]
    BY <2>2
  <2>5. ASSUME NEW m \in 0..n PROVE g[m] = IF m = 0 THEN h ELSE Emitted(g[m - 1], s, ps[m])
    <3>1. CASE m = n
      <4>1. n - 1 \in 0..(n - 1) /\ n \in 0..n
        BY <2>2
      <4>2. g[n] = Emitted(f[n - 1], s, ps[n])
        BY <4>1
      <4> QED BY <2>2, <2>4, <3>1, <4>1, <4>2
    <3>2. CASE m # n
      <4>1. m \in 0..(n - 1) /\ (m # 0 => m - 1 \in 0..(n - 1))
        BY <2>2, <3>2
      <4> HIDE DEF g
      <4> QED BY <2>3, <2>4, <4>1
    <3> QED BY <3>1, <3>2
  <2>6. g = [m \in 0..n |-> g[m]]
    OBVIOUS
  <2> HIDE DEF g
  <2>7. g = [m \in 0..n |-> IF m = 0 THEN h ELSE Emitted(g[m - 1], s, ps[m])]
    BY <2>5, <2>6
  <2> QED BY <2>7 DEF EmittedRun
<1> HIDE DEF T
<1>3. \A n \in 0..L : n \in T
  BY <1>1, <1>2, Climb
<1> QED BY <1>3 DEF T

\* The states on the way.
LEMMA EmittedSteps ==
  ASSUME NEW h, NEW s, NEW ps, Len(ps) \in Nat
  PROVE  \E f : /\ f[0] = h /\ f[Len(ps)] = AllEmitted(h, s, ps)
                /\ \A n \in 1..Len(ps) : f[n] = Emitted(f[n - 1], s, ps[n])
<1>1. PICK f : f = CHOOSE g : EmittedRun(g, h, s, ps, Len(ps))
  OBVIOUS
<1>2. EmittedRun(f, h, s, ps, Len(ps))
  BY <1>1, EmittedRunExists
<1>3. f[0] = h
  <2>1. 0 \in 0..Len(ps)
    OBVIOUS
  <2> QED BY <1>2, <2>1 DEF EmittedRun
<1>4. \A n \in 1..Len(ps) : f[n] = Emitted(f[n - 1], s, ps[n])
  <2> TAKE n \in 1..Len(ps)
  <2>1. n \in 0..Len(ps) /\ n # 0
    OBVIOUS
  <2> QED BY <1>2, <2>1 DEF EmittedRun
<1>5. f[Len(ps)] = AllEmitted(h, s, ps)
  BY <1>1, AllEmittedIs
<1> QED BY <1>3, <1>4, <1>5

LEMMA AllEmittedGood ==
  ASSUME NEW h, GoodObjects(h), NEW s \in Live(h), NEW ps \in Seq(Particles), IsInjective(ps),
         ToSet(ps) \cap Present(h) = {}, NEW g, g = AllEmitted(h, s, ps)
  PROVE  GoodObjects(g) /\ Gained(h, s, ToSet(ps), g)
<1>1. Len(ps) \in Nat /\ DOMAIN ps = 1..Len(ps) /\ \A i \in 1..Len(ps) : ps[i] \in Particles
  BY LenProperties, ElementOfSeq
<1>2. PICK f : /\ f[0] = h /\ f[Len(ps)] = g
               /\ \A n \in 1..Len(ps) : f[n] = Emitted(f[n - 1], s, ps[n])
  BY <1>1, EmittedSteps
<1> DEFINE P(n) == {ps[i] : i \in 1..n}
           T == {n \in 0..Len(ps) : GoodObjects(f[n]) /\ Gained(h, s, P(n), f[n])}
<1>3. 0 \in T
  <2>1. P(0) = {}
    OBVIOUS
  <2>2. Gained(h, s, {}, h)
    BY DEF Gained, SameSystems, Alike
  <2>3. Gained(h, s, P(0), f[0]) /\ GoodObjects(f[0])
    BY <1>2, <2>1, <2>2, Zenon
  <2> HIDE DEF P
  <2> QED BY <1>1, <2>3
<1>4. ASSUME NEW n \in 1..Len(ps), n - 1 \in T PROVE n \in T
  <2>1. PICK k : k = f[n - 1]
    OBVIOUS
  <2>2. GoodObjects(k) /\ Gained(h, s, P(n - 1), k)
    BY <1>4, <2>1
  <2>3. ps[n] \in Particles /\ ps[n] \notin Present(h) /\ ps[n] \notin P(n - 1)
    BY <1>1 DEF IsInjective, ToSet
  <2>4. P(n) = P(n - 1) \cup {ps[n]}
    BY <1>1
  <2> HIDE DEF P
  <2>5. ps[n] \notin Present(k) /\ s \in Live(k)
    BY <2>2, <2>3 DEF Gained, SameSystems
  <2>6. GoodObjects(f[n]) /\ Gained(k, s, {ps[n]}, f[n])
    BY <1>2, <2>1, <2>2, <2>3, <2>5, EmittedGood
  <2>7. Gained(h, s, P(n), f[n])
    <3>1. SameSystems(h, f[n])
      BY <2>2, <2>6, SameSystemsOn DEF Gained
    <3>2. Present(f[n]) = Present(h) \cup P(n)
      BY <2>2, <2>4, <2>6 DEF Gained
    <3>3. \A r \in Present(h) : (f[n]).part[r] = h.part[r]
      BY <2>2, <2>6 DEF Gained
    <3>4. \A r \in P(n) : (f[n]).part[r].home = s
      BY <2>2, <2>4, <2>6 DEF Gained
    <3> QED BY <2>2, <2>6, <3>1, <3>2, <3>3, <3>4 DEF Gained
  <2> QED BY <2>6, <2>7
<1>5. P(Len(ps)) = ToSet(ps)
  BY <1>1 DEF ToSet
<1> HIDE DEF T, P
<1>6. \A n \in 0..Len(ps) : n \in T
  BY <1>1, <1>3, <1>4, Climb
<1>7. Len(ps) \in T
  BY <1>1, <1>6
<1> QED BY <1>2, <1>5, <1>7 DEF T

-----------------------------------------------------------------------------
(* A game that is loaded.                                                    *)

Reordered(h, o, c) == [h EXCEPT !.order = o, !.systemCount = c]

LEMMA OrderChanged ==
  ASSUME NEW h, GoodObjects(h), NEW o \in Seq(Systems), NEW c \in Int,
         NEW g, g = Reordered(h, o, c)
  PROVE  /\ GoodObjects(g) /\ SameSystems(h, g) /\ g.order = o /\ g.systemCount = c /\ g.lastID = h.lastID
         /\ Present(g) = Present(h) /\ g.part = h.part
<1>1. h \in States
  BY DEF GoodObjects
<1>2. /\ g \in States /\ g.order = o /\ g.systemCount = c /\ g.lastID = h.lastID /\ g.sys = h.sys
      /\ g.part = h.part /\ g.overall = h.overall /\ g.count = h.count
  BY <1>1 DEF States, Reordered
<1>3. Present(g) = Present(h) /\ Live(g) = Live(h)
  BY <1>2 DEF Present, Live
<1>4. SameSystems(h, g)
  BY <1>2, <1>3 DEF SameSystems, Alike
<1>5. Slaves(g) /\ Masters(g) /\ IDs(g)
  BY <1>2, <1>4, SameSystemsKeep DEF GoodObjects
<1>6. ParticlesListed(g)
  <2>1. ParticlesListed(h) /\ \A p \in Present(h) : Rank(g, p) = Rank(h, p)
    BY <1>2 DEF GoodObjects, Rank
  <2> QED BY <1>2, <1>3, <2>1 DEF ParticlesListed
<1>7. Controls(g) /\ SlavesDestroyed(g)
  BY <1>2, <1>3 DEF GoodObjects, Controls, SlavesDestroyed
<1> QED BY <1>2, <1>3, <1>4, <1>5, <1>6, <1>7 DEF GoodObjects

LEMMA NowIs ==
  /\ Now.sys = sys /\ Now.part = part /\ Now.order = order /\ Now.overall = overall
  /\ Now.count = count /\ Now.systemCount = systemCount /\ Now.lastID = lastID
BY DEF Now

LEMMA SavedAre ==
  /\ Saved \subseteq Live(Now) /\ Saved \subseteq Systems
  /\ \A s \in Saved : ~sys[s].destroyed
BY DEF Saved, Live

\* The systems that the ids of a saved system lead to are those it was linked with.
LEMMA FindIs ==
  ASSUME Good(Now), LinksSaved, NEW s \in Saved
  PROVE  /\ sys[s].slave # NoSystem => sys[s].slave \in Saved /\ Find(sys[s].slaveID) = sys[s].slave
         /\ sys[s].master # NoSystem => sys[s].master \in Saved /\ Find(sys[s].masterID) = sys[s].master
<1>1. Slaves(Now) /\ Masters(Now) /\ IDs(Now) /\ Now \in States
  BY DEF Good, GoodObjects
<1>2. \A t \in Live(Now) : sys[t].id # 0
  BY <1>1, NowIs DEF IDs
<1>3. \A t, u \in Live(Now) : sys[t].id = sys[u].id => t = u
  BY <1>1, NowIs DEF IDs
<1>4. ASSUME NEW u \in Live(Now), \E t \in Saved : sys[t].id = sys[u].id
      PROVE  u \in Saved /\ Find(sys[u].id) = u
  <2>1. \A t \in Saved : sys[t].id = sys[u].id => t = u
    BY <1>3, SavedAre
  <2>2. u \in Saved
    BY <1>4, <2>1
  <2> QED BY <2>1, <2>2 DEF Find
<1>5. ASSUME sys[s].slave # NoSystem
      PROVE  sys[s].slave \in Saved /\ Find(sys[s].slaveID) = sys[s].slave
  <2>1. sys[s].slave \in Live(Now) /\ sys[s].slaveID = sys[sys[s].slave].id
    BY <1>1, <1>5, NowIs, SavedAre DEF Slaves
  <2>2. \E t \in Saved : sys[t].id = sys[s].slaveID
    BY <1>2, <2>1 DEF LinksSaved
  <2> QED BY <1>4, <2>1, <2>2
<1>6. ASSUME sys[s].master # NoSystem
      PROVE  sys[s].master \in Saved /\ Find(sys[s].masterID) = sys[s].master
  <2>1. sys[s].master \in Live(Now) /\ sys[s].masterID = sys[sys[s].master].id
    BY <1>1, <1>6, NowIs, SavedAre DEF Masters
  <2>2. \E t \in Saved : sys[t].id = sys[s].masterID
    BY <1>2, <2>1 DEF LinksSaved
  <2> QED BY <1>4, <2>1, <2>2
<1> QED BY <1>5, <1>6

LEMMA NoneInEmpty == IsInjective(<< >>) /\ ToSet(<< >>) = {} /\ Len(<< >>) = 0 /\ \A S : << >> \in Seq(S)
BY DEF IsInjective, ToSet

\* What Loaded makes of the record of a system.
Cleared(r, a, b) == [r EXCEPT !.slave = a, !.master = b, !.control = NoParticle, !.particles = << >>]

LEMMA LoadedRecord ==
  ASSUME NEW r \in SystemRecords, NEW a \in Systems \cup {NoSystem}, NEW b \in Systems \cup {NoSystem}, NEW x,
         x = Cleared(r, a, b)
  PROVE  /\ x \in SystemRecords /\ x.template = r.template /\ x.id = r.id /\ x.slave = a /\ x.slaveID = r.slaveID
         /\ x.master = b /\ x.masterID = r.masterID /\ x.saveable = r.saveable
         /\ x.destroyed = r.destroyed /\ x.control = NoParticle /\ x.particles = << >>
<1>1. << >> \in Seq(Particles)
  BY NoneInEmpty
<1>2. PICK e : e = << >>
  OBVIOUS
<1>3. e \in Seq(Particles) /\ x = [r EXCEPT !.slave = a, !.master = b, !.control = NoParticle, !.particles = e]
  BY <1>1, <1>2 DEF Cleared
<1>4. /\ x \in SystemRecords /\ x.template = r.template /\ x.id = r.id /\ x.slave = a /\ x.slaveID = r.slaveID
      /\ x.master = b /\ x.masterID = r.masterID /\ x.saveable = r.saveable
      /\ x.destroyed = r.destroyed /\ x.control = NoParticle /\ x.particles = e
  BY <1>3 DEF SystemRecords
<1> QED BY <1>2, <1>4

LEMMA LoadedIs ==
  ASSUME Good(Now), LinksSaved, NEW s \in Saved, NEW x, x = Loaded(Now, s)
  PROVE  x \in SystemRecords /\ Alike(x, sys[s]) /\ ~x.destroyed /\ x.control = NoParticle /\ x.particles = << >>
<1>1. Now \in States
  BY DEF Good, GoodObjects
<1>2. sys[s] \in SystemRecords
  BY <1>1, NowIs, SavedAre, Objects
<1>3. PICK a : a = sys[s].slave
  OBVIOUS
<1>4. PICK b : b = sys[s].master
  OBVIOUS
<1>5. a \in Systems \cup {NoSystem} /\ b \in Systems \cup {NoSystem}
  BY <1>2, <1>3, <1>4, RecordFields
<1>6. /\ a = IF sys[s].slave = NoSystem THEN NoSystem ELSE Find(sys[s].slaveID)
      /\ b = IF sys[s].master = NoSystem THEN NoSystem ELSE Find(sys[s].masterID)
  BY <1>3, <1>4, FindIs
<1>7. x = Cleared(sys[s], a, b)
  BY <1>6, NowIs DEF Loaded, Cleared
<1>8. /\ x \in SystemRecords /\ x.template = sys[s].template /\ x.id = sys[s].id /\ x.slave = a
      /\ x.slaveID = sys[s].slaveID /\ x.master = b /\ x.masterID = sys[s].masterID
      /\ x.saveable = sys[s].saveable /\ x.destroyed = sys[s].destroyed
      /\ x.control = NoParticle /\ x.particles = << >>
  BY <1>2, <1>5, <1>7, LoadedRecord
<1>9. Alike(x, sys[s])
  BY <1>3, <1>4, <1>8 DEF Alike
<1> QED BY <1>8, <1>9, SavedAre

\* The state before the particles are read.
Back(next) ==
  [Nothing EXCEPT !.lastID = next,
                  !.sys = [s \in Systems |-> IF s \in Saved THEN Loaded(Now, s) ELSE NoSystem]]

LEMMA BackGood ==
  ASSUME Good(Now), LinksSaved, NEW next \in Nat, next >= lastID, NEW g, g = Back(next)
  PROVE  /\ GoodObjects(g) /\ Live(g) = Saved /\ Present(g) = {} /\ g.order = << >> /\ g.systemCount = 0
         /\ g.lastID = next /\ \A t \in Saved : g.sys[t].template = sys[t].template
<1>1. Now \in States /\ Slaves(Now) /\ Masters(Now) /\ IDs(Now) /\ SlavesDestroyed(Now)
  BY DEF Good, GoodObjects
<1>2. PICK f : f = [s \in Systems |-> IF s \in Saved THEN Loaded(Now, s) ELSE NoSystem]
  OBVIOUS
<1>3. ASSUME NEW t \in Saved
      PROVE  f[t] \in SystemRecords /\ Alike(f[t], sys[t]) /\ ~(f[t]).destroyed /\ (f[t]).control = NoParticle /\ (f[t]).particles = << >>
  <2>1. f[t] = Loaded(Now, t)
    BY <1>2, SavedAre
  <2> QED BY <2>1, LoadedIs
<1>4. \A t \in Systems : t \notin Saved => f[t] = NoSystem
  BY <1>2
<1>5. f \in [Systems -> SystemRecords \cup {NoSystem}]
  BY <1>2, <1>3, <1>4
<1>6. /\ g \in States /\ g.sys = f /\ g.part = [p \in Particles |-> NoParticle] /\ g.order = << >>
      /\ g.overall = [q \in Priorities |-> << >>] /\ g.count = 0 /\ g.systemCount = 0 /\ g.lastID = next
  <2>1. PICK w : w = [p \in Particles |-> NoParticle]
    OBVIOUS
  <2>2. PICK v : v = [q \in Priorities |-> << >>]
    OBVIOUS
  <2>3. PICK e : e = << >>
    OBVIOUS
  <2>4. PICK n : n = [s \in Systems |-> NoSystem]
    OBVIOUS
  <2>5. w \in [Particles -> ParticleRecords \cup {NoParticle}]
    BY <2>1
  <2>6. v \in [Priorities -> Seq(Particles)] /\ e \in Seq(Systems)
    BY <2>2, <2>3, NoneInEmpty
  <2>7. g = [[sys |-> n, part |-> w, order |-> e, overall |-> v, count |-> 0, systemCount |-> 0, lastID |-> 0]
               EXCEPT !.lastID = next, !.sys = f]
    BY <1>2, <2>1, <2>2, <2>3, <2>4 DEF Back, Nothing
  <2>8. g = [sys |-> f, part |-> w, order |-> e, overall |-> v, count |-> 0, systemCount |-> 0, lastID |-> next]
    BY <2>7
  <2>9. g \in States
    BY <1>5, <2>5, <2>6, <2>8 DEF States
  <2> QED BY <2>1, <2>2, <2>3, <2>8, <2>9
<1>7. Live(g) = Saved
  <2>1. \A t \in Systems : t \in Live(g) <=> t \in Saved
    BY <1>3, <1>4, <1>6, Objects, ParticleAssumption
  <2> QED BY <2>1, SavedAre DEF Live
<1>8. Present(g) = {}
  BY <1>6 DEF Present
<1>9. ParticlesListed(g)
  <2>1. g.count = Cardinality(Present(g))
    BY <1>6, <1>8, FS_EmptySet
  <2>2. \A q \in Priorities : IsInjective(g.overall[q]) /\ ToSet(g.overall[q]) = {}
    BY <1>6, NoneInEmpty
  <2>3. \A t \in Live(g) : IsInjective(g.sys[t].particles) /\ ToSet(g.sys[t].particles) = {}
    BY <1>3, <1>6, <1>7, NoneInEmpty
  <2> QED BY <1>8, <2>1, <2>2, <2>3 DEF ParticlesListed
<1>10. \A t \in Saved : /\ (f[t]).id = sys[t].id /\ (f[t]).slave = sys[t].slave /\ (f[t]).slaveID = sys[t].slaveID
                        /\ (f[t]).master = sys[t].master /\ (f[t]).masterID = sys[t].masterID
                        /\ (f[t]).template = sys[t].template
  BY <1>3 DEF Alike
<1>11. Slaves(g)
  <2> SUFFICES ASSUME NEW t \in Saved
               PROVE  IF (f[t]).slave = NoSystem THEN (f[t]).slaveID = 0
                      ELSE /\ (f[t]).slave \in Saved /\ f[(f[t]).slave].master = t
                           /\ (f[t]).slaveID = f[(f[t]).slave].id /\ f[(f[t]).slave].id > (f[t]).id
    BY <1>6, <1>7 DEF Slaves
  <2>1. IF sys[t].slave = NoSystem THEN sys[t].slaveID = 0
        ELSE /\ sys[sys[t].slave].master = t /\ sys[t].slaveID = sys[sys[t].slave].id
             /\ sys[sys[t].slave].id > sys[t].id
    BY <1>1, NowIs, SavedAre DEF Slaves
  <2>2. sys[t].slave # NoSystem => sys[t].slave \in Saved
    BY FindIs
  <2> QED BY <1>10, <2>1, <2>2
<1>12. Masters(g)
  <2> SUFFICES ASSUME NEW t \in Saved
               PROVE  IF (f[t]).master = NoSystem THEN (f[t]).masterID = 0
                      ELSE /\ (f[t]).master \in Saved /\ f[(f[t]).master].slave = t
                           /\ (f[t]).masterID = f[(f[t]).master].id
    BY <1>6, <1>7 DEF Masters
  <2>1. IF sys[t].master = NoSystem THEN sys[t].masterID = 0
        ELSE sys[sys[t].master].slave = t /\ sys[t].masterID = sys[sys[t].master].id
    BY <1>1, NowIs, SavedAre DEF Masters
  <2>2. sys[t].master # NoSystem => sys[t].master \in Saved
    BY FindIs
  <2> QED BY <1>10, <2>1, <2>2
<1>13. Controls(g)
  BY <1>3, <1>6, <1>7, <1>8 DEF Controls
<1>14. SlavesDestroyed(g)
  BY <1>3, <1>6, <1>7 DEF SlavesDestroyed
<1>15. IDs(g)
  <2>1. \A t \in Saved : sys[t].id \in 1..lastID /\ \A u \in Saved : sys[t].id = sys[u].id => t = u
    BY <1>1, NowIs, SavedAre DEF IDs
  <2>2. lastID \in Nat
    BY <1>1, NowIs, StateFields
  <2>3. \A t \in Saved : (f[t]).id \in 1..next
    BY <1>10, <2>1, <2>2
  <2> QED BY <1>6, <1>7, <1>10, <2>1, <2>3 DEF IDs
<1> QED BY <1>6, <1>7, <1>8, <1>9, <1>10, <1>11, <1>12, <1>13, <1>14, <1>15 DEF GoodObjects

\* The function that the definition of AllRestored has inside.
RestoredRun(f, h, ss, L) == f = [n \in 0..L |-> IF n = 0 THEN h ELSE Restored(f[n - 1], ss[n])]

LEMMA AllRestoredIs ==
  ASSUME NEW h, NEW ss
  PROVE  AllRestored(h, ss) = (CHOOSE f : RestoredRun(f, h, ss, Len(ss)))[Len(ss)]
BY DEF AllRestored, RestoredRun

LEMMA RestoredRunExists ==
  ASSUME NEW h, NEW ss, NEW L \in Nat
  PROVE  \E f : RestoredRun(f, h, ss, L)
<1> DEFINE T == {n \in 0..L : \E f : RestoredRun(f, h, ss, n)}
<1>1. 0 \in T
  <2>1. RestoredRun([n \in 0..0 |-> h], h, ss, 0)
    BY DEF RestoredRun
  <2> QED BY <2>1
<1>2. ASSUME NEW n \in 1..L, n - 1 \in T PROVE n \in T
  <2>1. PICK f : RestoredRun(f, h, ss, n - 1)
    BY <1>2
  <2> DEFINE g == [m \in 0..n |-> IF m = n THEN Restored(f[n - 1], ss[n]) ELSE f[m]]
  <2>2. n \in Nat /\ n - 1 \in Nat /\ n # 0
    OBVIOUS
  <2>3. \A m \in 0..(n - 1) : f[m] = IF m = 0 THEN h ELSE Restored(f[m - 1], ss[m])
    BY <2>1, Zenon DEF RestoredRun
  <2>4. \A m \in 0..(n - 1) : g[m] = f[m]
    BY <2>2
  <2>5. ASSUME NEW m \in 0..n PROVE g[m] = IF m = 0 THEN h ELSE Restored(g[m - 1], ss[m])
    <3>1. CASE m = n
      <4>1. n - 1 \in 0..(n - 1) /\ n \in 0..n
        BY <2>2
      <4>2. g[n] = Restored(f[n - 1], ss[n])
        BY <4>1
      <4> QED BY <2>2, <2>4, <3>1, <4>1, <4>2
    <3>2. CASE m # n
      <4>1. m \in 0..(n - 1) /\ (m # 0 => m - 1 \in 0..(n - 1))
        BY <2>2, <3>2
      <4> HIDE DEF g
      <4> QED BY <2>3, <2>4, <4>1
    <3> QED BY <3>1, <3>2
  <2>6. g = [m \in 0..n |-> g[m]]
    OBVIOUS
  <2> HIDE DEF g
  <2>7. g = [m \in 0..n |-> IF m = 0 THEN h ELSE Restored(g[m - 1], ss[m])]
    BY <2>5, <2>6
  <2> QED BY <2>7 DEF RestoredRun
<1> HIDE DEF T
<1>3. \A n \in 0..L : n \in T
  BY <1>1, <1>2, Climb
<1> QED BY <1>3 DEF T

\* The states on the way.
LEMMA RestoredSteps ==
  ASSUME NEW h, NEW ss, Len(ss) \in Nat
  PROVE  \E f : /\ f[0] = h /\ f[Len(ss)] = AllRestored(h, ss)
                /\ \A n \in 1..Len(ss) : f[n] = Restored(f[n - 1], ss[n])
<1>1. PICK f : f = CHOOSE g : RestoredRun(g, h, ss, Len(ss))
  OBVIOUS
<1>2. RestoredRun(f, h, ss, Len(ss))
  BY <1>1, RestoredRunExists
<1>3. f[0] = h
  <2>1. 0 \in 0..Len(ss)
    OBVIOUS
  <2> QED BY <1>2, <2>1 DEF RestoredRun
<1>4. \A n \in 1..Len(ss) : f[n] = Restored(f[n - 1], ss[n])
  <2> TAKE n \in 1..Len(ss)
  <2>1. n \in 0..Len(ss) /\ n # 0
    OBVIOUS
  <2> QED BY <1>2, <2>1 DEF RestoredRun
<1>5. f[Len(ss)] = AllRestored(h, ss)
  BY <1>1, AllRestoredIs
<1> QED BY <1>3, <1>4, <1>5

\* After the systems P of the list have been looked at: those that were saved are in the list again
\* and have their particles.
Midway(b, h, P) ==
  /\ GoodObjects(h) /\ SameSystems(b, h) /\ h.lastID = b.lastID
  /\ IsInjective(h.order) /\ ToSet(h.order) = Saved \cap P /\ h.systemCount = Len(h.order)
  /\ Present(h) = {p \in Present(Now) : part[p].home \in Saved \cap P}
  /\ \A p \in Present(h) : h.part[p].home = part[p].home

LEMMA RestoredGood ==
  ASSUME Good(Now), NEW b, Live(b) = Saved, NEW h, NEW P, Midway(b, h, P), NEW s \in Live(Now), s \notin P,
         NEW g, g = Restored(h, s)
  PROVE  Midway(b, g, P \cup {s})
<1>1. CASE s \notin Saved
  <2>1. g = h
    BY <1>1 DEF Restored
  <2>2. Saved \cap (P \cup {s}) = Saved \cap P
    BY <1>1
  <2> QED BY <2>1, <2>2 DEF Midway
<1>2. CASE s \in Saved
  <2>1. /\ GoodObjects(h) /\ SameSystems(b, h) /\ h.lastID = b.lastID
        /\ IsInjective(h.order) /\ ToSet(h.order) = Saved \cap P /\ h.systemCount = Len(h.order)
        /\ Present(h) = {p \in Present(Now) : part[p].home \in Saved \cap P}
        /\ \A p \in Present(h) : h.part[p].home = part[p].home
    BY DEF Midway
  <2>2. h \in States /\ h.order \in Seq(Systems) /\ h.systemCount \in Int /\ s \in Systems
    BY <1>2, <2>1, StateFields, SavedAre DEF GoodObjects
  <2>3. PICK o : o = Append(h.order, s)
    OBVIOUS
  <2>4. o \in Seq(Systems) /\ IsInjective(o) /\ ToSet(o) = Saved \cap (P \cup {s}) /\ Len(o) = Len(h.order) + 1
    <3>1. s \notin ToSet(h.order)
      BY <2>1
    <3>2. o \in Seq(Systems) /\ IsInjective(o) /\ ToSet(o) = ToSet(h.order) \cup {s} /\ Len(o) = Len(h.order) + 1
      BY <2>1, <2>2, <2>3, <3>1, Appended
    <3> QED BY <1>2, <2>1, <3>2
  <2>5. PICK c : c = h.systemCount + 1
    OBVIOUS
  <2>6. c \in Int /\ c = Len(o)
    BY <2>1, <2>2, <2>4, <2>5
  <2>7. PICK k : k = Reordered(h, o, c)
    OBVIOUS
  <2>8. /\ GoodObjects(k) /\ SameSystems(h, k) /\ k.order = o /\ k.systemCount = c /\ k.lastID = h.lastID
        /\ Present(k) = Present(h) /\ k.part = h.part
    BY <2>1, <2>4, <2>6, <2>7, OrderChanged
  <2>9. PICK ps : ps = sys[s].particles
    OBVIOUS
  <2>10. ps \in Seq(Particles) /\ IsInjective(ps) /\ ToSet(ps) = {p \in Present(Now) : part[p].home = s}
    <3>1. Now \in States /\ ParticlesListed(Now)
      BY DEF Good, GoodObjects
    <3>2. sys[s] \in SystemRecords
      BY <3>1, NowIs, Objects
    <3>3. ps \in Seq(Particles)
      BY <2>9, <3>2, RecordFields
    <3> QED BY <2>9, <3>1, <3>3, NowIs DEF ParticlesListed
  <2>11. g = AllEmitted(k, s, ps)
    <3>1. g = AllEmitted([h EXCEPT !.order = Append(@, s), !.systemCount = @ + 1], s, sys[s].particles)
      BY <1>2 DEF Restored
    <3>2. k = [h EXCEPT !.order = Append(@, s), !.systemCount = @ + 1]
      BY <2>3, <2>5, <2>7 DEF Reordered
    <3> QED BY <2>9, <3>1, <3>2
  <2>12. s \in Live(k)
    BY <1>2, <2>1, <2>8 DEF SameSystems
  <2>13. ToSet(ps) \cap Present(k) = {}
    BY <2>1, <2>8, <2>10
  <2>14. GoodObjects(g) /\ Gained(k, s, ToSet(ps), g)
    BY <2>8, <2>10, <2>11, <2>12, <2>13, AllEmittedGood
  <2>15. /\ SameSystems(k, g) /\ g.order = k.order /\ g.systemCount = k.systemCount /\ g.lastID = k.lastID
         /\ Present(g) = Present(k) \cup ToSet(ps) /\ \A r \in Present(k) : g.part[r] = k.part[r]
         /\ \A r \in ToSet(ps) : g.part[r].home = s
    BY <2>14 DEF Gained
  <2>16. SameSystems(b, g)
    <3>1. SameSystems(b, k)
      BY <2>1, <2>8 DEF SameSystems, Alike
    <3> QED BY <2>15, <3>1 DEF SameSystems, Alike
  <2>17. Present(g) = {p \in Present(Now) : part[p].home \in Saved \cap (P \cup {s})}
    BY <1>2, <2>1, <2>8, <2>10, <2>15
  <2>18. \A p \in Present(g) : g.part[p].home = part[p].home
    BY <2>1, <2>8, <2>10, <2>15
  <2> QED BY <2>1, <2>4, <2>6, <2>8, <2>14, <2>15, <2>16, <2>17, <2>18 DEF Midway
<1> QED BY <1>1, <1>2

LEMMA AllRestoredGood ==
  ASSUME Good(Now), LinksSaved, NEW next \in Nat, next >= lastID, NEW g, g = AllRestored(Back(next), order)
  PROVE  /\ Good(g) /\ g.lastID = next /\ Present(g) \subseteq Present(Now)
         /\ \A p \in Present(g) : Rank(g, p) = Rank(Now, p)
<1>1. PICK b : b = Back(next)
  OBVIOUS
<1>2. /\ GoodObjects(b) /\ Live(b) = Saved /\ Present(b) = {} /\ b.order = << >> /\ b.systemCount = 0
      /\ b.lastID = next /\ \A t \in Saved : b.sys[t].template = sys[t].template
  BY <1>1, BackGood
<1>3. PICK ss : ss = order
  OBVIOUS
<1>4. /\ ss \in Seq(Systems) /\ IsInjective(ss) /\ ToSet(ss) = Live(Now)
      /\ Len(ss) \in Nat /\ DOMAIN ss = 1..Len(ss)
  <2>1. ss \in Seq(Systems) /\ IsInjective(ss) /\ ToSet(ss) = Live(Now)
    BY <1>3, NowIs, StateFields DEF Good, GoodObjects, SystemsListed
  <2> QED BY <2>1, LenProperties
<1>5. PICK f : /\ f[0] = b /\ f[Len(ss)] = g
               /\ \A n \in 1..Len(ss) : f[n] = Restored(f[n - 1], ss[n])
  <2>1. g = AllRestored(b, ss)
    BY <1>1, <1>3
  <2> QED BY <1>4, <2>1, RestoredSteps
<1> DEFINE P(n) == {ss[i] : i \in 1..n}
           T == {n \in 0..Len(ss) : Midway(b, f[n], P(n))}
<1>6. 0 \in T
  <2>1. P(0) = {}
    OBVIOUS
  <2>2. SameSystems(b, b)
    BY DEF SameSystems, Alike
  <2>3. Midway(b, b, {})
    BY <1>2, <2>2, NoneInEmpty DEF Midway
  <2>4. Midway(b, f[0], P(0))
    BY <1>5, <2>1, <2>3, Zenon
  <2> HIDE DEF P
  <2> QED BY <1>4, <2>4
<1>7. ASSUME NEW n \in 1..Len(ss), n - 1 \in T PROVE n \in T
  <2>1. PICK k : k = f[n - 1]
    OBVIOUS
  <2>2. Midway(b, k, P(n - 1))
    BY <1>7, <2>1
  <2>3. PICK s : s = ss[n]
    OBVIOUS
  <2>4. s \in Live(Now)
    BY <1>4, <2>3 DEF ToSet
  <2>5. s \notin P(n - 1)
    BY <1>4, <2>3 DEF IsInjective
  <2>6. P(n) = P(n - 1) \cup {s}
    BY <1>4, <2>3
  <2>7. f[n] = Restored(k, s)
    BY <1>5, <1>7, <2>1, <2>3
  <2> HIDE DEF P
  <2>8. Midway(b, f[n], P(n - 1) \cup {s})
    BY <1>2, <2>2, <2>4, <2>5, <2>7, RestoredGood
  <2>9. n \in 0..Len(ss)
    BY <1>4
  <2> QED BY <2>6, <2>8, <2>9
<1>8. Len(ss) \in T
  <2> HIDE DEF T
  <2>1. \A n \in 0..Len(ss) : n \in T
    BY <1>4, <1>6, <1>7, Climb
  <2> QED BY <1>4, <2>1
<1>9. P(Len(ss)) = Live(Now)
  BY <1>4 DEF ToSet
<1> HIDE DEF P
<1>10. Midway(b, g, Live(Now))
  BY <1>5, <1>8, <1>9
<1> HIDE DEF T
<1>11. /\ GoodObjects(g) /\ SameSystems(b, g) /\ g.lastID = next
       /\ IsInjective(g.order) /\ ToSet(g.order) = Saved /\ g.systemCount = Len(g.order)
       /\ Present(g) = {p \in Present(Now) : part[p].home \in Saved}
       /\ \A p \in Present(g) : g.part[p].home = part[p].home
  <2>1. Saved \cap Live(Now) = Saved
    BY SavedAre
  <2> QED BY <1>2, <1>10, <2>1 DEF Midway
<1>12. Good(g)
  BY <1>2, <1>11 DEF Good, SystemsListed, SameSystems
<1>13. ASSUME NEW p \in Present(g) PROVE Rank(g, p) = Rank(Now, p)
  <2>1. g.part[p].home = part[p].home /\ part[p].home \in Saved
    BY <1>11
  <2>2. g.sys[part[p].home].template = sys[part[p].home].template
    BY <1>2, <1>11, <2>1 DEF SameSystems, Alike
  <2> QED BY <2>1, <2>2, NowIs DEF Rank
<1> QED BY <1>11, <1>12, <1>13

-----------------------------------------------------------------------------
(* The particles that make room.                                             *)

FirstN(q, n) == SubSeq(q, 1, n)

\* The first n elements of a list of different elements.
LEMMA FirstOf ==
  ASSUME NEW S, NEW q \in Seq(S), IsInjective(q), NEW n \in 0..Len(q), NEW r, r = FirstN(q, n)
  PROVE  /\ r \in Seq(S) /\ IsInjective(r) /\ ToSet(r) \subseteq ToSet(q) /\ Len(r) = n
         /\ n = Len(q) => ToSet(r) = ToSet(q)
<1>1. Len(q) \in Nat /\ DOMAIN q = 1..Len(q) /\ n \in Nat
  BY LenProperties
<1>2. r \in Seq(S) /\ Len(r) = n /\ \A i \in 1..n : r[i] = q[i]
  <2>1. r = SubSeq(q, 1, n)
    BY DEF FirstN
  <2> QED BY <1>1, <2>1
<1>3. DOMAIN r = 1..n /\ 1..n \subseteq 1..Len(q)
  BY <1>1, <1>2, LenProperties
<1>4. IsInjective(r)
  BY <1>1, <1>2, <1>3 DEF IsInjective
<1>5. ToSet(r) \subseteq ToSet(q)
  BY <1>1, <1>2, <1>3 DEF ToSet
<1>6. n = Len(q) => ToSet(r) = ToSet(q)
  BY <1>1, <1>2, <1>3 DEF ToSet
<1> QED BY <1>2, <1>4, <1>5, <1>6

\* The function that the definition of Below has inside.
BelowRun(f, cap) == f = [q \in 0..cap |-> IF q = 0 THEN << >> ELSE f[q - 1] \o overall[q - 1]]

LEMMA BelowRunExists ==
  ASSUME NEW L \in Nat
  PROVE  \E f : BelowRun(f, L)
<1> DEFINE T == {n \in 0..L : \E f : BelowRun(f, n)}
<1>1. 0 \in T
  <2>1. BelowRun([n \in 0..0 |-> << >>], 0)
    BY DEF BelowRun
  <2> QED BY <2>1
<1>2. ASSUME NEW n \in 1..L, n - 1 \in T PROVE n \in T
  <2>1. PICK f : BelowRun(f, n - 1)
    BY <1>2
  <2> DEFINE g == [m \in 0..n |-> IF m = n THEN f[n - 1] \o overall[n - 1] ELSE f[m]]
  <2>2. n \in Nat /\ n - 1 \in Nat /\ n # 0
    OBVIOUS
  <2>3. \A m \in 0..(n - 1) : f[m] = IF m = 0 THEN << >> ELSE f[m - 1] \o overall[m - 1]
    BY <2>1, Zenon DEF BelowRun
  <2>4. \A m \in 0..(n - 1) : g[m] = f[m]
    BY <2>2
  <2>5. ASSUME NEW m \in 0..n PROVE g[m] = IF m = 0 THEN << >> ELSE g[m - 1] \o overall[m - 1]
    <3>1. CASE m = n
      <4>1. n - 1 \in 0..(n - 1) /\ n \in 0..n
        BY <2>2
      <4>2. g[n] = f[n - 1] \o overall[n - 1]
        BY <4>1
      <4> QED BY <2>2, <2>4, <3>1, <4>1, <4>2
    <3>2. CASE m # n
      <4>1. m \in 0..(n - 1) /\ (m # 0 => m - 1 \in 0..(n - 1))
        BY <2>2, <3>2
      <4> HIDE DEF g
      <4> QED BY <2>3, <2>4, <4>1
    <3> QED BY <3>1, <3>2
  <2>6. g = [m \in 0..n |-> g[m]]
    OBVIOUS
  <2> HIDE DEF g
  <2>7. g = [m \in 0..n |-> IF m = 0 THEN << >> ELSE g[m - 1] \o overall[m - 1]]
    BY <2>5, <2>6
  <2>8. BelowRun(g, n)
    BY <2>7, Zenon DEF BelowRun
  <2>9. \E e : BelowRun(e, n)
    BY <2>8
  <2>10. n \in 0..L
    OBVIOUS
  <2> QED BY <2>9, <2>10
<1> HIDE DEF T
<1>3. \A n \in 0..L : n \in T
  BY <1>1, <1>2, Climb
<1> QED BY <1>3 DEF T

LEMMA BelowSteps ==
  ASSUME NEW cap \in Nat
  PROVE  \E f : /\ f[0] = << >> /\ f[cap] = Below(cap)
                /\ \A n \in 1..cap : f[n] = f[n - 1] \o overall[n - 1]
<1>1. PICK f : f = CHOOSE g : BelowRun(g, cap)
  OBVIOUS
<1>2. BelowRun(f, cap)
  BY <1>1, BelowRunExists
<1>3. f[0] = << >>
  <2>1. 0 \in 0..cap
    OBVIOUS
  <2> QED BY <1>2, <2>1 DEF BelowRun
<1>4. \A n \in 1..cap : f[n] = f[n - 1] \o overall[n - 1]
  <2> TAKE n \in 1..cap
  <2>1. n \in 0..cap /\ n # 0
    OBVIOUS
  <2> QED BY <1>2, <2>1 DEF BelowRun
<1>5. f[cap] = Below(cap)
  BY <1>1 DEF Below, BelowRun
<1> QED BY <1>3, <1>4, <1>5

\* The list has the particles of lower priority, each once.
LEMMA BelowIs ==
  ASSUME Good(Now), NEW cap \in Priorities, NEW old, old = Below(cap)
  PROVE  old \in Seq(Particles) /\ IsInjective(old) /\ ToSet(old) = {p \in Present(Now) : Rank(Now, p) < cap}
<1>1. cap \in Nat /\ Now \in States /\ ParticlesListed(Now)
  BY ParticleAssumption DEF Priorities, Good, GoodObjects
<1>2. PICK f : /\ f[0] = << >> /\ f[cap] = old
               /\ \A n \in 1..cap : f[n] = f[n - 1] \o overall[n - 1]
  BY <1>1, BelowSteps
<1> DEFINE D(n) == {p \in Present(Now) : Rank(Now, p) < n}
           T == {n \in 0..cap : f[n] \in Seq(Particles) /\ IsInjective(f[n]) /\ ToSet(f[n]) = D(n)}
<1>3. \A p \in Present(Now) : Rank(Now, p) \in Nat
  BY <1>1, RankIn, ParticleAssumption DEF Priorities
<1>4. 0 \in T
  <2>1. D(0) = {}
    BY <1>3
  <2>2. f[0] \in Seq(Particles) /\ IsInjective(f[0]) /\ ToSet(f[0]) = {}
    BY <1>2, NoneInEmpty, Zenon
  <2>3. ToSet(f[0]) = D(0)
    BY <2>1, <2>2, Zenon
  <2> HIDE DEF D
  <2> QED BY <1>1, <2>2, <2>3
<1>5. ASSUME NEW n \in 1..cap, n - 1 \in T PROVE n \in T
  <2>1. PICK q : q = f[n - 1]
    OBVIOUS
  <2>2. q \in Seq(Particles) /\ IsInjective(q) /\ ToSet(q) = D(n - 1)
    BY <1>5, <2>1
  <2>3. PICK r : r = overall[n - 1]
    OBVIOUS
  <2>4. n - 1 \in Priorities
    BY <1>1, ParticleAssumption DEF Priorities
  <2>5. r \in Seq(Particles) /\ IsInjective(r) /\ ToSet(r) = {p \in Present(Now) : Rank(Now, p) = n - 1}
    BY <1>1, <2>3, <2>4, NowIs, StateFields DEF ParticlesListed
  <2>6. ToSet(q) \cap ToSet(r) = {}
    BY <2>2, <2>5
  <2>7. D(n) = D(n - 1) \cup ToSet(r)
    BY <1>1, <1>3, <2>5
  <2>8. f[n] = q \o r
    BY <1>2, <2>1, <2>3
  <2> HIDE DEF D
  <2>9. f[n] \in Seq(Particles) /\ IsInjective(f[n]) /\ ToSet(f[n]) = ToSet(q) \cup ToSet(r)
    <3>1. PICK c : c = Both(q, r)
      OBVIOUS
    <3>2. c \in Seq(Particles) /\ IsInjective(c) /\ ToSet(c) = ToSet(q) \cup ToSet(r)
      BY <2>2, <2>5, <2>6, <3>1, Joined
    <3> QED BY <2>8, <3>1, <3>2 DEF Both
  <2>10. n \in 0..cap
    BY <1>1
  <2> QED BY <2>2, <2>7, <2>9, <2>10
<1> HIDE DEF T
<1>6. \A n \in 0..cap : n \in T
  BY <1>1, <1>4, <1>5, Climb
<1>7. cap \in T
  BY <1>1, <1>6
<1> QED BY <1>2, <1>7 DEF T

-----------------------------------------------------------------------------
(* The limit.                                                                *)

\* The particles that the limit counts.
Low(h) == {p \in Present(h) : Rank(h, p) < LastPriority}
Limit(h) == Cardinality(Low(h)) <= MaxParticles + 1

LEMMA LimitIs == LimitKept <=> Limit(Now)
BY NowIs DEF LimitKept, Limit, Low, Rank

LEMMA FiniteLow ==
  ASSUME NEW h
  PROVE  /\ IsFiniteSet(Low(h)) /\ IsFiniteSet(Present(h))
         /\ Cardinality(Low(h)) \in Nat /\ Cardinality(Present(h)) \in Nat
         /\ Cardinality(Low(h)) <= Cardinality(Present(h))
<1>1. Low(h) \subseteq Present(h) /\ Present(h) \subseteq Particles
  BY DEF Low, Present
<1>2. IsFiniteSet(Present(h))
  BY <1>1, ParticleAssumption, FS_Subset
<1> QED BY <1>1, <1>2, FS_Subset, FS_CardinalityType

\* The limit stays kept when particles go.
LEMMA LimitStays ==
  ASSUME NEW h, NEW g, Limit(h), Present(g) \subseteq Present(h), \A p \in Present(g) : Rank(g, p) = Rank(h, p)
  PROVE  Limit(g)
<1>1. Low(g) \subseteq Low(h)
  BY DEF Low
<1>2. Cardinality(Low(g)) <= Cardinality(Low(h))
  BY <1>1, FiniteLow, FS_Subset
<1> QED BY <1>2, FiniteLow, ParticleAssumption DEF Limit

\* The particles that are left keep their priorities.
LEMMA LostRanks ==
  ASSUME NEW h, GoodObjects(h), NEW g, NEW P, Lost(h, g, P)
  PROVE  Present(g) = Present(h) \ P /\ \A p \in Present(g) : Rank(g, p) = Rank(h, p)
<1>1. SameSystems(h, g) /\ Present(g) = Present(h) \ P /\ \A p \in Present(g) : g.part[p] = h.part[p]
  BY DEF Lost
<1>2. \A p \in Present(h) : h.part[p].home \in Live(h)
  BY DEF GoodObjects, ParticlesListed
<1> QED BY <1>1, <1>2 DEF Rank, SameSystems, Alike

\* What an action makes of the state.
LEMMA BecomeIs ==
  ASSUME NEW g \in States, Become(g)
  PROVE  Now' = g
<1>1. g = [sys |-> g.sys, part |-> g.part, order |-> g.order, overall |-> g.overall,
           count |-> g.count, systemCount |-> g.systemCount, lastID |-> g.lastID]
  BY DEF States
<1>2. Now' = [sys |-> sys', part |-> part', order |-> order', overall |-> overall',
              count |-> count', systemCount |-> systemCount', lastID |-> lastID']
  BY DEF Now
<1> QED BY <1>1, <1>2 DEF Become

LEMMA Becomes ==
  ASSUME NEW g, Become(g), Good(g), g.lastID <= MaxID, Limit(g)
  PROVE  IndInv'
<1>1. Now' = g
  BY BecomeIs DEF Good, GoodObjects
<1>2. lastID' = g.lastID
  BY DEF Become
<1>3. Good(Now)'
  BY <1>1 DEF Good, GoodObjects, States, ParticlesListed, Rank, Slaves, Masters, Controls, SlavesDestroyed, IDs, SystemsListed, Live, Present
<1>4. LimitKept'
  <2>1. Limit(Now)'
    BY <1>1 DEF Limit, Low, Rank, Present
  <2> QED BY <2>1, LimitIs, PTL
<1> QED BY <1>2, <1>3, <1>4 DEF IndInv

-----------------------------------------------------------------------------
(* The actions.                                                              *)

LEMMA ParticleEndsStep ==
  ASSUME IndInv, NEW p \in Present(Now), ParticleEnds(p)
  PROVE  IndInv'
<1>1. PICK g : g = Gone(Now, p)
  OBVIOUS
<1>2. Good(Now) /\ GoodObjects(Now) /\ Limit(Now) /\ lastID <= MaxID
  BY LimitIs DEF IndInv, Good
<1>3. GoodObjects(g) /\ Lost(Now, g, {p})
  BY <1>1, <1>2, GoneGood
<1>4. Good(g) /\ g.lastID = lastID
  BY <1>2, <1>3, NowIs DEF Good, SystemsListed, Lost, SameSystems
<1>5. Limit(g)
  <2>1. Present(g) = Present(Now) \ {p} /\ \A r \in Present(g) : Rank(g, r) = Rank(Now, r)
    BY <1>2, <1>3, LostRanks
  <2>2. Present(g) \subseteq Present(Now)
    BY <2>1
  <2> QED BY <1>2, <2>1, <2>2, LimitStays
<1>6. Become(g)
  BY <1>1 DEF ParticleEnds
<1> QED BY <1>2, <1>4, <1>5, <1>6, Becomes

LEMMA SystemEndsStep ==
  ASSUME IndInv, NEW s \in Live(Now), SystemEnds(s)
  PROVE  IndInv'
<1>1. PICK g : g = Deleted(Now, s)
  OBVIOUS
<1>2. Good(Now) /\ Limit(Now) /\ lastID <= MaxID
  BY LimitIs DEF IndInv
<1>3. Good(g) /\ SystemLost(Now, s, g)
  BY <1>1, <1>2, DeletedGood
<1>4. g.lastID = lastID
  BY <1>3, NowIs DEF SystemLost
<1>5. Limit(g)
  <2>1. Present(g) \subseteq Present(Now)
    BY <1>3 DEF SystemLost
  <2>2. ASSUME NEW r \in Present(g) PROVE Rank(g, r) = Rank(Now, r)
    <3>1. g.part[r].home = Now.part[r].home
      BY <1>3, <2>2 DEF SystemLost
    <3>2. g.part[r].home \in Live(g)
      BY <1>3, <2>2 DEF Good, GoodObjects, ParticlesListed
    <3> QED BY <1>3, <3>1, <3>2 DEF SystemLost, Rank
  <2> QED BY <1>2, <2>1, <2>2, LimitStays
<1>6. Become(g)
  BY <1>1 DEF SystemEnds
<1> QED BY <1>2, <1>3, <1>4, <1>5, <1>6, Becomes

\* Systems that are marked.
LEMMA MarkedGood ==
  ASSUME NEW h, Good(h), NEW g \in States, SameSystems(h, g), SlavesDestroyed(g),
         g.part = h.part, g.order = h.order, g.overall = h.overall,
         g.count = h.count, g.systemCount = h.systemCount, g.lastID = h.lastID,
         \A t \in Live(h) : g.sys[t].control = h.sys[t].control /\ g.sys[t].particles = h.sys[t].particles
  PROVE  Good(g) /\ (Limit(h) => Limit(g))
<1>1. Slaves(g) /\ Masters(g) /\ IDs(g)
  BY SameSystemsKeep DEF Good, GoodObjects
<1>2. Live(g) = Live(h) /\ Present(g) = Present(h)
  BY DEF SameSystems, Present
<1>3. \A p \in Present(g) : Rank(g, p) = Rank(h, p)
  <2>1. \A p \in Present(h) : h.part[p].home \in Live(h)
    BY DEF Good, GoodObjects, ParticlesListed
  <2> QED BY <1>2, <2>1 DEF Rank, SameSystems, Alike
<1>4. ParticlesListed(g)
  <2>1. ParticlesListed(h)
    BY DEF Good, GoodObjects
  <2> QED BY <1>2, <1>3, <2>1 DEF ParticlesListed
<1>5. Controls(g)
  BY <1>2 DEF Good, GoodObjects, Controls
<1>6. SystemsListed(g)
  BY <1>2 DEF Good, SystemsListed
<1>7. Limit(h) => Limit(g)
  BY <1>2, <1>3, LimitStays
<1> QED BY <1>1, <1>4, <1>5, <1>6, <1>7 DEF Good, GoodObjects

\* The slaves are systems that there are.
LEMMA SlavesLive ==
  ASSUME NEW h, Slaves(h)
  PROVE  \A u \in Live(h) : h.sys[u].slave \in Live(h) \cup {NoSystem}
BY DEF Slaves

LEMMA DestroyByIDStep ==
  ASSUME IndInv, NEW i, DestroyByID(i)
  PROVE  IndInv'
<1>1. Good(Now) /\ Limit(Now) /\ lastID <= MaxID /\ Now \in States /\ Slaves(Now)
  BY LimitIs DEF IndInv, Good, GoodObjects
<1>2. PICK n \in 1..Len(order) : Become(Destroyed(Now, order[n]))
  BY DEF DestroyByID
<1>3. PICK s : s = order[n]
  OBVIOUS
<1>4. s \in Live(Now)
  <2>1. order \in Seq(Systems) /\ ToSet(order) = Live(Now)
    BY <1>1, NowIs, StateFields DEF Good, SystemsListed
  <2> QED BY <1>3, <2>1, InToSet
<1>5. PICK g : g = Destroyed(Now, s)
  OBVIOUS
<1>6. /\ g \in States /\ SameSystems(Now, g)
      /\ g.part = Now.part /\ g.order = Now.order /\ g.overall = Now.overall
      /\ g.count = Now.count /\ g.systemCount = Now.systemCount /\ g.lastID = Now.lastID
      /\ \A t \in Live(Now) : /\ g.sys[t].destroyed <=> Now.sys[t].destroyed \/ t \in Chain(Now, s)
                              /\ g.sys[t].control = Now.sys[t].control
                              /\ g.sys[t].particles = Now.sys[t].particles
  BY <1>1, <1>4, <1>5, DestroyedIs
<1>7. SlavesDestroyed(g)
  <2>1. /\ SlavesDestroyed(Now) /\ \A u \in Live(Now) : Now.sys[u].slave \in Live(Now) \cup {NoSystem}
    BY <1>1, SlavesLive DEF Good, GoodObjects
  <2>2. /\ Chain(Now, s) \subseteq Live(Now)
        /\ \A t \in Chain(Now, s) : Now.sys[t].slave \in Chain(Now, s) \cup {NoSystem}
    BY <1>4, <2>1, ChainClosed
  <2>3. Live(g) = Live(Now) /\ \A t \in Live(Now) : g.sys[t].slave = Now.sys[t].slave
    BY <1>6 DEF SameSystems, Alike
  <2> QED BY <1>6, <2>1, <2>2, <2>3 DEF SlavesDestroyed
<1>8. Good(g) /\ Limit(g)
  BY <1>1, <1>6, <1>7, MarkedGood
<1> QED BY <1>1, <1>2, <1>3, <1>5, <1>6, <1>8, NowIs, Becomes

LEMMA SaveableRecord ==
  ASSUME NEW r \in SystemRecords, NEW v \in BOOLEAN, NEW x, x = [r EXCEPT !.saveable = v]
  PROVE  /\ x \in SystemRecords /\ Alike(x, r) /\ x.destroyed = r.destroyed /\ x.control = r.control
         /\ x.particles = r.particles
BY DEF SystemRecords, Alike

LEMMA SetSaveableStep ==
  ASSUME IndInv, NEW s \in Live(Now), NEW v \in BOOLEAN, SetSaveable(s, v)
  PROVE  IndInv'
<1>1. Good(Now) /\ Limit(Now) /\ lastID <= MaxID /\ Now \in States /\ SlavesDestroyed(Now)
  BY LimitIs DEF IndInv, Good, GoodObjects
<1>2. PICK C : C = Chain(Now, s)
  OBVIOUS
<1>3. C \subseteq Live(Now)
  BY <1>2 DEF Chain
<1>4. PICK f : f = [t \in Systems |-> IF t \in C THEN [sys[t] EXCEPT !.saveable = v] ELSE sys[t]]
  OBVIOUS
<1>5. PICK g : g = [Now EXCEPT !.sys = f]
  OBVIOUS
<1>6. Become(g)
  BY <1>2, <1>4, <1>5, NowIs DEF SetSaveable
<1>7. \A t \in Live(Now) : sys[t] \in SystemRecords /\ t \in Systems
  BY <1>1, NowIs, Objects
<1>8. \A t \in Systems : t \notin C => f[t] = sys[t]
  BY <1>4
<1>9. ASSUME NEW t \in Live(Now)
      PROVE  /\ f[t] \in SystemRecords /\ Alike(f[t], sys[t]) /\ (f[t]).destroyed = sys[t].destroyed
             /\ (f[t]).control = sys[t].control /\ (f[t]).particles = sys[t].particles
  <2>1. CASE t \in C
    <3>1. f[t] = [sys[t] EXCEPT !.saveable = v]
      BY <1>4, <1>7, <2>1
    <3> QED BY <1>7, <3>1, SaveableRecord
  <2>2. CASE t \notin C
    <3>1. f[t] = sys[t]
      BY <1>7, <1>8, <2>2
    <3> QED BY <1>7, <3>1 DEF Alike
  <2> QED BY <2>1, <2>2
<1>10. f \in [Systems -> SystemRecords \cup {NoSystem}]
  <2>1. \A t \in Systems : f[t] \in SystemRecords \cup {NoSystem}
    <3>1. \A t \in Systems : t \notin Live(Now) => f[t] = NoSystem
      BY <1>1, <1>3, <1>8, NowIs, Objects
    <3> QED BY <1>9, <3>1
  <2> QED BY <1>4, <2>1
<1>11. /\ g \in States /\ g.sys = f /\ g.part = Now.part /\ g.order = Now.order /\ g.overall = Now.overall
       /\ g.count = Now.count /\ g.systemCount = Now.systemCount /\ g.lastID = Now.lastID
  BY <1>1, <1>5, <1>10, SystemsChanged
<1>12. \A t \in Systems : t \in Live(g) <=> t \in Live(Now)
  <2>1. \A t \in Systems : t \in Live(Now) => t \in Live(g)
    BY <1>9, <1>11, Objects
  <2>2. \A t \in Systems : t \notin Live(Now) => t \notin Live(g)
    BY <1>1, <1>3, <1>8, <1>11, NowIs, Objects DEF Live
  <2> QED BY <2>1, <2>2
<1>13. SameSystems(Now, g)
  <2>1. Live(g) = Live(Now)
    BY <1>12 DEF Live
  <2> QED BY <1>9, <1>11, <2>1, NowIs DEF SameSystems
<1>14. SlavesDestroyed(g)
  <2>1. \A t \in Live(Now) : Now.sys[t].slave \in Live(Now) \cup {NoSystem}
    BY <1>1, SlavesLive DEF Good, GoodObjects
  <2> QED BY <1>1, <1>9, <1>11, <1>13, <2>1, NowIs DEF SlavesDestroyed, SameSystems, Alike
<1>15. Good(g) /\ Limit(g)
  BY <1>1, <1>9, <1>11, <1>13, <1>14, NowIs, MarkedGood
<1> QED BY <1>1, <1>6, <1>11, <1>15, NowIs, Becomes

\* What making room does to the state.
LEMMA ForcedOutIs ==
  ASSUME Good(Now), NEW cap \in Priorities, NEW n \in Nat \ {0}, NEW g, g = ForcedOut(n, cap)
  PROVE  \E P : /\ GoodObjects(g) /\ Lost(Now, g, P) /\ P \subseteq {p \in Present(Now) : Rank(Now, p) < cap}
                /\ \/ g.count = count - n
                   \/ P = {p \in Present(Now) : Rank(Now, p) < cap}
<1>1. PICK old : old = Below(cap)
  OBVIOUS
<1>2. old \in Seq(Particles) /\ IsInjective(old) /\ ToSet(old) = {p \in Present(Now) : Rank(Now, p) < cap}
  BY <1>1, BelowIs
<1>3. PICK m : m = IF n < Len(old) THEN n ELSE Len(old)
  OBVIOUS
<1>4. m \in 0..Len(old) /\ (m = n \/ m = Len(old))
  BY <1>2, <1>3, LenProperties
<1>5. PICK ps : ps = FirstN(old, m)
  OBVIOUS
<1>6. /\ ps \in Seq(Particles) /\ IsInjective(ps) /\ ToSet(ps) \subseteq ToSet(old) /\ Len(ps) = m
      /\ m = Len(old) => ToSet(ps) = ToSet(old)
  BY <1>2, <1>4, <1>5, FirstOf
<1>7. g = AllGone(Now, ps)
  BY <1>1, <1>3, <1>5 DEF ForcedOut, Oldest, FirstN
<1>8. GoodObjects(Now) /\ ToSet(ps) \subseteq Present(Now)
  BY <1>2, <1>6 DEF Good
<1>9. GoodObjects(g) /\ Lost(Now, g, ToSet(ps)) /\ g.count = Now.count - m
  BY <1>6, <1>7, <1>8, AllGoneGood
<1> QED BY <1>2, <1>4, <1>6, <1>9, NowIs

LEMMA CreateParticleStep ==
  ASSUME IndInv, NEW s \in Live(Now), NEW p \in Particles, CreateParticle(s, p)
  PROVE  IndInv'
<1>1. Good(Now) /\ GoodObjects(Now) /\ Now \in States /\ ParticlesListed(Now) /\ Limit(Now) /\ lastID <= MaxID
  BY LimitIs DEF IndInv, Good, GoodObjects
<1>2. PICK k : k = Priority[sys[s].template]
  OBVIOUS
<1>3. k \in Priorities
  BY <1>1, <1>2, NowIs, Objects, RecordFields, ParticleAssumption
<1>4. count \in Nat /\ count = Cardinality(Present(Now)) /\ MaxParticles \in Nat /\ k \in Nat /\ LastPriority \in Nat
  <2>1. count = Cardinality(Present(Now))
    BY <1>1, NowIs DEF ParticlesListed
  <2>2. count \in Nat
    BY <2>1, FiniteLow
  <2>3. MaxParticles \in Nat /\ k \in Nat /\ LastPriority \in Nat
    BY <1>3, ParticleAssumption DEF Priorities
  <2> QED BY <2>1, <2>2, <2>3
<1>5. CASE Excess > 0 /\ k # LastPriority
  <2>1. PICK g : g = ForcedOut(Excess, k)
    OBVIOUS
  <2>2. Become(g)
    BY <1>2, <1>5, <2>1 DEF CreateParticle
  <2>3. Excess \in Nat \ {0}
    BY <1>4, <1>5 DEF Excess
  <2>4. PICK P : GoodObjects(g) /\ Lost(Now, g, P)
    BY <1>1, <1>3, <2>1, <2>3, ForcedOutIs
  <2>5. Good(g) /\ g.lastID = lastID
    BY <1>1, <2>4, NowIs DEF Good, SystemsListed, Lost, SameSystems
  <2>6. Limit(g)
    <3>1. Present(g) = Present(Now) \ P /\ \A r \in Present(g) : Rank(g, r) = Rank(Now, r)
      BY <1>1, <2>4, LostRanks
    <3>2. Present(g) \subseteq Present(Now)
      BY <3>1
    <3> QED BY <1>1, <3>1, <3>2, LimitStays
  <2> QED BY <1>1, <2>2, <2>5, <2>6, Becomes
<1>6. CASE ~(Excess > 0 /\ k # LastPriority)
  <2>1. PICK g : g = Emitted(Now, s, p)
    OBVIOUS
  <2>2. Become(g)
    BY <1>2, <1>6, <2>1 DEF CreateParticle
  <2>3. p \notin Present(Now)
    BY NowIs DEF CreateParticle, Present
  <2>4. GoodObjects(g) /\ Gained(Now, s, {p}, g)
    BY <1>1, <2>1, <2>3, EmittedGood
  <2>5. Good(g) /\ g.lastID = lastID
    BY <1>1, <2>4, NowIs DEF Good, SystemsListed, Gained, SameSystems
  <2>6. \A r \in Present(Now) : Rank(g, r) = Rank(Now, r)
    <3>1. \A r \in Present(Now) : Now.part[r].home \in Live(Now) /\ g.part[r] = Now.part[r]
      BY <1>1, <2>4 DEF ParticlesListed, Gained
    <3> QED BY <2>4, <3>1 DEF Rank, Gained, SameSystems, Alike
  <2>7. Rank(g, p) = k
    <3>1. g.part[p].home = s /\ g.sys[s].template = Now.sys[s].template
      BY <2>4 DEF Gained, SameSystems, Alike
    <3> QED BY <1>2, <3>1, NowIs DEF Rank
  <2>8. Present(g) = Present(Now) \cup {p}
    BY <2>4 DEF Gained
  <2>9. Limit(g)
    <3>1. CASE k = LastPriority
      <4>1. Low(g) = Low(Now)
        BY <1>4, <2>3, <2>6, <2>7, <2>8, <3>1 DEF Low
      <4> QED BY <1>1, <4>1 DEF Limit
    <3>2. CASE k # LastPriority
      <4>1. Cardinality(Low(Now)) <= MaxParticles /\ Cardinality(Low(Now)) \in Nat
        BY <1>4, <1>6, <3>2, FiniteLow DEF Excess
      <4>2. Low(g) \subseteq Low(Now) \cup {p}
        BY <2>6, <2>8 DEF Low
      <4>3. IsFiniteSet(Low(Now)) /\ p \notin Low(Now)
        BY <2>3, FiniteLow DEF Low
      <4>4. IsFiniteSet(Low(Now) \cup {p}) /\ Cardinality(Low(Now) \cup {p}) = Cardinality(Low(Now)) + 1
        BY <4>3, FS_AddElement
      <4>5. Cardinality(Low(g)) <= Cardinality(Low(Now)) + 1 /\ Cardinality(Low(g)) \in Nat
        BY <4>2, <4>4, FiniteLow, FS_Subset
      <4> QED BY <1>4, <4>1, <4>5 DEF Limit
    <3> QED BY <3>1, <3>2
  <2> QED BY <1>1, <2>2, <2>5, <2>9, Becomes
<1> QED BY <1>5, <1>6

LEMMA ResetStep ==
  ASSUME IndInv, Reset
  PROVE  IndInv'
<1>1. Good(Now)
  BY DEF IndInv
<1>2. PICK h : h = AllDeleted(Now, order)
  OBVIOUS
<1>3. Good(h) /\ Live(h) = {} /\ Present(h) = {}
  BY <1>1, <1>2, NowIs, AllDeletedGood
<1>4. PICK g : g = [h EXCEPT !.lastID = 0]
  OBVIOUS
<1>5. /\ g \in States /\ g.lastID = 0 /\ g.sys = h.sys /\ g.part = h.part /\ g.order = h.order
      /\ g.overall = h.overall /\ g.count = h.count /\ g.systemCount = h.systemCount
  BY <1>3, <1>4 DEF Good, GoodObjects, States
<1>6. Live(g) = {} /\ Present(g) = {}
  BY <1>3, <1>5 DEF Live, Present
<1>7. Slaves(g) /\ Masters(g) /\ Controls(g) /\ SlavesDestroyed(g) /\ IDs(g)
  BY <1>6 DEF Slaves, Masters, Controls, SlavesDestroyed, IDs
<1>8. ParticlesListed(g) /\ SystemsListed(g)
  BY <1>3, <1>5, <1>6 DEF Good, GoodObjects, ParticlesListed, SystemsListed
<1>9. Limit(g)
  <2>1. Low(g) = {}
    BY <1>6 DEF Low
  <2> QED BY <2>1, FS_EmptySet, ParticleAssumption DEF Limit
<1>10. Become(g)
  BY <1>2, <1>4 DEF Reset
<1>11. Good(g) /\ g.lastID <= MaxID
  BY <1>5, <1>7, <1>8, ParticleAssumption DEF Good, GoodObjects
<1> QED BY <1>9, <1>10, <1>11, Becomes

LEMMA SaveAndLoadStep ==
  ASSUME IndInv, SaveAndLoad
  PROVE  IndInv'
<1>1. Good(Now) /\ Limit(Now) /\ lastID \in Nat
  BY LimitIs, NowIs, StateFields DEF IndInv, Good, GoodObjects
<1>2. PICK next : next = NextID(Cardinality(Saved))
  OBVIOUS
<1>3. next \in Nat /\ next >= lastID /\ next <= MaxID
  <2>1. Cardinality(Saved) \in Nat
    BY SavedAre, ParticleAssumption, FS_Subset, FS_CardinalityType
  <2> QED BY <1>1, <1>2, <2>1 DEF NextID, SaveAndLoad
<1>4. PICK g : g = AllRestored(Back(next), order)
  OBVIOUS
<1>5. LinksSaved /\ Become(g)
  BY <1>2, <1>4 DEF SaveAndLoad, Back
<1>6. /\ Good(g) /\ g.lastID = next /\ Present(g) \subseteq Present(Now)
      /\ \A p \in Present(g) : Rank(g, p) = Rank(Now, p)
  BY <1>1, <1>3, <1>4, <1>5, AllRestoredGood
<1>7. Limit(g)
  BY <1>1, <1>6, LimitStays
<1> QED BY <1>3, <1>5, <1>6, <1>7, Becomes

LEMMA ControlSystemStep ==
  ASSUME IndInv, NEW p \in Present(Now), NEW s \in Live(Now), ControlSystem(p, s)
  PROVE  IndInv'
<1>1. /\ Good(Now) /\ Limit(Now) /\ lastID <= MaxID /\ Now \in States /\ ParticlesListed(Now)
      /\ Controls(Now) /\ SlavesDestroyed(Now)
  BY LimitIs DEF IndInv, Good, GoodObjects
<1>2. PICK g : g = [Now EXCEPT !.part[p].controls = s, !.sys[s].control = p]
  OBVIOUS
<1>3. part[p].controls = NoSystem /\ sys[s].control = NoParticle /\ Become(g)
  BY <1>2 DEF ControlSystem
<1>4. /\ p \in Particles /\ part[p] \in ParticleRecords
      /\ \A t \in Live(Now) : t \in Systems /\ sys[t] \in SystemRecords
      /\ p # NoParticle /\ s # NoSystem
  BY <1>1, NowIs, Objects, ParticleAssumption
<1>5. PICK r : r = [sys[s] EXCEPT !.control = p]
  OBVIOUS
<1>6. /\ r \in SystemRecords /\ Alike(r, sys[s]) /\ r.destroyed = sys[s].destroyed /\ r.control = p
      /\ r.particles = sys[s].particles
  BY <1>4, <1>5, ControlledRecord
<1>7. PICK x : x = [part[p] EXCEPT !.controls = s]
  OBVIOUS
<1>8. x \in ParticleRecords /\ x.home = part[p].home /\ x.controls = s
  BY <1>4, <1>7 DEF ParticleRecords
<1>9. PICK f : f = [sys EXCEPT ![s] = r]
  OBVIOUS
<1>10. PICK w : w = [part EXCEPT ![p] = x]
  OBVIOUS
<1>11. /\ f \in [Systems -> SystemRecords \cup {NoSystem}] /\ \A t \in Systems : f[t] = IF t = s THEN r ELSE sys[t]
       /\ w \in [Particles -> ParticleRecords \cup {NoParticle}]
       /\ \A q \in Particles : w[q] = IF q = p THEN x ELSE part[q]
  <2>1. sys \in [Systems -> SystemRecords \cup {NoSystem}] /\ part \in [Particles -> ParticleRecords \cup {NoParticle}]
    BY <1>1, NowIs, StateFields
  <2> QED BY <1>4, <1>6, <1>8, <1>9, <1>10, <2>1
<1>12. g = [Now EXCEPT !.part = w, !.sys = f]
  BY <1>2, <1>5, <1>7, <1>9, <1>10, NowIs
<1>13. /\ g \in States /\ g.sys = f /\ g.part = w /\ g.order = Now.order /\ g.overall = Now.overall
       /\ g.count = Now.count /\ g.systemCount = Now.systemCount /\ g.lastID = Now.lastID
  BY <1>1, <1>11, <1>12 DEF States
<1>14. ASSUME NEW t \in Live(Now)
       PROVE  /\ f[t] \in SystemRecords /\ Alike(f[t], sys[t]) /\ (f[t]).destroyed = sys[t].destroyed
              /\ (f[t]).control = IF t = s THEN p ELSE sys[t].control
              /\ (f[t]).particles = sys[t].particles
  <2>1. CASE t = s
    BY <1>4, <1>6, <1>11, <2>1
  <2>2. CASE t # s
    <3>1. f[t] = sys[t]
      BY <1>4, <1>11, <2>2
    <3> QED BY <1>4, <2>2, <3>1 DEF Alike
  <2> QED BY <2>1, <2>2
<1>15. ASSUME NEW q \in Present(Now)
       PROVE  /\ w[q] \in ParticleRecords /\ (w[q]).home = part[q].home
              /\ (w[q]).controls = IF q = p THEN s ELSE part[q].controls
  <2>1. q \in Particles /\ part[q] \in ParticleRecords
    BY <1>1, NowIs, Objects
  <2> QED BY <1>8, <1>11, <2>1
<1>16. Live(g) = Live(Now)
  <2>1. \A t \in Systems : t \in Live(g) <=> t \in Live(Now)
    BY <1>1, <1>4, <1>11, <1>13, <1>14, NowIs, Objects
  <2> QED BY <2>1 DEF Live
<1>17. Present(g) = Present(Now)
  <2>1. \A q \in Particles : q \in Present(g) <=> q \in Present(Now)
    BY <1>1, <1>4, <1>11, <1>13, <1>15, NowIs, Objects
  <2> QED BY <2>1 DEF Present
<1>18. SameSystems(Now, g)
  BY <1>13, <1>14, <1>16, NowIs DEF SameSystems
<1>19. Slaves(g) /\ Masters(g) /\ IDs(g)
  BY <1>1, <1>13, <1>18, SameSystemsKeep DEF Good, GoodObjects
<1>20. \A q \in Present(g) : Rank(g, q) = Rank(Now, q)
  <2>1. \A q \in Present(Now) : part[q].home \in Live(Now)
    BY <1>1, NowIs DEF ParticlesListed
  <2>2. \A q \in Present(Now) : g.part[q].home = part[q].home
    BY <1>13, <1>15
  <2> QED BY <1>17, <1>18, <2>1, <2>2, NowIs DEF Rank, SameSystems, Alike
<1>21. ParticlesListed(g)
  <2>1. \A q \in Present(Now) : g.part[q].home = Now.part[q].home
    BY <1>13, <1>15, NowIs
  <2>2. \A t \in Live(Now) : g.sys[t].particles = Now.sys[t].particles
    BY <1>13, <1>14, NowIs
  <2> QED BY <1>1, <1>13, <1>16, <1>17, <1>20, <2>1, <2>2 DEF ParticlesListed
<1>22. Controls(g)
  <2>1. /\ \A t \in Live(Now) : sys[t].control # NoParticle => sys[t].control \in Present(Now) /\ part[sys[t].control].controls = t
        /\ \A q \in Present(Now) : part[q].controls # NoSystem => part[q].controls \in Live(Now) /\ sys[part[q].controls].control = q
    BY <1>1, NowIs DEF Controls
  <2>4. NoSystem \notin Live(Now) /\ NoParticle \notin Present(Now)
    BY ParticleAssumption DEF Live, Present
  <2>2. \A t \in Live(Now) : (f[t]).control # NoParticle =>
            (f[t]).control \in Present(Now) /\ (w[(f[t]).control]).controls = t
    <3> SUFFICES ASSUME NEW t \in Live(Now), (f[t]).control # NoParticle
                 PROVE  (f[t]).control \in Present(Now) /\ (w[(f[t]).control]).controls = t
      OBVIOUS
    <3>1. CASE t = s
      BY <1>14, <1>15, <3>1
    <3>2. CASE t # s
      <4>1. PICK c : c = sys[t].control
        OBVIOUS
      <4>2. (f[t]).control = c
        BY <1>14, <3>2, <4>1
      <4>3. c \in Present(Now) /\ part[c].controls = t
        BY <2>1, <4>1, <4>2
      <4>4. c # p
        BY <1>3, <2>4, <4>3
      <4> QED BY <1>15, <4>2, <4>3, <4>4
    <3> QED BY <3>1, <3>2
  <2>3. \A q \in Present(Now) : (w[q]).controls # NoSystem =>
            (w[q]).controls \in Live(Now) /\ (f[(w[q]).controls]).control = q
    <3> SUFFICES ASSUME NEW q \in Present(Now), (w[q]).controls # NoSystem
                 PROVE  (w[q]).controls \in Live(Now) /\ (f[(w[q]).controls]).control = q
      OBVIOUS
    <3>1. CASE q = p
      BY <1>14, <1>15, <3>1
    <3>2. CASE q # p
      <4>1. PICK c : c = part[q].controls
        OBVIOUS
      <4>2. (w[q]).controls = c
        BY <1>15, <3>2, <4>1
      <4>3. c \in Live(Now) /\ sys[c].control = q
        BY <2>1, <4>1, <4>2
      <4>4. c # s
        BY <1>3, <2>4, <4>3
      <4> QED BY <1>14, <4>2, <4>3, <4>4
    <3> QED BY <3>1, <3>2
  <2> QED BY <1>13, <1>16, <1>17, <2>2, <2>3 DEF Controls
<1>23. SlavesDestroyed(g)
  <2>1. \A t \in Live(Now) : Now.sys[t].slave \in Live(Now) \cup {NoSystem}
    BY <1>1, SlavesLive DEF Good, GoodObjects
  <2> QED BY <1>1, <1>13, <1>14, <1>16, <2>1, NowIs DEF SlavesDestroyed, Alike
<1>24. SystemsListed(g)
  BY <1>1, <1>13, <1>16 DEF Good, SystemsListed
<1>25. Limit(g)
  BY <1>1, <1>17, <1>20, LimitStays
<1> QED BY <1>1, <1>3, <1>13, <1>19, <1>21, <1>22, <1>23, <1>24, <1>25, NowIs, Becomes DEF Good, GoodObjects

\* The record of a new system with its links.
Made(template, id, a, ai, b, bi) ==
  [NewSystem(template, id) EXCEPT !.slave = a, !.slaveID = ai, !.master = b, !.masterID = bi]

IsMade(x, id, a, ai, b, bi) ==
  /\ x \in SystemRecords /\ x.id = id /\ x.slave = a /\ x.slaveID = ai /\ x.master = b /\ x.masterID = bi
  /\ ~x.destroyed /\ x.control = NoParticle /\ x.particles = << >>

LEMMA MadeRecord ==
  ASSUME NEW template \in Templates, NEW id \in Nat, NEW a \in Systems \cup {NoSystem}, NEW ai \in Nat,
         NEW b \in Systems \cup {NoSystem}, NEW bi \in Nat
  PROVE  IsMade(Made(template, id, a, ai, b, bi), id, a, ai, b, bi)
<1>0. PICK x : x = Made(template, id, a, ai, b, bi)
  OBVIOUS
<1>1. PICK e : e = << >>
  OBVIOUS
<1>2. e \in Seq(Particles)
  BY <1>1, NoneInEmpty
<1>3. x = [template |-> template, id |-> id, slave |-> a, slaveID |-> ai, master |-> b,
           masterID |-> bi, destroyed |-> FALSE, saveable |-> TRUE, control |-> NoParticle, particles |-> e]
  BY <1>0, <1>1 DEF Made, NewSystem
<1>4. /\ x \in SystemRecords /\ x.id = id /\ x.slave = a /\ x.slaveID = ai /\ x.master = b /\ x.masterID = bi
      /\ ~x.destroyed /\ x.control = NoParticle /\ x.particles = e
  BY <1>2, <1>3 DEF SystemRecords
<1>5. IsMade(x, id, a, ai, b, bi)
  BY <1>1, <1>4 DEF IsMade
<1> QED BY <1>0, <1>5

\* What CreateSystem puts in the place of each object of new.
MadeAt(chain, new, i) ==
  LET n == Len(new) IN
  Made(chain[i], lastID + i, IF i < n THEN new[i + 1] ELSE NoSystem, IF i < n THEN lastID + i + 1 ELSE 0,
       IF i > 1 THEN new[i - 1] ELSE NoSystem, IF i > 1 THEN lastID + i - 1 ELSE 0)

IsMadeAt(x, new, n, i) ==
  /\ x \in SystemRecords /\ x.id = lastID + i
  /\ x.slave = (IF i < n THEN new[i + 1] ELSE NoSystem)
  /\ x.slaveID = (IF i < n THEN lastID + i + 1 ELSE 0)
  /\ x.master = (IF i > 1 THEN new[i - 1] ELSE NoSystem)
  /\ x.masterID = (IF i > 1 THEN lastID + i - 1 ELSE 0)
  /\ ~x.destroyed /\ x.control = NoParticle /\ x.particles = << >>

LEMMA MadeAtIs ==
  ASSUME lastID \in Nat, NEW n \in Nat, NEW chain \in [1..n -> Templates], NEW new \in [1..n -> Systems],
         Len(new) = n, NEW i \in 1..n
  PROVE  IsMadeAt(MadeAt(chain, new, i), new, n, i)
<1>0. PICK x : x = MadeAt(chain, new, i)
  OBVIOUS
<1>1. PICK a : a = IF i < n THEN new[i + 1] ELSE NoSystem
  OBVIOUS
<1>2. PICK ai : ai = IF i < n THEN lastID + i + 1 ELSE 0
  OBVIOUS
<1>3. PICK b : b = IF i > 1 THEN new[i - 1] ELSE NoSystem
  OBVIOUS
<1>4. PICK bi : bi = IF i > 1 THEN lastID + i - 1 ELSE 0
  OBVIOUS
<1>5. PICK id : id = lastID + i
  OBVIOUS
<1>6. PICK k : k = chain[i]
  OBVIOUS
<1>7. /\ a \in Systems \cup {NoSystem} /\ ai \in Nat /\ b \in Systems \cup {NoSystem} /\ bi \in Nat
      /\ id \in Nat /\ k \in Templates
  BY <1>1, <1>2, <1>3, <1>4, <1>5, <1>6
<1>8. x = Made(k, id, a, ai, b, bi)
  BY <1>0, <1>1, <1>2, <1>3, <1>4, <1>5, <1>6, Zenon DEF MadeAt
<1>9. /\ x \in SystemRecords /\ x.id = id /\ x.slave = a /\ x.slaveID = ai /\ x.master = b /\ x.masterID = bi
      /\ ~x.destroyed /\ x.control = NoParticle /\ x.particles = << >>
  <2>1. a \in Systems \cup {NoSystem} /\ b \in Systems \cup {NoSystem}
    BY <1>7
  <2>2. ai \in Nat /\ bi \in Nat /\ id \in Nat /\ k \in Templates
    BY <1>7
  <2>3. IsMade(Made(k, id, a, ai, b, bi), id, a, ai, b, bi)
    BY <2>1, <2>2, MadeRecord
  <2> QED BY <1>8, <2>3 DEF IsMade
<1>10. IsMadeAt(x, new, n, i)
  BY <1>1, <1>2, <1>3, <1>4, <1>5, <1>9 DEF IsMadeAt
<1> QED BY <1>0, <1>10

\* The state with other systems, listed in o, and other counts.
Extended(h, f, o, c, i) == [h EXCEPT !.sys = f, !.order = o, !.systemCount = c, !.lastID = i]

LEMMA ExtendedIs ==
  ASSUME NEW h \in States, NEW f \in [Systems -> SystemRecords \cup {NoSystem}], NEW o \in Seq(Systems),
         NEW c \in Int, NEW i \in Nat, NEW g, g = Extended(h, f, o, c, i)
  PROVE  /\ g \in States /\ g.sys = f /\ g.part = h.part /\ g.order = o /\ g.overall = h.overall
         /\ g.count = h.count /\ g.systemCount = c /\ g.lastID = i
BY DEF States, Extended

LEMMA CreateSystemStep ==
  ASSUME IndInv, NEW n \in Nat \ {0}, NEW chain \in [1..n -> Templates],
         NEW new \in [1..n -> Systems \ Live(Now)], CreateSystem(chain, new)
  PROVE  IndInv'
<1>1. /\ Good(Now) /\ Limit(Now) /\ Now \in States /\ ParticlesListed(Now) /\ Slaves(Now) /\ Masters(Now)
      /\ Controls(Now) /\ SlavesDestroyed(Now) /\ IDs(Now) /\ SystemsListed(Now)
  BY LimitIs DEF IndInv, Good, GoodObjects
<1>2. lastID \in Nat /\ order \in Seq(Systems) /\ systemCount \in Int
  BY <1>1, NowIs, StateFields
<1>3. /\ new \in [1..n -> Systems] /\ new \in Seq(Systems) /\ Len(new) = n /\ DOMAIN new = 1..n
      /\ \A i \in 1..n : new[i] \in Systems /\ new[i] \notin Live(Now)
  <2>1. new \in [1..n -> Systems]
    OBVIOUS
  <2> QED BY <2>1, IsASeq, LenProperties
<1>4. IsInjective(new) /\ lastID + n <= MaxID
  BY <1>3 DEF CreateSystem
<1>5. \A i, j \in 1..n : new[i] = new[j] => i = j
  BY <1>3, <1>4 DEF IsInjective
<1>6. ToSet(new) \subseteq Systems /\ ToSet(new) \cap Live(Now) = {} /\ \A t : t \in ToSet(new) <=> \E i \in 1..n : new[i] = t
  BY <1>3 DEF ToSet
<1>7. PICK f : f = [s \in Systems |-> IF s \in ToSet(new) THEN MadeAt(chain, new, CHOOSE i \in 1..n : new[i] = s)
                                     ELSE sys[s]]
  OBVIOUS
<1>8. ASSUME NEW i \in 1..n
      PROVE  /\ f[new[i]] \in SystemRecords /\ f[new[i]].id = lastID + i
             /\ f[new[i]].slave = (IF i < n THEN new[i + 1] ELSE NoSystem)
             /\ f[new[i]].slaveID = (IF i < n THEN lastID + i + 1 ELSE 0)
             /\ f[new[i]].master = (IF i > 1 THEN new[i - 1] ELSE NoSystem)
             /\ f[new[i]].masterID = (IF i > 1 THEN lastID + i - 1 ELSE 0)
             /\ ~f[new[i]].destroyed /\ f[new[i]].control = NoParticle /\ f[new[i]].particles = << >>
  <2>1. (CHOOSE j \in 1..n : new[j] = new[i]) = i
    BY <1>5
  <2>2. f[new[i]] = MadeAt(chain, new, i)
    BY <1>3, <1>6, <1>7, <2>1
  <2>3. IsMadeAt(MadeAt(chain, new, i), new, n, i)
    BY <1>2, <1>3, MadeAtIs
  <2> QED BY <2>2, <2>3 DEF IsMadeAt
<1>9. \A s \in Systems : s \notin ToSet(new) => f[s] = sys[s]
  BY <1>7
<1>10. \A s \in Live(Now) : f[s] = sys[s] /\ sys[s] \in SystemRecords
  BY <1>1, <1>6, <1>9, NowIs, Objects
<1>11. f \in [Systems -> SystemRecords \cup {NoSystem}]
  <2>1. \A s \in Systems : f[s] \in SystemRecords \cup {NoSystem}
    <3>1. \A s \in ToSet(new) : f[s] \in SystemRecords
      BY <1>6, <1>8
    <3>2. \A s \in Systems : sys[s] \in SystemRecords \cup {NoSystem}
      BY <1>1, NowIs, StateFields
    <3> QED BY <1>9, <3>1, <3>2
  <2> QED BY <1>7, <2>1
<1>12. PICK r : r = Reverse(new)
  OBVIOUS
<1>13. r \in Seq(Systems) /\ IsInjective(r) /\ ToSet(r) = ToSet(new) /\ Len(r) = n
  BY <1>3, <1>4, <1>12, Reversed
<1>14. PICK o : o = Both(order, r)
  OBVIOUS
<1>15. o \in Seq(Systems) /\ IsInjective(o) /\ ToSet(o) = Live(Now) \cup ToSet(new) /\ Len(o) = Len(order) + n
  <2>1. IsInjective(order) /\ ToSet(order) = Live(Now)
    BY <1>1, NowIs DEF SystemsListed
  <2>2. ToSet(order) \cap ToSet(r) = {}
    BY <1>6, <1>13, <2>1
  <2>3. o \in Seq(Systems) /\ IsInjective(o) /\ ToSet(o) = ToSet(order) \cup ToSet(r) /\ Len(o) = Len(order) + Len(r)
    BY <1>2, <1>13, <1>14, <2>1, <2>2, Joined
  <2> QED BY <1>13, <2>1, <2>3
<1>16. PICK g : g = Extended(Now, f, o, systemCount + n, lastID + n)
  OBVIOUS
<1>17. Become(g)
  <2>1. Become([Now EXCEPT !.sys = f, !.order = order \o Reverse(new), !.systemCount = systemCount + n, !.lastID = lastID + n])
    <3>1. f = [s \in Systems |-> IF s \in ToSet(new) THEN MadeAt(chain, new, CHOOSE i \in 1..Len(new) : new[i] = s)
                                ELSE Now.sys[s]]
      BY <1>3, <1>7, NowIs
    <3>2. Become([Now EXCEPT !.sys = f, !.order = Now.order \o Reverse(new),
                             !.systemCount = Now.systemCount + Len(new), !.lastID = Now.lastID + Len(new)])
      BY <3>1 DEF CreateSystem, MadeAt, Made
    <3> QED BY <1>3, <3>2, NowIs
  <2> QED BY <1>12, <1>14, <1>16, <2>1 DEF Extended, Both
<1>18. /\ g \in States /\ g.sys = f /\ g.part = part /\ g.order = o /\ g.overall = overall
       /\ g.count = count /\ g.systemCount = systemCount + n /\ g.lastID = lastID + n
  BY <1>1, <1>2, <1>11, <1>15, <1>16, NowIs, ExtendedIs
<1>19. Live(g) = Live(Now) \cup ToSet(new)
  <2>1. \A s \in Systems : s \in Live(g) <=> s \in Live(Now) \/ s \in ToSet(new)
    <3>1. \A s \in ToSet(new) : f[s] \in SystemRecords
      BY <1>6, <1>8
    <3>2. \A s \in Systems : s \notin Live(Now) /\ s \notin ToSet(new) => f[s] = NoSystem
      BY <1>1, <1>9, NowIs, Objects
    <3>3. NoSystem \notin SystemRecords
      BY ParticleAssumption
    <3> QED BY <1>10, <1>18, <3>1, <3>2, <3>3, Objects
  <2> QED BY <1>6, <2>1 DEF Live
<1>20. Present(g) = Present(Now)
  BY <1>18, NowIs DEF Present
<1>21. \A p \in Present(Now) : part[p].home \in Live(Now) /\ Rank(g, p) = Rank(Now, p)
  <2>1. \A p \in Present(Now) : part[p].home \in Live(Now)
    BY <1>1, NowIs DEF ParticlesListed
  <2> QED BY <1>10, <1>18, <2>1, NowIs DEF Rank
<1>22. ParticlesListed(g)
  <2>1. \A s \in ToSet(new) : IsInjective(f[s].particles) /\ ToSet(f[s].particles) = {}
    BY <1>6, <1>8, NoneInEmpty
  <2>2. \A s \in ToSet(new) : {p \in Present(g) : g.part[p].home = s} = {}
    BY <1>6, <1>18, <1>20, <1>21
  <2>3. /\ count = Cardinality(Present(Now))
        /\ \A q \in Priorities :
             IsInjective(overall[q]) /\ ToSet(overall[q]) = {p \in Present(Now) : Rank(Now, p) = q}
        /\ \A s \in Live(Now) :
             IsInjective(sys[s].particles) /\ ToSet(sys[s].particles) = {p \in Present(Now) : part[p].home = s}
    BY <1>1, NowIs DEF ParticlesListed
  <2>4. \A p \in Present(g) : g.part[p].home \in Live(g)
    BY <1>18, <1>19, <1>20, <1>21
  <2>5. \A q \in Priorities :
          IsInjective(g.overall[q]) /\ ToSet(g.overall[q]) = {p \in Present(g) : Rank(g, p) = q}
    BY <1>18, <1>20, <1>21, <2>3
  <2>6. \A s \in Live(g) :
          IsInjective(g.sys[s].particles) /\ ToSet(g.sys[s].particles) = {p \in Present(g) : g.part[p].home = s}
    BY <1>10, <1>18, <1>19, <1>20, <2>1, <2>2, <2>3
  <2> QED BY <1>18, <1>20, <2>3, <2>4, <2>5, <2>6 DEF ParticlesListed
<1>23. Slaves(g)
  <2>1. ASSUME NEW s \in Live(Now)
        PROVE  IF f[s].slave = NoSystem THEN f[s].slaveID = 0
               ELSE /\ f[s].slave \in Live(g) /\ f[f[s].slave].master = s /\ f[s].slaveID = f[f[s].slave].id
                    /\ f[f[s].slave].id > f[s].id
    BY <1>1, <1>10, <1>19, NowIs DEF Slaves
  <2>2. ASSUME NEW i \in 1..n
        PROVE  IF f[new[i]].slave = NoSystem THEN f[new[i]].slaveID = 0
               ELSE /\ f[new[i]].slave \in Live(g) /\ f[f[new[i]].slave].master = new[i]
                    /\ f[new[i]].slaveID = f[f[new[i]].slave].id /\ f[f[new[i]].slave].id > f[new[i]].id
    <3>1. CASE i < n
      <4>1. i + 1 \in 1..n /\ i + 1 > 1 /\ (i + 1) - 1 = i
        BY <3>1
      <4>2. PICK t : t = new[i + 1]
        OBVIOUS
      <4>3. f[new[i]].slave = t /\ f[new[i]].slaveID = lastID + i + 1 /\ f[new[i]].id = lastID + i
        BY <1>8, <3>1, <4>2
      <4>4. f[t].master = new[i] /\ f[t].id = lastID + (i + 1)
        BY <1>8, <4>1, <4>2
      <4>5. t \in Live(g)
        BY <1>6, <1>19, <4>1, <4>2
      <4>6. t # NoSystem
        BY <4>5, ParticleAssumption DEF Live
      <4> QED BY <1>2, <4>3, <4>4, <4>5, <4>6
    <3>2. CASE ~(i < n)
      BY <1>8, <3>2
    <3> QED BY <3>1, <3>2
  <2>3. \A s \in Live(g) : IF f[s].slave = NoSystem THEN f[s].slaveID = 0
               ELSE /\ f[s].slave \in Live(g) /\ f[f[s].slave].master = s /\ f[s].slaveID = f[f[s].slave].id
                    /\ f[f[s].slave].id > f[s].id
    BY <1>6, <1>19, <2>1, <2>2
  <2> QED BY <1>18, <2>3 DEF Slaves
<1>24. Masters(g)
  <2>1. ASSUME NEW s \in Live(Now)
        PROVE  IF f[s].master = NoSystem THEN f[s].masterID = 0
               ELSE f[s].master \in Live(g) /\ f[f[s].master].slave = s /\ f[s].masterID = f[f[s].master].id
    BY <1>1, <1>10, <1>19, NowIs DEF Masters
  <2>2. ASSUME NEW i \in 1..n
        PROVE  IF f[new[i]].master = NoSystem THEN f[new[i]].masterID = 0
               ELSE /\ f[new[i]].master \in Live(g) /\ f[f[new[i]].master].slave = new[i]
                    /\ f[new[i]].masterID = f[f[new[i]].master].id
    <3>1. CASE i > 1
      <4>1. i - 1 \in 1..n /\ i - 1 < n /\ (i - 1) + 1 = i
        BY <3>1
      <4>2. PICK t : t = new[i - 1]
        OBVIOUS
      <4>3. f[new[i]].master = t /\ f[new[i]].masterID = lastID + i - 1
        BY <1>8, <3>1, <4>2
      <4>4. f[t].slave = new[i] /\ f[t].id = lastID + (i - 1)
        BY <1>8, <4>1, <4>2
      <4>5. t \in Live(g)
        BY <1>6, <1>19, <4>1, <4>2
      <4> QED BY <1>2, <4>3, <4>4, <4>5, ParticleAssumption DEF Live
    <3>2. CASE ~(i > 1)
      BY <1>8, <3>2
    <3> QED BY <3>1, <3>2
  <2>3. \A s \in Live(g) : IF f[s].master = NoSystem THEN f[s].masterID = 0
               ELSE f[s].master \in Live(g) /\ f[f[s].master].slave = s /\ f[s].masterID = f[f[s].master].id
    BY <1>6, <1>19, <2>1, <2>2
  <2> QED BY <1>18, <2>3 DEF Masters
<1>25. Controls(g)
  <2>1. \A s \in ToSet(new) : f[s].control = NoParticle
    BY <1>6, <1>8
  <2>2. /\ \A s \in Live(Now) : sys[s].control # NoParticle => sys[s].control \in Present(Now) /\ part[sys[s].control].controls = s
        /\ \A p \in Present(Now) : part[p].controls # NoSystem => part[p].controls \in Live(Now) /\ sys[part[p].controls].control = p
    BY <1>1, NowIs DEF Controls
  <2> QED BY <1>10, <1>18, <1>19, <1>20, <2>1, <2>2 DEF Controls
<1>26. SlavesDestroyed(g)
  <2>1. \A s \in ToSet(new) : ~f[s].destroyed
    BY <1>6, <1>8
  <2>2. \A s \in Live(Now) : /\ sys[s].slave \in Live(Now) \cup {NoSystem}
                             /\ sys[s].destroyed /\ sys[s].slave # NoSystem => sys[sys[s].slave].destroyed
    BY <1>1, NowIs, SlavesLive DEF SlavesDestroyed
  <2> QED BY <1>10, <1>18, <1>19, <2>1, <2>2 DEF SlavesDestroyed
<1>27. IDs(g)
  <2>1. /\ \A s \in Live(Now) : f[s].id \in 1..lastID
        /\ \A s, t \in Live(Now) : f[s].id = f[t].id => s = t
    BY <1>1, <1>10, NowIs DEF IDs
  <2>2. \A i \in 1..n : f[new[i]].id = lastID + i
    BY <1>8
  <2>3. \A s \in Live(g) : f[s].id \in 1..(lastID + n)
    BY <1>2, <1>6, <1>19, <2>1, <2>2
  <2>4. ASSUME NEW s \in Live(g), NEW t \in Live(g), f[s].id = f[t].id PROVE s = t
    <3>1. CASE s \in Live(Now) /\ t \in Live(Now)
      BY <2>1, <2>4, <3>1
    <3>2. CASE s \in ToSet(new) /\ t \in ToSet(new)
      BY <1>2, <1>6, <2>2, <2>4, <3>2
    <3>3. \A u \in Live(Now), v \in ToSet(new) : f[u].id # f[v].id
      BY <1>2, <1>6, <2>1, <2>2
    <3> QED BY <1>19, <2>4, <3>1, <3>2, <3>3
  <2> QED BY <1>18, <2>3, <2>4 DEF IDs
<1>28. SystemsListed(g)
  <2>1. systemCount = Len(order)
    BY <1>1, NowIs DEF SystemsListed
  <2> QED BY <1>15, <1>18, <1>19, <2>1 DEF SystemsListed
<1>29. Limit(g)
  BY <1>1, <1>20, <1>21, LimitStays
<1> QED BY <1>4, <1>17, <1>18, <1>22, <1>23, <1>24, <1>25, <1>26, <1>27, <1>28, <1>29, Becomes DEF Good, GoodObjects

LEMMA Initially ==
  ASSUME Init
  PROVE  IndInv
<1>1. PICK w : w = [p \in Particles |-> NoParticle]
  OBVIOUS
<1>2. PICK v : v = [q \in Priorities |-> << >>]
  OBVIOUS
<1>3. PICK f : f = [s \in Systems |-> NoSystem]
  OBVIOUS
<1>4. PICK e : e = << >>
  OBVIOUS
<1>5. f \in [Systems -> SystemRecords \cup {NoSystem}] /\ w \in [Particles -> ParticleRecords \cup {NoParticle}]
  BY <1>1, <1>3
<1>6. v \in [Priorities -> Seq(Particles)] /\ e \in Seq(Systems)
  BY <1>2, <1>4, NoneInEmpty
<1>7. /\ sys = f /\ part = w /\ order = e /\ overall = v /\ count = 0 /\ systemCount = 0 /\ lastID = 0
  BY <1>1, <1>2, <1>3, <1>4 DEF Init, Nothing
<1>8. PICK h : h = Now
  OBVIOUS
<1>9. h = [sys |-> f, part |-> w, order |-> e, overall |-> v, count |-> 0, systemCount |-> 0, lastID |-> 0]
  BY <1>7, <1>8 DEF Now
<1>10. /\ h \in States /\ h.sys = f /\ h.part = w /\ h.order = e /\ h.overall = v
       /\ h.count = 0 /\ h.systemCount = 0 /\ h.lastID = 0
  BY <1>5, <1>6, <1>9 DEF States
<1>11. Live(h) = {} /\ Present(h) = {}
  BY <1>1, <1>3, <1>10 DEF Live, Present
<1>12. Slaves(h) /\ Masters(h) /\ Controls(h) /\ SlavesDestroyed(h) /\ IDs(h)
  BY <1>11 DEF Slaves, Masters, Controls, SlavesDestroyed, IDs
<1>13. ParticlesListed(h)
  <2>1. \A q \in Priorities : IsInjective(h.overall[q]) /\ ToSet(h.overall[q]) = {}
    BY <1>2, <1>10, NoneInEmpty
  <2>2. h.count = Cardinality(Present(h))
    BY <1>10, <1>11, FS_EmptySet
  <2> QED BY <1>11, <2>1, <2>2 DEF ParticlesListed
<1>14. SystemsListed(h)
  BY <1>4, <1>10, <1>11, NoneInEmpty DEF SystemsListed
<1>15. Limit(h)
  <2>1. Low(h) = {}
    BY <1>11 DEF Low
  <2> QED BY <2>1, FS_EmptySet, ParticleAssumption DEF Limit
<1>16. Good(Now) /\ Limit(Now)
  BY <1>8, <1>10, <1>12, <1>13, <1>14, <1>15 DEF Good, GoodObjects
<1> QED BY <1>7, <1>16, LimitIs, ParticleAssumption DEF IndInv

\* One step for each action.
LEMMA Step ==
  ASSUME IndInv, [Next]_vars
  PROVE  IndInv'
<1>1. ASSUME NEW n \in 1..Cardinality(Systems), NEW chain \in [1..n -> Templates],
             NEW new \in [1..n -> Systems \ Live(Now)], CreateSystem(chain, new)
      PROVE  IndInv'
  <2>1. Cardinality(Systems) \in Nat
    BY ParticleAssumption, FS_CardinalityType
  <2>2. n \in Nat \ {0}
    BY <2>1
  <2> QED BY <1>1, <2>2, CreateSystemStep
<1>2. ASSUME NEW s \in Live(Now), SystemEnds(s) PROVE IndInv'
  BY <1>2, SystemEndsStep
<1>3. ASSUME NEW s \in Live(Now), DestroyByID(sys[s].id) PROVE IndInv'
  <2>1. PICK i : i = sys[s].id
    OBVIOUS
  <2>2. DestroyByID(i)
    BY <1>3, <2>1
  <2> QED BY <2>2, DestroyByIDStep
<1>4. ASSUME NEW s \in Live(Now), NEW v \in BOOLEAN, SetSaveable(s, v) PROVE IndInv'
  BY <1>4, SetSaveableStep
<1>5. ASSUME NEW s \in Live(Now), NEW p \in Particles, CreateParticle(s, p) PROVE IndInv'
  BY <1>5, CreateParticleStep
<1>6. ASSUME NEW p \in Present(Now), ParticleEnds(p) PROVE IndInv'
  BY <1>6, ParticleEndsStep
<1>7. ASSUME NEW p \in Present(Now), NEW s \in Live(Now), ControlSystem(p, s) PROVE IndInv'
  BY <1>7, ControlSystemStep
<1>8. ASSUME Reset PROVE IndInv'
  BY <1>8, ResetStep
<1>9. ASSUME SaveAndLoad PROVE IndInv'
  BY <1>9, SaveAndLoadStep
<1>10. ASSUME UNCHANGED vars PROVE IndInv'
  <2>1. PICK g : g = Now
    OBVIOUS
  <2>2. Good(g) /\ Limit(g) /\ g.lastID <= MaxID
    BY <2>1, NowIs, LimitIs DEF IndInv
  <2>3. Become(g)
    BY <1>10, <2>1, NowIs DEF Become, vars
  <2> QED BY <2>2, <2>3, Becomes
<1> QED BY <1>1, <1>2, <1>3, <1>4, <1>5, <1>6, <1>7, <1>8, <1>9, <1>10 DEF Next

-----------------------------------------------------------------------------
(* The theorems.                                                             *)

THEOREM Invariance == Spec => []IndInv
<1>1. Init => IndInv
  BY Initially
<1>2. IndInv /\ [Next]_vars => IndInv'
  BY Step
<1> QED BY <1>1, <1>2, PTL DEF Spec

\* The fields of the objects, the lists and the counts stay what they are declared to be: no
\* count goes below zero and no list has what is not one of the objects.
THEOREM TypesCorrect == Spec => []TypeOK
<1>1. IndInv => TypeOK
  <2> SUFFICES ASSUME IndInv PROVE TypeOK
    OBVIOUS
  <2>1. Now \in States /\ count = Cardinality(Present(Now)) /\ systemCount = Len(order)
    BY NowIs DEF IndInv, Good, GoodObjects, ParticlesListed, SystemsListed
  <2>2. /\ sys \in [Systems -> SystemRecords \cup {NoSystem}] /\ part \in [Particles -> ParticleRecords \cup {NoParticle}]
        /\ order \in Seq(Systems) /\ overall \in [Priorities -> Seq(Particles)] /\ lastID \in Nat
    BY <2>1, NowIs, StateFields
  <2>3. count \in Nat
    BY <2>1, FiniteLow
  <2>4. systemCount \in Nat
    BY <2>1, <2>2, LenProperties
  <2>5. lastID \in 0..MaxID
    BY <2>2, ParticleAssumption DEF IndInv
  <2> QED BY <2>2, <2>3, <2>4, <2>5 DEF TypeOK
<1> QED BY <1>1, Invariance, PTL

\* The lists and counts of the manager and the lists of the systems hold exactly what there is,
\* each object once, whatever order particles and systems are deleted in.
THEOREM CountsAlwaysMatch == Spec => []CountsMatch
<1>1. IndInv => CountsMatch
  BY NowIs DEF IndInv, Good, GoodObjects, ParticlesListed, SystemsListed, CountsMatch, Rank
<1> QED BY <1>1, Invariance, PTL

\* No pointer between systems and particles is left on an object that was deleted, and each has
\* its counterpart and its id.
THEOREM LinksAlwaysMutual == Spec => []LinksMutual
<1>1. IndInv => LinksMutual
  BY NowIs DEF IndInv, Good, GoodObjects, Slaves, Masters, Controls, LinksMutual
<1> QED BY <1>1, Invariance, PTL

\* The slaves of a destroyed system are destroyed with it.
THEOREM DestructionShared == Spec => []SlavesShareDestruction
<1>1. IndInv => SlavesShareDestruction
  BY NowIs DEF IndInv, Good, GoodObjects, SlavesDestroyed, SlavesShareDestruction
<1> QED BY <1>1, Invariance, PTL

\* No two systems have an id, those of a game that was loaded included.
THEOREM IDsAlwaysUnique == Spec => []IDsUnique
<1>1. IndInv => IDsUnique
  BY NowIs DEF IndInv, Good, GoodObjects, IDs, IDsUnique
<1> QED BY <1>1, Invariance, PTL

\* The limit on the particles is exceeded by one at most.
THEOREM LimitAlwaysKept == Spec => []LimitKept
<1>1. IndInv => LimitKept
  BY DEF IndInv
<1> QED BY <1>1, Invariance, PTL

LEMMA RoomStep ==
  ASSUME IndInv, NEW s \in Live(Now), NEW p \in Particles, count' < count, CreateParticle(s, p),
         NEW cap, cap = Priority[sys[s].template]
  PROVE  /\ Present(Now) \ Present(Now') \subseteq {r \in Present(Now) : Rank(Now, r) < cap}
         /\ count' = MaxParticles \/ {r \in Present(Now') : Rank(Now', r) < cap} = {}
<1>1. Good(Now) /\ GoodObjects(Now) /\ Now \in States /\ ParticlesListed(Now)
  BY DEF IndInv, Good, GoodObjects
<1>2. cap \in Priorities
  BY <1>1, NowIs, Objects, RecordFields, ParticleAssumption
<1>3. count \in Nat /\ MaxParticles \in Nat
  <2>1. count = Cardinality(Present(Now))
    BY <1>1, NowIs DEF ParticlesListed
  <2> QED BY <2>1, FiniteLow, ParticleAssumption
<1>4. CASE Excess > 0 /\ cap # LastPriority
  <2>1. PICK g : g = ForcedOut(Excess, cap)
    OBVIOUS
  <2>2. Become(g)
    BY <1>4, <2>1 DEF CreateParticle
  <2>3. Excess \in Nat \ {0}
    BY <1>3, <1>4 DEF Excess
  <2>4. PICK P : /\ GoodObjects(g) /\ Lost(Now, g, P) /\ P \subseteq {r \in Present(Now) : Rank(Now, r) < cap}
                 /\ \/ g.count = count - Excess
                    \/ P = {r \in Present(Now) : Rank(Now, r) < cap}
    BY <1>1, <1>2, <2>1, <2>3, ForcedOutIs
  <2>5. Now' = g /\ count' = g.count
    BY <2>2, <2>4, BecomeIs DEF GoodObjects, Become
  <2>6. Present(g) = Present(Now) \ P /\ \A r \in Present(g) : Rank(g, r) = Rank(Now, r)
    BY <1>1, <2>4, LostRanks
  <2>7. Present(Now) \ Present(g) \subseteq {r \in Present(Now) : Rank(Now, r) < cap}
    BY <2>4, <2>6
  <2>8. count' = MaxParticles \/ {r \in Present(g) : Rank(g, r) < cap} = {}
    <3>1. CASE g.count = count - Excess
      BY <1>3, <2>5, <3>1 DEF Excess
    <3>2. CASE P = {r \in Present(Now) : Rank(Now, r) < cap}
      BY <2>6, <3>2
    <3> QED BY <2>4, <3>1, <3>2
  <2> QED BY <2>5, <2>7, <2>8
<1>5. CASE ~(Excess > 0 /\ cap # LastPriority)
  <2>1. PICK g : g = Emitted(Now, s, p)
    OBVIOUS
  <2>2. Become(g)
    BY <1>5, <2>1 DEF CreateParticle
  <2>3. p \notin Present(Now)
    BY NowIs DEF CreateParticle, Present
  <2>4. g.count = Now.count + 1
    BY <1>1, <2>1, <2>3, EmittedGood
  <2>5. count' = count + 1
    BY <2>2, <2>4, NowIs DEF Become
  <2> QED BY <1>3, <2>5
<1> QED BY <1>4, <1>5

\* A system that makes room takes it from particles of lower priority only, and stops at the limit
\* unless none of them is left.
THEOREM RoomMadeBelow == Spec => MakesRoomBelow
<1>1. IndInv /\ [Next]_vars =>
        [\A s \in Live(Now), p \in Particles : count' < count /\ CreateParticle(s, p) =>
           LET cap == Priority[sys[s].template]
               below(h) == {r \in Present(h) : Priority[h.sys[h.part[r].home].template] < cap} IN
           /\ Present(Now) \ Present(Now') \subseteq below(Now)
           /\ count' = MaxParticles \/ below(Now') = {}]_vars
  <2> SUFFICES ASSUME IndInv, NEW s \in Live(Now), NEW p \in Particles, count' < count, CreateParticle(s, p)
               PROVE  LET cap == Priority[sys[s].template]
                          below(h) == {r \in Present(h) : Priority[h.sys[h.part[r].home].template] < cap} IN
                      /\ Present(Now) \ Present(Now') \subseteq below(Now)
                      /\ count' = MaxParticles \/ below(Now') = {}
    OBVIOUS
  <2>1. PICK cap : cap = Priority[sys[s].template]
    OBVIOUS
  <2>2. /\ Present(Now) \ Present(Now') \subseteq {r \in Present(Now) : Rank(Now, r) < cap}
        /\ count' = MaxParticles \/ {r \in Present(Now') : Rank(Now', r) < cap} = {}
    BY <2>1, RoomStep
  <2> QED BY <2>1, <2>2 DEF Rank
<1> QED BY <1>1, Invariance, PTL DEF Spec, MakesRoomBelow

=============================================================================
