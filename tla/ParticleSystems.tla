--------------------------- MODULE ParticleSystems ---------------------------
(***************************************************************************)
(* ParticleSystemManager, ParticleSystem and Particle                      *)
(* (game/client/system/particlesystem): systems emit particles, may have a *)
(* slave system that follows them, and may themselves be controlled by a   *)
(* particle of another system.  The manager keeps all systems in a list,   *)
(* all particles in one list for each priority, and an upper limit on the  *)
(* particles that it enforces by deleting old ones of lower priority.      *)
(*                                                                         *)
(* The objects point at each other in many ways and are deleted in any     *)
(* order; every operation is a chain of the steps below on a record of     *)
(* them all.  Motion, looks and emission are abstracted: which system      *)
(* emits, when a particle ends and when a destroyed system is deleted is   *)
(* up to Update, which is code of the original game.  So are the level of  *)
(* detail and the field limit, whose effect is that nothing is created.    *)
(*                                                                         *)
(* A system keeps the priority of its template.  Merge_Related_Systems,    *)
(* which only the original game calls, may give a slave its master's; it   *)
(* is left out, and with it what Remove_Particle does to the lists when    *)
(* the slave has particles by then.                                        *)
(***************************************************************************)
EXTENDS Integers, SequencesExt

CONSTANTS
  Systems, Particles,   \* the objects
  Templates,            \* ParticleSystemTemplate objects
  Priority,             \* m_priority of each template
  SlaveTemplate,        \* m_slaveTemplate, or NoTemplate
  LastPriority,         \* PARTICLE_PRIORITY_ALWAYS_RENDER
  MaxParticles,         \* m_maxParticleCount
  MaxID,                \* bound of the model on m_uniqueSystemID
  NoSystem, NoParticle, NoTemplate

Priorities == 0..LastPriority

SystemRecords ==
  [template : Templates, id : Nat, slave : Systems \cup {NoSystem}, slaveID : Nat,
   master : Systems \cup {NoSystem}, masterID : Nat, destroyed : BOOLEAN, saveable : BOOLEAN,
   control : Particles \cup {NoParticle}, particles : Seq(Particles)]
ParticleRecords == [home : Systems, controls : Systems \cup {NoSystem}]

ASSUME ParticleAssumption ==
  /\ IsFiniteSet(Systems) /\ NoSystem \notin SystemRecords
  /\ IsFiniteSet(Particles) /\ NoParticle \notin ParticleRecords
  /\ Priority \in [Templates -> Priorities]
  /\ SlaveTemplate \in [Templates -> Templates \cup {NoTemplate}]
  /\ LastPriority \in Nat /\ MaxParticles \in Nat \ {0} /\ MaxID \in Nat
  /\ NoSystem \notin Systems /\ NoParticle \notin Particles /\ NoTemplate \notin Templates

VARIABLES
  sys,          \* the systems there are
  part,         \* the particles there are
  order,        \* m_allParticleSystemList
  overall,      \* the list of all particles of each priority, oldest first
  count,        \* m_particleCount of the manager
  systemCount,  \* m_particleSystemCount
  lastID        \* m_uniqueSystemID

vars == <<sys, part, order, overall, count, systemCount, lastID>>

Now == [sys |-> sys, part |-> part, order |-> order, overall |-> overall,
        count |-> count, systemCount |-> systemCount, lastID |-> lastID]

Become(h) ==
  /\ sys' = h.sys /\ part' = h.part /\ order' = h.order /\ overall' = h.overall
  /\ count' = h.count /\ systemCount' = h.systemCount /\ lastID' = h.lastID

Live(h) == {s \in Systems : h.sys[s] # NoSystem}
Present(h) == {p \in Particles : h.part[p] # NoParticle}

\* The system s and its slave, the slave's slave and so on: what is in every set that has s
\* and the slaves of its members.
Chain(h, s) ==
  {t \in Live(h) : \A S \in SUBSET Live(h) :
     s \in S /\ (\A u \in S : h.sys[u].slave \in S \cup {NoSystem}) => t \in S}

\* Destroy: the system and its slaves are marked, to be deleted by Update.
DestroyedAlone(h, s) == [h EXCEPT !.sys[s].destroyed = TRUE]     \* mutant: the slaves are not marked
Destroyed(h, s) ==
  LET chain == Chain(h, s) IN
  [h EXCEPT !.sys = [t \in Systems |-> IF t \in chain THEN [@[t] EXCEPT !.destroyed = TRUE] ELSE @[t]]]

\* ~Particle: it leaves both its lists, and the system under its control is destroyed.
GoneUncounted(h, p) ==      \* mutant: the particle stays in the manager's count
  [h EXCEPT !.part[p] = NoParticle,
            !.sys[h.part[p].home].particles = RemoveFirst(@, p),
            !.overall = [q \in Priorities |-> RemoveFirst(@[q], p)]]
Gone(h, p) ==
  LET c == h.part[p].controls
      home == h.part[p].home
      d == IF c = NoSystem THEN h ELSE Destroyed([h EXCEPT !.sys[c].control = NoParticle], c) IN
  [d EXCEPT !.part[p] = NoParticle,
            !.sys[home].particles = RemoveFirst(@, p),
            !.overall[Priority[h.sys[home].template]] = RemoveFirst(@, p),
            !.count = @ - 1]

\* The particles ps are deleted, from the first to the last.
AllGone(h, ps) ==
  LET after[n \in 0..Len(ps)] == IF n = 0 THEN h ELSE Gone(after[n - 1], ps[n]) IN
  after[Len(ps)]

\* Remove_Slave and Remove_Master: both ends of both links are cleared.
Unlinked(h, s) ==
  LET slave == h.sys[s].slave  master == h.sys[s].master IN
  [h EXCEPT !.sys = [t \in Systems |->
      CASE t = s -> [@[t] EXCEPT !.slave = NoSystem, !.slaveID = 0, !.master = NoSystem, !.masterID = 0]
        [] t = slave /\ t # s -> [@[t] EXCEPT !.master = NoSystem, !.masterID = 0]
        [] t = master /\ t # s -> [@[t] EXCEPT !.slave = NoSystem, !.slaveID = 0]
        [] OTHER -> @[t]]]

\* ~ParticleSystem.
ReleasedKept(h, s) == h      \* mutant: the controlling particle keeps its pointer
Released(h, s) ==
  IF h.sys[s].control = NoParticle THEN h
  ELSE [h EXCEPT !.part[h.sys[s].control].controls = NoSystem]

Deleted(h, s) ==
  LET u == Unlinked(h, s)
      r == Released(AllGone(u, u.sys[s].particles), s) IN
  [r EXCEPT !.sys[s] = NoSystem, !.order = RemoveFirst(@, s), !.systemCount = @ - 1]

AllDeleted(h, ss) ==
  LET after[n \in 0..Len(ss)] == IF n = 0 THEN h ELSE Deleted(after[n - 1], ss[n]) IN
  after[Len(ss)]

NewSystem(template, id) ==
  [template |-> template, id |-> id, slave |-> NoSystem, slaveID |-> 0, master |-> NoSystem,
   masterID |-> 0, destroyed |-> FALSE, saveable |-> TRUE, control |-> NoParticle, particles |-> << >>]

\* Particle and its two Add_Particle.
Emitted(h, s, p) ==
  [h EXCEPT !.part[p] = [home |-> s, controls |-> NoSystem],
            !.sys[s].particles = Append(@, p),
            !.overall[Priority[h.sys[s].template]] = Append(@, p),
            !.count = @ + 1]

AllEmitted(h, s, ps) ==
  LET after[n \in 0..Len(ps)] == IF n = 0 THEN h ELSE Emitted(after[n - 1], s, ps[n]) IN
  after[Len(ps)]

-----------------------------------------------------------------------------

Nothing ==
  [sys |-> [s \in Systems |-> NoSystem], part |-> [p \in Particles |-> NoParticle],
   order |-> << >>, overall |-> [q \in Priorities |-> << >>],
   count |-> 0, systemCount |-> 0, lastID |-> 0]

Init ==
  /\ sys = Nothing.sys /\ part = Nothing.part /\ order = << >> /\ overall = Nothing.overall
  /\ count = 0 /\ systemCount = 0 /\ lastID = 0

\* The template, that of its slave system, of the slave's slave... or, without
\* create_slaves, the template alone.
SlaveChain(chain) ==
  /\ \A i \in 1..(Len(chain) - 1) : SlaveTemplate[chain[i]] = chain[i + 1]
  /\ SlaveTemplate[Last(chain)] = NoTemplate \/ Len(chain) = 1

\* Create_Particle_System with its slaves, on the objects of new: a master has the
\* id before its slave's and comes after it in the list.
CreateSystem(chain, new) ==
  LET n == Len(new)
      made(i) == [NewSystem(chain[i], lastID + i) EXCEPT
                    !.slave = IF i < n THEN new[i + 1] ELSE NoSystem,
                    !.slaveID = IF i < n THEN lastID + i + 1 ELSE 0,
                    !.master = IF i > 1 THEN new[i - 1] ELSE NoSystem,
                    !.masterID = IF i > 1 THEN lastID + i - 1 ELSE 0] IN
  /\ SlaveChain(chain) /\ IsInjective(new)
  /\ lastID + n <= MaxID
  /\ Become([Now EXCEPT
       !.sys = [s \in Systems |-> IF s \in ToSet(new) THEN made(CHOOSE i \in 1..n : new[i] = s) ELSE @[s]],
       !.order = @ \o Reverse(new), !.systemCount = @ + n, !.lastID = @ + n])

\* Remove_Oldest_Particles: one after the other, the first of the lowest priority
\* there is below the cap.
Below(cap) ==
  LET upTo[q \in 0..cap] == IF q = 0 THEN << >> ELSE upTo[q - 1] \o overall[q - 1] IN
  upTo[cap]
OldestAny(cap) == Below(LastPriority + 1)      \* mutant: the cap is not looked at
Oldest(cap) == Below(cap)

ExcessLate == count - (MaxParticles + 1)      \* mutant: off by one
Excess == count - MaxParticles

ForcedOut(n, cap) ==
  LET old == Oldest(cap) IN
  AllGone(Now, SubSeq(old, 1, IF n < Len(old) THEN n ELSE Len(old)))

\* Create_Particle of a system that the level of detail lets emit.  When there are
\* more particles than the limit it makes room but creates nothing: Remove_Oldest_Particles
\* returns one more than the number of its turns, which is never what was asked for.
CreateParticle(s, p) ==
  LET priority == Priority[sys[s].template] IN
  /\ part[p] = NoParticle
  /\ Become(IF Excess > 0 /\ priority # LastPriority THEN ForcedOut(Excess, priority)
            ELSE Emitted(Now, s, p))

\* Update gives a new particle a system to control (the pointers are private
\* to the classes, and only the original game's Update sets them).
ControlSystem(p, s) ==
  /\ part[p].controls = NoSystem /\ sys[s].control = NoParticle /\ part[p].home # s
  /\ sys[s].master = NoSystem
  /\ Become([Now EXCEPT !.part[p].controls = s, !.sys[s].control = p])

\* Update, as far as it deletes: a particle at the end of its life, and a system that is
\* destroyed or at its end.
ParticleEnds(p) == Become(Gone(Now, p))
SystemEnds(s) == Become(Deleted(Now, s))

\* Destroy_Particle_System_By_ID: the first system in the list with the id.
DestroyByID(i) ==
  \E n \in 1..Len(order) :
    /\ sys[order[n]].id = i /\ \A k \in 1..(n - 1) : sys[order[k]].id # i
    /\ Become(Destroyed(Now, order[n]))

SetSaveable(s, value) ==
  LET chain == Chain(Now, s) IN
  Become([Now EXCEPT !.sys = [t \in Systems |-> IF t \in chain THEN [@[t] EXCEPT !.saveable = value] ELSE @[t]]])

\* Reset deletes the systems one by one, which leaves no particle either.
Reset == Become([AllDeleted(Now, order) EXCEPT !.lastID = 0])

Saved == {s \in Live(Now) : ~sys[s].destroyed /\ sys[s].saveable}

\* The ids that a loaded system looks for are those of systems that were saved, or
\* Load_Post_Process stops the program.
LinksSaved ==
  \A s \in Saved :
    /\ sys[s].slaveID # 0 => \E t \in Saved : sys[t].id = sys[s].slaveID
    /\ sys[s].masterID # 0 => \E t \in Saved : sys[t].id = sys[s].masterID

Find(id) == CHOOSE t \in Saved : sys[t].id = id

\* Xfer_Snapshot in both directions: the game is saved as it is now, and some
\* time later this is loaded after a Reset.  The systems come back with their
\* ids and particles, without what controlled them, and the next id is counted on from
\* the saved one by the number of systems.
Loaded(h, s) ==
  [h.sys[s] EXCEPT
     !.slave = IF @ = NoSystem THEN NoSystem ELSE Find(h.sys[s].slaveID),
     !.master = IF @ = NoSystem THEN NoSystem ELSE Find(h.sys[s].masterID),
     !.control = NoParticle, !.particles = << >>]

NextIDFresh(n) == n      \* mutant: the ids start anew
NextID(n) == lastID + n

\* The systems ss come back one after the other, each with its particles; of one that was not
\* saved there is only a mark.
Restored(h, s) ==
  IF s \notin Saved THEN h
  ELSE AllEmitted([h EXCEPT !.order = Append(@, s), !.systemCount = @ + 1], s, sys[s].particles)
AllRestored(h, ss) ==
  LET after[n \in 0..Len(ss)] == IF n = 0 THEN h ELSE Restored(after[n - 1], ss[n]) IN
  after[Len(ss)]

SaveAndLoad ==
  LET next == NextID(Cardinality(Saved)) IN
  /\ order # << >> /\ LinksSaved
  /\ next <= MaxID
  /\ Become(AllRestored(
       [Nothing EXCEPT !.lastID = next,
                       !.sys = [s \in Systems |-> IF s \in Saved THEN Loaded(Now, s) ELSE NoSystem]],
       order))

Next ==
  \/ \E n \in 1..Cardinality(Systems) :
       \E chain \in [1..n -> Templates], new \in [1..n -> Systems \ Live(Now)] : CreateSystem(chain, new)
  \/ \E s \in Live(Now) : SystemEnds(s) \/ DestroyByID(sys[s].id) \/ \E v \in BOOLEAN : SetSaveable(s, v)
  \/ \E s \in Live(Now), p \in Particles : CreateParticle(s, p)
  \/ \E p \in Present(Now) : ParticleEnds(p) \/ \E s \in Live(Now) : ControlSystem(p, s)
  \/ Reset \/ SaveAndLoad

Spec == Init /\ [][Next]_vars

-----------------------------------------------------------------------------

\* No count goes below zero, no list or pointer has what is not one of the objects, and
\* no id is above the bound.
TypeOK ==
  /\ sys \in [Systems -> SystemRecords \cup {NoSystem}]
  /\ part \in [Particles -> ParticleRecords \cup {NoParticle}]
  /\ order \in Seq(Systems) /\ overall \in [Priorities -> Seq(Particles)]
  /\ count \in Nat /\ systemCount \in Nat /\ lastID \in 0..MaxID

\* The manager's counts, its lists and those of the systems tell the same, whatever order
\* particles and systems go in.
CountsMatch ==
  /\ systemCount = Len(order) /\ ToSet(order) = Live(Now) /\ IsInjective(order)
  /\ count = Cardinality(Present(Now))
  /\ \A q \in Priorities :
       /\ IsInjective(overall[q])
       /\ ToSet(overall[q]) = {p \in Present(Now) : Priority[sys[part[p].home].template] = q}
  /\ \A s \in Live(Now) :
       /\ IsInjective(sys[s].particles)
       /\ ToSet(sys[s].particles) = {p \in Present(Now) : part[p].home = s}

\* Every pointer has its counterpart: nothing points at an object that was deleted,
\* and the id kept beside a pointer is that of the system it points to.
LinksMutual ==
  /\ \A s \in Live(Now) :
       LET slave == sys[s].slave  master == sys[s].master  control == sys[s].control IN
       /\ IF slave = NoSystem THEN sys[s].slaveID = 0
          ELSE slave \in Live(Now) /\ sys[slave].master = s /\ sys[s].slaveID = sys[slave].id
       /\ IF master = NoSystem THEN sys[s].masterID = 0
          ELSE master \in Live(Now) /\ sys[master].slave = s /\ sys[s].masterID = sys[master].id
       /\ control # NoParticle => control \in Present(Now) /\ part[control].controls = s
  /\ \A p \in Present(Now) :
       LET s == part[p].controls IN
       s # NoSystem => s \in Live(Now) /\ sys[s].control = p

\* The slaves of a destroyed system are destroyed, by whatever way it came to be:
\* none is left behind to follow a master that goes.
SlavesShareDestruction ==
  \A s \in Live(Now) : sys[s].destroyed /\ sys[s].slave # NoSystem => sys[sys[s].slave].destroyed

\* An id finds one system, also when systems are created after a game was loaded that
\* had systems with ids of their own.
IDsUnique ==
  \A s, t \in Live(Now) : sys[s].id = sys[t].id => s = t

\* Leaving out those that are always rendered, there is one particle more than
\* the limit at most.
LimitKept == Cardinality({p \in Present(Now) : Priority[sys[part[p].home].template] < LastPriority})
               <= MaxParticles + 1

\* A system that makes room takes it from particles of lower priority only, and
\* does not stop above the limit while there are any.
MakesRoomBelow ==
  [][\A s \in Live(Now), p \in Particles : count' < count /\ CreateParticle(s, p) =>
       LET cap == Priority[sys[s].template]
           below(h) == {r \in Present(h) : Priority[h.sys[h.part[r].home].template] < cap} IN
       /\ Present(Now) \ Present(Now') \subseteq below(Now)
       /\ count' = MaxParticles \/ below(Now') = {}]_vars
=============================================================================
