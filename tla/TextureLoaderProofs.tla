------------------------- MODULE TextureLoaderProofs -------------------------
(* Proofs about TextureLoader, for any number of textures, tasks, threads.  *)
EXTENDS TextureLoader, TLAPS

-----------------------------------------------------------------------------
(* Facts about the lists. *)

\* Without: about TextureLoadTaskListClass::Remove.  The task is gone, the others
\* stay.
LEMMA WithoutSeq ==
  ASSUME NEW S, NEW q \in Seq(S), NEW k
  PROVE  Without(q, k) \in Seq(S)
<1>1. CASE \E i \in 1..Len(q) : q[i] = k
  <2>. DEFINE i == CHOOSE i \in 1..Len(q) : q[i] = k
              r == [j \in 1..(Len(q) - 1) |-> IF j < i THEN q[j] ELSE q[j + 1]]
  <2>1. Without(q, k) = r  BY <1>1 DEF Without
  <2>2. i \in 1..Len(q)  BY <1>1
  <2>3. Len(q) \in Nat /\ Len(q) - 1 \in Nat  BY <2>2
  <2>4. \A j \in 1..(Len(q) - 1) : r[j] \in S
    BY <2>2, <2>3
  <2>. QED  BY <2>1, <2>3, <2>4
<1>2. CASE ~ \E i \in 1..Len(q) : q[i] = k
  BY <1>2 DEF Without
<1>. QED  BY <1>1, <1>2

\* Remove: about TextureLoadTaskListClass::Remove with its m_parent test.
LEMMA RemoveSeq ==
  ASSUME NEW S, NEW q \in Seq(S), NEW list, NEW k
  PROVE  Remove(list, q, k) \in Seq(S)
BY WithoutSeq DEF Remove

-----------------------------------------------------------------------------
(* What the list operations do to the members of a list without duplicates. *)

\* Taking a task off a list without duplicates takes off that task only.
LEMMA WithoutMembers ==
  ASSUME NEW S, NEW q \in Seq(S), NEW k, Once(q)
  PROVE  /\ Once(Without(q, k))
         /\ \A x : In(Without(q, k), x) <=> (In(q, x) /\ x # k)
<1>1. CASE In(q, k)
  <2>. DEFINE i == CHOOSE i \in 1..Len(q) : q[i] = k
              r == [j \in 1..(Len(q) - 1) |-> IF j < i THEN q[j] ELSE q[j + 1]]
  <2>1. Without(q, k) = r  BY <1>1 DEF Without, In
  <2>2. i \in 1..Len(q) /\ q[i] = k  BY <1>1 DEF In
  <2>3. Len(q) \in Nat /\ Len(q) - 1 \in Nat /\ Len(r) = Len(q) - 1
    BY <2>2
  <2>4. \A j \in 1..Len(q) : q[j] = k => j = i
    BY <2>2 DEF Once
  <2>. HIDE DEF i
  <2>5. Once(r)
    BY <2>2, <2>3, <2>4 DEF Once
  <2>6. ASSUME NEW x, In(r, x)  PROVE In(q, x) /\ x # k
    <3>1. PICK j \in 1..(Len(q) - 1) : r[j] = x  BY <2>6, <2>3 DEF In
    <3>2. /\ j \in 1..Len(q) /\ j + 1 \in 1..Len(q)
          /\ x = IF j < i THEN q[j] ELSE q[j + 1]
      BY <3>1, <2>3
    <3>3. CASE j < i
      <4>1. q[j] = x /\ j # i  BY <3>1, <3>2, <3>3, <2>2, <2>3
      <4>. QED  BY <4>1, <3>2, <2>4 DEF In
    <3>4. CASE ~(j < i)
      <4>1. q[j + 1] = x /\ j + 1 # i  BY <3>1, <3>2, <3>4, <2>2, <2>3
      <4>. QED  BY <4>1, <3>2, <2>4 DEF In
    <3>. QED  BY <3>3, <3>4
  <2>7. ASSUME NEW x, In(q, x), x # k  PROVE In(r, x)
    <3>1. PICK j \in 1..Len(q) : q[j] = x  BY <2>7 DEF In
    <3>2. CASE j < i
      <4>1. j \in 1..(Len(q) - 1) /\ r[j] = x  BY <3>1, <3>2, <2>2, <2>3
      <4>. QED  BY <4>1, <2>3 DEF In
    <3>3. CASE j > i
      <4>1. j - 1 \in 1..(Len(q) - 1) /\ r[j - 1] = x  BY <3>1, <3>3, <2>2, <2>3
      <4>. QED  BY <4>1, <2>3 DEF In
    <3>4. j # i  BY <3>1, <2>2, <2>7
    <3>. QED  BY <3>1, <3>2, <3>3, <3>4, <2>2, <2>3
  <2>. HIDE DEF r
  <2>. QED  BY <2>1, <2>5, <2>6, <2>7
<1>2. CASE ~In(q, k)
  <2>1. Without(q, k) = q  BY <1>2 DEF Without, In
  <2>. QED  BY <2>1, <1>2 DEF In
<1>. QED  BY <1>1, <1>2

\* Push_Back of a task that is not in the list.
LEMMA AppendMembers ==
  ASSUME NEW S, NEW q \in Seq(S), NEW k \in S, Once(q), ~In(q, k)
  PROVE  /\ Append(q, k) \in Seq(S)
         /\ Once(Append(q, k))
         /\ \A x : In(Append(q, k), x) <=> (In(q, x) \/ x = k)
<1>. DEFINE r == Append(q, k)
<1>1. /\ r \in Seq(S) /\ Len(r) = Len(q) + 1 /\ r[Len(q) + 1] = k
      /\ \A i \in 1..Len(q) : r[i] = q[i]
  OBVIOUS
<1>2. Len(q) \in Nat  OBVIOUS
<1>. HIDE DEF r
<1>3. Once(r)  BY <1>1, <1>2 DEF Once, In
<1>4. \A x : In(r, x) => (In(q, x) \/ x = k)  BY <1>1, <1>2 DEF In
<1>5. \A x : (In(q, x) \/ x = k) => In(r, x)  BY <1>1, <1>2 DEF In
<1>. QED  BY <1>1, <1>3, <1>4, <1>5 DEF r

\* Push_Front of a task that is not in the list.
LEMMA ConsMembers ==
  ASSUME NEW S, NEW q \in Seq(S), NEW k \in S, Once(q), ~In(q, k)
  PROVE  /\ <<k>> \o q \in Seq(S)
         /\ Once(<<k>> \o q)
         /\ \A x : In(<<k>> \o q, x) <=> (In(q, x) \/ x = k)
<1>. DEFINE r == <<k>> \o q
<1>1. /\ r \in Seq(S) /\ Len(r) = Len(q) + 1 /\ r[1] = k
      /\ \A i \in 2..Len(r) : r[i] = q[i - 1]
  OBVIOUS
<1>2. Len(q) \in Nat  OBVIOUS
<1>. HIDE DEF r
<1>3. Once(r)
  <2>. SUFFICES ASSUME NEW i \in 1..Len(r), NEW j \in 1..Len(r), r[i] = r[j]
                PROVE  i = j
    BY DEF Once
  <2>1. CASE i = 1 /\ j # 1
    <3>1. j - 1 \in 1..Len(q) /\ q[j - 1] = k  BY <2>1, <1>1, <1>2
    <3>. QED  BY <3>1 DEF In
  <2>2. CASE i # 1 /\ j = 1
    <3>1. i - 1 \in 1..Len(q) /\ q[i - 1] = k  BY <2>2, <1>1, <1>2
    <3>. QED  BY <3>1 DEF In
  <2>3. CASE i # 1 /\ j # 1
    <3>1. /\ i - 1 \in 1..Len(q) /\ j - 1 \in 1..Len(q)
          /\ q[i - 1] = q[j - 1]
      BY <2>3, <1>1, <1>2
    <3>2. i - 1 = j - 1  BY <3>1 DEF Once
    <3>. QED  BY <3>2, <1>1, <1>2
  <2>. QED  BY <2>1, <2>2, <2>3
<1>4. \A x : In(r, x) => (In(q, x) \/ x = k)
  <2>. SUFFICES ASSUME NEW x, NEW i \in 1..Len(r), r[i] = x, x # k
                PROVE  In(q, x)
    BY DEF In
  <2>1. i - 1 \in 1..Len(q) /\ q[i - 1] = x  BY <1>1, <1>2
  <2>. QED  BY <2>1 DEF In
<1>5. \A x : (In(q, x) \/ x = k) => In(r, x)
  <2>1. ASSUME NEW x, NEW i \in 1..Len(q), q[i] = x  PROVE In(r, x)
    <3>1. i + 1 \in 1..Len(r) /\ r[i + 1] = x  BY <2>1, <1>1, <1>2
    <3>. QED  BY <3>1 DEF In
  <2>2. In(r, k)  BY <1>1, <1>2 DEF In
  <2>. QED  BY <2>1, <2>2 DEF In
<1>. QED  BY <1>1, <1>3, <1>4, <1>5 DEF r

\* Pop_Front of a list that is not empty.
LEMMA TailMembers ==
  ASSUME NEW S, NEW q \in Seq(S), q # << >>, Once(q)
  PROVE  /\ Head(q) \in S /\ In(q, Head(q))
         /\ Tail(q) \in Seq(S)
         /\ Once(Tail(q))
         /\ \A x : In(Tail(q), x) <=> (In(q, x) /\ x # Head(q))
<1>. DEFINE r == Tail(q)
<1>1. /\ Len(q) \in Nat /\ Len(q) > 0
      /\ r \in Seq(S) /\ Len(r) = Len(q) - 1
      /\ \A i \in 1..Len(r) : r[i] = q[i + 1]
      /\ Head(q) = q[1] /\ Head(q) \in S
  OBVIOUS
<1>. HIDE DEF r
<1>2. Once(r)
  <2>. SUFFICES ASSUME NEW i \in 1..Len(r), NEW j \in 1..Len(r), r[i] = r[j]
                PROVE  i = j
    BY DEF Once
  <2>1. i + 1 \in 1..Len(q) /\ j + 1 \in 1..Len(q) /\ q[i + 1] = q[j + 1]
    BY <1>1
  <2>2. i + 1 = j + 1  BY <2>1 DEF Once
  <2>. QED  BY <2>2, <1>1
<1>3. ASSUME NEW x, In(r, x)  PROVE In(q, x) /\ x # Head(q)
  <2>1. PICK i \in 1..Len(r) : r[i] = x  BY <1>3 DEF In
  <2>2. i + 1 \in 1..Len(q) /\ q[i + 1] = x /\ i + 1 # 1  BY <2>1, <1>1
  <2>3. 1 \in 1..Len(q)  BY <1>1
  <2>. QED  BY <2>2, <2>3, <1>1 DEF In, Once
<1>4. ASSUME NEW x, In(q, x), x # Head(q)  PROVE In(r, x)
  <2>1. PICK i \in 1..Len(q) : q[i] = x  BY <1>4 DEF In
  <2>2. i - 1 \in 1..Len(r) /\ r[i - 1] = x  BY <2>1, <1>4, <1>1
  <2>. QED  BY <2>2 DEF In
<1>5. In(q, Head(q))  BY <1>1 DEF In
<1>. QED  BY <1>1, <1>2, <1>3, <1>4, <1>5 DEF r

-----------------------------------------------------------------------------
(* The inductive invariant of the loader. *)

\* Before TextureLoader::Init there is no task at all.
LEMMA InitCoreInv == Init => CoreInv
<1>. SUFFICES ASSUME Init PROVE CoreInv
  OBVIOUS
<1>. USE DEF Init
<1>1. TypeOK
  <2>1. fgQueue \in Seq(Tasks) /\ bgQueue \in Seq(Tasks)
    OBVIOUS
  <2>2. task \in [Tasks -> TaskRecords]
    BY DEF TaskRecords, BlankTask, Types, Priorities, States
  <2>3. /\ fgLock \in Threads \cup {NoThread}
        /\ bgLock \in {Main, NoThread} \cup Loaders
        /\ handle \in Loaders \cup {NoThread}
        /\ locked \subseteq Tasks /\ isRunning \in BOOLEAN /\ suspended \in BOOLEAN
    OBVIOUS
  <2>4. /\ parent \in [Tasks -> Lists]
        /\ normalTask \in [Textures -> Tasks \cup {NoTask}]
        /\ thumbTask \in [Textures -> Tasks \cup {NoTask}]
        /\ initialized \in [Textures -> BOOLEAN]
        /\ surface \in [Textures -> Surfaces]
    BY DEF Lists, Surfaces
  <2>5. /\ pc \in [Threads -> PCs]
        /\ arg \in [Threads -> Textures \cup {NoTexture}]
        /\ lpc \in [Loaders -> LoaderPCs]
        /\ ltask \in [Loaders -> Tasks \cup {NoTask}]
    BY DEF PCs, LoaderPCs
  <2>. QED  BY <2>1, <2>2, <2>3, <2>4, <2>5 DEF TypeOK
<1>2. LockDiscipline
  BY ThreadsAssumption DEF LockDiscipline, AwaitsBackground, At, Threads
<1>3. QueueIntegrity
  BY DEF QueueIntegrity, In, Once
<1>4. NoTaskLost /\ TaskPointers /\ SurfacesUnlocked /\ StageOfPlace
  BY DataAssumption DEF NoTaskLost, TaskPointers, SurfacesUnlocked, StageOfPlace, Live,
     BlankTask
<1>5. PendingUninitialized
  BY DEF PendingUninitialized
<1>6. ThreadsAtWork
  BY ThreadsAssumption DEF ThreadsAtWork, RequestPCs, AwaitsBackground, Threads
<1>. QED  BY <1>1, <1>2, <1>3, <1>4, <1>5, <1>6 DEF CoreInv

-----------------------------------------------------------------------------
(* Threads, loaders and the free lock are all different. *)

\* The constants name different threads.
LEMMA Distinct ==
  /\ Main \in Threads /\ Clients \subseteq Threads
  /\ \A th \in Threads : th \notin Loaders /\ th # NoThread
  /\ \A th \in Threads : th = Main \/ th \in Clients
  /\ \A c \in Clients : c # Main
  /\ NoThread \notin Loaders
BY ThreadsAssumption DEF Threads

-----------------------------------------------------------------------------
(* The lists after a step, from what the step makes of their members. *)

\* The lists and m_parent agree again after a step.
LEMMA QueueIntegrityNext ==
  ASSUME \A k \in Tasks : (parent'[k] = "fg") <=> In(fgQueue', k),
         \A k \in Tasks : (parent'[k] = "bg") <=> In(bgQueue', k),
         Once(fgQueue'), Once(bgQueue')
  PROVE  QueueIntegrity'
BY DEF QueueIntegrity, In, Once

-----------------------------------------------------------------------------
(* Frames: what a step leaves alone it does not disturb. *)

\* A step that leaves both lists and every m_parent.
LEMMA QueueFrame ==
  ASSUME QueueIntegrity, UNCHANGED <<queues, parent>>
  PROVE  QueueIntegrity'
BY DEF QueueIntegrity, queues, In, Once

\* A step that leaves the tasks and what the loaders hold.
LEMMA TaskFrame ==
  ASSUME NoTaskLost, SurfacesUnlocked, UNCHANGED <<taskVars, ltask>>
  PROVE  NoTaskLost' /\ SurfacesUnlocked'
BY DEF NoTaskLost, SurfacesUnlocked, taskVars, Live

\* A step that leaves the pointers between textures and tasks.
LEMMA PointerFrame ==
  ASSUME TaskPointers, UNCHANGED <<task, normalTask, thumbTask>>
  PROVE  TaskPointers'
BY DEF TaskPointers

\* A step that leaves the tasks and the loader threads.
LEMMA StageFrame ==
  ASSUME StageOfPlace, UNCHANGED <<taskVars, loaderVars>>
  PROVE  StageOfPlace'
BY DEF StageOfPlace, taskVars, loaderVars

\* A step that leaves m_initialized and the load tasks.
LEMMA PendingFrame ==
  ASSUME PendingUninitialized, UNCHANGED <<normalTask, initialized>>
  PROVE  PendingUninitialized'
BY DEF PendingUninitialized

\* A step that changes only locks, the threads' places and the surface.
LEMMA DataFrame ==
  ASSUME CoreInv,
         UNCHANGED <<queues, taskVars, normalTask, thumbTask, initialized, loaderVars>>
  PROVE  /\ QueueIntegrity' /\ NoTaskLost' /\ TaskPointers' /\ SurfacesUnlocked'
         /\ StageOfPlace' /\ PendingUninitialized'
BY QueueFrame, TaskFrame, PointerFrame, StageFrame, PendingFrame
   DEF CoreInv, taskVars, loaderVars

-----------------------------------------------------------------------------
(* Where a thread goes. *)

\* A thread moves on to another place of its code.
LEMMA GotoFacts ==
  ASSUME TypeOK, NEW th \in Threads, NEW label \in PCs, Goto(th, label)
  PROVE  /\ pc' \in [Threads -> PCs]
         /\ pc'[th] = label
         /\ \A o \in Threads : o # th => pc'[o] = pc[o]
BY DEF TypeOK, Goto

\* A thread returns from a request.
LEMMA LeaveFacts ==
  ASSUME TypeOK, NEW th \in Threads, Leave(th)
  PROVE  /\ pc' \in [Threads -> PCs] /\ arg' \in [Threads -> Textures \cup {NoTexture}]
         /\ pc'[th] = "idle" /\ arg'[th] = NoTexture
         /\ \A o \in Threads : o # th => pc'[o] = pc[o] /\ arg'[o] = arg[o]
BY DEF TypeOK, Leave, Goto, PCs

\* A thread returns from Request_Foreground_Loading, to Init or to its caller.
LEMMA LeaveForegroundFacts ==
  ASSUME TypeOK, NEW th \in Threads, LeaveForeground(th)
  PROVE  /\ pc' \in [Threads -> PCs] /\ arg' \in [Threads -> Textures \cup {NoTexture}]
         /\ pc'[th] = "idle" \/ (pc'[th] = "init_background" /\ arg'[th] = arg[th])
         /\ \A o \in Threads : o # th => pc'[o] = pc[o] /\ arg'[o] = arg[o]
<1>1. CASE pc[th] \in {"init_foreground", "init_foreground_bg"}
  <2>1. Goto(th, "init_background") /\ arg' = arg  BY <1>1 DEF LeaveForeground
  <2>2. "init_background" \in PCs  BY DEF PCs
  <2>. QED  BY <2>1, <2>2, GotoFacts DEF TypeOK
<1>2. CASE pc[th] \notin {"init_foreground", "init_foreground_bg"}
  <2>1. Leave(th)  BY <1>2 DEF LeaveForeground
  <2>. QED  BY <2>1, LeaveFacts
<1>. QED  BY <1>1, <1>2

-----------------------------------------------------------------------------
(* Steps that move a thread and nothing else that the invariant is about.   *)

\* TextureClass::Init starts.
LEMMA BeginInitStep ==
  ASSUME CoreInv, NEW th \in Threads, NEW t \in Textures, BeginInit(th, t)
  PROVE  CoreInv'
<1>. USE DEF BeginInit
<1>1. TypeOK'
  BY Distinct DEF CoreInv, TypeOK, Goto, At, PCs, Surfaces, locks, queues, taskVars, texVars,
     threadVars, loaderVars, lifeVars
<1>2. LockDiscipline'
  BY Distinct DEF CoreInv, TypeOK, LockDiscipline, AwaitsBackground,
     Goto, At, locks, threadVars, loaderVars
<1>3. ThreadsAtWork'
  BY Distinct DEF CoreInv, TypeOK, ThreadsAtWork, AwaitsBackground, RequestPCs,
     Goto, At, texVars, threadVars, loaderVars
<1>. QED  BY <1>1, <1>2, <1>3, DataFrame DEF CoreInv, texVars

\* Load_Locked_Surface lets go of the surface: no list is concerned.
LEMMA ResetSurfaceStep ==
  ASSUME CoreInv, NEW th \in Threads, ResetSurface(th)
  PROVE  CoreInv'
<1>. USE DEF ResetSurface
<1>1. TypeOK'
  BY Distinct DEF CoreInv, TypeOK, Goto, At, PCs, Surfaces, locks, queues, taskVars, texVars,
     threadVars, loaderVars, lifeVars
<1>2. LockDiscipline'
  BY Distinct DEF CoreInv, TypeOK, LockDiscipline, AwaitsBackground,
     Goto, At, locks, threadVars, loaderVars
<1>3. ThreadsAtWork'
  BY Distinct DEF CoreInv, TypeOK, ThreadsAtWork, AwaitsBackground, RequestPCs,
     Goto, At, texVars, threadVars, loaderVars
<1>. QED  BY <1>1, <1>2, <1>3, DataFrame DEF CoreInv, texVars

\* Request_Thumbnail has nothing to do.
LEMMA ThumbnailSkipStep ==
  ASSUME CoreInv, NEW th \in Threads, ThumbnailSkip(th)
  PROVE  CoreInv'
<1>. USE DEF ThumbnailSkip
<1>1. TypeOK'
  BY Distinct DEF CoreInv, TypeOK, Goto, At, IsFree, PCs, Surfaces, locks, queues, taskVars, texVars,
     threadVars, loaderVars, lifeVars
<1>2. LockDiscipline'
  BY Distinct DEF CoreInv, TypeOK, LockDiscipline, AwaitsBackground,
     Goto, At, IsFree, locks, threadVars, loaderVars
<1>3. ThreadsAtWork'
  BY Distinct DEF CoreInv, TypeOK, ThreadsAtWork, AwaitsBackground, RequestPCs,
     Goto, At, IsFree, texVars, threadVars, loaderVars
<1>. QED  BY <1>1, <1>2, <1>3, DataFrame DEF CoreInv, texVars

\* Request_Foreground_Loading is called.
LEMMA BeginForegroundStep ==
  ASSUME CoreInv, NEW th \in Threads, NEW t \in Textures, BeginForeground(th, t)
  PROVE  CoreInv'
<1>. USE DEF BeginForeground
<1>1. TypeOK'
  BY Distinct DEF CoreInv, TypeOK, Goto, At, PCs, Surfaces, locks, queues, taskVars, texVars,
     threadVars, loaderVars, lifeVars
<1>2. LockDiscipline'
  BY Distinct DEF CoreInv, TypeOK, LockDiscipline, AwaitsBackground,
     Goto, At, locks, threadVars, loaderVars
<1>3. ThreadsAtWork'
  BY Distinct DEF CoreInv, TypeOK, ThreadsAtWork, AwaitsBackground, RequestPCs,
     Goto, At, texVars, threadVars, loaderVars
<1>. QED  BY <1>1, <1>2, <1>3, DataFrame DEF CoreInv, texVars

\* Update takes the foreground section, which was free.
LEMMA BeginUpdateStep ==
  ASSUME CoreInv, BeginUpdate
  PROVE  CoreInv'
<1>. USE DEF BeginUpdate
<1>1. TypeOK'
  BY Distinct DEF CoreInv, TypeOK, Goto, At, IsFree, PCs, Surfaces, locks, queues, taskVars, texVars,
     threadVars, loaderVars, lifeVars
<1>2. LockDiscipline'
  BY Distinct DEF CoreInv, TypeOK, LockDiscipline, AwaitsBackground,
     Goto, At, IsFree, locks, threadVars, loaderVars
<1>3. ThreadsAtWork'
  BY Distinct DEF CoreInv, TypeOK, ThreadsAtWork, AwaitsBackground, RequestPCs,
     Goto, At, IsFree, texVars, threadVars, loaderVars
<1>. QED  BY <1>1, <1>2, <1>3, DataFrame DEF CoreInv, texVars

\* Flush_Pending_Load_Tasks is called.
LEMMA BeginFlushStep ==
  ASSUME CoreInv, BeginFlush
  PROVE  CoreInv'
<1>. USE DEF BeginFlush
<1>1. TypeOK'
  BY Distinct DEF CoreInv, TypeOK, Goto, At, PCs, Surfaces, locks, queues, taskVars, texVars,
     threadVars, loaderVars, lifeVars
<1>2. LockDiscipline'
  BY Distinct DEF CoreInv, TypeOK, LockDiscipline, AwaitsBackground,
     Goto, At, locks, threadVars, loaderVars
<1>3. ThreadsAtWork'
  BY Distinct DEF CoreInv, TypeOK, ThreadsAtWork, AwaitsBackground, RequestPCs,
     Goto, At, texVars, threadVars, loaderVars
<1>. QED  BY <1>1, <1>2, <1>3, DataFrame DEF CoreInv, texVars

\* Queues_Not_Empty looks under the background section.
LEMMA FlushCheckStep ==
  ASSUME CoreInv, FlushCheck
  PROVE  CoreInv'
<1>. USE DEF FlushCheck
<1>1. TypeOK'
  BY Distinct DEF CoreInv, TypeOK, Goto, At, IsFree, PCs, Surfaces, locks, queues, taskVars, texVars,
     threadVars, loaderVars, lifeVars
<1>2. LockDiscipline'
  BY Distinct DEF CoreInv, TypeOK, LockDiscipline, AwaitsBackground,
     Goto, At, IsFree, locks, threadVars, loaderVars
<1>3. ThreadsAtWork'
  BY Distinct DEF CoreInv, TypeOK, ThreadsAtWork, AwaitsBackground, RequestPCs,
     Goto, At, IsFree, texVars, threadVars, loaderVars
<1>. QED  BY <1>1, <1>2, <1>3, DataFrame DEF CoreInv, texVars

\* Flush_Pending_Load_Tasks takes the background section.
LEMMA FlushLockStep ==
  ASSUME CoreInv, FlushLock
  PROVE  CoreInv'
<1>. USE DEF FlushLock
<1>1. TypeOK'
  BY Distinct DEF CoreInv, TypeOK, Goto, At, IsFree, PCs, Surfaces, locks, queues, taskVars, texVars,
     threadVars, loaderVars, lifeVars
<1>2. LockDiscipline'
  BY Distinct DEF CoreInv, TypeOK, LockDiscipline, AwaitsBackground,
     Goto, At, IsFree, locks, threadVars, loaderVars
<1>3. ThreadsAtWork'
  BY Distinct DEF CoreInv, TypeOK, ThreadsAtWork, AwaitsBackground, RequestPCs,
     Goto, At, IsFree, texVars, threadVars, loaderVars
<1>. QED  BY <1>1, <1>2, <1>3, DataFrame DEF CoreInv, texVars

\* Update returns at once while loading is suspended.
LEMMA FlushSuspendedStep ==
  ASSUME CoreInv, FlushSuspended
  PROVE  CoreInv'
<1>. USE DEF FlushSuspended
<1>1. TypeOK'
  BY Distinct DEF CoreInv, TypeOK, Goto, At, PCs, Surfaces, locks, queues, taskVars, texVars,
     threadVars, loaderVars, lifeVars
<1>2. LockDiscipline'
  BY Distinct DEF CoreInv, TypeOK, LockDiscipline, AwaitsBackground,
     Goto, At, locks, threadVars, loaderVars
<1>3. ThreadsAtWork'
  BY Distinct DEF CoreInv, TypeOK, ThreadsAtWork, AwaitsBackground, RequestPCs,
     Goto, At, texVars, threadVars, loaderVars
<1>. QED  BY <1>1, <1>2, <1>3, DataFrame DEF CoreInv, texVars

\* Suspend_Texture_Load and Continue_Texture_Load set one flag.
LEMMA SuspendStep ==
  ASSUME CoreInv, Suspend
  PROVE  CoreInv'
<1>. USE DEF Suspend
<1>1. TypeOK'
  BY Distinct DEF CoreInv, TypeOK, At, PCs, Surfaces, locks, queues, taskVars, texVars,
     threadVars, loaderVars, lifeVars
<1>2. LockDiscipline'
  BY Distinct DEF CoreInv, TypeOK, LockDiscipline, AwaitsBackground,
     At, locks, threadVars, loaderVars
<1>3. ThreadsAtWork'
  BY Distinct DEF CoreInv, TypeOK, ThreadsAtWork, AwaitsBackground, RequestPCs,
     At, texVars, threadVars, loaderVars
<1>. QED  BY <1>1, <1>2, <1>3, DataFrame DEF CoreInv, texVars

\* Invalidate finds no task of the texture.
LEMMA BeginInvalidateStep ==
  ASSUME CoreInv, NEW t \in Textures, BeginInvalidate(t)
  PROVE  CoreInv'
<1>. USE DEF BeginInvalidate
<1>1. TypeOK'
  BY Distinct DEF CoreInv, TypeOK, Goto, At, PCs, Surfaces, locks, queues, taskVars, texVars,
     threadVars, loaderVars, lifeVars
<1>2. LockDiscipline'
  BY Distinct DEF CoreInv, TypeOK, LockDiscipline, AwaitsBackground,
     Goto, At, locks, threadVars, loaderVars
<1>3. ThreadsAtWork'
  BY Distinct DEF CoreInv, TypeOK, ThreadsAtWork, AwaitsBackground, RequestPCs,
     Goto, At, texVars, threadVars, loaderVars
<1>. QED  BY <1>1, <1>2, <1>3, DataFrame DEF CoreInv, texVars

\* Deinit takes the background section and Stop clears m_isRunning.
LEMMA BeginDeinitStep ==
  ASSUME CoreInv, BeginDeinit
  PROVE  CoreInv'
<1>. USE DEF BeginDeinit
<1>1. TypeOK'
  BY Distinct DEF CoreInv, TypeOK, Goto, At, IsFree, PCs, Surfaces, locks, queues, taskVars, texVars,
     threadVars, loaderVars, lifeVars
<1>2. LockDiscipline'
  BY Distinct DEF CoreInv, TypeOK, LockDiscipline, AwaitsBackground,
     Goto, At, IsFree, locks, threadVars, loaderVars
<1>3. ThreadsAtWork'
  BY Distinct DEF CoreInv, TypeOK, ThreadsAtWork, AwaitsBackground, RequestPCs,
     Goto, At, IsFree, texVars, threadVars, loaderVars
<1>. QED  BY <1>1, <1>2, <1>3, DataFrame DEF CoreInv, texVars

\* Request_Background_Loading has nothing to do.
LEMMA BackgroundSkipStep ==
  ASSUME CoreInv, NEW th \in Threads, BackgroundSkip(th)
  PROVE  CoreInv'
<1>1. TypeOK /\ Leave(th) /\ pc[th] = "init_background"
  BY DEF BackgroundSkip, At, CoreInv
<1>2. UNCHANGED <<locks, queues, taskVars, texVars, loaderVars, lifeVars, suspended>>
  BY DEF BackgroundSkip
<1>. DEFINE Moved == /\ pc'[th] = "idle"
                     /\ \A o \in Threads : o # th => pc'[o] = pc[o] /\ arg'[o] = arg[o]
<1>3. Moved
  BY <1>1, LeaveFacts
<1>4. TypeOK'
  BY <1>1, <1>2, LeaveFacts
     DEF TypeOK, locks, queues, taskVars, texVars, loaderVars, lifeVars
<1>. HIDE DEF Moved
<1>5. LockDiscipline'
  BY <1>1, <1>2, <1>3, Distinct DEF CoreInv, LockDiscipline, AwaitsBackground, At, locks,
     loaderVars, Moved
<1>6. ThreadsAtWork'
  BY <1>1, <1>2, <1>3, Distinct DEF CoreInv, ThreadsAtWork, AwaitsBackground, RequestPCs,
     texVars, loaderVars, Moved
<1>. QED  BY <1>2, <1>4, <1>5, <1>6, DataFrame DEF CoreInv, texVars

\* Request_Foreground_Loading has nothing to do.
LEMMA ForegroundSkipStep ==
  ASSUME CoreInv, NEW th \in Threads, ForegroundSkip(th)
  PROVE  CoreInv'
<1>1. TypeOK /\ LeaveForeground(th) /\ pc[th] \in {"init_foreground", "foreground"}
  BY DEF ForegroundSkip, InForeground, CoreInv
<1>2. UNCHANGED <<locks, queues, taskVars, texVars, loaderVars, lifeVars, suspended>>
  BY DEF ForegroundSkip
<1>. DEFINE Moved == /\ \/ pc'[th] = "idle"
                        \/ pc'[th] = "init_background" /\ arg'[th] = arg[th]
                     /\ \A o \in Threads : o # th => pc'[o] = pc[o] /\ arg'[o] = arg[o]
<1>3. Moved
  BY <1>1, LeaveForegroundFacts
<1>4. TypeOK'
  BY <1>1, <1>2, LeaveForegroundFacts
     DEF TypeOK, locks, queues, taskVars, texVars, loaderVars, lifeVars
<1>. HIDE DEF Moved
<1>5. LockDiscipline'
  BY <1>1, <1>2, <1>3, Distinct DEF CoreInv, LockDiscipline, AwaitsBackground, At, locks,
     loaderVars, Moved
<1>6. ThreadsAtWork'
  BY <1>1, <1>2, <1>3, Distinct DEF CoreInv, ThreadsAtWork, AwaitsBackground, RequestPCs,
     texVars, loaderVars, Moved
<1>. QED  BY <1>2, <1>4, <1>5, <1>6, DataFrame DEF CoreInv, texVars

\* Update leaves the foreground section, and Flush the background one.
LEMMA EndUpdateStep ==
  ASSUME CoreInv, EndUpdate
  PROVE  CoreInv'
<1>1. /\ TypeOK /\ pc[Main] = "update" /\ fgLock' = NoThread
      /\ bgLock' = IF bgLock = Main THEN NoThread ELSE bgLock
      /\ UNCHANGED <<queues, taskVars, texVars, arg, loaderVars, lifeVars, suspended>>
  BY DEF EndUpdate, At, CoreInv
<1>2. /\ pc' \in [Threads -> PCs]
      /\ pc'[Main] \in {"flush_check", "idle"}
      /\ \A o \in Threads : o # Main => pc'[o] = pc[o]
  BY <1>1, Distinct DEF EndUpdate, Goto, TypeOK, PCs
<1>3. TypeOK'
  BY <1>1, <1>2 DEF TypeOK, locks, queues, taskVars, texVars, loaderVars, lifeVars
<1>4. LockDiscipline'
  <2>1. \A th \in Clients : (fgLock' = th) <=> AwaitsBackground(th)'
    BY <1>1, <1>2, Distinct DEF CoreInv, LockDiscipline, AwaitsBackground, At
  <2>2. ~AwaitsBackground(Main)' /\ ~At(Main, "update")' /\ fgLock' # Main
    BY <1>1, <1>2, Distinct DEF AwaitsBackground, At
  <2>3. \A l \in Loaders : (bgLock' = l) <=> (lpc'[l] \in {"loading", "loaded"})
    BY <1>1, Distinct DEF CoreInv, LockDiscipline, loaderVars
  <2>4. bgLock' # Main  BY <1>1, Distinct
  <2>. QED  BY <1>2, <2>1, <2>2, <2>3, <2>4 DEF LockDiscipline
<1>5. ThreadsAtWork'
  BY <1>1, <1>2, Distinct DEF CoreInv, ThreadsAtWork, AwaitsBackground, RequestPCs,
     texVars, loaderVars
<1>. QED  BY <1>1, <1>3, <1>4, <1>5, DataFrame DEF CoreInv, texVars

-----------------------------------------------------------------------------
(* Steps that only take the initialized mark off a texture. *)

\* Load_Locked_Surface clears m_initialized, with or without a task.
LEMMA ClearInitializedStep ==
  ASSUME CoreInv, NEW th \in Threads, ClearInitialized(th)
  PROVE  CoreInv'
<1>. USE DEF ClearInitialized
<1>1. TypeOK'
  BY DEF CoreInv, TypeOK, Goto, At, PCs, locks, queues, taskVars, loaderVars, lifeVars
<1>2. LockDiscipline'
  BY Distinct DEF CoreInv, TypeOK, LockDiscipline, AwaitsBackground, Goto, At, locks,
     loaderVars
<1>3. \A t \in Textures : initialized'[t] => initialized[t]
  BY DEF CoreInv, TypeOK
<1>4. PendingUninitialized'
  BY <1>3 DEF CoreInv, PendingUninitialized
<1>5. ThreadsAtWork'
  BY <1>3, Distinct DEF CoreInv, TypeOK, ThreadsAtWork, AwaitsBackground, RequestPCs, Goto,
     At, loaderVars
<1>. QED
  BY <1>1, <1>2, <1>4, <1>5, QueueFrame, TaskFrame, PointerFrame, StageFrame
     DEF CoreInv, taskVars, loaderVars

\* Invalidate clears m_initialized and the surface.
LEMMA FinishInvalidateStep ==
  ASSUME CoreInv, FinishInvalidate
  PROVE  CoreInv'
<1>. USE DEF FinishInvalidate
<1>1. TypeOK'
  BY Distinct DEF CoreInv, TypeOK, Leave, Goto, At, PCs, Surfaces, locks, queues, taskVars,
     loaderVars, lifeVars
<1>2. LockDiscipline'
  BY Distinct DEF CoreInv, TypeOK, LockDiscipline, AwaitsBackground, Leave, Goto, At, locks,
     loaderVars
<1>3. \A t \in Textures : initialized'[t] => initialized[t]
  BY DEF CoreInv, TypeOK
<1>4. PendingUninitialized'
  BY <1>3 DEF CoreInv, PendingUninitialized
<1>5. ThreadsAtWork'
  <2>1. /\ pc'[Main] = "idle"
        /\ \A o \in Threads : o # Main => pc'[o] = pc[o] /\ arg'[o] = arg[o]
    BY LeaveFacts, Distinct DEF CoreInv
  <2>. QED
    BY <1>3, <2>1, Distinct DEF CoreInv, ThreadsAtWork, AwaitsBackground, RequestPCs,
       loaderVars
<1>. QED
  BY <1>1, <1>2, <1>4, <1>5, QueueFrame, TaskFrame, PointerFrame, StageFrame
     DEF CoreInv, taskVars, loaderVars

-----------------------------------------------------------------------------
(* The loader thread. *)

\* A loader that is not past the background lock moves among the places before it.
LEMMA LoaderPlace ==
  ASSUME CoreInv, NEW l \in Loaders, NEW place \in LoaderPCs \ {"loading", "loaded"},
         lpc[l] \notin {"loading", "loaded"},
         lpc' = [lpc EXCEPT ![l] = place],
         UNCHANGED <<bgLock, ltask, task, parent>>
  PROVE  /\ lpc' \in [Loaders -> LoaderPCs]
         /\ \A m \in Loaders : (bgLock' = m) <=> (lpc'[m] \in {"loading", "loaded"})
         /\ \A m \in Loaders : (ltask'[m] # NoTask) <=> (lpc'[m] \in {"loading", "loaded"})
         /\ StageOfPlace'
<1>1. \A m \in Loaders : m # l => lpc'[m] = lpc[m]
  BY DEF CoreInv, TypeOK
<1>2. lpc'[l] = place /\ place \notin {"loading", "loaded"}
  BY DEF CoreInv, TypeOK
<1>3. ltask[l] = NoTask
  BY DEF CoreInv, ThreadsAtWork
<1>4. StageOfPlace'
  BY <1>1, <1>3, DataAssumption DEF CoreInv, StageOfPlace
<1>. QED
  BY <1>1, <1>2, <1>3, <1>4 DEF CoreInv, TypeOK, LockDiscipline, ThreadsAtWork

\* The same for the step of a loader thread as a whole.
LEMMA LoaderPlaceStep ==
  ASSUME CoreInv, NEW l \in Loaders, NEW place \in LoaderPCs \ {"loading", "loaded"},
         lpc[l] \notin {"loading", "loaded"},
         lpc' = [lpc EXCEPT ![l] = place],
         isRunning' \in BOOLEAN, handle' \in Loaders \cup {NoThread},
         UNCHANGED <<locks, queues, taskVars, texVars, threadVars, ltask, suspended>>
  PROVE  CoreInv'
<1>1. /\ lpc' \in [Loaders -> LoaderPCs]
      /\ \A m \in Loaders : (bgLock' = m) <=> (lpc'[m] \in {"loading", "loaded"})
      /\ \A m \in Loaders : (ltask'[m] # NoTask) <=> (lpc'[m] \in {"loading", "loaded"})
      /\ StageOfPlace'
  BY LoaderPlace DEF locks, taskVars
<1>2. TypeOK'
  BY <1>1 DEF CoreInv, TypeOK, locks, queues, taskVars, texVars, threadVars
<1>3. LockDiscipline'
  BY <1>1 DEF CoreInv, LockDiscipline, AwaitsBackground, At, locks, threadVars
<1>4. ThreadsAtWork'
  BY <1>1 DEF CoreInv, ThreadsAtWork, AwaitsBackground, texVars, threadVars
<1>. QED
  BY <1>1, <1>2, <1>3, <1>4, QueueFrame, TaskFrame, PointerFrame, PendingFrame
     DEF CoreInv, taskVars, texVars

\* The loader thread announces itself.
LEMMA LoaderStartStep ==
  ASSUME CoreInv, NEW l \in Loaders, LoaderStart(l)
  PROVE  CoreInv'
BY LoaderPlaceStep DEF LoaderStart, LoaderPCs, CoreInv, TypeOK

\* The loader thread ends when it has been told to.
LEMMA LoaderExitStep ==
  ASSUME CoreInv, NEW l \in Loaders, LoaderExit(l)
  PROVE  CoreInv'
BY LoaderPlaceStep DEF LoaderExit, LoaderPCs, CoreInv, TypeOK

\* The loader thread looks at the queue without a lock.
LEMMA LoaderSeesWorkStep ==
  ASSUME CoreInv, NEW l \in Loaders, LoaderSeesWork(l)
  PROVE  CoreInv'
BY LoaderPlaceStep DEF LoaderSeesWork, LoaderPCs, CoreInv, TypeOK, lifeVars

\* The loader thread takes the front task, or finds it gone.
LEMMA LoaderTakeStep ==
  ASSUME CoreInv, NEW l \in Loaders, LoaderTake(l)
  PROVE  CoreInv'
<1>. USE DEF LoaderTake
<1>1. CASE bgQueue = << >>
  <2>1. /\ lpc[l] \notin {"loading", "loaded"}
        /\ lpc' = [lpc EXCEPT ![l] = "loop"]
        /\ UNCHANGED <<locks, queues, taskVars, texVars, threadVars, ltask, lifeVars,
                       suspended>>
    BY <1>1 DEF TakeNothing, locks, queues, taskVars
  <2>. QED
    BY <2>1, LoaderPlaceStep DEF LoaderPCs, CoreInv, TypeOK, lifeVars
<1>2. CASE bgQueue # << >>
  <2>. DEFINE k == Head(bgQueue)
  <2>1. /\ lpc[l] = "locking" /\ bgLock = NoThread
        /\ bgLock' = l
        /\ ltask' = [ltask EXCEPT ![l] = k]
        /\ bgQueue' = Tail(bgQueue)
        /\ parent' = [parent EXCEPT ![k] = "none"]
        /\ lpc' = [lpc EXCEPT ![l] = "loading"]
        /\ UNCHANGED <<fgLock, fgQueue, task, locked, texVars, threadVars, lifeVars,
                       suspended>>
    BY <1>2 DEF IsFree
  <2>2. /\ k \in Tasks /\ In(bgQueue, k)
        /\ Tail(bgQueue) \in Seq(Tasks) /\ Once(Tail(bgQueue))
        /\ \A x : In(Tail(bgQueue), x) <=> (In(bgQueue, x) /\ x # k)
    BY <1>2, TailMembers DEF CoreInv, TypeOK, QueueIntegrity
  <2>3. parent[k] = "bg"
    BY <2>2 DEF CoreInv, QueueIntegrity
  <2>. HIDE DEF k
  <2>4. /\ parent' \in [Tasks -> Lists] /\ parent'[k] = "none"
        /\ \A j \in Tasks : j # k => parent'[j] = parent[j]
        /\ ltask' \in [Loaders -> Tasks \cup {NoTask}] /\ ltask'[l] = k
        /\ \A m \in Loaders : m # l => ltask'[m] = ltask[m] /\ lpc'[m] = lpc[m]
        /\ lpc' \in [Loaders -> LoaderPCs] /\ lpc'[l] = "loading"
    BY <2>1, <2>2 DEF CoreInv, TypeOK, Lists, LoaderPCs
  <2>5. \A m \in Loaders : ltask[m] = NoTask
    BY <2>1, Distinct DEF CoreInv, LockDiscipline, ThreadsAtWork
  <2>6. TypeOK'
    BY <2>1, <2>2, <2>4 DEF CoreInv, TypeOK, texVars, threadVars, lifeVars
  <2>7. LockDiscipline'
    <3>1. \A m \in Loaders : lpc[m] \notin {"loading", "loaded"}
      BY <2>1, Distinct DEF CoreInv, LockDiscipline
    <3>2. \A m \in Loaders : (bgLock' = m) <=> (lpc'[m] \in {"loading", "loaded"})
      BY <3>1, <2>1, <2>4
    <3>3. pc[Main] \notin {"flush", "deinit"} /\ bgLock' # Main
      BY <2>1, Distinct DEF CoreInv, LockDiscipline
    <3>. QED
      BY <2>1, <3>2, <3>3 DEF CoreInv, LockDiscipline, AwaitsBackground, At, threadVars
  <2>8. QueueIntegrity'
    <3>1. \A j \in Tasks : (parent'[j] = "fg") <=> In(fgQueue', j)
      BY <2>1, <2>3, <2>4 DEF CoreInv, QueueIntegrity
    <3>2. \A j \in Tasks : (parent'[j] = "bg") <=> In(bgQueue', j)
      BY <2>1, <2>2, <2>4 DEF CoreInv, QueueIntegrity
    <3>3. Once(fgQueue') /\ Once(bgQueue')
      BY <2>1, <2>2 DEF CoreInv, QueueIntegrity
    <3>. QED  BY <3>1, <3>2, <3>3, QueueIntegrityNext
  <2>9. NoTaskLost'
    BY <2>1, <2>2, <2>3, <2>4, <2>5, DataAssumption DEF CoreInv, NoTaskLost, Live
  <2>10. StageOfPlace'
    BY <2>1, <2>2, <2>3, <2>4, <2>5, DataAssumption DEF CoreInv, StageOfPlace
  <2>11. ThreadsAtWork'
    BY <2>1, <2>2, <2>4, DataAssumption DEF CoreInv, ThreadsAtWork, AwaitsBackground, texVars,
       threadVars
  <2>12. SurfacesUnlocked'
    BY <2>1 DEF CoreInv, SurfacesUnlocked
  <2>. QED
    BY <2>1, <2>6, <2>7, <2>8, <2>9, <2>10, <2>11, <2>12, PointerFrame, PendingFrame
       DEF CoreInv, texVars
<1>. QED  BY <1>1, <1>2

\* Load fills the surfaces of the task in hand.
LEMMA LoaderLoadStep ==
  ASSUME CoreInv, NEW l \in Loaders, LoaderLoad(l)
  PROVE  CoreInv'
<1>. DEFINE k == ltask[l]
<1>1. /\ lpc[l] = "loading" /\ lpc' = [lpc EXCEPT ![l] = "loaded"]
      /\ task' = [task EXCEPT ![k].state = "LOADED"]
      /\ UNCHANGED <<locks, queues, parent, locked, texVars, threadVars, ltask, lifeVars,
                     suspended>>
  BY DEF LoaderLoad
<1>2. k \in Tasks
  BY <1>1 DEF CoreInv, TypeOK, ThreadsAtWork
<1>3. /\ parent[k] = "none" /\ task[k].type = "TASK_LOAD"
      /\ task[k].priority = "BACKGROUND" /\ task[k].state = "LOAD_BEGUN"
      /\ task[k] \in TaskRecords
  BY <1>1, <1>2 DEF CoreInv, TypeOK, NoTaskLost, StageOfPlace
<1>. HIDE DEF k
<1>4. /\ task' \in [Tasks -> TaskRecords]
      /\ \A j \in Tasks : j # k => task'[j] = task[j]
      /\ \A j \in Tasks : /\ task'[j].texture = task[j].texture
                          /\ task'[j].type = task[j].type
                          /\ task'[j].priority = task[j].priority
      /\ task'[k].state = "LOADED"
  BY <1>1, <1>2, <1>3 DEF CoreInv, TypeOK, TaskRecords, States
<1>5. /\ lpc' \in [Loaders -> LoaderPCs] /\ lpc'[l] = "loaded"
      /\ \A m \in Loaders : m # l => lpc'[m] = lpc[m]
  BY <1>1 DEF CoreInv, TypeOK, LoaderPCs
<1>6. \A m \in Loaders : ltask[m] = k => m = l
  BY <1>1, <1>2, DataAssumption DEF CoreInv, LockDiscipline, ThreadsAtWork
<1>7. TypeOK'
  BY <1>1, <1>4, <1>5 DEF CoreInv, TypeOK, locks, queues, texVars, threadVars, lifeVars
<1>8. LockDiscipline'
  BY <1>1, <1>5 DEF CoreInv, LockDiscipline, AwaitsBackground, At, locks, threadVars
<1>9. NoTaskLost'
  BY <1>1, <1>4 DEF CoreInv, NoTaskLost, Live
<1>10. TaskPointers'
  BY <1>1, <1>4 DEF CoreInv, TaskPointers, texVars
<1>11. SurfacesUnlocked'
  BY <1>1, <1>2, <1>3, <1>4 DEF CoreInv, SurfacesUnlocked
<1>12. StageOfPlace'
  <2>. SUFFICES ASSUME NEW j \in Tasks
                PROVE  /\ parent[j] \in {"heap", "freeList"} => task'[j] = BlankTask
                       /\ parent[j] = "bg" =>
                            /\ task'[j].type = "TASK_LOAD"
                            /\ task'[j].priority = "BACKGROUND"
                            /\ task'[j].state = "LOAD_BEGUN"
                       /\ parent[j] = "fg" =>
                            \/ /\ task'[j].type = "TASK_THUMBNAIL"
                               /\ task'[j].state \in {"NONE", "FOREGROUND_OVERRIDE"}
                            \/ /\ task'[j].type = "TASK_LOAD"
                               /\ task'[j].state # "FOREGROUND_OVERRIDE"
                               /\ task'[j].state = "LOAD_BEGUN" =>
                                    task'[j].priority = "FOREGROUND"
                       /\ \A m \in Loaders : ltask[m] = j =>
                            /\ task'[j].type = "TASK_LOAD"
                            /\ task'[j].priority = "BACKGROUND"
                            /\ task'[j].state =
                                 IF lpc'[m] = "loading" THEN "LOAD_BEGUN" ELSE "LOADED"
    BY <1>1 DEF StageOfPlace
  <2>1. CASE j = k
    BY <2>1, <1>3, <1>4, <1>5, <1>6
  <2>2. CASE j # k
    <3>1. task'[j] = task[j]  BY <2>2, <1>4
    <3>2. \A m \in Loaders : ltask[m] = j => lpc'[m] = lpc[m]
      BY <2>2, <1>5 DEF k
    <3>. QED  BY <3>1, <3>2 DEF CoreInv, StageOfPlace
  <2>. QED  BY <2>1, <2>2
<1>13. ThreadsAtWork'
  BY <1>1, <1>5 DEF CoreInv, ThreadsAtWork, AwaitsBackground, texVars, threadVars
<1>. QED
  BY <1>1, <1>7, <1>8, <1>9, <1>10, <1>11, <1>12, <1>13, QueueFrame, PendingFrame
     DEF CoreInv, texVars

\* The loader thread queues the loaded task for the main thread.
LEMMA LoaderHandBackStep ==
  ASSUME CoreInv, NEW l \in Loaders, LoaderHandBack(l)
  PROVE  CoreInv'
<1>. DEFINE k == ltask[l]
<1>1. /\ lpc[l] = "loaded" /\ lpc' = [lpc EXCEPT ![l] = "loop"]
      /\ fgQueue' = Append(fgQueue, k)
      /\ parent' = [parent EXCEPT ![k] = "fg"]
      /\ ltask' = [ltask EXCEPT ![l] = NoTask]
      /\ bgLock' = NoThread
      /\ UNCHANGED <<fgLock, bgQueue, task, locked, texVars, threadVars, lifeVars, suspended>>
  BY DEF LoaderHandBack
<1>2. k \in Tasks /\ ltask[l] = k
  BY <1>1 DEF CoreInv, TypeOK, ThreadsAtWork
<1>3. /\ parent[k] = "none" /\ task[k].type = "TASK_LOAD" /\ task[k].state = "LOADED"
  BY <1>1, <1>2 DEF CoreInv, NoTaskLost, StageOfPlace
<1>. HIDE DEF k
<1>4. /\ parent' \in [Tasks -> Lists] /\ parent'[k] = "fg"
      /\ \A j \in Tasks : j # k => parent'[j] = parent[j]
      /\ ltask' \in [Loaders -> Tasks \cup {NoTask}] /\ ltask'[l] = NoTask
      /\ lpc' \in [Loaders -> LoaderPCs] /\ lpc'[l] = "loop"
      /\ \A m \in Loaders : m # l => ltask'[m] = ltask[m] /\ lpc'[m] = lpc[m]
  BY <1>1, <1>2 DEF CoreInv, TypeOK, Lists, LoaderPCs
<1>5. bgLock = l /\ \A m \in Loaders : m # l => lpc[m] \notin {"loading", "loaded"}
  BY <1>1 DEF CoreInv, LockDiscipline
<1>6. \A m \in Loaders : ltask'[m] = NoTask
  BY <1>4, <1>5 DEF CoreInv, ThreadsAtWork
<1>7. /\ fgQueue' \in Seq(Tasks) /\ Once(fgQueue')
      /\ \A x : In(fgQueue', x) <=> (In(fgQueue, x) \/ x = k)
  BY <1>1, <1>2, <1>3, AppendMembers DEF CoreInv, TypeOK, QueueIntegrity
<1>8. TypeOK'
  BY <1>1, <1>4, <1>7 DEF CoreInv, TypeOK, texVars, threadVars, lifeVars
<1>9. LockDiscipline'
  <2>1. \A m \in Loaders : (bgLock' = m) <=> (lpc'[m] \in {"loading", "loaded"})
    BY <1>1, <1>4, <1>5, Distinct
  <2>2. bgLock # Main  BY <1>5, Distinct
  <2>. QED
    BY <1>1, <2>1, <2>2, Distinct DEF CoreInv, LockDiscipline, AwaitsBackground, At, threadVars
<1>10. QueueIntegrity'
  <2>1. \A j \in Tasks : (parent'[j] = "fg") <=> In(fgQueue', j)
    BY <1>4, <1>7 DEF CoreInv, QueueIntegrity
  <2>2. \A j \in Tasks : (parent'[j] = "bg") <=> In(bgQueue', j)
    BY <1>1, <1>3, <1>4 DEF CoreInv, QueueIntegrity
  <2>3. Once(bgQueue')  BY <1>1 DEF CoreInv, QueueIntegrity
  <2>. QED  BY <2>1, <2>2, <2>3, <1>7, QueueIntegrityNext
<1>11. NoTaskLost'
  <2>1. \A j \in Tasks : j # k => parent[j] # "none"
    BY <1>2, <1>5, DataAssumption DEF CoreInv, NoTaskLost, ThreadsAtWork
  <2>. QED
    BY <2>1, <1>1, <1>3, <1>4, <1>6, DataAssumption DEF CoreInv, NoTaskLost, Live
<1>12. StageOfPlace'
  BY <1>1, <1>3, <1>4, <1>6, DataAssumption DEF CoreInv, StageOfPlace
<1>13. ThreadsAtWork'
  BY <1>1, <1>4, <1>5, <1>6 DEF CoreInv, ThreadsAtWork, AwaitsBackground, texVars, threadVars
<1>14. SurfacesUnlocked'
  BY <1>1 DEF CoreInv, SurfacesUnlocked
<1>. QED
  BY <1>1, <1>8, <1>9, <1>10, <1>11, <1>12, <1>13, <1>14, PointerFrame, PendingFrame
     DEF CoreInv, texVars

-----------------------------------------------------------------------------
(* Starting and stopping the loader thread. *)

\* Execute starts at most one thread that was dead before.
LEMMA ExecuteFacts ==
  ASSUME TypeOK, Execute \/ UNCHANGED <<lpc, handle>>
  PROVE  /\ lpc' \in [Loaders -> LoaderPCs] /\ handle' \in Loaders \cup {NoThread}
         /\ \A l \in Loaders : lpc'[l] = lpc[l] \/ (lpc[l] = "dead" /\ lpc'[l] = "created")
<1>1. CASE Execute
  <2>1. PICK l \in Loaders : /\ lpc[l] = "dead" /\ lpc' = [lpc EXCEPT ![l] = "created"]
                             /\ handle' = l
    BY <1>1 DEF Execute
  <2>. QED  BY <2>1 DEF TypeOK, LoaderPCs
<1>2. CASE UNCHANGED <<lpc, handle>>
  BY <1>2 DEF TypeOK
<1>. QED  BY <1>1, <1>2

\* TextureLoader::Init starts a loader thread.
LEMMA LoaderInitStep ==
  ASSUME CoreInv, LoaderInit
  PROVE  CoreInv'
<1>1. /\ At(Main, "off") /\ Execute /\ Goto(Main, "idle")
      /\ UNCHANGED <<locks, queues, taskVars, texVars, arg, ltask, isRunning, suspended>>
  BY DEF LoaderInit
<1>2. /\ lpc' \in [Loaders -> LoaderPCs] /\ handle' \in Loaders \cup {NoThread}
      /\ \A l \in Loaders : lpc'[l] = lpc[l] \/ (lpc[l] = "dead" /\ lpc'[l] = "created")
  BY <1>1, ExecuteFacts DEF CoreInv
<1>3. /\ pc' \in [Threads -> PCs] /\ pc'[Main] = "idle"
      /\ \A o \in Threads : o # Main => pc'[o] = pc[o]
  BY <1>1, GotoFacts, Distinct DEF CoreInv, PCs
<1>4. TypeOK'
  BY <1>1, <1>2, <1>3 DEF CoreInv, TypeOK, locks, queues, taskVars, texVars
<1>5. LockDiscipline'
  BY <1>1, <1>2, <1>3, Distinct DEF CoreInv, LockDiscipline, AwaitsBackground, At, locks
<1>6. ThreadsAtWork'
  BY <1>1, <1>2, <1>3, Distinct DEF CoreInv, ThreadsAtWork, AwaitsBackground, RequestPCs,
     texVars
<1>7. StageOfPlace'
  <2>1. \A l \in Loaders, k \in Tasks : ltask[l] = k => lpc'[l] = lpc[l]
    BY <1>2, DataAssumption DEF CoreInv, ThreadsAtWork
  <2>. QED  BY <1>1, <2>1 DEF CoreInv, StageOfPlace, taskVars
<1>. QED
  BY <1>1, <1>4, <1>5, <1>6, <1>7, QueueFrame, TaskFrame, PointerFrame, PendingFrame
     DEF CoreInv, taskVars, texVars

\* Stop terminates only a thread that has no task.
LEMMA TerminateStep ==
  ASSUME CoreInv, Terminate
  PROVE  CoreInv'
<1>1. /\ handle \in Loaders /\ bgLock = Main
  BY DEF Terminate, At, CoreInv, TypeOK, LockDiscipline
<1>2. lpc[handle] \notin {"loading", "loaded"}
  BY <1>1, Distinct DEF CoreInv, LockDiscipline
<1>3. /\ lpc' = [lpc EXCEPT ![handle] = "dead"] /\ handle' = NoThread
      /\ UNCHANGED <<locks, queues, taskVars, texVars, threadVars, ltask, isRunning, suspended>>
  BY DEF Terminate
<1>. QED
  BY <1>1, <1>2, <1>3, LoaderPlaceStep DEF CoreInv, TypeOK, LoaderPCs

\* Deinit deletes a free task and no other.
LEMMA DeleteFreeStep ==
  ASSUME CoreInv, NEW k \in Tasks, DeleteFree(k)
  PROVE  CoreInv'
<1>1. /\ parent[k] = "freeList" /\ parent' = [parent EXCEPT ![k] = "heap"]
      /\ UNCHANGED <<locks, queues, task, locked, texVars, threadVars, loaderVars, lifeVars,
                     suspended>>
  BY DEF DeleteFree
<1>2. /\ parent' \in [Tasks -> Lists]
      /\ \A j \in Tasks : \/ parent'[j] = parent[j]
                          \/ parent[j] = "freeList" /\ parent'[j] = "heap"
  BY <1>1 DEF CoreInv, TypeOK, Lists
<1>3. TypeOK'
  BY <1>1, <1>2 DEF CoreInv, TypeOK, locks, queues, texVars, threadVars, loaderVars, lifeVars
<1>4. LockDiscipline'
  BY <1>1 DEF CoreInv, LockDiscipline, AwaitsBackground, At, locks, threadVars, loaderVars
<1>5. QueueIntegrity'
  BY <1>1, <1>2, QueueIntegrityNext DEF CoreInv, QueueIntegrity, queues
<1>6. NoTaskLost' /\ StageOfPlace' /\ SurfacesUnlocked'
  BY <1>1, <1>2 DEF CoreInv, NoTaskLost, StageOfPlace, SurfacesUnlocked, Live, loaderVars
<1>7. ThreadsAtWork'
  BY <1>1 DEF CoreInv, ThreadsAtWork, AwaitsBackground, texVars, threadVars, loaderVars
<1>. QED
  BY <1>1, <1>3, <1>4, <1>5, <1>6, <1>7, PointerFrame, PendingFrame DEF CoreInv, texVars

\* Deinit leaves the background section.
LEMMA FinishDeinitStep ==
  ASSUME CoreInv, FinishDeinit
  PROVE  CoreInv'
<1>1. /\ pc[Main] = "deinit" /\ Goto(Main, "off") /\ bgLock = Main /\ bgLock' = NoThread
      /\ UNCHANGED <<fgLock, queues, taskVars, texVars, arg, loaderVars, lifeVars,
                     suspended>>
  BY DEF FinishDeinit, At, CoreInv, LockDiscipline
<1>2. /\ pc' \in [Threads -> PCs] /\ pc'[Main] = "off"
      /\ \A o \in Threads : o # Main => pc'[o] = pc[o]
  BY <1>1, GotoFacts, Distinct DEF CoreInv, PCs
<1>3. TypeOK'
  BY <1>1, <1>2 DEF CoreInv, TypeOK, queues, taskVars, texVars, loaderVars, lifeVars
<1>4. LockDiscipline'
  BY <1>1, <1>2, Distinct DEF CoreInv, LockDiscipline, AwaitsBackground, At, loaderVars
<1>5. ThreadsAtWork'
  BY <1>1, <1>2, Distinct DEF CoreInv, ThreadsAtWork, AwaitsBackground, RequestPCs, texVars,
     loaderVars
<1>. QED  BY <1>1, <1>3, <1>4, <1>5, DataFrame DEF CoreInv, texVars

-----------------------------------------------------------------------------
(* Requests: what they do to threads, lists, tasks and pointers.            *)

\* Nobody waits inside the foreground section when it is free or Update has it.
LEMMA NobodyAwaits ==
  ASSUME CoreInv, fgLock = NoThread \/ pc[Main] = "update"
  PROVE  \A th \in Threads : ~AwaitsBackground(th)
BY Distinct DEF CoreInv, LockDiscipline, AwaitsBackground, At

\* A thread that ends its turn in a request leaves the foreground section free.
LEMMA RequestEnds ==
  ASSUME CoreInv, NEW th \in Threads, pc[th] \in RequestPCs,
         fgLock \in {NoThread, th}, fgLock' = NoThread, bgLock' = bgLock,
         \A o \in Threads : o # th => pc'[o] = pc[o] /\ arg'[o] = arg[o],
         \/ pc'[th] = "idle"
         \/ pc'[th] \in {"init_clear", "init_background"} /\ arg'[th] = arg[th],
         ltask' = ltask,
         \A l \in Loaders : lpc'[l] = lpc[l] \/ (lpc[l] = "dead" /\ lpc'[l] = "created")
  PROVE  LockDiscipline' /\ ThreadsAtWork'
<1>1. \A o \in Threads : o # th => ~AwaitsBackground(o)
  BY Distinct DEF CoreInv, LockDiscipline
<1>2. \A o \in Threads : ~AwaitsBackground(o)'
  BY <1>1 DEF AwaitsBackground
<1>3. \A l \in Loaders : (bgLock' = l) <=> (lpc'[l] \in {"loading", "loaded"})
  BY DEF CoreInv, LockDiscipline
<1>4. \A l \in Loaders : (ltask'[l] # NoTask) <=> (lpc'[l] \in {"loading", "loaded"})
  BY DEF CoreInv, ThreadsAtWork
<1>5. pc[Main] # "update"
  BY Distinct DEF CoreInv, LockDiscipline, At, RequestPCs
<1>6. LockDiscipline'
  <2>1. ~At(Main, "update")'
    BY <1>5, Distinct DEF At
  <2>2. /\ bgLock' = Main => pc'[Main] \in {"flush", "update", "deinit"}
        /\ pc'[Main] \in {"flush", "deinit"} => bgLock' = Main
    <3>1. CASE th = Main
      BY <3>1 DEF CoreInv, LockDiscipline, RequestPCs
    <3>2. CASE th # Main
      BY <3>2, Distinct DEF CoreInv, LockDiscipline
    <3>. QED  BY <3>1, <3>2
  <2>. QED
    BY <1>2, <1>3, <2>1, <2>2, Distinct DEF LockDiscipline
<1>7. ThreadsAtWork'
  <2>1. \A o \in Threads : pc'[o] \in RequestPCs \cup {"invalidate"} => arg'[o] \in Textures
    BY DEF CoreInv, ThreadsAtWork, RequestPCs
  <2>2. \A o \in Clients : pc'[o] \in RequestPCs \cup {"idle"}
    BY Distinct DEF CoreInv, ThreadsAtWork, RequestPCs
  <2>. QED
    BY <1>2, <1>4, <2>1, <2>2, Distinct DEF ThreadsAtWork, AwaitsBackground
<1>. QED  BY <1>6, <1>7

\* A step of Update's loop, which moves no thread and no lock.
LEMMA UpdateTurn ==
  ASSUME CoreInv, pc[Main] = "update", UNCHANGED <<locks, threadVars, ltask>>,
         \A l \in Loaders : lpc'[l] = lpc[l] \/ (lpc[l] = "dead" /\ lpc'[l] = "created")
  PROVE  LockDiscipline' /\ ThreadsAtWork'
<1>1. \A o \in Threads : ~AwaitsBackground(o) /\ ~AwaitsBackground(o)'
  BY NobodyAwaits DEF AwaitsBackground, threadVars
<1>2. \A l \in Loaders : (bgLock' = l) <=> (lpc'[l] \in {"loading", "loaded"})
  BY DEF CoreInv, LockDiscipline, locks
<1>3. \A l \in Loaders : (ltask'[l] # NoTask) <=> (lpc'[l] \in {"loading", "loaded"})
  BY DEF CoreInv, ThreadsAtWork
<1>4. LockDiscipline'
  BY <1>1, <1>2, Distinct DEF CoreInv, LockDiscipline, At, locks, threadVars
<1>5. ThreadsAtWork'
  BY <1>1, <1>3, Distinct DEF CoreInv, ThreadsAtWork, threadVars
<1>. QED  BY <1>4, <1>5

\* Remove takes a task out of the queue it is in, and leaves the other queue.
LEMMA RemoveFacts ==
  ASSUME CoreInv, NEW k \in Tasks \cup {NoTask}
  PROVE  /\ Remove("fg", fgQueue, k) \in Seq(Tasks)
         /\ Once(Remove("fg", fgQueue, k))
         /\ \A x \in Tasks : In(Remove("fg", fgQueue, k), x) <=> (In(fgQueue, x) /\ x # k)
         /\ Remove("bg", bgQueue, k) \in Seq(Tasks)
         /\ Once(Remove("bg", bgQueue, k))
         /\ \A x \in Tasks : In(Remove("bg", bgQueue, k), x) <=> (In(bgQueue, x) /\ x # k)
<1>1. /\ fgQueue \in Seq(Tasks) /\ bgQueue \in Seq(Tasks) /\ Once(fgQueue) /\ Once(bgQueue)
      /\ \A x \in Tasks : (parent[x] = "fg") <=> In(fgQueue, x)
      /\ \A x \in Tasks : (parent[x] = "bg") <=> In(bgQueue, x)
  BY DEF CoreInv, TypeOK, QueueIntegrity
<1>2. /\ Remove("fg", fgQueue, k) \in Seq(Tasks)
      /\ Remove("bg", bgQueue, k) \in Seq(Tasks)
  BY <1>1, RemoveSeq
<1>3. /\ Once(Remove("fg", fgQueue, k))
      /\ \A x \in Tasks : In(Remove("fg", fgQueue, k), x) <=> (In(fgQueue, x) /\ x # k)
  <2>1. CASE k # NoTask /\ parent[k] = "fg"
    BY <2>1, <1>1, WithoutMembers DEF Remove
  <2>2. CASE ~(k # NoTask /\ parent[k] = "fg")
    BY <2>2, <1>1, DataAssumption DEF Remove
  <2>. QED  BY <2>1, <2>2
<1>4. /\ Once(Remove("bg", bgQueue, k))
      /\ \A x \in Tasks : In(Remove("bg", bgQueue, k), x) <=> (In(bgQueue, x) /\ x # k)
  <2>1. CASE k # NoTask /\ parent[k] = "bg"
    BY <2>1, <1>1, WithoutMembers DEF Remove
  <2>2. CASE ~(k # NoTask /\ parent[k] = "bg")
    BY <2>2, <1>1, DataAssumption DEF Remove
  <2>. QED  BY <2>1, <2>2
<1>. QED  BY <1>2, <1>3, <1>4

\* Destroy puts exactly the given tasks on the free list, blank.
LEMMA DestroyedFacts ==
  ASSUME CoreInv, NEW K, Destroyed(K)
  PROVE  /\ parent' \in [Tasks -> Lists] /\ task' \in [Tasks -> TaskRecords]
         /\ \A k \in Tasks : k \in K => parent'[k] = "freeList" /\ task'[k] = BlankTask
         /\ \A k \in Tasks : k \notin K => parent'[k] = parent[k] /\ task'[k] = task[k]
<1>1. BlankTask \in TaskRecords
  BY DEF BlankTask, TaskRecords, Types, Priorities, States
<1>. QED
  BY <1>1 DEF Destroyed, CoreInv, TypeOK, Lists

\* Deinit of a task takes it, and no other, off its texture.
LEMMA UnhookFacts ==
  ASSUME CoreInv, NEW K, K \subseteq Tasks
  PROVE  /\ Unhook(normalTask, "TASK_LOAD", K) \in [Textures -> Tasks \cup {NoTask}]
         /\ \A t \in Textures : Unhook(normalTask, "TASK_LOAD", K)[t] =
                                  IF normalTask[t] \in K THEN NoTask ELSE normalTask[t]
         /\ Unhook(thumbTask, "TASK_THUMBNAIL", K) \in [Textures -> Tasks \cup {NoTask}]
         /\ \A t \in Textures : Unhook(thumbTask, "TASK_THUMBNAIL", K)[t] =
                                  IF thumbTask[t] \in K THEN NoTask ELSE thumbTask[t]
BY DEF CoreInv, TypeOK, TaskPointers, Unhook

\* Destroying tasks that no loader holds.
LEMMA DestroyStep ==
  ASSUME CoreInv, NEW K, K \subseteq Tasks, \A k \in K : parent[k] # "none",
         Destroyed(K), locked' = locked \ K, UNCHANGED loaderVars,
         \A t \in Textures :
            normalTask'[t] = IF normalTask[t] \in K THEN NoTask ELSE normalTask[t],
         \A t \in Textures :
            thumbTask'[t] = IF thumbTask[t] \in K THEN NoTask ELSE thumbTask[t]
  PROVE  NoTaskLost' /\ TaskPointers' /\ SurfacesUnlocked' /\ StageOfPlace'
<1>1. /\ \A k \in Tasks : k \in K => parent'[k] = "freeList" /\ task'[k] = BlankTask
      /\ \A k \in Tasks : k \notin K => parent'[k] = parent[k] /\ task'[k] = task[k]
  BY DestroyedFacts
<1>2. \A k \in K, l \in Loaders : ltask[l] # k
  BY DEF CoreInv, NoTaskLost
<1>3. /\ BlankTask.texture = NoTexture /\ BlankTask.state = "NONE"
  BY DEF BlankTask
<1>4. NoTaskLost'
  BY <1>1, <1>2, <1>3 DEF CoreInv, NoTaskLost, Live, loaderVars
<1>5. TaskPointers'
  BY <1>1, <1>3, DataAssumption DEF CoreInv, TaskPointers
<1>6. SurfacesUnlocked'
  BY <1>1, <1>3 DEF CoreInv, SurfacesUnlocked
<1>7. StageOfPlace'
  BY <1>1, <1>2 DEF CoreInv, StageOfPlace, loaderVars
<1>. QED  BY <1>4, <1>5, <1>6, <1>7

\* A task that Create may return has no ties.
LEMMA CreatableFacts ==
  ASSUME CoreInv, NEW k \in Creatable
  PROVE  /\ k \in Tasks /\ parent[k] \in {"heap", "freeList"}
         /\ task[k] = BlankTask /\ k \notin locked
         /\ ~In(fgQueue, k) /\ ~In(bgQueue, k)
         /\ \A l \in Loaders : ltask[l] # k
         /\ \A t \in Textures : normalTask[t] # k /\ thumbTask[t] # k
<1>1. k \in Tasks /\ parent[k] \in {"heap", "freeList"}
  BY DEF Creatable
<1>2. task[k] = BlankTask
  BY <1>1 DEF CoreInv, StageOfPlace
<1>3. k \notin locked
  BY <1>1, <1>2 DEF CoreInv, SurfacesUnlocked, BlankTask
<1>4. ~In(fgQueue, k) /\ ~In(bgQueue, k)
  BY <1>1 DEF CoreInv, QueueIntegrity
<1>5. \A l \in Loaders : ltask[l] # k
  BY <1>1 DEF CoreInv, NoTaskLost
<1>6. \A t \in Textures : normalTask[t] # k /\ thumbTask[t] # k
  BY <1>1, <1>2, DataAssumption DEF CoreInv, TaskPointers, BlankTask
<1>. QED  BY <1>1, <1>2, <1>3, <1>4, <1>5, <1>6

-----------------------------------------------------------------------------
(* Begin_Load_And_Queue, of a new task or of one that Update has just taken off *)
(* the foreground queue.                                                    *)

\* Begin_Load_And_Queue preserves the invariant whether or not the file is there.
LEMMA BeginLoadStep ==
  ASSUME CoreInv, NEW k \in Tasks, NEW rec \in TaskRecords, BeginLoadAndQueue(k, rec),
         rec.texture \in Textures, rec.type = "TASK_LOAD", rec.priority = "BACKGROUND",
         ~initialized[rec.texture], normalTask[rec.texture] \in {NoTask, k},
         \A t \in Textures : t # rec.texture => normalTask[t] # k,
         \A t \in Textures : thumbTask[t] # k,
         parent[k] # "none", parent[k] # "bg", k \notin locked,
         fgQueue' \in Seq(Tasks), Once(fgQueue'),
         \A x \in Tasks : In(fgQueue', x) <=> (In(fgQueue, x) /\ x # k),
         UNCHANGED <<thumbTask, ltask>>
  PROVE  /\ bgQueue' \in Seq(Tasks) /\ parent' \in [Tasks -> Lists]
         /\ task' \in [Tasks -> TaskRecords] /\ locked' \subseteq Tasks
         /\ normalTask' \in [Textures -> Tasks \cup {NoTask}]
         /\ initialized' \in [Textures -> BOOLEAN] /\ surface' \in [Textures -> Surfaces]
         /\ lpc' \in [Loaders -> LoaderPCs] /\ handle' \in Loaders \cup {NoThread}
         /\ \A l \in Loaders : lpc'[l] = lpc[l] \/ (lpc[l] = "dead" /\ lpc'[l] = "created")
         /\ QueueIntegrity' /\ NoTaskLost' /\ TaskPointers' /\ SurfacesUnlocked'
         /\ StageOfPlace' /\ PendingUninitialized'
<1>. DEFINE t == rec.texture
<1>1. /\ lpc' \in [Loaders -> LoaderPCs] /\ handle' \in Loaders \cup {NoThread}
      /\ \A l \in Loaders : lpc'[l] = lpc[l] \/ (lpc[l] = "dead" /\ lpc'[l] = "created")
  BY ExecuteFacts DEF BeginLoadAndQueue, CoreInv
<1>2. \A l \in Loaders, j \in Tasks : ltask[l] = j => lpc'[l] = lpc[l]
  BY <1>1, DataAssumption DEF CoreInv, ThreadsAtWork
<1>3. \A l \in Loaders : ltask[l] # k
  BY DEF CoreInv, NoTaskLost
<1>4. ~In(bgQueue, k) /\ Once(bgQueue) /\ bgQueue \in Seq(Tasks)
  BY DEF CoreInv, QueueIntegrity, TypeOK
<1>5. CASE /\ task' = [task EXCEPT ![k] = [rec EXCEPT !.state = "LOAD_BEGUN"]]
           /\ locked' = locked \cup {k}
           /\ parent' = [parent EXCEPT ![k] = "bg"]
           /\ bgQueue' = <<k>> \o bgQueue
           /\ normalTask' = [normalTask EXCEPT ![t] = k]
           /\ UNCHANGED <<initialized, surface>>
  <2>1. /\ task' \in [Tasks -> TaskRecords]
        /\ \A j \in Tasks : j # k => task'[j] = task[j]
        /\ task'[k].texture = t /\ task'[k].type = "TASK_LOAD"
        /\ task'[k].priority = "BACKGROUND" /\ task'[k].state = "LOAD_BEGUN"
    BY <1>5 DEF CoreInv, TypeOK, TaskRecords, States
  <2>2. /\ parent' \in [Tasks -> Lists] /\ parent'[k] = "bg"
        /\ \A j \in Tasks : j # k => parent'[j] = parent[j]
    BY <1>5 DEF CoreInv, TypeOK, Lists
  <2>3. /\ normalTask' \in [Textures -> Tasks \cup {NoTask}] /\ normalTask'[t] = k
        /\ \A u \in Textures : u # t => normalTask'[u] = normalTask[u]
    BY <1>5 DEF CoreInv, TypeOK
  <2>4. /\ bgQueue' \in Seq(Tasks) /\ Once(bgQueue')
        /\ \A x : In(bgQueue', x) <=> (In(bgQueue, x) \/ x = k)
    BY <1>4, <1>5, ConsMembers
  <2>5. QueueIntegrity'
    <3>1. \A j \in Tasks : (parent'[j] = "fg") <=> In(fgQueue', j)
      BY <2>2 DEF CoreInv, QueueIntegrity
    <3>2. \A j \in Tasks : (parent'[j] = "bg") <=> In(bgQueue', j)
      BY <2>2, <2>4 DEF CoreInv, QueueIntegrity
    <3>. QED  BY <3>1, <3>2, <2>4, QueueIntegrityNext
  <2>6. NoTaskLost'
    BY <1>3, <2>1, <2>2, DataAssumption DEF CoreInv, NoTaskLost, Live
  <2>7. TaskPointers'
    <3>1. \A u \in Textures, j \in Tasks :
             (normalTask'[u] = j) <=> (task'[j].texture = u /\ task'[j].type = "TASK_LOAD")
      BY <2>1, <2>3, DataAssumption DEF CoreInv, TaskPointers
    <3>2. \A u \in Textures, j \in Tasks :
             (thumbTask[u] = j) <=> (task'[j].texture = u /\ task'[j].type = "TASK_THUMBNAIL")
      BY <2>1 DEF CoreInv, TaskPointers
    <3>. QED  BY <3>1, <3>2 DEF TaskPointers
  <2>8. SurfacesUnlocked'
    BY <1>5, <2>1 DEF CoreInv, SurfacesUnlocked
  <2>9. StageOfPlace'
    BY <1>2, <1>3, <2>1, <2>2 DEF CoreInv, StageOfPlace
  <2>10. PendingUninitialized'
    BY <1>5, <2>3 DEF CoreInv, PendingUninitialized
  <2>11. /\ locked' \subseteq Tasks
         /\ initialized' \in [Textures -> BOOLEAN] /\ surface' \in [Textures -> Surfaces]
    BY <1>5 DEF CoreInv, TypeOK
  <2>. QED  BY <1>1, <2>1, <2>2, <2>3, <2>4, <2>5, <2>6, <2>7, <2>8, <2>9, <2>10, <2>11
<1>6. CASE /\ Applied(t)
           /\ task' = [task EXCEPT ![k] = BlankTask]
           /\ parent' = [parent EXCEPT ![k] = "freeList"]
           /\ normalTask' = [normalTask EXCEPT ![t] = NoTask]
           /\ UNCHANGED <<locked, bgQueue>>
  <2>1. /\ task' \in [Tasks -> TaskRecords] /\ task'[k] = BlankTask
        /\ \A j \in Tasks : j # k => task'[j] = task[j]
    BY <1>6 DEF CoreInv, TypeOK, TaskRecords, BlankTask, Types, Priorities, States
  <2>2. /\ parent' \in [Tasks -> Lists] /\ parent'[k] = "freeList"
        /\ \A j \in Tasks : j # k => parent'[j] = parent[j]
    BY <1>6 DEF CoreInv, TypeOK, Lists
  <2>3. /\ normalTask' \in [Textures -> Tasks \cup {NoTask}] /\ normalTask'[t] = NoTask
        /\ \A u \in Textures : u # t => normalTask'[u] = normalTask[u]
    BY <1>6 DEF CoreInv, TypeOK
  <2>4. /\ initialized' \in [Textures -> BOOLEAN] /\ surface' \in [Textures -> Surfaces]
        /\ \A u \in Textures : u # t => initialized'[u] = initialized[u]
    BY <1>6 DEF CoreInv, TypeOK, Applied, Surfaces
  <2>5. BlankTask.texture = NoTexture /\ BlankTask.state = "NONE"
    BY DEF BlankTask
  <2>6. QueueIntegrity'
    <3>1. \A j \in Tasks : (parent'[j] = "fg") <=> In(fgQueue', j)
      BY <2>2 DEF CoreInv, QueueIntegrity
    <3>2. \A j \in Tasks : (parent'[j] = "bg") <=> In(bgQueue', j)
      BY <1>4, <1>6, <2>2 DEF CoreInv, QueueIntegrity
    <3>3. Once(bgQueue')  BY <1>4, <1>6
    <3>. QED  BY <3>1, <3>2, <3>3, QueueIntegrityNext
  <2>7. NoTaskLost'
    BY <1>3, <2>1, <2>2, <2>5 DEF CoreInv, NoTaskLost, Live
  <2>8. TaskPointers'
    <3>1. \A u \in Textures, j \in Tasks :
             (normalTask'[u] = j) <=> (task'[j].texture = u /\ task'[j].type = "TASK_LOAD")
      BY <2>1, <2>3, <2>5, DataAssumption DEF CoreInv, TaskPointers
    <3>2. \A u \in Textures, j \in Tasks :
             (thumbTask[u] = j) <=> (task'[j].texture = u /\ task'[j].type = "TASK_THUMBNAIL")
      BY <2>1, <2>5, DataAssumption DEF CoreInv, TaskPointers
    <3>. QED  BY <3>1, <3>2 DEF TaskPointers
  <2>9. SurfacesUnlocked'
    BY <1>6, <2>1, <2>5 DEF CoreInv, SurfacesUnlocked
  <2>10. StageOfPlace'
    BY <1>2, <1>3, <2>1, <2>2 DEF CoreInv, StageOfPlace
  <2>11. PendingUninitialized'
    BY <2>3, <2>4 DEF CoreInv, PendingUninitialized
  <2>12. locked' \subseteq Tasks /\ bgQueue' \in Seq(Tasks)
    BY <1>4, <1>6 DEF CoreInv, TypeOK
  <2>. QED  BY <1>1, <2>1, <2>2, <2>3, <2>4, <2>6, <2>7, <2>8, <2>9, <2>10, <2>11, <2>12
<1>. QED  BY <1>5, <1>6 DEF BeginLoadAndQueue

\* A new task that joins the foreground queue.
LEMMA CreateStep ==
  ASSUME CoreInv, NEW k \in Creatable, NEW rec \in TaskRecords, CreateAndQueue(k, rec),
         rec.texture \in Textures, rec.state = "NONE",
         \/ /\ rec.type = "TASK_LOAD" /\ normalTask[rec.texture] = NoTask
            /\ normalTask' = [normalTask EXCEPT ![rec.texture] = k] /\ thumbTask' = thumbTask
         \/ /\ rec.type = "TASK_THUMBNAIL" /\ thumbTask[rec.texture] = NoTask
            /\ thumbTask' = [thumbTask EXCEPT ![rec.texture] = k] /\ normalTask' = normalTask,
         UNCHANGED <<bgQueue, locked, loaderVars>>
  PROVE  /\ fgQueue' \in Seq(Tasks) /\ parent' \in [Tasks -> Lists]
         /\ task' \in [Tasks -> TaskRecords]
         /\ normalTask' \in [Textures -> Tasks \cup {NoTask}]
         /\ thumbTask' \in [Textures -> Tasks \cup {NoTask}]
         /\ QueueIntegrity' /\ NoTaskLost' /\ TaskPointers' /\ SurfacesUnlocked'
         /\ StageOfPlace'
<1>1. /\ k \in Tasks /\ parent[k] \in {"heap", "freeList"}
      /\ task[k] = BlankTask /\ k \notin locked
      /\ ~In(fgQueue, k) /\ ~In(bgQueue, k)
      /\ \A l \in Loaders : ltask[l] # k
      /\ \A t \in Textures : normalTask[t] # k /\ thumbTask[t] # k
  BY CreatableFacts
<1>2. /\ task' \in [Tasks -> TaskRecords] /\ task'[k] = rec
      /\ \A j \in Tasks : j # k => task'[j] = task[j]
      /\ parent' \in [Tasks -> Lists] /\ parent'[k] = "fg"
      /\ \A j \in Tasks : j # k => parent'[j] = parent[j]
  BY <1>1 DEF CreateAndQueue, CoreInv, TypeOK, Lists
<1>3. /\ fgQueue' \in Seq(Tasks) /\ Once(fgQueue')
      /\ \A x : In(fgQueue', x) <=> (In(fgQueue, x) \/ x = k)
  BY <1>1, AppendMembers DEF CreateAndQueue, CoreInv, TypeOK, QueueIntegrity
<1>4. QueueIntegrity'
  <2>1. \A j \in Tasks : (parent'[j] = "fg") <=> In(fgQueue', j)
    BY <1>2, <1>3 DEF CoreInv, QueueIntegrity
  <2>2. \A j \in Tasks : (parent'[j] = "bg") <=> In(bgQueue', j)
    BY <1>1, <1>2 DEF CoreInv, QueueIntegrity
  <2>3. Once(bgQueue')  BY DEF CoreInv, QueueIntegrity
  <2>. QED  BY <2>1, <2>2, <2>3, <1>3, QueueIntegrityNext
<1>5. NoTaskLost'
  BY <1>1, <1>2, DataAssumption DEF CoreInv, NoTaskLost, Live, loaderVars
<1>6. /\ normalTask' \in [Textures -> Tasks \cup {NoTask}]
      /\ thumbTask' \in [Textures -> Tasks \cup {NoTask}]
  BY <1>1 DEF CoreInv, TypeOK
<1>7. TaskPointers'
  <2>1. BlankTask.texture = NoTexture  BY DEF BlankTask
  <2>2. CASE /\ rec.type = "TASK_LOAD" /\ normalTask[rec.texture] = NoTask
             /\ normalTask' = [normalTask EXCEPT ![rec.texture] = k] /\ thumbTask' = thumbTask
    <3>1. /\ normalTask'[rec.texture] = k
          /\ \A u \in Textures : u # rec.texture => normalTask'[u] = normalTask[u]
      BY <2>2 DEF CoreInv, TypeOK
    <3>. QED
      BY <1>1, <1>2, <2>1, <2>2, <3>1, DataAssumption DEF CoreInv, TaskPointers
  <2>3. CASE /\ rec.type = "TASK_THUMBNAIL" /\ thumbTask[rec.texture] = NoTask
             /\ thumbTask' = [thumbTask EXCEPT ![rec.texture] = k] /\ normalTask' = normalTask
    <3>1. /\ thumbTask'[rec.texture] = k
          /\ \A u \in Textures : u # rec.texture => thumbTask'[u] = thumbTask[u]
      BY <2>3 DEF CoreInv, TypeOK
    <3>. QED
      BY <1>1, <1>2, <2>1, <2>3, <3>1, DataAssumption DEF CoreInv, TaskPointers
  <2>. QED  BY <2>2, <2>3
<1>8. SurfacesUnlocked'
  BY <1>1, <1>2 DEF CoreInv, SurfacesUnlocked
<1>9. StageOfPlace'
  BY <1>1, <1>2 DEF CoreInv, StageOfPlace, loaderVars
<1>. QED  BY <1>2, <1>3, <1>4, <1>5, <1>6, <1>7, <1>8, <1>9

-----------------------------------------------------------------------------
(* The steps of Request_Thumbnail and Request_Background_Loading.           *)

\* A thumbnail task is in the foreground queue and has no surfaces.
LEMMA ThumbnailPlace ==
  ASSUME CoreInv, NEW t \in Textures, thumbTask[t] # NoTask
  PROVE  /\ thumbTask[t] \in Tasks /\ parent[thumbTask[t]] = "fg"
         /\ task[thumbTask[t]].texture = t /\ task[thumbTask[t]].type = "TASK_THUMBNAIL"
         /\ thumbTask[t] \notin locked
<1>. DEFINE k == thumbTask[t]
<1>1. k \in Tasks /\ task[k].texture = t /\ task[k].type = "TASK_THUMBNAIL"
  BY DEF CoreInv, TypeOK, TaskPointers
<1>2. parent[k] \in {"fg", "bg", "none"}
  BY <1>1, DataAssumption DEF CoreInv, NoTaskLost, Live
<1>3. parent[k] = "fg"
  BY <1>1, <1>2 DEF CoreInv, NoTaskLost, StageOfPlace
<1>4. k \notin locked
  BY <1>1, <1>3 DEF CoreInv, StageOfPlace, SurfacesUnlocked
<1>. QED  BY <1>1, <1>3, <1>4

\* Remove and Destroy of a thumbnail task, if there is one.
LEMMA DropThumbnail ==
  ASSUME CoreInv, NEW t \in Textures, NEW K, K = {thumbTask[t]} \ {NoTask},
         fgQueue' = Remove("fg", fgQueue, thumbTask[t]), Destroyed(K),
         thumbTask' = Unhook(thumbTask, "TASK_THUMBNAIL", K),
         UNCHANGED <<bgQueue, locked, normalTask, loaderVars>>
  PROVE  /\ fgQueue' \in Seq(Tasks) /\ parent' \in [Tasks -> Lists]
         /\ task' \in [Tasks -> TaskRecords]
         /\ thumbTask' \in [Textures -> Tasks \cup {NoTask}] /\ thumbTask'[t] = NoTask
         /\ QueueIntegrity' /\ NoTaskLost' /\ TaskPointers' /\ SurfacesUnlocked'
         /\ StageOfPlace'
<1>1. K \subseteq Tasks /\ thumbTask[t] \in Tasks \cup {NoTask}
  BY DEF CoreInv, TypeOK
<1>2. \A k \in K : parent[k] = "fg" /\ k \notin locked
  BY ThumbnailPlace
<1>3. /\ parent' \in [Tasks -> Lists] /\ task' \in [Tasks -> TaskRecords]
      /\ \A k \in Tasks : k \in K => parent'[k] = "freeList"
      /\ \A k \in Tasks : k \notin K => parent'[k] = parent[k]
  BY DestroyedFacts
<1>4. /\ thumbTask' \in [Textures -> Tasks \cup {NoTask}]
      /\ \A u \in Textures :
            thumbTask'[u] = IF thumbTask[u] \in K THEN NoTask ELSE thumbTask[u]
  BY <1>1, UnhookFacts
<1>5. thumbTask'[t] = NoTask
  BY <1>4
<1>6. \A u \in Textures :
         normalTask'[u] = IF normalTask[u] \in K THEN NoTask ELSE normalTask[u]
  <2>1. \A k \in K : task[k].type = "TASK_THUMBNAIL"  BY ThumbnailPlace
  <2>2. \A u \in Textures : normalTask[u] \notin K
    BY <1>1, <2>1 DEF CoreInv, TaskPointers
  <2>. QED  BY <2>2
<1>7. NoTaskLost' /\ TaskPointers' /\ SurfacesUnlocked' /\ StageOfPlace'
  <2>1. locked' = locked \ K  BY <1>2
  <2>. QED  BY <1>1, <1>2, <1>4, <1>6, <2>1, DestroyStep DEF loaderVars
<1>8. /\ fgQueue' \in Seq(Tasks) /\ Once(fgQueue')
      /\ \A x \in Tasks : In(fgQueue', x) <=> (In(fgQueue, x) /\ x # thumbTask[t])
  BY <1>1, RemoveFacts
<1>9. QueueIntegrity'
  <2>1. \A j \in Tasks : (parent'[j] = "fg") <=> In(fgQueue', j)
    BY <1>3, <1>8, DataAssumption DEF CoreInv, QueueIntegrity
  <2>2. \A j \in Tasks : (parent'[j] = "bg") <=> In(bgQueue', j)
    BY <1>2, <1>3 DEF CoreInv, QueueIntegrity
  <2>3. Once(bgQueue')  BY DEF CoreInv, QueueIntegrity
  <2>. QED  BY <2>1, <2>2, <2>3, <1>8, QueueIntegrityNext
<1>. QED  BY <1>3, <1>4, <1>5, <1>7, <1>8, <1>9

\* Request_Thumbnail on the main thread.
LEMMA ThumbnailNowStep ==
  ASSUME CoreInv, ThumbnailNow
  PROVE  CoreInv'
<1>. DEFINE t == arg[Main]
            K == {thumbTask[t]} \ {NoTask}
<1>1. /\ pc[Main] = "init_thumbnail" /\ fgLock = NoThread
      /\ surface' = [surface EXCEPT ![t] = "thumbnail"]
      /\ fgQueue' = Remove("fg", fgQueue, thumbTask[t])
      /\ Destroyed(K)
      /\ thumbTask' = Unhook(thumbTask, "TASK_THUMBNAIL", K)
      /\ Goto(Main, "init_clear")
      /\ UNCHANGED <<locks, bgQueue, locked, normalTask, initialized, arg, loaderVars,
                     lifeVars, suspended>>
  BY DEF ThumbnailNow, At, IsFree
<1>2. t \in Textures
  BY <1>1, Distinct DEF CoreInv, ThreadsAtWork, RequestPCs
<1>. HIDE DEF t
<1>3. /\ fgQueue' \in Seq(Tasks) /\ parent' \in [Tasks -> Lists]
      /\ task' \in [Tasks -> TaskRecords]
      /\ thumbTask' \in [Textures -> Tasks \cup {NoTask}]
      /\ QueueIntegrity' /\ NoTaskLost' /\ TaskPointers' /\ SurfacesUnlocked'
      /\ StageOfPlace'
  BY <1>1, <1>2, DropThumbnail
<1>4. /\ pc' \in [Threads -> PCs] /\ pc'[Main] = "init_clear"
      /\ \A o \in Threads : o # Main => pc'[o] = pc[o]
  BY <1>1, GotoFacts, Distinct DEF CoreInv, PCs
<1>5. surface' \in [Textures -> Surfaces]
  BY <1>1 DEF CoreInv, TypeOK, Surfaces
<1>6. LockDiscipline' /\ ThreadsAtWork'
  BY <1>1, <1>4, Distinct, RequestEnds DEF RequestPCs, locks, loaderVars
<1>7. TypeOK'
  BY <1>1, <1>3, <1>4, <1>5 DEF CoreInv, TypeOK, locks, loaderVars, lifeVars
<1>. QED  BY <1>1, <1>3, <1>6, <1>7, PendingFrame DEF CoreInv

\* Request_Thumbnail on another thread.
LEMMA ThumbnailLaterStep ==
  ASSUME CoreInv, NEW th \in Threads, ThumbnailLater(th)
  PROVE  CoreInv'
<1>. DEFINE t == arg[th]
<1>1. PICK k \in Creatable :
        /\ pc[th] = "init_thumbnail" /\ fgLock = NoThread /\ thumbTask[t] = NoTask
        /\ CreateAndQueue(k, NewTask(t, "TASK_THUMBNAIL", "BACKGROUND"))
        /\ thumbTask' = [thumbTask EXCEPT ![t] = k]
        /\ Goto(th, "init_clear")
        /\ UNCHANGED <<locks, bgQueue, locked, normalTask, initialized, surface, arg,
                       loaderVars, lifeVars, suspended>>
  BY DEF ThumbnailLater, At, IsFree
<1>2. t \in Textures
  BY <1>1 DEF CoreInv, ThreadsAtWork, RequestPCs
<1>. HIDE DEF t
<1>. DEFINE rec == NewTask(t, "TASK_THUMBNAIL", "BACKGROUND")
<1>3. /\ rec \in TaskRecords /\ rec.texture = t /\ rec.type = "TASK_THUMBNAIL"
      /\ rec.state = "NONE"
  BY <1>2 DEF NewTask, TaskRecords, Types, Priorities, States
<1>. HIDE DEF rec
<1>4. /\ fgQueue' \in Seq(Tasks) /\ parent' \in [Tasks -> Lists]
      /\ task' \in [Tasks -> TaskRecords]
      /\ thumbTask' \in [Textures -> Tasks \cup {NoTask}]
      /\ QueueIntegrity' /\ NoTaskLost' /\ TaskPointers' /\ SurfacesUnlocked'
      /\ StageOfPlace'
  <2>1. CreateAndQueue(k, rec)  BY <1>1 DEF rec
  <2>. QED  BY <1>1, <1>2, <1>3, <2>1, CreateStep
<1>5. /\ pc' \in [Threads -> PCs] /\ pc'[th] = "init_clear"
      /\ \A o \in Threads : o # th => pc'[o] = pc[o]
  BY <1>1, GotoFacts DEF CoreInv, PCs
<1>6. LockDiscipline' /\ ThreadsAtWork'
  BY <1>1, <1>5, RequestEnds DEF RequestPCs, locks, loaderVars
<1>7. TypeOK'
  BY <1>1, <1>4, <1>5 DEF CoreInv, TypeOK, locks, loaderVars, lifeVars
<1>. QED  BY <1>1, <1>4, <1>6, <1>7, PendingFrame DEF CoreInv

\* Request_Background_Loading on another thread.
LEMMA BackgroundQueueStep ==
  ASSUME CoreInv, NEW th \in Threads, BackgroundQueue(th)
  PROVE  CoreInv'
<1>. DEFINE t == arg[th]
<1>1. PICK k \in Creatable :
        /\ pc[th] = "init_background" /\ fgLock = NoThread
        /\ ~initialized[t] /\ normalTask[t] = NoTask
        /\ CreateAndQueue(k, NewTask(t, "TASK_LOAD", "BACKGROUND"))
        /\ normalTask' = [normalTask EXCEPT ![t] = k]
        /\ Leave(th)
        /\ UNCHANGED <<locks, bgQueue, locked, thumbTask, initialized, surface,
                       loaderVars, lifeVars, suspended>>
  BY DEF BackgroundQueue, At, IsFree, NeedsTask
<1>2. t \in Textures
  BY <1>1 DEF CoreInv, ThreadsAtWork, RequestPCs
<1>. HIDE DEF t
<1>. DEFINE rec == NewTask(t, "TASK_LOAD", "BACKGROUND")
<1>3. /\ rec \in TaskRecords /\ rec.texture = t /\ rec.type = "TASK_LOAD"
      /\ rec.state = "NONE"
  BY <1>2 DEF NewTask, TaskRecords, Types, Priorities, States
<1>. HIDE DEF rec
<1>4. /\ fgQueue' \in Seq(Tasks) /\ parent' \in [Tasks -> Lists]
      /\ task' \in [Tasks -> TaskRecords]
      /\ normalTask' \in [Textures -> Tasks \cup {NoTask}]
      /\ QueueIntegrity' /\ NoTaskLost' /\ TaskPointers' /\ SurfacesUnlocked'
      /\ StageOfPlace'
  <2>1. CreateAndQueue(k, rec)  BY <1>1 DEF rec
  <2>. QED  BY <1>1, <1>2, <1>3, <2>1, CreateStep
<1>5. /\ pc' \in [Threads -> PCs] /\ arg' \in [Threads -> Textures \cup {NoTexture}]
      /\ pc'[th] = "idle"
      /\ \A o \in Threads : o # th => pc'[o] = pc[o] /\ arg'[o] = arg[o]
  BY <1>1, LeaveFacts DEF CoreInv
<1>6. LockDiscipline' /\ ThreadsAtWork'
  BY <1>1, <1>5, RequestEnds DEF RequestPCs, locks, loaderVars
<1>7. PendingUninitialized'
  BY <1>1, <1>2 DEF CoreInv, TypeOK, PendingUninitialized
<1>8. TypeOK'
  BY <1>1, <1>4, <1>5 DEF CoreInv, TypeOK, locks, loaderVars, lifeVars
<1>. QED  BY <1>4, <1>6, <1>7, <1>8 DEF CoreInv

\* Request_Background_Loading on the main thread.
LEMMA BackgroundBeginStep ==
  ASSUME CoreInv, BackgroundBegin
  PROVE  CoreInv'
<1>. DEFINE t == arg[Main]
<1>1. PICK k \in Creatable :
        /\ pc[Main] = "init_background" /\ fgLock = NoThread
        /\ ~initialized[t] /\ normalTask[t] = NoTask
        /\ BeginLoadAndQueue(k, NewTask(t, "TASK_LOAD", "BACKGROUND"))
        /\ Leave(Main)
        /\ UNCHANGED <<locks, fgQueue, thumbTask, ltask, isRunning, suspended>>
  BY DEF BackgroundBegin, At, IsFree, NeedsTask
<1>2. t \in Textures
  BY <1>1, Distinct DEF CoreInv, ThreadsAtWork, RequestPCs
<1>. HIDE DEF t
<1>. DEFINE rec == NewTask(t, "TASK_LOAD", "BACKGROUND")
<1>3. /\ rec \in TaskRecords /\ rec.texture = t /\ rec.type = "TASK_LOAD"
      /\ rec.priority = "BACKGROUND"
  BY <1>2 DEF NewTask, TaskRecords, Types, Priorities, States
<1>4. /\ k \in Tasks /\ parent[k] \in {"heap", "freeList"} /\ k \notin locked
      /\ ~In(fgQueue, k)
      /\ \A u \in Textures : normalTask[u] # k /\ thumbTask[u] # k
  BY CreatableFacts
<1>5. /\ fgQueue' \in Seq(Tasks) /\ Once(fgQueue')
      /\ \A x \in Tasks : In(fgQueue', x) <=> (In(fgQueue, x) /\ x # k)
  BY <1>1, <1>4 DEF CoreInv, TypeOK, QueueIntegrity
<1>6. BeginLoadAndQueue(k, rec)
  BY <1>1
<1>. HIDE DEF rec
<1>7. /\ bgQueue' \in Seq(Tasks) /\ parent' \in [Tasks -> Lists]
      /\ task' \in [Tasks -> TaskRecords] /\ locked' \subseteq Tasks
      /\ normalTask' \in [Textures -> Tasks \cup {NoTask}]
      /\ initialized' \in [Textures -> BOOLEAN] /\ surface' \in [Textures -> Surfaces]
      /\ lpc' \in [Loaders -> LoaderPCs] /\ handle' \in Loaders \cup {NoThread}
      /\ \A l \in Loaders : lpc'[l] = lpc[l] \/ (lpc[l] = "dead" /\ lpc'[l] = "created")
      /\ QueueIntegrity' /\ NoTaskLost' /\ TaskPointers' /\ SurfacesUnlocked'
      /\ StageOfPlace' /\ PendingUninitialized'
  BY <1>1, <1>2, <1>3, <1>4, <1>5, <1>6, BeginLoadStep
<1>8. /\ pc' \in [Threads -> PCs] /\ arg' \in [Threads -> Textures \cup {NoTexture}]
      /\ pc'[Main] = "idle"
      /\ \A o \in Threads : o # Main => pc'[o] = pc[o] /\ arg'[o] = arg[o]
  BY <1>1, LeaveFacts, Distinct DEF CoreInv
<1>9. LockDiscipline' /\ ThreadsAtWork'
  BY <1>1, <1>7, <1>8, Distinct, RequestEnds DEF RequestPCs, locks
<1>10. TypeOK'
  BY <1>1, <1>5, <1>7, <1>8 DEF CoreInv, TypeOK, locks
<1>. QED  BY <1>7, <1>9, <1>10 DEF CoreInv

-----------------------------------------------------------------------------
(* The steps of Request_Foreground_Loading.                                *)

\* Finish_Load and the destruction of the task leave its texture initialized or as
\* it was, and no surface locked.
LEMMA FinishedFacts ==
  ASSUME CoreInv, NEW k \in Tasks, task[k].texture \in Textures, Finished(k)
  PROVE  /\ locked' = locked \ {k}
         /\ initialized' \in [Textures -> BOOLEAN] /\ surface' \in [Textures -> Surfaces]
         /\ \A u \in Textures : u # task[k].texture => initialized'[u] = initialized[u]
<1>1. CASE task[k].state \in {"NONE", "LOAD_BEGUN", "LOADED"}
  BY <1>1 DEF Finished, Applied, Unlock, CoreInv, TypeOK, Surfaces
<1>2. CASE task[k].state \notin {"NONE", "LOAD_BEGUN", "LOADED"}
  BY <1>2 DEF Finished, CoreInv, TypeOK, SurfacesUnlocked
<1>. QED  BY <1>1, <1>2

\* Request_Foreground_Loading on the main thread, without a load task.
LEMMA ForegroundNowStep ==
  ASSUME CoreInv, ForegroundNow
  PROVE  CoreInv'
<1>. DEFINE t == arg[Main]
            K == {thumbTask[t]} \ {NoTask}
<1>1. /\ pc[Main] \in {"init_foreground", "foreground"} /\ fgLock = NoThread
      /\ normalTask[t] = NoTask
      /\ fgQueue' = Remove("fg", fgQueue, thumbTask[t])
      /\ IF K = {} THEN \E k \in Creatable : Destroyed({k}) ELSE Destroyed(K)
      /\ thumbTask' = Unhook(thumbTask, "TASK_THUMBNAIL", K)
      /\ Applied(t)
      /\ LeaveForeground(Main)
      /\ UNCHANGED <<locks, bgQueue, locked, normalTask, loaderVars, lifeVars, suspended>>
  BY DEF ForegroundNow, InForeground, IsFree
<1>2. t \in Textures
  BY <1>1, Distinct DEF CoreInv, ThreadsAtWork, RequestPCs
<1>. HIDE DEF t
<1>3. /\ fgQueue' \in Seq(Tasks) /\ parent' \in [Tasks -> Lists]
      /\ task' \in [Tasks -> TaskRecords]
      /\ thumbTask' \in [Textures -> Tasks \cup {NoTask}]
      /\ QueueIntegrity' /\ NoTaskLost' /\ TaskPointers' /\ SurfacesUnlocked'
      /\ StageOfPlace'
  <2>1. CASE K # {}
    <3>1. Destroyed(K)  BY <1>1, <2>1
    <3>. QED  BY <1>1, <1>2, <3>1, DropThumbnail
  <2>2. CASE K = {}
    <3>1. thumbTask[t] = NoTask  BY <2>2
    <3>2. PICK k \in Creatable : Destroyed({k})  BY <1>1, <2>2
    <3>3. /\ k \in Tasks /\ parent[k] \in {"heap", "freeList"} /\ k \notin locked
          /\ ~In(fgQueue, k) /\ ~In(bgQueue, k)
          /\ \A u \in Textures : normalTask[u] # k /\ thumbTask[u] # k
      BY CreatableFacts
    <3>4. /\ parent' \in [Tasks -> Lists] /\ task' \in [Tasks -> TaskRecords]
          /\ parent'[k] = "freeList"
          /\ \A j \in Tasks : j # k => parent'[j] = parent[j]
      BY <3>2, <3>3, DestroyedFacts
    <3>5. fgQueue' = fgQueue  BY <1>1, <3>1 DEF Remove
    <3>6. /\ thumbTask' \in [Textures -> Tasks \cup {NoTask}]
          /\ \A u \in Textures : thumbTask'[u] = thumbTask[u]
      <4>1. K \subseteq Tasks  BY <2>2
      <4>. HIDE DEF K
      <4>. QED  BY <1>1, <2>2, <4>1, UnhookFacts
    <3>7. NoTaskLost' /\ TaskPointers' /\ SurfacesUnlocked' /\ StageOfPlace'
      <4>1. {k} \subseteq Tasks /\ locked' = locked \ {k}  BY <1>1, <3>3
      <4>2. /\ \A u \in Textures :
                  normalTask'[u] = IF normalTask[u] \in {k} THEN NoTask ELSE normalTask[u]
            /\ \A u \in Textures :
                  thumbTask'[u] = IF thumbTask[u] \in {k} THEN NoTask ELSE thumbTask[u]
        BY <1>1, <3>3, <3>6
      <4>3. \A j \in {k} : parent[j] # "none"  BY <3>3
      <4>. HIDE DEF K
      <4>. QED  BY <1>1, <3>2, <4>1, <4>2, <4>3, DestroyStep
    <3>8. QueueIntegrity'
      <4>1. \A j \in Tasks : (parent'[j] = "fg") <=> In(fgQueue', j)
        BY <3>3, <3>4, <3>5 DEF CoreInv, QueueIntegrity
      <4>2. \A j \in Tasks : (parent'[j] = "bg") <=> In(bgQueue', j)
        BY <1>1, <3>3, <3>4 DEF CoreInv, QueueIntegrity
      <4>3. Once(fgQueue') /\ Once(bgQueue')
        BY <1>1, <3>5 DEF CoreInv, QueueIntegrity
      <4>. QED  BY <4>1, <4>2, <4>3, QueueIntegrityNext
    <3>9. fgQueue' \in Seq(Tasks)  BY <3>5 DEF CoreInv, TypeOK
    <3>. QED  BY <3>4, <3>6, <3>7, <3>8, <3>9
  <2>. QED  BY <2>1, <2>2
<1>4. /\ pc' \in [Threads -> PCs] /\ arg' \in [Threads -> Textures \cup {NoTexture}]
      /\ pc'[Main] = "idle" \/ (pc'[Main] = "init_background" /\ arg'[Main] = arg[Main])
      /\ \A o \in Threads : o # Main => pc'[o] = pc[o] /\ arg'[o] = arg[o]
  BY <1>1, LeaveForegroundFacts, Distinct DEF CoreInv
<1>5. LockDiscipline' /\ ThreadsAtWork'
  BY <1>1, <1>4, Distinct, RequestEnds DEF RequestPCs, locks, loaderVars
<1>6. /\ initialized' \in [Textures -> BOOLEAN] /\ surface' \in [Textures -> Surfaces]
      /\ \A u \in Textures : u # t => initialized'[u] = initialized[u]
  BY <1>1, <1>2 DEF Applied, CoreInv, TypeOK, Surfaces
<1>7. PendingUninitialized'
  BY <1>1, <1>6 DEF CoreInv, PendingUninitialized
<1>8. TypeOK'
  BY <1>1, <1>3, <1>4, <1>6 DEF CoreInv, TypeOK, locks, loaderVars, lifeVars
<1>. QED  BY <1>3, <1>5, <1>7, <1>8 DEF CoreInv

\* Request_Foreground_Loading goes on to the background section.
LEMMA ForegroundLockStep ==
  ASSUME CoreInv, NEW th \in Threads, ForegroundLock(th)
  PROVE  CoreInv'
<1>. DEFINE t == arg[th]
            K == IF th = Main THEN {thumbTask[t]} \ {NoTask} ELSE {}
            place == IF pc[th] = "foreground" THEN "foreground_bg" ELSE "init_foreground_bg"
<1>1. /\ pc[th] \in {"init_foreground", "foreground"} /\ fgLock = NoThread
      /\ ~initialized[t] /\ (th = Main => normalTask[t] # NoTask)
      /\ fgLock' = th
      /\ fgQueue' = IF th = Main THEN Remove("fg", fgQueue, thumbTask[t]) ELSE fgQueue
      /\ Destroyed(K)
      /\ thumbTask' = Unhook(thumbTask, "TASK_THUMBNAIL", K)
      /\ Goto(th, place)
      /\ UNCHANGED <<bgLock, bgQueue, locked, normalTask, initialized, surface, arg,
                     loaderVars, lifeVars, suspended>>
  BY DEF ForegroundLock, InForeground, IsFree
<1>2. t \in Textures
  BY <1>1 DEF CoreInv, ThreadsAtWork, RequestPCs
<1>3. /\ pc' \in [Threads -> PCs] /\ pc'[th] \in {"init_foreground_bg", "foreground_bg"}
      /\ \A o \in Threads : o # th => pc'[o] = pc[o]
  <2>1. place \in PCs /\ place \in {"init_foreground_bg", "foreground_bg"}  BY DEF PCs
  <2>. HIDE DEF place
  <2>. QED  BY <1>1, <2>1, GotoFacts DEF CoreInv
<1>. HIDE DEF t, place
<1>4. /\ fgQueue' \in Seq(Tasks) /\ parent' \in [Tasks -> Lists]
      /\ task' \in [Tasks -> TaskRecords]
      /\ thumbTask' \in [Textures -> Tasks \cup {NoTask}]
      /\ (th = Main => thumbTask'[t] = NoTask)
      /\ QueueIntegrity' /\ NoTaskLost' /\ TaskPointers' /\ SurfacesUnlocked'
      /\ StageOfPlace'
  <2>1. CASE th = Main
    BY <1>1, <1>2, <2>1, DropThumbnail
  <2>2. CASE th # Main
    <3>1. K = {}  BY <2>2
    <3>. HIDE DEF K
    <3>2. /\ parent' \in [Tasks -> Lists] /\ task' \in [Tasks -> TaskRecords]
          /\ \A k \in Tasks : parent'[k] = parent[k]
      BY <1>1, <3>1, DestroyedFacts
    <3>3. /\ thumbTask' \in [Textures -> Tasks \cup {NoTask}]
          /\ \A u \in Textures : thumbTask'[u] = thumbTask[u]
      BY <1>1, <3>1, UnhookFacts
    <3>4. fgQueue' = fgQueue  BY <1>1, <2>2
    <3>5. QueueIntegrity'
      BY <1>1, <3>2, <3>4, QueueIntegrityNext DEF CoreInv, QueueIntegrity
    <3>6. NoTaskLost' /\ TaskPointers' /\ SurfacesUnlocked' /\ StageOfPlace'
      <4>1. K \subseteq Tasks /\ locked' = locked \ K /\ \A k \in K : parent[k] # "none"
        BY <1>1, <3>1
      <4>2. /\ \A u \in Textures :
                  normalTask'[u] = IF normalTask[u] \in K THEN NoTask ELSE normalTask[u]
            /\ \A u \in Textures :
                  thumbTask'[u] = IF thumbTask[u] \in K THEN NoTask ELSE thumbTask[u]
        BY <1>1, <3>1, <3>3
      <4>. QED  BY <1>1, <4>1, <4>2, DestroyStep
    <3>. QED
      BY <2>2, <3>2, <3>3, <3>4, <3>5, <3>6 DEF CoreInv, TypeOK
  <2>. QED  BY <2>1, <2>2
<1>5. TypeOK'
  BY <1>1, <1>3, <1>4 DEF CoreInv, TypeOK, loaderVars, lifeVars
<1>6. \A o \in Threads : o # th => ~AwaitsBackground(o) /\ ~AwaitsBackground(o)'
  BY <1>1, <1>3, NobodyAwaits DEF AwaitsBackground
<1>7. AwaitsBackground(th)'
  BY <1>3 DEF AwaitsBackground
<1>8. pc[Main] # "update"
  BY <1>1, Distinct DEF CoreInv, LockDiscipline, At
<1>9. LockDiscipline'
  <2>1. \A c \in Clients : (fgLock' = c) <=> AwaitsBackground(c)'
    BY <1>1, <1>6, <1>7, Distinct
  <2>2. (fgLock' = Main) <=> (AwaitsBackground(Main)' \/ At(Main, "update")')
    BY <1>1, <1>3, <1>6, <1>7, <1>8, Distinct DEF At
  <2>3. /\ bgLock' = Main => pc'[Main] \in {"flush", "update", "deinit"}
        /\ pc'[Main] \in {"flush", "deinit"} => bgLock' = Main
    BY <1>1, <1>3, Distinct DEF CoreInv, LockDiscipline
  <2>4. \A l \in Loaders : (bgLock' = l) <=> (lpc'[l] \in {"loading", "loaded"})
    BY <1>1 DEF CoreInv, LockDiscipline, loaderVars
  <2>. QED  BY <2>1, <2>2, <2>3, <2>4 DEF LockDiscipline
<1>10. ThreadsAtWork'
  <2>1. \A o \in Threads : pc'[o] \in RequestPCs \cup {"invalidate"} => arg'[o] \in Textures
    BY <1>1, <1>2, <1>3 DEF CoreInv, ThreadsAtWork, t
  <2>2. \A o \in Clients : pc'[o] \in RequestPCs \cup {"idle"}
    BY <1>3, Distinct DEF CoreInv, ThreadsAtWork, RequestPCs
  <2>3. \A o \in Threads : AwaitsBackground(o)' => ~initialized'[arg'[o]]
    BY <1>1, <1>6 DEF t
  <2>4. AwaitsBackground(Main)' => /\ normalTask'[arg'[Main]] # NoTask
                                   /\ thumbTask'[arg'[Main]] = NoTask
    BY <1>1, <1>4, <1>6, Distinct DEF t
  <2>5. \A l \in Loaders : (ltask'[l] # NoTask) <=> (lpc'[l] \in {"loading", "loaded"})
    BY <1>1 DEF CoreInv, ThreadsAtWork, loaderVars
  <2>. QED  BY <2>1, <2>2, <2>3, <2>4, <2>5 DEF ThreadsAtWork, AwaitsBackground
<1>. QED  BY <1>1, <1>4, <1>5, <1>9, <1>10, PendingFrame DEF CoreInv

\* The main thread finishes a task some list holds: no loader has it.
LEMMA ForegroundFinishStep ==
  ASSUME CoreInv, ForegroundFinish
  PROVE  CoreInv'
<1>. DEFINE t == arg[Main]
            k == normalTask[t]
<1>1. /\ AwaitsBackground(Main) /\ bgLock = NoThread
      /\ fgQueue' = Remove("fg", fgQueue, k) /\ bgQueue' = Remove("bg", bgQueue, k)
      /\ Finished(k) /\ Destroyed({k})
      /\ normalTask' = Unhook(normalTask, "TASK_LOAD", {k})
      /\ fgLock' = NoThread
      /\ LeaveForeground(Main)
      /\ UNCHANGED <<bgLock, thumbTask, loaderVars, lifeVars, suspended>>
  BY DEF ForegroundFinish, IsFree
<1>2. /\ t \in Textures /\ k \in Tasks
      /\ task[k].texture = t /\ task[k].type = "TASK_LOAD"
  <2>1. t \in Textures
    BY <1>1, Distinct DEF CoreInv, ThreadsAtWork, AwaitsBackground, RequestPCs
  <2>2. k \in Tasks
    BY <1>1, <2>1 DEF CoreInv, TypeOK, ThreadsAtWork
  <2>. QED  BY <2>1, <2>2 DEF CoreInv, TaskPointers
<1>3. \A j \in Tasks : parent[j] # "none"
  BY <1>1, Distinct, DataAssumption DEF CoreInv, LockDiscipline, ThreadsAtWork, NoTaskLost
<1>4. \A u \in Textures : normalTask[u] = k => u = t
  BY <1>2 DEF CoreInv, TaskPointers
<1>. HIDE DEF t, k
<1>5. /\ parent' \in [Tasks -> Lists] /\ task' \in [Tasks -> TaskRecords]
      /\ parent'[k] = "freeList"
      /\ \A j \in Tasks : j # k => parent'[j] = parent[j]
  BY <1>1, <1>2, DestroyedFacts
<1>6. /\ locked' = locked \ {k}
      /\ initialized' \in [Textures -> BOOLEAN] /\ surface' \in [Textures -> Surfaces]
      /\ \A u \in Textures : u # t => initialized'[u] = initialized[u]
  BY <1>1, <1>2, FinishedFacts
<1>7. /\ normalTask' \in [Textures -> Tasks \cup {NoTask}]
      /\ \A u \in Textures :
            normalTask'[u] = IF normalTask[u] \in {k} THEN NoTask ELSE normalTask[u]
  <2>1. {k} \subseteq Tasks  BY <1>2
  <2>. QED  BY <1>1, <2>1, UnhookFacts
<1>8. /\ fgQueue' \in Seq(Tasks) /\ Once(fgQueue')
      /\ \A x \in Tasks : In(fgQueue', x) <=> (In(fgQueue, x) /\ x # k)
      /\ bgQueue' \in Seq(Tasks) /\ Once(bgQueue')
      /\ \A x \in Tasks : In(bgQueue', x) <=> (In(bgQueue, x) /\ x # k)
  BY <1>1, <1>2, RemoveFacts
<1>9. QueueIntegrity'
  BY <1>2, <1>5, <1>8, QueueIntegrityNext DEF CoreInv, QueueIntegrity
<1>10. NoTaskLost' /\ TaskPointers' /\ SurfacesUnlocked' /\ StageOfPlace'
  <2>1. {k} \subseteq Tasks /\ \A j \in {k} : parent[j] # "none"  BY <1>2, <1>3
  <2>2. \A u \in Textures :
           thumbTask'[u] = IF thumbTask[u] \in {k} THEN NoTask ELSE thumbTask[u]
    BY <1>1, <1>2 DEF CoreInv, TaskPointers
  <2>. QED  BY <1>1, <1>6, <1>7, <2>1, <2>2, DestroyStep
<1>11. PendingUninitialized'
  <2>1. normalTask[t] = k  BY DEF k
  <2>. QED  BY <1>6, <1>7, <2>1 DEF CoreInv, PendingUninitialized
<1>12. /\ pc' \in [Threads -> PCs] /\ arg' \in [Threads -> Textures \cup {NoTexture}]
       /\ pc'[Main] = "idle" \/ (pc'[Main] = "init_background" /\ arg'[Main] = arg[Main])
       /\ \A o \in Threads : o # Main => pc'[o] = pc[o] /\ arg'[o] = arg[o]
  BY <1>1, LeaveForegroundFacts, Distinct DEF CoreInv
<1>13. LockDiscipline' /\ ThreadsAtWork'
  <2>1. fgLock = Main /\ pc[Main] \in RequestPCs
    BY <1>1 DEF CoreInv, LockDiscipline, AwaitsBackground, RequestPCs
  <2>. QED  BY <1>1, <1>12, <2>1, Distinct, RequestEnds DEF loaderVars
<1>14. TypeOK'
  BY <1>1, <1>5, <1>6, <1>7, <1>8, <1>12 DEF CoreInv, TypeOK, loaderVars, lifeVars
<1>. QED  BY <1>9, <1>10, <1>11, <1>13, <1>14 DEF CoreInv

\* Another thread makes a task urgent, or creates one that is.  The obsolete thumbnail
\* task j, if any, is only marked.
LEMMA ForegroundPromoteStep ==
  ASSUME CoreInv, NEW th \in Threads, ForegroundPromote(th)
  PROVE  CoreInv'
<1>. DEFINE t == arg[th]
            k == normalTask[t]
            j == thumbTask[t]
            overridden == IF j = NoTask THEN task
                          ELSE [task EXCEPT ![j].state = "FOREGROUND_OVERRIDE"]
            rec == NewTask(t, "TASK_LOAD", "FOREGROUND")
<1>1. /\ AwaitsBackground(th) /\ bgLock = NoThread
      /\ IF k = NoTask
           THEN \E n \in Creatable :
                  /\ task' = [overridden EXCEPT ![n] = rec]
                  /\ parent' = [parent EXCEPT ![n] = "fg"]
                  /\ fgQueue' = Append(fgQueue, n)
                  /\ normalTask' = [normalTask EXCEPT ![t] = n]
                  /\ UNCHANGED bgQueue
           ELSE /\ task' = Urgent(overridden, k)
                /\ IF parent[k] = "bg"
                     THEN /\ bgQueue' = Without(bgQueue, k)
                          /\ fgQueue' = Append(fgQueue, k)
                          /\ parent' = [parent EXCEPT ![k] = "fg"]
                     ELSE UNCHANGED <<queues, parent>>
                /\ UNCHANGED normalTask
      /\ fgLock' = NoThread
      /\ LeaveForeground(th)
      /\ UNCHANGED <<bgLock, locked, thumbTask, initialized, surface, loaderVars, lifeVars,
                     suspended>>
  BY DEF ForegroundPromote, IsFree
<1>2. t \in Textures /\ ~initialized[t] /\ pc[th] \in RequestPCs
  BY <1>1 DEF CoreInv, ThreadsAtWork, AwaitsBackground, RequestPCs
<1>3. /\ \A m \in Tasks : parent[m] # "none"
      /\ \A l \in Loaders : ltask[l] = NoTask
  BY <1>1, Distinct, DataAssumption DEF CoreInv, LockDiscipline, ThreadsAtWork, NoTaskLost
<1>4. j # NoTask => /\ j \in Tasks /\ parent[j] = "fg" /\ j \notin locked
                    /\ task[j].texture = t /\ task[j].type = "TASK_THUMBNAIL"
  BY <1>2, ThumbnailPlace
<1>5. /\ rec \in TaskRecords /\ rec.texture = t /\ rec.type = "TASK_LOAD"
      /\ rec.priority = "FOREGROUND" /\ rec.state = "NONE"
  BY <1>2 DEF NewTask, TaskRecords, Types, Priorities, States
<1>6. /\ overridden \in [Tasks -> TaskRecords]
      /\ \A m \in Tasks : /\ overridden[m].texture = task[m].texture
                          /\ overridden[m].type = task[m].type
                          /\ overridden[m].priority = task[m].priority
      /\ \A m \in Tasks : m # j => overridden[m] = task[m]
      /\ j # NoTask => overridden[j].state = "FOREGROUND_OVERRIDE"
  <2>1. CASE j = NoTask
    <3>1. overridden = task  BY <2>1
    <3>. QED  BY <2>1, <3>1 DEF CoreInv, TypeOK
  <2>2. CASE j # NoTask
    <3>1. overridden = [task EXCEPT ![j].state = "FOREGROUND_OVERRIDE"]  BY <2>2
    <3>2. j \in Tasks /\ task \in [Tasks -> TaskRecords]
      BY <1>4, <2>2 DEF CoreInv, TypeOK
    <3>. HIDE DEF overridden, j
    <3>. QED  BY <3>1, <3>2 DEF TaskRecords, States
  <2>. QED  BY <2>1, <2>2
<1>7. /\ pc' \in [Threads -> PCs] /\ arg' \in [Threads -> Textures \cup {NoTexture}]
      /\ pc'[th] = "idle" \/ (pc'[th] = "init_background" /\ arg'[th] = arg[th])
      /\ \A o \in Threads : o # th => pc'[o] = pc[o] /\ arg'[o] = arg[o]
  BY <1>1, LeaveForegroundFacts DEF CoreInv
<1>8. LockDiscipline' /\ ThreadsAtWork'
  <2>1. fgLock = th
    BY <1>1, Distinct DEF CoreInv, LockDiscipline
  <2>. QED  BY <1>1, <1>2, <1>7, <2>1, RequestEnds DEF loaderVars
<1>9. (task[j].state # "LOAD_BEGUN" /\ task[j].state # "LOADED") \/ j = NoTask
  BY <1>4 DEF CoreInv, SurfacesUnlocked
<1>. HIDE DEF t, overridden, rec, k, j
<1>10. CASE k = NoTask
  <2>1. PICK n \in Creatable :
          /\ task' = [overridden EXCEPT ![n] = rec]
          /\ parent' = [parent EXCEPT ![n] = "fg"]
          /\ fgQueue' = Append(fgQueue, n)
          /\ normalTask' = [normalTask EXCEPT ![t] = n]
          /\ UNCHANGED bgQueue
    BY <1>1, <1>10
  <2>2. /\ n \in Tasks /\ parent[n] \in {"heap", "freeList"}
        /\ task[n] = BlankTask /\ n \notin locked
        /\ ~In(fgQueue, n) /\ ~In(bgQueue, n)
        /\ \A u \in Textures : normalTask[u] # n /\ thumbTask[u] # n
    BY CreatableFacts
  <2>3. /\ task' \in [Tasks -> TaskRecords] /\ task'[n] = rec
        /\ \A m \in Tasks : m # n => task'[m] = overridden[m]
        /\ parent' \in [Tasks -> Lists] /\ parent'[n] = "fg"
        /\ \A m \in Tasks : m # n => parent'[m] = parent[m]
        /\ normalTask' \in [Textures -> Tasks \cup {NoTask}] /\ normalTask'[t] = n
        /\ \A u \in Textures : u # t => normalTask'[u] = normalTask[u]
    BY <1>2, <1>5, <1>6, <2>1, <2>2 DEF CoreInv, TypeOK, Lists
  <2>4. /\ fgQueue' \in Seq(Tasks) /\ Once(fgQueue')
        /\ \A x : In(fgQueue', x) <=> (In(fgQueue, x) \/ x = n)
    BY <2>1, <2>2, AppendMembers DEF CoreInv, TypeOK, QueueIntegrity
  <2>5. QueueIntegrity'
    <3>1. \A m \in Tasks : (parent'[m] = "fg") <=> In(fgQueue', m)
      BY <2>3, <2>4 DEF CoreInv, QueueIntegrity
    <3>2. \A m \in Tasks : (parent'[m] = "bg") <=> In(bgQueue', m)
      BY <2>1, <2>2, <2>3 DEF CoreInv, QueueIntegrity
    <3>3. Once(bgQueue')  BY <2>1 DEF CoreInv, QueueIntegrity
    <3>. QED  BY <3>1, <3>2, <3>3, <2>4, QueueIntegrityNext
  <2>6. NoTaskLost'
    BY <1>1, <1>2, <1>3, <1>5, <1>6, <2>2, <2>3, DataAssumption
       DEF CoreInv, NoTaskLost, Live, loaderVars
  <2>7. TaskPointers'
    <3>1. BlankTask.texture = NoTexture  BY DEF BlankTask
    <3>2. normalTask[t] = NoTask  BY <1>10 DEF k
    <3>3. \A u \in Textures, m \in Tasks :
             (normalTask'[u] = m) <=> (task'[m].texture = u /\ task'[m].type = "TASK_LOAD")
      BY <1>5, <1>6, <2>2, <2>3, <3>1, <3>2, DataAssumption DEF CoreInv, TaskPointers
    <3>4. \A u \in Textures, m \in Tasks :
             (thumbTask[u] = m) <=> (task'[m].texture = u /\ task'[m].type = "TASK_THUMBNAIL")
      BY <1>5, <1>6, <2>2, <2>3, <3>1, DataAssumption DEF CoreInv, TaskPointers
    <3>. QED  BY <1>1, <3>3, <3>4 DEF TaskPointers
  <2>8. SurfacesUnlocked'
    <3>1. \A m \in Tasks : m # j /\ m # n => task'[m] = task[m]  BY <1>6, <2>3
    <3>2. j # NoTask => j # n /\ task'[j].state = "FOREGROUND_OVERRIDE"
      BY <1>2, <1>4, <1>6, <2>2, <2>3 DEF j
    <3>3. task'[n].state = "NONE"  BY <1>5, <2>3
    <3>. QED
      BY <1>1, <1>4, <2>2, <3>1, <3>2, <3>3, DataAssumption DEF CoreInv, SurfacesUnlocked
  <2>9. StageOfPlace'
    <3>1. \A m \in Tasks : m # j /\ m # n => task'[m] = task[m] /\ parent'[m] = parent[m]
      BY <1>6, <2>3
    <3>2. j # NoTask => /\ parent'[j] = "fg" /\ task'[j].state = "FOREGROUND_OVERRIDE"
                        /\ task'[j].type = "TASK_THUMBNAIL"
      BY <1>2, <1>4, <1>6, <2>2, <2>3
    <3>. QED
      BY <1>1, <1>3, <1>5, <2>3, <3>1, <3>2, DataAssumption
         DEF CoreInv, StageOfPlace, loaderVars
  <2>10. PendingUninitialized'
    BY <1>1, <1>2, <2>3 DEF CoreInv, PendingUninitialized
  <2>11. TypeOK'
    BY <1>1, <1>7, <2>1, <2>3, <2>4 DEF CoreInv, TypeOK, loaderVars, lifeVars
  <2>. QED  BY <1>8, <2>5, <2>6, <2>7, <2>8, <2>9, <2>10, <2>11 DEF CoreInv
<1>11. CASE k # NoTask
  <2>1. /\ task' = Urgent(overridden, k)
        /\ IF parent[k] = "bg"
             THEN /\ bgQueue' = Without(bgQueue, k)
                  /\ fgQueue' = Append(fgQueue, k)
                  /\ parent' = [parent EXCEPT ![k] = "fg"]
             ELSE UNCHANGED <<queues, parent>>
        /\ UNCHANGED normalTask
    BY <1>1, <1>11
  <2>2. k \in Tasks /\ task[k].type = "TASK_LOAD" /\ task[k].texture = t /\ k # j
    <3>1. k \in Tasks /\ task[k].type = "TASK_LOAD" /\ task[k].texture = t
      BY <1>2, <1>11 DEF CoreInv, TypeOK, TaskPointers, k
    <3>. QED  BY <3>1, <1>4, DataAssumption
  <2>3. parent[k] \in {"fg", "bg"}
    BY <1>2, <1>3, <2>2, DataAssumption DEF CoreInv, NoTaskLost, Live
  <2>4. /\ task' \in [Tasks -> TaskRecords]
        /\ \A m \in Tasks : m # k => task'[m] = overridden[m]
        /\ \A m \in Tasks : /\ task'[m].texture = task[m].texture
                            /\ task'[m].type = task[m].type
        /\ task'[k].priority = "FOREGROUND" /\ task'[k].state = task[k].state
    BY <1>6, <2>1, <2>2 DEF Urgent, TaskRecords, Priorities
  <2>5. /\ parent' \in [Tasks -> Lists] /\ parent'[k] = "fg"
        /\ \A m \in Tasks : m # k => parent'[m] = parent[m]
    BY <2>1, <2>2, <2>3 DEF CoreInv, TypeOK, Lists
  <2>6. /\ fgQueue' \in Seq(Tasks) /\ Once(fgQueue')
        /\ \A x \in Tasks : In(fgQueue', x) <=> (In(fgQueue, x) \/ x = k)
        /\ bgQueue' \in Seq(Tasks) /\ Once(bgQueue')
        /\ \A x \in Tasks : In(bgQueue', x) <=> (In(bgQueue, x) /\ x # k)
    <3>0. /\ fgQueue \in Seq(Tasks) /\ bgQueue \in Seq(Tasks)
          /\ Once(fgQueue) /\ Once(bgQueue)
          /\ (parent[k] = "fg") <=> In(fgQueue, k)
          /\ (parent[k] = "bg") <=> In(bgQueue, k)
      BY <2>2 DEF CoreInv, TypeOK, QueueIntegrity
    <3>1. CASE parent[k] = "bg"
      <4>1. ~In(fgQueue, k)  BY <3>0, <3>1
      <4>2. Without(bgQueue, k) \in Seq(Tasks)  BY <3>0, WithoutSeq
      <4>3. /\ Once(Without(bgQueue, k))
            /\ \A x : In(Without(bgQueue, k), x) <=> (In(bgQueue, x) /\ x # k)
        BY <3>0, WithoutMembers
      <4>4. /\ Append(fgQueue, k) \in Seq(Tasks) /\ Once(Append(fgQueue, k))
            /\ \A x : In(Append(fgQueue, k), x) <=> (In(fgQueue, x) \/ x = k)
        BY <2>2, <3>0, <4>1, AppendMembers
      <4>. QED  BY <2>1, <3>1, <4>2, <4>3, <4>4
    <3>2. CASE parent[k] = "fg"
      <4>1. fgQueue' = fgQueue /\ bgQueue' = bgQueue  BY <2>1, <3>2 DEF queues
      <4>. QED  BY <3>0, <3>2, <4>1
    <3>. QED  BY <2>3, <3>1, <3>2
  <2>7. QueueIntegrity'
    BY <2>5, <2>6, QueueIntegrityNext DEF CoreInv, QueueIntegrity
  <2>8. NoTaskLost'
    BY <1>1, <1>2, <1>3, <2>2, <2>4, <2>5, DataAssumption
       DEF CoreInv, NoTaskLost, Live, loaderVars
  <2>9. TaskPointers'
    BY <1>1, <2>1, <2>4 DEF CoreInv, TaskPointers
  <2>10. \A m \in Tasks : m # j /\ m # k => task'[m] = task[m] /\ parent'[m] = parent[m]
    BY <1>6, <2>4, <2>5
  <2>11. j # NoTask => /\ parent'[j] = "fg" /\ task'[j].state = "FOREGROUND_OVERRIDE"
                       /\ task'[j].type = "TASK_THUMBNAIL"
    BY <1>4, <1>6, <2>2, <2>4, <2>5
  <2>12. SurfacesUnlocked'
    BY <1>1, <1>4, <2>2, <2>4, <2>10, <2>11, DataAssumption DEF CoreInv, SurfacesUnlocked
  <2>13. task[k].state # "FOREGROUND_OVERRIDE"
    BY <2>2, <2>3 DEF CoreInv, StageOfPlace
  <2>14. StageOfPlace'
    BY <1>1, <1>3, <2>2, <2>4, <2>5, <2>10, <2>11, <2>13, DataAssumption
       DEF CoreInv, StageOfPlace, loaderVars
  <2>15. PendingUninitialized'
    BY <1>1, <2>1, PendingFrame DEF CoreInv
  <2>16. TypeOK'
    BY <1>1, <1>7, <2>1, <2>4, <2>5, <2>6 DEF CoreInv, TypeOK, loaderVars, lifeVars
  <2>. QED  BY <1>8, <2>7, <2>8, <2>9, <2>12, <2>14, <2>15, <2>16 DEF CoreInv
<1>. QED  BY <1>10, <1>11

-----------------------------------------------------------------------------
(* Update's loop: what becomes of the task it takes off the queue.          *)

\* The task Update pops is live and no loader has it.
LEMMA PoppedFacts ==
  ASSUME CoreInv, NEW k \in Tasks, Popped(k)
  PROVE  /\ pc[Main] = "update" /\ parent[k] = "fg"
         /\ fgQueue' \in Seq(Tasks) /\ Once(fgQueue')
         /\ \A x \in Tasks : In(fgQueue', x) <=> (In(fgQueue, x) /\ x # k)
         /\ task[k] \in TaskRecords /\ task[k].texture \in Textures
         /\ \A l \in Loaders : ltask[l] # k
<1>1. /\ pc[Main] = "update" /\ fgQueue # << >> /\ k = Head(fgQueue)
      /\ fgQueue' = Tail(fgQueue)
  BY DEF Popped, At
<1>2. /\ fgQueue' \in Seq(Tasks) /\ Once(fgQueue') /\ In(fgQueue, k)
      /\ \A x : In(fgQueue', x) <=> (In(fgQueue, x) /\ x # k)
  BY <1>1, TailMembers DEF CoreInv, TypeOK, QueueIntegrity
<1>3. parent[k] = "fg"
  BY <1>2 DEF CoreInv, QueueIntegrity
<1>4. task[k] \in TaskRecords /\ task[k].texture \in Textures
  BY <1>3 DEF CoreInv, TypeOK, NoTaskLost, Live, TaskRecords
<1>5. \A l \in Loaders : ltask[l] # k
  BY <1>3 DEF CoreInv, NoTaskLost
<1>. QED  BY <1>1, <1>2, <1>3, <1>4, <1>5

\* A task that has been popped and is destroyed.
LEMMA PoppedDestroyed ==
  ASSUME CoreInv, NEW k \in Tasks, Popped(k), Destroyed({k}), locked' = locked \ {k},
         \A u \in Textures :
            normalTask'[u] = IF normalTask[u] \in {k} THEN NoTask ELSE normalTask[u],
         \A u \in Textures :
            thumbTask'[u] = IF thumbTask[u] \in {k} THEN NoTask ELSE thumbTask[u],
         UNCHANGED <<locks, bgQueue, threadVars, loaderVars>>
  PROVE  /\ fgQueue' \in Seq(Tasks) /\ parent' \in [Tasks -> Lists]
         /\ task' \in [Tasks -> TaskRecords]
         /\ LockDiscipline' /\ ThreadsAtWork' /\ QueueIntegrity' /\ NoTaskLost'
         /\ TaskPointers' /\ SurfacesUnlocked' /\ StageOfPlace'
<1>1. /\ pc[Main] = "update" /\ parent[k] = "fg"
      /\ fgQueue' \in Seq(Tasks) /\ Once(fgQueue')
      /\ \A x \in Tasks : In(fgQueue', x) <=> (In(fgQueue, x) /\ x # k)
  BY PoppedFacts
<1>2. /\ parent' \in [Tasks -> Lists] /\ task' \in [Tasks -> TaskRecords]
      /\ parent'[k] = "freeList"
      /\ \A j \in Tasks : j # k => parent'[j] = parent[j]
  BY DestroyedFacts
<1>3. QueueIntegrity'
  <2>1. \A j \in Tasks : (parent'[j] = "fg") <=> In(fgQueue', j)
    BY <1>1, <1>2 DEF CoreInv, QueueIntegrity
  <2>2. \A j \in Tasks : (parent'[j] = "bg") <=> In(bgQueue', j)
    BY <1>1, <1>2 DEF CoreInv, QueueIntegrity
  <2>3. Once(bgQueue')  BY DEF CoreInv, QueueIntegrity
  <2>. QED  BY <1>1, <2>1, <2>2, <2>3, QueueIntegrityNext
<1>4. NoTaskLost' /\ TaskPointers' /\ SurfacesUnlocked' /\ StageOfPlace'
  <2>1. {k} \subseteq Tasks /\ \A j \in {k} : parent[j] # "none"  BY <1>1
  <2>. QED  BY <2>1, DestroyStep
<1>5. LockDiscipline' /\ ThreadsAtWork'
  BY <1>1, UpdateTurn DEF loaderVars
<1>. QED  BY <1>1, <1>2, <1>3, <1>4, <1>5

\* Process_Foreground_Thumbnail.
LEMMA ProcessThumbnailStep ==
  ASSUME CoreInv, NEW k \in Tasks, ProcessThumbnail(k)
  PROVE  CoreInv'
<1>1. Popped(k) /\ task[k].type = "TASK_THUMBNAIL"
  BY DEF ProcessThumbnail
<1>2. /\ parent[k] = "fg" /\ task[k].texture \in Textures
      /\ task[k].state \in {"NONE", "FOREGROUND_OVERRIDE"}
  BY <1>1, PoppedFacts DEF CoreInv, StageOfPlace
<1>3. /\ surface' = IF task[k].state = "NONE"
                      THEN [surface EXCEPT ![task[k].texture] = "thumbnail"]
                      ELSE surface
      /\ Destroyed({k})
      /\ thumbTask' = Unhook(thumbTask, "TASK_THUMBNAIL", {k})
      /\ UNCHANGED <<locked, normalTask, initialized>>
      /\ UNCHANGED <<locks, bgQueue, threadVars, loaderVars, lifeVars, suspended>>
  BY <1>2 DEF ProcessThumbnail
<1>4. /\ thumbTask' \in [Textures -> Tasks \cup {NoTask}]
      /\ \A u \in Textures :
            thumbTask'[u] = IF thumbTask[u] \in {k} THEN NoTask ELSE thumbTask[u]
  <2>1. {k} \subseteq Tasks  OBVIOUS
  <2>. QED  BY <1>3, <2>1, UnhookFacts
<1>5. \A u \in Textures :
         normalTask'[u] = IF normalTask[u] \in {k} THEN NoTask ELSE normalTask[u]
  BY <1>1, <1>3 DEF CoreInv, TaskPointers
<1>6. locked' = locked \ {k}
  BY <1>2, <1>3 DEF CoreInv, SurfacesUnlocked
<1>7. /\ fgQueue' \in Seq(Tasks) /\ parent' \in [Tasks -> Lists]
      /\ task' \in [Tasks -> TaskRecords]
      /\ LockDiscipline' /\ ThreadsAtWork' /\ QueueIntegrity' /\ NoTaskLost'
      /\ TaskPointers' /\ SurfacesUnlocked' /\ StageOfPlace'
  BY <1>1, <1>3, <1>4, <1>5, <1>6, PoppedDestroyed
<1>8. surface' \in [Textures -> Surfaces]
  BY <1>2, <1>3 DEF CoreInv, TypeOK, Surfaces
<1>9. TypeOK'
  BY <1>3, <1>4, <1>7, <1>8
     DEF CoreInv, TypeOK, locks, threadVars, loaderVars, lifeVars
<1>. QED  BY <1>3, <1>7, <1>9, PendingFrame DEF CoreInv

\* Process_Foreground_Load of an urgent task.
LEMMA ProcessUrgentStep ==
  ASSUME CoreInv, NEW k \in Tasks, ProcessUrgent(k)
  PROVE  CoreInv'
<1>1. /\ Popped(k) /\ task[k].type = "TASK_LOAD" /\ Finished(k) /\ Destroyed({k})
      /\ normalTask' = Unhook(normalTask, "TASK_LOAD", {k})
      /\ UNCHANGED <<locks, bgQueue, thumbTask, threadVars, loaderVars, lifeVars, suspended>>
  BY DEF ProcessUrgent
<1>2. task[k].texture \in Textures
  BY <1>1, PoppedFacts
<1>. DEFINE t == task[k].texture
<1>3. /\ locked' = locked \ {k}
      /\ initialized' \in [Textures -> BOOLEAN] /\ surface' \in [Textures -> Surfaces]
      /\ \A u \in Textures : u # t => initialized'[u] = initialized[u]
  BY <1>1, <1>2, FinishedFacts
<1>4. /\ normalTask' \in [Textures -> Tasks \cup {NoTask}]
      /\ \A u \in Textures :
            normalTask'[u] = IF normalTask[u] \in {k} THEN NoTask ELSE normalTask[u]
  <2>1. {k} \subseteq Tasks  OBVIOUS
  <2>. QED  BY <1>1, <2>1, UnhookFacts
<1>5. \A u \in Textures :
         thumbTask'[u] = IF thumbTask[u] \in {k} THEN NoTask ELSE thumbTask[u]
  BY <1>1 DEF CoreInv, TaskPointers
<1>6. /\ fgQueue' \in Seq(Tasks) /\ parent' \in [Tasks -> Lists]
      /\ task' \in [Tasks -> TaskRecords]
      /\ LockDiscipline' /\ ThreadsAtWork' /\ QueueIntegrity' /\ NoTaskLost'
      /\ TaskPointers' /\ SurfacesUnlocked' /\ StageOfPlace'
  BY <1>1, <1>3, <1>4, <1>5, PoppedDestroyed
<1>7. PendingUninitialized'
  <2>1. normalTask[t] = k  BY <1>1, <1>2 DEF CoreInv, TaskPointers
  <2>. QED  BY <1>3, <1>4, <2>1 DEF CoreInv, PendingUninitialized
<1>8. TypeOK'
  BY <1>1, <1>3, <1>4, <1>6 DEF CoreInv, TypeOK, locks, threadVars, loaderVars, lifeVars
<1>. QED  BY <1>6, <1>7, <1>8 DEF CoreInv

\* Process_Foreground_Load of a loaded task: it cannot be in another state.
LEMMA ProcessLoadedStep ==
  ASSUME CoreInv, NEW k \in Tasks, ProcessLoaded(k)
  PROVE  CoreInv'
<1>1. /\ Popped(k) /\ task[k].type = "TASK_LOAD" /\ task[k].priority = "BACKGROUND"
      /\ task[k].state # "NONE"
  BY DEF ProcessLoaded
<1>2. /\ parent[k] = "fg" /\ task[k].texture \in Textures /\ task[k] \in TaskRecords
  BY <1>1, PoppedFacts
<1>3. task[k].state = "LOADED"
  BY <1>1, <1>2 DEF CoreInv, StageOfPlace, TaskRecords, States
<1>. DEFINE t == task[k].texture
<1>4. /\ Applied(t) /\ locked' = locked \ {k} /\ Destroyed({k})
      /\ normalTask' = Unhook(normalTask, "TASK_LOAD", {k})
      /\ UNCHANGED <<locks, bgQueue, thumbTask, threadVars, loaderVars, lifeVars, suspended>>
  BY <1>3 DEF ProcessLoaded, Unlock
<1>5. /\ initialized' \in [Textures -> BOOLEAN] /\ surface' \in [Textures -> Surfaces]
      /\ \A u \in Textures : u # t => initialized'[u] = initialized[u]
  BY <1>2, <1>4 DEF Applied, CoreInv, TypeOK, Surfaces
<1>6. /\ normalTask' \in [Textures -> Tasks \cup {NoTask}]
      /\ \A u \in Textures :
            normalTask'[u] = IF normalTask[u] \in {k} THEN NoTask ELSE normalTask[u]
  <2>1. {k} \subseteq Tasks  OBVIOUS
  <2>. QED  BY <1>4, <2>1, UnhookFacts
<1>7. \A u \in Textures :
         thumbTask'[u] = IF thumbTask[u] \in {k} THEN NoTask ELSE thumbTask[u]
  BY <1>1, <1>4 DEF CoreInv, TaskPointers
<1>8. /\ fgQueue' \in Seq(Tasks) /\ parent' \in [Tasks -> Lists]
      /\ task' \in [Tasks -> TaskRecords]
      /\ LockDiscipline' /\ ThreadsAtWork' /\ QueueIntegrity' /\ NoTaskLost'
      /\ TaskPointers' /\ SurfacesUnlocked' /\ StageOfPlace'
  BY <1>1, <1>4, <1>6, <1>7, PoppedDestroyed
<1>9. PendingUninitialized'
  <2>1. normalTask[t] = k  BY <1>1, <1>2 DEF CoreInv, TaskPointers
  <2>. QED  BY <1>5, <1>6, <2>1 DEF CoreInv, PendingUninitialized
<1>10. TypeOK'
  <2>1. locked' \subseteq Tasks  BY <1>4 DEF CoreInv, TypeOK
  <2>. QED
    BY <1>4, <1>5, <1>6, <1>8, <2>1 DEF CoreInv, TypeOK, locks, threadVars, loaderVars, lifeVars
<1>. QED  BY <1>8, <1>9, <1>10 DEF CoreInv

\* Process_Foreground_Load of a new task.
LEMMA ProcessNewStep ==
  ASSUME CoreInv, NEW k \in Tasks, ProcessNew(k)
  PROVE  CoreInv'
<1>1. /\ Popped(k) /\ task[k].type = "TASK_LOAD" /\ task[k].priority = "BACKGROUND"
      /\ task[k].state = "NONE" /\ BeginLoadAndQueue(k, task[k])
      /\ UNCHANGED <<locks, thumbTask, threadVars, ltask, isRunning, suspended>>
  BY DEF ProcessNew
<1>2. /\ pc[Main] = "update" /\ parent[k] = "fg"
      /\ fgQueue' \in Seq(Tasks) /\ Once(fgQueue')
      /\ \A x \in Tasks : In(fgQueue', x) <=> (In(fgQueue, x) /\ x # k)
      /\ task[k] \in TaskRecords /\ task[k].texture \in Textures
  BY <1>1, PoppedFacts
<1>3. /\ normalTask[task[k].texture] = k
      /\ \A u \in Textures : u # task[k].texture => normalTask[u] # k
      /\ \A u \in Textures : thumbTask[u] # k
  BY <1>1, <1>2 DEF CoreInv, TaskPointers
<1>4. ~initialized[task[k].texture]
  BY <1>2, <1>3, DataAssumption DEF CoreInv, PendingUninitialized
<1>5. k \notin locked
  BY <1>1 DEF CoreInv, SurfacesUnlocked
<1>6. /\ bgQueue' \in Seq(Tasks) /\ parent' \in [Tasks -> Lists]
      /\ task' \in [Tasks -> TaskRecords] /\ locked' \subseteq Tasks
      /\ normalTask' \in [Textures -> Tasks \cup {NoTask}]
      /\ initialized' \in [Textures -> BOOLEAN] /\ surface' \in [Textures -> Surfaces]
      /\ lpc' \in [Loaders -> LoaderPCs] /\ handle' \in Loaders \cup {NoThread}
      /\ \A l \in Loaders : lpc'[l] = lpc[l] \/ (lpc[l] = "dead" /\ lpc'[l] = "created")
      /\ QueueIntegrity' /\ NoTaskLost' /\ TaskPointers' /\ SurfacesUnlocked'
      /\ StageOfPlace' /\ PendingUninitialized'
  BY <1>1, <1>2, <1>3, <1>4, <1>5, BeginLoadStep
<1>7. LockDiscipline' /\ ThreadsAtWork'
  BY <1>1, <1>2, <1>6, UpdateTurn
<1>8. TypeOK'
  BY <1>1, <1>2, <1>6 DEF CoreInv, TypeOK, locks, threadVars
<1>. QED  BY <1>6, <1>7, <1>8 DEF CoreInv

-----------------------------------------------------------------------------
(* The invariant. *)

\* Every step of every thread preserves the invariant.
LEMMA CoreInvStep == CoreInv /\ [Next]_vars => CoreInv'
<1>. SUFFICES ASSUME CoreInv, [Next]_vars  PROVE CoreInv'
  OBVIOUS
<1>1. ASSUME NEW th \in Threads, NEW t \in Textures,
             BeginInit(th, t) \/ BeginForeground(th, t)
      PROVE  CoreInv'
  BY <1>1, BeginInitStep, BeginForegroundStep
<1>2. ASSUME NEW t \in Textures, BeginInvalidate(t)
      PROVE  CoreInv'
  BY <1>2, BeginInvalidateStep
<1>3. CASE BeginFlush \/ Suspend \/ BeginDeinit
  BY <1>3, BeginFlushStep, SuspendStep, BeginDeinitStep
<1>4. ASSUME NEW th \in Threads, Request(th)
      PROVE  CoreInv'
  BY <1>4, ResetSurfaceStep, ThumbnailSkipStep, ThumbnailLaterStep, ClearInitializedStep,
     BackgroundSkipStep, BackgroundQueueStep, ForegroundSkipStep, ForegroundLockStep,
     ForegroundPromoteStep DEF Request
<1>5. CASE MainRequest
  BY <1>5, ThumbnailNowStep, BackgroundBeginStep, ForegroundNowStep, ForegroundFinishStep
     DEF MainRequest
<1>6. ASSUME NEW k \in Tasks, Process(k)
      PROVE  CoreInv'
  BY <1>6, ProcessThumbnailStep, ProcessUrgentStep, ProcessNewStep, ProcessLoadedStep
     DEF Process
<1>7. CASE MainWork
  BY <1>6, <1>7, BeginUpdateStep, EndUpdateStep, FlushCheckStep, FlushLockStep,
     FlushSuspendedStep, FinishInvalidateStep, LoaderInitStep, TerminateStep,
     DeleteFreeStep, FinishDeinitStep DEF MainWork
<1>8. ASSUME NEW l \in Loaders, Loader(l)
      PROVE  CoreInv'
  BY <1>8, LoaderStartStep, LoaderExitStep, LoaderSeesWorkStep, LoaderTakeStep,
     LoaderLoadStep, LoaderHandBackStep DEF Loader
<1>9. CASE UNCHANGED vars
  <2>1. /\ UNCHANGED <<locks, queues, taskVars, texVars, threadVars, loaderVars, lifeVars,
                       suspended>>
    BY <1>9 DEF vars
  <2>2. TypeOK' /\ LockDiscipline' /\ ThreadsAtWork'
    BY <2>1 DEF CoreInv, TypeOK, LockDiscipline, ThreadsAtWork, AwaitsBackground, At, locks,
       queues, taskVars, texVars, threadVars, loaderVars, lifeVars
  <2>. QED  BY <2>1, <2>2, DataFrame DEF CoreInv, texVars
<1>. QED
  BY <1>1, <1>2, <1>3, <1>4, <1>5, <1>7, <1>8, <1>9 DEF Next, Call

\* In every reachable state the queues, the tasks, the textures' task pointers, the
\* locks and the threads agree.
LEMMA CoreInvariant == Spec => []CoreInv
BY InitCoreInv, CoreInvStep, PTL DEF Spec

-----------------------------------------------------------------------------
(* There is one loader thread, and m_handle names it.                       *)

\* A step that leaves the loader threads alone and keeps Main at work, or lets it
\* begin Deinit.
LEMMA OneLoaderFrame ==
  ASSUME OneLoader, UNCHANGED <<lpc, lifeVars>>,
         \/ pc'[Main] = pc[Main]
         \/ pc[Main] # "off" /\ pc[Main] # "deinit" /\ pc'[Main] # "off"
  PROVE  OneLoader'
BY DEF OneLoader, At, lifeVars

\* While Main is at work Is_Running is true: Begin_Load_And_Queue starts no thread.
LEMMA BeginLoadStartsNothing ==
  ASSUME OneLoader, NEW k, NEW rec, BeginLoadAndQueue(k, rec),
         pc[Main] # "off" /\ pc[Main] # "deinit"
  PROVE  UNCHANGED <<lpc, handle>>
BY DEF OneLoader, BeginLoadAndQueue, IsRunning

\* What the engine calls at any time.
LEMMA OneLoaderCall ==
  ASSUME CoreInv, OneLoader, Call
  PROVE  OneLoader'
<1>. USE DEF CoreInv
<1>1. CASE BeginDeinit
  BY <1>1 DEF BeginDeinit, OneLoader, At, Goto, TypeOK, Threads, loaderVars
<1>2. CASE Suspend
  BY <1>2, OneLoaderFrame DEF Suspend, threadVars, loaderVars
<1>3. ASSUME NEW th \in Threads, NEW t \in Textures,
             BeginInit(th, t) \/ BeginForeground(th, t)
      PROVE  OneLoader'
  <2>1. pc'[Main] = pc[Main] \/ (pc[Main] = "idle" /\ pc'[Main] # "off")
    BY <1>3, Distinct DEF BeginInit, BeginForeground, At, Goto, TypeOK
  <2>. QED  BY <1>3, <2>1, OneLoaderFrame DEF BeginInit, BeginForeground, loaderVars
<1>4. CASE (\E t \in Textures : BeginInvalidate(t)) \/ BeginFlush
  <2>1. pc[Main] = "idle" /\ pc'[Main] # "off"
    BY <1>4, Distinct DEF BeginInvalidate, BeginFlush, At, Goto, TypeOK
  <2>. QED  BY <1>4, <2>1, OneLoaderFrame DEF BeginInvalidate, BeginFlush, loaderVars
<1>. QED  BY <1>1, <1>2, <1>3, <1>4 DEF Call

\* The requests.
LEMMA OneLoaderRequest ==
  ASSUME CoreInv, OneLoader, NEW th \in Threads, Request(th)
  PROVE  OneLoader'
<1>1. UNCHANGED <<lpc, lifeVars>> /\ pc[th] \in RequestPCs
  BY DEF Request, ResetSurface, ThumbnailSkip, ThumbnailLater, ClearInitialized,
     BackgroundSkip, BackgroundQueue, ForegroundSkip, ForegroundLock, ForegroundPromote,
     InForeground, AwaitsBackground, At, RequestPCs, loaderVars
<1>2. pc'[Main] = pc[Main] \/ (th = Main /\ pc'[Main] # "off")
  BY Distinct DEF Request, ResetSurface, ThumbnailSkip, ThumbnailLater, ClearInitialized,
     BackgroundSkip, BackgroundQueue, ForegroundSkip, ForegroundLock, ForegroundPromote,
     LeaveForeground, Leave, Goto, CoreInv, TypeOK
<1>. QED  BY <1>1, <1>2, OneLoaderFrame DEF RequestPCs

\* The requests of the main thread.
LEMMA OneLoaderMainRequest ==
  ASSUME CoreInv, OneLoader, MainRequest
  PROVE  OneLoader'
<1>1. pc[Main] \in RequestPCs /\ pc'[Main] # "off"
  BY Distinct DEF MainRequest, ThumbnailNow, BackgroundBegin, ForegroundNow, ForegroundFinish,
     InForeground, AwaitsBackground, LeaveForeground, Leave, Goto, At, RequestPCs, CoreInv,
     TypeOK
<1>2. UNCHANGED <<lpc, lifeVars>>
  <2>1. CASE BackgroundBegin
    BY <1>1, <2>1, BeginLoadStartsNothing DEF BackgroundBegin, RequestPCs, lifeVars
  <2>. QED
    BY <2>1 DEF MainRequest, ThumbnailNow, ForegroundNow, ForegroundFinish, loaderVars
<1>. QED  BY <1>1, <1>2, OneLoaderFrame DEF RequestPCs

\* What the main thread does besides.
LEMMA OneLoaderMainWork ==
  ASSUME CoreInv, OneLoader, MainWork
  PROVE  OneLoader'
<1>1. ASSUME NEW k \in Tasks, Process(k)
      PROVE  OneLoader'
  <2>1. pc[Main] = "update" /\ pc' = pc
    BY <1>1 DEF Process, ProcessThumbnail, ProcessUrgent, ProcessNew, ProcessLoaded, Popped,
       At, threadVars
  <2>2. UNCHANGED <<lpc, lifeVars>>
    <3>1. CASE ProcessNew(k)
      BY <2>1, <3>1, BeginLoadStartsNothing DEF ProcessNew, lifeVars
    <3>. QED
      BY <1>1, <3>1 DEF Process, ProcessThumbnail, ProcessUrgent, ProcessLoaded, loaderVars
  <2>. QED  BY <2>1, <2>2, OneLoaderFrame
<1>2. CASE \/ BeginUpdate \/ EndUpdate \/ FlushCheck \/ FlushLock \/ FlushSuspended
           \/ FinishInvalidate
  <2>1. pc[Main] # "off" /\ pc[Main] # "deinit" /\ pc'[Main] # "off"
    BY <1>2, Distinct DEF BeginUpdate, EndUpdate, FlushCheck, FlushLock, FlushSuspended,
       FinishInvalidate, At, Leave, Goto, CoreInv, TypeOK
  <2>. QED
    BY <1>2, <2>1, OneLoaderFrame DEF BeginUpdate, EndUpdate, FlushCheck, FlushLock,
       FlushSuspended, FinishInvalidate, loaderVars
<1>3. CASE LoaderInit
  <2>1. PICK l \in Loaders : /\ lpc' = [lpc EXCEPT ![l] = "created"] /\ handle' = l
    BY <1>3 DEF LoaderInit, Execute
  <2>2. pc'[Main] = "idle" /\ \A m \in Loaders : lpc[m] = "dead"
    BY <1>3, Distinct DEF LoaderInit, OneLoader, At, Goto, CoreInv, TypeOK
  <2>. QED  BY <2>1, <2>2, Distinct DEF OneLoader, At, CoreInv, TypeOK
<1>4. CASE Terminate
  BY <1>4, Distinct DEF Terminate, OneLoader, At, CoreInv, TypeOK, threadVars
<1>5. CASE \E k \in Tasks : DeleteFree(k)
  BY <1>5, OneLoaderFrame DEF DeleteFree, threadVars, loaderVars
<1>6. CASE FinishDeinit
  BY <1>6, Distinct DEF FinishDeinit, OneLoader, At, Goto, CoreInv, TypeOK, loaderVars,
     lifeVars
<1>. QED  BY <1>1, <1>2, <1>3, <1>4, <1>5, <1>6 DEF MainWork

\* The loader thread itself.
LEMMA OneLoaderLoader ==
  ASSUME CoreInv, OneLoader, NEW l \in Loaders, Loader(l)
  PROVE  OneLoader'
<1>1. lpc \in [Loaders -> LoaderPCs] /\ pc' = pc
  BY DEF Loader, LoaderStart, LoaderExit, LoaderSeesWork, LoaderTake, LoaderLoad,
     LoaderHandBack, threadVars, CoreInv, TypeOK
<1>2. CASE LoaderStart(l)
  BY <1>1, <1>2 DEF LoaderStart, OneLoader, At
<1>3. CASE LoaderExit(l)
  BY <1>1, <1>3, Distinct DEF LoaderExit, OneLoader, At
<1>4. CASE LoaderSeesWork(l) \/ LoaderTake(l) \/ LoaderLoad(l) \/ LoaderHandBack(l)
  <2>1. /\ UNCHANGED lifeVars /\ lpc[l] \notin {"dead", "created"}
        /\ lpc'[l] \notin {"dead", "created"}
        /\ \A m \in Loaders : m # l => lpc'[m] = lpc[m]
    BY <1>1, <1>4 DEF LoaderSeesWork, LoaderTake, TakeNothing, LoaderLoad, LoaderHandBack
  <2>. QED  BY <1>1, <2>1 DEF OneLoader, At, lifeVars
<1>. QED  BY <1>2, <1>3, <1>4 DEF Loader

\* The inductive invariant, for any number of textures, tasks and requesting threads,
\* and any number of handles the operating system may give the loader thread.
THEOREM LoaderInvariant == Spec => []IndInv
<1>1. Init => OneLoader
  BY Distinct DEF Init, OneLoader, At
<1>2. CoreInv /\ OneLoader /\ [Next]_vars => OneLoader'
  <2>. SUFFICES ASSUME CoreInv, OneLoader, [Next]_vars  PROVE OneLoader'
    OBVIOUS
  <2>1. CASE UNCHANGED vars
    BY <2>1, OneLoaderFrame DEF vars, threadVars, loaderVars
  <2>. QED
    BY <2>1, OneLoaderCall, OneLoaderRequest, OneLoaderMainRequest, OneLoaderMainWork,
       OneLoaderLoader DEF Next
<1>. QED  BY <1>1, <1>2, CoreInvariant, PTL DEF Spec, IndInv

\* From Init to Deinit there is exactly one loader thread: no request starts a second
\* one and no Stop that the thread has overwritten leaves two after the next Init.
THEOREM OneLoaderThread == Spec => []OneLoader
BY LoaderInvariant, PTL DEF IndInv

-----------------------------------------------------------------------------
(* The parts of the invariant. *)

\* Whoever is past a lock holds it: the two critical sections exclude each other's
\* threads, and Deinit's Stop finds the loader thread without a task.
THEOREM LocksExclude == Spec => []LockDiscipline
BY CoreInvariant, PTL DEF CoreInv

\* No task is lost on its way between the queues, the loader thread and the free list.
THEOREM TasksKept == Spec => []NoTaskLost
BY CoreInvariant, PTL DEF CoreInv

\* A texture has at most one task of a kind, and the task points back at it.
THEOREM OneTaskPerTexture == Spec => []TaskPointers
BY CoreInvariant, PTL DEF CoreInv

\* A texture that is loaded in the background is not initialized by anybody else.
THEOREM LoadedOnce == Spec => []PendingUninitialized
BY CoreInvariant, PTL DEF CoreInv

\* Surfaces are locked from Begin_Load to End_Load and no longer.
THEOREM SurfacesSettled == Spec => []SurfacesUnlocked
BY CoreInvariant, PTL DEF CoreInv

-----------------------------------------------------------------------------
(* The loader thread works undisturbed. *)

Undisturbed ==
  \A l \in Loaders :
    lpc[l] \in {"loading", "loaded"} =>
      /\ lpc'[l] # "dead"
      /\ lpc'[l] = lpc[l] =>
           /\ task'[ltask[l]] = task[ltask[l]]
           /\ parent'[ltask[l]] = parent[ltask[l]]

\* What a loader thread has in its hands is in no list.
LEMMA HeldFacts ==
  ASSUME CoreInv, NEW l \in Loaders, lpc[l] \in {"loading", "loaded"}
  PROVE  ltask[l] \in Tasks /\ parent[ltask[l]] = "none"
BY DataAssumption DEF CoreInv, TypeOK, ThreadsAtWork, NoTaskLost

\* With the background section free or with another thread no loader has a task.
LEMMA NobodyLoads ==
  ASSUME CoreInv, bgLock \notin Loaders
  PROVE  \A l \in Loaders : lpc[l] \notin {"loading", "loaded"}
BY DEF CoreInv, LockDiscipline

\* A step that changes only tasks of some list, and no loader thread at work.
LEMMA UndisturbedByLists ==
  ASSUME CoreInv,
         \A k \in Tasks : parent[k] = "none" => task'[k] = task[k] /\ parent'[k] = parent[k],
         \A l \in Loaders : lpc'[l] = lpc[l] \/ lpc[l] \notin {"loading", "loaded"}
  PROVE  Undisturbed
BY HeldFacts DEF Undisturbed

\* No request of any thread touches a task in a loader's hands.
LEMMA UndisturbedRequest ==
  ASSUME CoreInv, NEW th \in Threads, Request(th)
  PROVE  Undisturbed
<1>1. CASE \/ ResetSurface(th) \/ ThumbnailSkip(th) \/ ClearInitialized(th)
           \/ BackgroundSkip(th) \/ ForegroundSkip(th)
  BY <1>1, UndisturbedByLists DEF ResetSurface, ThumbnailSkip, ClearInitialized,
     BackgroundSkip, ForegroundSkip, taskVars, loaderVars
<1>2. ASSUME NEW k \in Creatable, NEW rec, CreateAndQueue(k, rec), UNCHANGED loaderVars
      PROVE  Undisturbed
  <2>1. k \in Tasks /\ parent[k] # "none"  BY CreatableFacts
  <2>2. \A j \in Tasks : j # k => task'[j] = task[j] /\ parent'[j] = parent[j]
    BY <1>2, <2>1 DEF CreateAndQueue, CoreInv, TypeOK
  <2>. QED  BY <1>2, <2>1, <2>2, UndisturbedByLists DEF loaderVars
<1>3. CASE ThumbnailLater(th)
  BY <1>2, <1>3 DEF ThumbnailLater
<1>4. CASE BackgroundQueue(th)
  BY <1>2, <1>4 DEF BackgroundQueue
<1>5. CASE ForegroundLock(th)
  <2>. DEFINE t == arg[th]
              K == IF th = Main THEN {thumbTask[t]} \ {NoTask} ELSE {}
  <2>1. Destroyed(K) /\ UNCHANGED loaderVars  BY <1>5 DEF ForegroundLock
  <2>2. t \in Textures
    BY <1>5 DEF ForegroundLock, InForeground, CoreInv, ThreadsAtWork, RequestPCs
  <2>3. \A k \in K : parent[k] = "fg"  BY <2>2, ThumbnailPlace
  <2>. HIDE DEF K
  <2>4. \A k \in Tasks : k \notin K => parent'[k] = parent[k] /\ task'[k] = task[k]
    BY <2>1, DestroyedFacts
  <2>. QED  BY <2>1, <2>3, <2>4, UndisturbedByLists DEF loaderVars
<1>6. CASE ForegroundPromote(th)
  BY <1>6, NobodyLoads, Distinct DEF ForegroundPromote, IsFree, Undisturbed
<1>. QED  BY <1>1, <1>3, <1>4, <1>5, <1>6 DEF Request

\* Begin_Load_And_Queue changes one task, and at most starts a thread.
LEMMA UndisturbedByBegin ==
  ASSUME CoreInv, NEW k \in Tasks, parent[k] # "none", NEW rec, BeginLoadAndQueue(k, rec)
  PROVE  Undisturbed
<1>1. \A j \in Tasks : j # k => task'[j] = task[j] /\ parent'[j] = parent[j]
  BY DEF BeginLoadAndQueue, CoreInv, TypeOK
<1>2. \A l \in Loaders : lpc'[l] = lpc[l] \/ lpc[l] = "dead"
  BY ExecuteFacts DEF BeginLoadAndQueue, CoreInv
<1>. QED  BY <1>1, <1>2, UndisturbedByLists

\* Destroying tasks of a list.
LEMMA UndisturbedByDestroy ==
  ASSUME CoreInv, NEW K, \A k \in K : parent[k] # "none", Destroyed(K), UNCHANGED loaderVars
  PROVE  Undisturbed
BY DestroyedFacts, UndisturbedByLists DEF loaderVars

\* Nor does what only the main thread does in a request.
LEMMA UndisturbedMainRequest ==
  ASSUME CoreInv, MainRequest
  PROVE  Undisturbed
<1>. DEFINE t == arg[Main]
            K == {thumbTask[t]} \ {NoTask}
<1>1. CASE ThumbnailNow
  <2>1. Destroyed(K) /\ UNCHANGED loaderVars  BY <1>1 DEF ThumbnailNow
  <2>2. t \in Textures
    BY <1>1, Distinct DEF ThumbnailNow, At, CoreInv, ThreadsAtWork, RequestPCs
  <2>3. \A k \in K : parent[k] # "none"  BY <2>2, ThumbnailPlace
  <2>. QED  BY <2>1, <2>3, UndisturbedByDestroy
<1>2. CASE BackgroundBegin
  <2>1. PICK k \in Creatable : BeginLoadAndQueue(k, NewTask(t, "TASK_LOAD", "BACKGROUND"))
    BY <1>2 DEF BackgroundBegin
  <2>2. k \in Tasks /\ parent[k] # "none"  BY CreatableFacts
  <2>. QED  BY <2>1, <2>2, UndisturbedByBegin
<1>3. CASE ForegroundNow
  <2>1. /\ IF K = {} THEN \E k \in Creatable : Destroyed({k}) ELSE Destroyed(K)
        /\ UNCHANGED loaderVars
    BY <1>3 DEF ForegroundNow
  <2>2. t \in Textures
    BY <1>3, Distinct DEF ForegroundNow, InForeground, CoreInv, ThreadsAtWork, RequestPCs
  <2>3. \A k \in K : parent[k] # "none"  BY <2>2, ThumbnailPlace
  <2>4. CASE K = {}
    <3>1. PICK k \in Creatable : Destroyed({k})  BY <2>1, <2>4
    <3>2. \A j \in {k} : parent[j] # "none"  BY CreatableFacts
    <3>. QED  BY <2>1, <3>1, <3>2, UndisturbedByDestroy
  <2>5. CASE K # {}
    <3>1. Destroyed(K)  BY <2>1, <2>5
    <3>. QED  BY <2>1, <2>3, <3>1, UndisturbedByDestroy
  <2>. QED  BY <2>4, <2>5
<1>4. CASE ForegroundFinish
  BY <1>4, NobodyLoads, Distinct DEF ForegroundFinish, IsFree, Undisturbed
<1>. QED  BY <1>1, <1>2, <1>3, <1>4 DEF MainRequest

\* Nor does Update, Flush, Invalidate, Init or Deinit.
LEMMA UndisturbedMainWork ==
  ASSUME CoreInv, MainWork
  PROVE  Undisturbed
<1>1. CASE \/ BeginUpdate \/ EndUpdate \/ FlushCheck \/ FlushLock \/ FlushSuspended
           \/ FinishInvalidate
  BY <1>1, UndisturbedByLists DEF BeginUpdate, EndUpdate, FlushCheck, FlushLock,
     FlushSuspended, FinishInvalidate, taskVars, loaderVars
<1>2. ASSUME NEW k \in Tasks, Process(k)
      PROVE  Undisturbed
  <2>1. Popped(k)
    BY <1>2 DEF Process, ProcessThumbnail, ProcessUrgent, ProcessNew, ProcessLoaded
  <2>2. parent[k] # "none"  BY <2>1, PoppedFacts
  <2>3. CASE ProcessNew(k)
    BY <2>2, <2>3, UndisturbedByBegin DEF ProcessNew
  <2>4. ASSUME Dropped(k), UNCHANGED loaderVars  PROVE Undisturbed
    <3>1. \A j \in Tasks : j # k => parent'[j] = parent[j] /\ task'[j] = task[j]
      BY <2>4 DEF Dropped, CoreInv, TypeOK
    <3>. QED  BY <2>2, <2>4, <3>1, UndisturbedByLists DEF loaderVars
  <2>5. ASSUME Destroyed({k}), UNCHANGED loaderVars  PROVE Undisturbed
    BY <2>2, <2>5, UndisturbedByDestroy
  <2>6. CASE ProcessThumbnail(k) \/ ProcessUrgent(k) \/ ProcessLoaded(k)
    BY <2>4, <2>5, <2>6 DEF ProcessThumbnail, ProcessUrgent, ProcessLoaded
  <2>. QED  BY <1>2, <2>3, <2>6 DEF Process
<1>3. CASE LoaderInit
  <2>1. \A l \in Loaders : lpc'[l] = lpc[l] \/ lpc[l] = "dead"
    BY <1>3, ExecuteFacts DEF LoaderInit, CoreInv
  <2>. QED  BY <1>3, <2>1, UndisturbedByLists DEF LoaderInit, taskVars
<1>4. CASE Terminate
  <2>1. bgLock = Main  BY <1>4 DEF Terminate, At, CoreInv, LockDiscipline
  <2>. QED  BY <2>1, NobodyLoads, Distinct DEF Undisturbed
<1>5. CASE FinishDeinit
  BY <1>5, UndisturbedByLists DEF FinishDeinit, taskVars, loaderVars
<1>6. ASSUME NEW k \in Tasks, DeleteFree(k)
      PROVE  Undisturbed
  <2>1. /\ parent[k] # "none" /\ \A j \in Tasks : j # k => parent'[j] = parent[j]
        /\ UNCHANGED <<task, loaderVars>>
    BY <1>6 DEF DeleteFree, CoreInv, TypeOK
  <2>. QED  BY <2>1, UndisturbedByLists DEF loaderVars
<1>. QED  BY <1>1, <1>2, <1>3, <1>4, <1>5, <1>6 DEF MainWork

\* Nor does another loader thread.
LEMMA UndisturbedLoader ==
  ASSUME CoreInv, NEW l \in Loaders, Loader(l)
  PROVE  Undisturbed
<1>1. CASE LoaderStart(l) \/ LoaderExit(l) \/ LoaderSeesWork(l)
  <2>1. \A m \in Loaders : lpc'[m] = lpc[m] \/ lpc[m] \notin {"loading", "loaded"}
    BY <1>1 DEF LoaderStart, LoaderExit, LoaderSeesWork, CoreInv, TypeOK
  <2>. QED
    BY <1>1, <2>1, UndisturbedByLists DEF LoaderStart, LoaderExit, LoaderSeesWork, taskVars
<1>2. CASE LoaderTake(l)
  BY <1>2, NobodyLoads, Distinct DEF LoaderTake, IsFree, Undisturbed
<1>3. CASE LoaderLoad(l) \/ LoaderHandBack(l)
  <2>1. /\ lpc[l] \in {"loading", "loaded"} /\ lpc'[l] \in {"loaded", "loop"}
        /\ lpc'[l] # lpc[l]
    BY <1>3 DEF LoaderLoad, LoaderHandBack, CoreInv, TypeOK
  <2>2. \A m \in Loaders : m # l => lpc[m] \notin {"loading", "loaded"}
    BY <2>1 DEF CoreInv, LockDiscipline
  <2>. QED  BY <2>1, <2>2 DEF Undisturbed
<1>. QED  BY <1>1, <1>2, <1>3 DEF Loader

\* No step at all disturbs a loader thread.
LEMMA UndisturbedStep == CoreInv /\ [Next]_vars => Undisturbed
<1>. SUFFICES ASSUME CoreInv, [Next]_vars  PROVE Undisturbed
  OBVIOUS
<1>1. CASE Call \/ UNCHANGED vars
  BY <1>1, UndisturbedByLists DEF Call, BeginInit, BeginForeground, BeginInvalidate,
     BeginFlush, Suspend, BeginDeinit, vars, taskVars, loaderVars
<1>. QED
  BY <1>1, UndisturbedRequest, UndisturbedMainRequest, UndisturbedMainWork,
     UndisturbedLoader DEF Next

\* While a loader thread loads a task no other thread touches the task, moves it to
\* another list or ends the loader thread.
THEOREM LoaderIsUndisturbed == Spec => LoaderUndisturbed
<1>1. CoreInv /\ [Next]_vars =>
        [\A l \in Loaders :
           lpc[l] \in {"loading", "loaded"} =>
             /\ lpc'[l] # "dead"
             /\ lpc'[l] = lpc[l] =>
                  /\ task'[ltask[l]] = task[ltask[l]]
                  /\ parent'[ltask[l]] = parent[ltask[l]]]_vars
  BY UndisturbedStep DEF Undisturbed
<1>. QED  BY <1>1, CoreInvariant, PTL DEF Spec, LoaderUndisturbed

-----------------------------------------------------------------------------
(* The loader implements TextureRequests. *)

StatusOf(t) == IF normalTask[t] # NoTask THEN "pending"
               ELSE IF initialized[t] THEN "ready" ELSE "idle"
Status == [t \in Textures |-> StatusOf(t)]

\* A step that changes no load task and no m_initialized is a stutter.
LEMMA StatusUnchanged ==
  ASSUME UNCHANGED <<normalTask, initialized>>
  PROVE  Status' = Status
BY DEF Status, StatusOf

\* A step that gives one texture another task or another mark.
LEMMA StatusMoves ==
  ASSUME NEW t \in Textures,
         \A u \in Textures : u # t => /\ normalTask'[u] = normalTask[u]
                                      /\ initialized'[u] = initialized[u],
         \/ StatusOf(t)' = StatusOf(t)
         \/ StatusOf(t) = "idle"
         \/ StatusOf(t) = "pending" /\ StatusOf(t)' = "ready"
         \/ StatusOf(t) = "ready" /\ StatusOf(t)' = "idle"
  PROVE  Requests!Next \/ Status' = Status
<1>1. StatusOf(t)' \in {"idle", "pending", "ready"}
  BY DEF StatusOf
<1>2. Status' = [Status EXCEPT ![t] = StatusOf(t)']
  BY DEF Status, StatusOf
<1>3. Status[t] = StatusOf(t)
  BY DEF Status
<1>4. ASSUME StatusOf(t)' = StatusOf(t)
      PROVE  Status' = Status
  BY <1>2, <1>3, <1>4 DEF Status
<1>. QED
  BY <1>1, <1>2, <1>3, <1>4
     DEF Requests!Next, Requests!Request, Requests!Complete, Requests!LoadNow,
         Requests!Release, Requests!Move, Status, StatusOf

\* Finish_Load always initializes: the task it is given is not a cancelled one.
LEMMA StatusFinished ==
  ASSUME CoreInv, NEW t \in Textures, NEW k \in Tasks, normalTask[t] = k,
         Finished(k), normalTask' = Unhook(normalTask, "TASK_LOAD", {k})
  PROVE  Requests!Next \/ Status' = Status
<1>1. task[k].texture = t /\ task[k].type = "TASK_LOAD"
  BY DEF CoreInv, TaskPointers
<1>2. \A u \in Textures : u # t => normalTask[u] # k
  BY <1>1 DEF CoreInv, TaskPointers
<1>3. \A u \in Textures :
         normalTask'[u] = IF normalTask[u] \in {k} THEN NoTask ELSE normalTask[u]
  <2>1. {k} \subseteq Tasks  OBVIOUS
  <2>. QED  BY <2>1, UnhookFacts
<1>4. task[k].state \in {"NONE", "LOAD_BEGUN", "LOADED"}
  <2>1. parent[k] \in {"fg", "bg", "none"}
    BY <1>1, DataAssumption DEF CoreInv, NoTaskLost, Live
  <2>2. task[k].state # "FOREGROUND_OVERRIDE"
    BY <1>1, <2>1 DEF CoreInv, NoTaskLost, StageOfPlace
  <2>. QED  BY <2>2 DEF CoreInv, TypeOK, TaskRecords, States
<1>5. initialized' = [initialized EXCEPT ![t] = TRUE]
  BY <1>1, <1>4 DEF Finished, Applied
<1>6. /\ initialized'[t] /\ normalTask'[t] = NoTask
      /\ \A u \in Textures : u # t => /\ normalTask'[u] = normalTask[u]
                                      /\ initialized'[u] = initialized[u]
  BY <1>2, <1>3, <1>5 DEF CoreInv, TypeOK
<1>7. StatusOf(t) = "pending" /\ StatusOf(t)' = "ready"
  BY <1>6, DataAssumption DEF StatusOf
<1>. QED  BY <1>6, <1>7, StatusMoves

\* Begin_Load_And_Queue for a texture that is not initialized.
LEMMA StatusBegin ==
  ASSUME CoreInv, NEW k \in Tasks, NEW rec, rec.texture \in Textures,
         ~initialized[rec.texture], BeginLoadAndQueue(k, rec),
         normalTask[rec.texture] \in {NoTask, k}
  PROVE  Requests!Next \/ Status' = Status
<1>. DEFINE t == rec.texture
<1>1. /\ \A u \in Textures : u # t => /\ normalTask'[u] = normalTask[u]
                                      /\ initialized'[u] = initialized[u]
      /\ \/ normalTask'[t] = k
         \/ normalTask'[t] = NoTask /\ initialized'[t]
  BY DEF BeginLoadAndQueue, Applied, CoreInv, TypeOK
<1>. HIDE DEF t
<1>2. CASE normalTask[t] = NoTask
  BY <1>1, <1>2, StatusMoves DEF StatusOf, t
<1>3. CASE normalTask[t] = k
  <2>1. /\ StatusOf(t) = "pending"
        /\ StatusOf(t)' = "pending" \/ StatusOf(t)' = "ready"
    BY <1>1, <1>3, DataAssumption DEF StatusOf
  <2>. QED  BY <1>1, <2>1, StatusMoves DEF t
<1>. QED  BY <1>2, <1>3 DEF t

\* What the requests are in terms of the abstract protocol.
LEMMA StatusRequest ==
  ASSUME CoreInv, NEW th \in Threads, Request(th)
  PROVE  Requests!Next \/ Status' = Status
<1>. DEFINE t == arg[th]
<1>1. CASE \/ ResetSurface(th) \/ ThumbnailSkip(th) \/ ThumbnailLater(th)
           \/ BackgroundSkip(th) \/ ForegroundSkip(th) \/ ForegroundLock(th)
  BY <1>1, StatusUnchanged DEF ResetSurface, ThumbnailSkip, ThumbnailLater, BackgroundSkip,
     ForegroundSkip, ForegroundLock, texVars
<1>2. CASE ClearInitialized(th)
  <2>1. PICK u \in Textures : u = t
    BY <1>2 DEF ClearInitialized, At, CoreInv, ThreadsAtWork, RequestPCs
  <2>2. /\ normalTask' = normalTask /\ ~initialized'[u]
        /\ \A v \in Textures : v # u => initialized'[v] = initialized[v]
    BY <1>2, <2>1 DEF ClearInitialized, CoreInv, TypeOK
  <2>3. \/ StatusOf(u)' = StatusOf(u)
        \/ StatusOf(u) = "ready" /\ StatusOf(u)' = "idle"
    BY <2>2 DEF StatusOf
  <2>. QED  BY <2>2, <2>3, StatusMoves
<1>3. CASE BackgroundQueue(th)
  <2>1. t \in Textures
    BY <1>3 DEF BackgroundQueue, At, CoreInv, ThreadsAtWork, RequestPCs
  <2>2. StatusOf(t) = "idle"
    BY <1>3 DEF BackgroundQueue, NeedsTask, StatusOf
  <2>3. /\ initialized' = initialized
        /\ \A u \in Textures : u # t => normalTask'[u] = normalTask[u]
    BY <1>3 DEF BackgroundQueue, CoreInv, TypeOK
  <2>. HIDE DEF t
  <2>. QED  BY <2>1, <2>2, <2>3, StatusMoves
<1>4. CASE ForegroundPromote(th)
  <2>1. t \in Textures /\ ~initialized[t]
    BY <1>4 DEF ForegroundPromote, AwaitsBackground, CoreInv, ThreadsAtWork, RequestPCs
  <2>2. CASE normalTask[t] = NoTask
    <3>1. StatusOf(t) = "idle"  BY <2>1, <2>2 DEF StatusOf
    <3>2. /\ initialized' = initialized
          /\ \A u \in Textures : u # t => normalTask'[u] = normalTask[u]
      BY <1>4, <2>2 DEF ForegroundPromote, CoreInv, TypeOK
    <3>. HIDE DEF t
    <3>. QED  BY <2>1, <3>1, <3>2, StatusMoves
  <2>3. CASE normalTask[t] # NoTask
    BY <1>4, <2>3, StatusUnchanged DEF ForegroundPromote
  <2>. QED  BY <2>2, <2>3
<1>. QED  BY <1>1, <1>2, <1>3, <1>4 DEF Request

\* What the main thread's requests are in terms of the abstract protocol.
LEMMA StatusMainRequest ==
  ASSUME CoreInv, MainRequest
  PROVE  Requests!Next \/ Status' = Status
<1>. DEFINE t == arg[Main]
<1>1. CASE ThumbnailNow
  BY <1>1, StatusUnchanged DEF ThumbnailNow
<1>2. CASE BackgroundBegin
  <2>1. t \in Textures
    BY <1>2, Distinct DEF BackgroundBegin, At, CoreInv, ThreadsAtWork, RequestPCs
  <2>2. PICK k \in Creatable : BeginLoadAndQueue(k, NewTask(t, "TASK_LOAD", "BACKGROUND"))
    BY <1>2 DEF BackgroundBegin
  <2>3. k \in Tasks /\ NewTask(t, "TASK_LOAD", "BACKGROUND").texture = t
    BY CreatableFacts DEF NewTask
  <2>4. ~initialized[t] /\ normalTask[t] = NoTask
    BY <1>2 DEF BackgroundBegin, NeedsTask
  <2>. QED  BY <2>1, <2>2, <2>3, <2>4, StatusBegin
<1>3. CASE ForegroundNow
  <2>1. t \in Textures
    BY <1>3, Distinct DEF ForegroundNow, InForeground, CoreInv, ThreadsAtWork, RequestPCs
  <2>2. /\ StatusOf(t) = "idle" /\ normalTask' = normalTask
        /\ \A u \in Textures : u # t => initialized'[u] = initialized[u]
    BY <1>3 DEF ForegroundNow, Applied, StatusOf, CoreInv, TypeOK
  <2>. HIDE DEF t
  <2>. QED  BY <2>1, <2>2, StatusMoves
<1>4. CASE ForegroundFinish
  <2>1. t \in Textures
    BY <1>4, Distinct DEF ForegroundFinish, AwaitsBackground, CoreInv, ThreadsAtWork,
       RequestPCs
  <2>2. normalTask[t] \in Tasks
    BY <1>4, <2>1 DEF ForegroundFinish, CoreInv, TypeOK, ThreadsAtWork
  <2>. QED  BY <1>4, <2>1, <2>2, StatusFinished DEF ForegroundFinish
<1>. QED  BY <1>1, <1>2, <1>3, <1>4 DEF MainRequest

\* What Update's loop does in terms of the abstract protocol.
LEMMA StatusProcess ==
  ASSUME CoreInv, NEW k \in Tasks, Process(k)
  PROVE  Requests!Next \/ Status' = Status
<1>1. Popped(k) /\ task[k].texture \in Textures
  <2>1. Popped(k)
    BY DEF Process, ProcessThumbnail, ProcessUrgent, ProcessNew, ProcessLoaded
  <2>. QED  BY <2>1, PoppedFacts
<1>. DEFINE t == task[k].texture
<1>2. task[k].type = "TASK_LOAD" => normalTask[t] = k /\ ~initialized[t]
  BY <1>1, DataAssumption DEF CoreInv, TaskPointers, PendingUninitialized
<1>3. CASE ProcessThumbnail(k)
  BY <1>3, StatusUnchanged DEF ProcessThumbnail, Dropped, texVars
<1>4. CASE ProcessUrgent(k)
  BY <1>1, <1>2, <1>4, StatusFinished DEF ProcessUrgent
<1>5. CASE ProcessNew(k)
  BY <1>1, <1>2, <1>5, StatusBegin DEF ProcessNew
<1>6. CASE ProcessLoaded(k)
  <2>1. CASE task[k].state = "LOADED"
    <3>1. Finished(k) /\ normalTask' = Unhook(normalTask, "TASK_LOAD", {k})
      BY <1>6, <2>1 DEF ProcessLoaded, Finished
    <3>. QED  BY <1>1, <1>2, <1>6, <3>1, StatusFinished DEF ProcessLoaded
  <2>2. CASE task[k].state # "LOADED"
    BY <1>6, <2>2, StatusUnchanged DEF ProcessLoaded, Dropped, texVars
  <2>. QED  BY <2>1, <2>2
<1>. QED  BY <1>3, <1>4, <1>5, <1>6 DEF Process

\* What the main thread's other work is in terms of the abstract protocol.
LEMMA StatusMainWork ==
  ASSUME CoreInv, MainWork
  PROVE  Requests!Next \/ Status' = Status
<1>1. CASE \/ BeginUpdate \/ EndUpdate \/ FlushCheck \/ FlushLock \/ FlushSuspended
           \/ LoaderInit \/ Terminate \/ (\E k \in Tasks : DeleteFree(k)) \/ FinishDeinit
  BY <1>1, StatusUnchanged DEF BeginUpdate, EndUpdate, FlushCheck, FlushLock,
     FlushSuspended, LoaderInit, Terminate, DeleteFree, FinishDeinit, texVars
<1>2. CASE FinishInvalidate
  <2>. DEFINE t == arg[Main]
  <2>1. PICK u \in Textures : u = t
    BY <1>2, Distinct DEF FinishInvalidate, At, CoreInv, ThreadsAtWork, RequestPCs
  <2>2. /\ normalTask' = normalTask /\ ~initialized'[u]
        /\ \A v \in Textures : v # u => initialized'[v] = initialized[v]
    BY <1>2, <2>1 DEF FinishInvalidate, CoreInv, TypeOK
  <2>3. \/ StatusOf(u)' = StatusOf(u)
        \/ StatusOf(u) = "ready" /\ StatusOf(u)' = "idle"
    BY <2>2 DEF StatusOf
  <2>. QED  BY <2>2, <2>3, StatusMoves
<1>. QED  BY <1>1, <1>2, StatusProcess DEF MainWork

\* The loader implements the abstract request protocol: a pending texture becomes
\* ready or stays pending, and no request is forgotten.
THEOREM LoaderImplementsRequests == Spec => ImplementsRequests
<1>1. Init => Requests!Init
  BY DEF Init, Requests!Init
<1>2. CoreInv /\ [Next]_vars => (Requests!Next \/ Status' = Status)
  <2>. SUFFICES ASSUME CoreInv, [Next]_vars
                PROVE  Requests!Next \/ Status' = Status
    OBVIOUS
  <2>1. CASE Call \/ (\E l \in Loaders : Loader(l)) \/ UNCHANGED vars
    BY <2>1, StatusUnchanged DEF Call, BeginInit, BeginForeground, BeginInvalidate,
       BeginFlush, Suspend, BeginDeinit, Loader, LoaderStart, LoaderExit, LoaderSeesWork,
       LoaderTake, LoaderLoad, LoaderHandBack, vars, texVars
  <2>. QED
    BY <2>1, StatusRequest, StatusMainRequest, StatusMainWork DEF Next
<1>3. CoreInv /\ [Next]_vars =>
        [Requests!Next]_([t \in Textures |->
            IF normalTask[t] # NoTask THEN "pending"
            ELSE IF initialized[t] THEN "ready" ELSE "idle"])
  BY <1>2 DEF Status, StatusOf
<1>. QED
  BY <1>1, <1>3, CoreInvariant, PTL DEF Spec, ImplementsRequests, Requests!Spec


-----------------------------------------------------------------------------
(* An initialized texture has a surface. *)

\* The places of a thread between letting go of the surface and saying so.
InReset(p) == p \in {"init_thumbnail", "init_clear"}

\* A step that initializes only what has a surface, takes none away from what stays
\* initialized, and lets no thread out of Load_Locked_Surface.
LEMMA SurfaceKept ==
  ASSUME InitializedHasSurface,
         \A t \in Textures : initialized'[t] => initialized[t] \/ surface'[t] # "none",
         \A t \in Textures : initialized'[t] /\ surface[t] # "none" => surface'[t] # "none",
         \A th \in Threads : InReset(pc[th]) => InReset(pc'[th]) /\ arg'[th] = arg[th]
  PROVE  InitializedHasSurface'
<1>. SUFFICES ASSUME NEW t \in Textures, initialized'[t], surface'[t] = "none"
              PROVE  \E th \in Threads : arg'[th] = t /\ InReset(pc'[th])
  BY DEF InitializedHasSurface, InReset
<1>1. PICK th \in Threads : arg[th] = t /\ InReset(pc[th])
  BY DEF InitializedHasSurface, InReset
<1>. QED  BY <1>1

\* What Applied does keeps the surfaces, whatever else happens in the step.
LEMMA SurfaceApplied ==
  ASSUME TypeOK, NEW t, Applied(t) \/ UNCHANGED <<surface, initialized>>
  PROVE  /\ \A x \in Textures : initialized'[x] => initialized[x] \/ surface'[x] # "none"
         /\ \A x \in Textures : initialized'[x] /\ surface[x] # "none" => surface'[x] # "none"
BY DEF TypeOK, Applied

\* So does Finish_Load.
LEMMA SurfaceFinished ==
  ASSUME TypeOK, NEW k, Finished(k)
  PROVE  /\ \A x \in Textures : initialized'[x] => initialized[x] \/ surface'[x] # "none"
         /\ \A x \in Textures : initialized'[x] /\ surface[x] # "none" => surface'[x] # "none"
BY SurfaceApplied DEF Finished

\* What the engine calls at any time.
LEMMA SurfaceCall ==
  ASSUME CoreInv, InitializedHasSurface, Call
  PROVE  InitializedHasSurface'
<1>. USE DEF CoreInv
<1>1. ASSUME NEW th \in Threads, NEW t \in Textures, BeginInit(th, t)
      PROVE  InitializedHasSurface'
  <2>1. \A x \in Threads : InReset(pc[x]) => InReset(pc'[x]) /\ arg'[x] = arg[x]
    BY <1>1 DEF BeginInit, TypeOK, At, Goto, InReset
  <2>. QED  BY <1>1, <2>1, SurfaceKept DEF BeginInit, texVars
<1>2. ASSUME NEW th \in Threads, NEW t \in Textures, BeginForeground(th, t)
      PROVE  InitializedHasSurface'
  <2>1. \A x \in Threads : InReset(pc[x]) => InReset(pc'[x]) /\ arg'[x] = arg[x]
    BY <1>2 DEF BeginForeground, TypeOK, At, Goto, InReset
  <2>. QED  BY <1>2, <2>1, SurfaceKept DEF BeginForeground, texVars
<1>3. ASSUME NEW t \in Textures, BeginInvalidate(t)
      PROVE  InitializedHasSurface'
  <2>1. \A x \in Threads : InReset(pc[x]) => InReset(pc'[x]) /\ arg'[x] = arg[x]
    BY <1>3 DEF BeginInvalidate, TypeOK, At, Goto, InReset, Threads
  <2>. QED  BY <1>3, <2>1, SurfaceKept DEF BeginInvalidate, texVars
<1>4. CASE BeginFlush \/ Suspend \/ BeginDeinit
  <2>1. \A x \in Threads : InReset(pc[x]) => InReset(pc'[x]) /\ arg'[x] = arg[x]
    BY <1>4 DEF BeginFlush, Suspend, BeginDeinit, threadVars, TypeOK, At, Goto, InReset
  <2>. QED  BY <1>4, <2>1, SurfaceKept DEF BeginFlush, Suspend, BeginDeinit, texVars
<1>. QED  BY <1>1, <1>2, <1>3, <1>4 DEF Call

\* The steps of a request: Load_Locked_Surface is the one that matters.
LEMMA SurfaceRequest ==
  ASSUME CoreInv, InitializedHasSurface, NEW th \in Threads, Request(th)
  PROVE  InitializedHasSurface'
<1>. USE DEF CoreInv
<1>1. CASE ResetSurface(th)
  <2>1. \A t \in Textures : t # arg[th] => surface'[t] = surface[t]
    BY <1>1 DEF ResetSurface, TypeOK
  <2>2. \A x \in Threads : InReset(pc[x]) => InReset(pc'[x]) /\ arg'[x] = arg[x]
    BY <1>1 DEF ResetSurface, TypeOK, At, Goto, InReset
  <2>3. InReset(pc'[th]) /\ arg' = arg
    BY <1>1 DEF ResetSurface, TypeOK, Goto, InReset
  <2>. SUFFICES ASSUME NEW t \in Textures, initialized'[t], surface'[t] = "none"
                PROVE  \E x \in Threads : arg'[x] = t /\ InReset(pc'[x])
    BY DEF InitializedHasSurface, InReset
  <2>4. CASE t = arg[th]  BY <2>3, <2>4
  <2>5. CASE t # arg[th]
    <3>1. initialized[t] /\ surface[t] = "none"  BY <1>1, <2>1, <2>5 DEF ResetSurface
    <3>2. PICK x \in Threads : arg[x] = t /\ InReset(pc[x])
      BY <3>1 DEF InitializedHasSurface, InReset
    <3>. QED  BY <3>2, <2>2
  <2>. QED  BY <2>4, <2>5
<1>2. CASE ClearInitialized(th)
  <2>1. \A x \in Threads : x # th => pc'[x] = pc[x]
    BY <1>2 DEF ClearInitialized, TypeOK, Goto
  <2>2. /\ arg' = arg /\ surface' = surface
        /\ \A t \in Textures : initialized'[t] => t # arg[th] /\ initialized[t]
    BY <1>2 DEF ClearInitialized, TypeOK
  <2>. SUFFICES ASSUME NEW t \in Textures, initialized'[t], surface'[t] = "none"
                PROVE  \E x \in Threads : arg'[x] = t /\ InReset(pc'[x])
    BY DEF InitializedHasSurface, InReset
  <2>3. PICK x \in Threads : arg[x] = t /\ InReset(pc[x])
    BY <2>2 DEF InitializedHasSurface, InReset
  <2>. QED  BY <2>1, <2>2, <2>3
<1>3. CASE ThumbnailSkip(th) \/ ThumbnailLater(th)
  <2>1. \A x \in Threads : InReset(pc[x]) => InReset(pc'[x]) /\ arg'[x] = arg[x]
    BY <1>3 DEF ThumbnailSkip, ThumbnailLater, TypeOK, At, Goto, InReset
  <2>. QED  BY <1>3, <2>1, SurfaceKept DEF ThumbnailSkip, ThumbnailLater, texVars
<1>4. CASE BackgroundSkip(th) \/ BackgroundQueue(th)
  <2>1. \A x \in Threads : InReset(pc[x]) => InReset(pc'[x]) /\ arg'[x] = arg[x]
    BY <1>4 DEF BackgroundSkip, BackgroundQueue, TypeOK, At, Goto, Leave, InReset
  <2>. QED  BY <1>4, <2>1, SurfaceKept DEF BackgroundSkip, BackgroundQueue, texVars
<1>5. CASE ForegroundSkip(th)
  <2>1. \A x \in Threads : InReset(pc[x]) => InReset(pc'[x]) /\ arg'[x] = arg[x]
    BY <1>5 DEF ForegroundSkip, LeaveForeground, InForeground, TypeOK, Goto, Leave, InReset
  <2>. QED  BY <1>5, <2>1, SurfaceKept DEF ForegroundSkip, texVars
<1>6. CASE ForegroundLock(th)
  <2>1. \A x \in Threads : InReset(pc[x]) => InReset(pc'[x]) /\ arg'[x] = arg[x]
    BY <1>6 DEF ForegroundLock, InForeground, TypeOK, Goto, InReset
  <2>2. UNCHANGED <<surface, initialized>>  BY <1>6 DEF ForegroundLock
  <2>. QED  BY <2>1, <2>2, SurfaceKept
<1>7. CASE ForegroundPromote(th)
  <2>1. \A x \in Threads : InReset(pc[x]) => InReset(pc'[x]) /\ arg'[x] = arg[x]
    BY <1>7 DEF ForegroundPromote, LeaveForeground, AwaitsBackground, TypeOK, Goto, Leave, InReset
  <2>2. UNCHANGED <<surface, initialized>>  BY <1>7 DEF ForegroundPromote
  <2>. QED  BY <2>1, <2>2, SurfaceKept
<1>. QED  BY <1>1, <1>2, <1>3, <1>4, <1>5, <1>6, <1>7 DEF Request

\* The main thread's part of the requests.
LEMMA SurfaceMainRequest ==
  ASSUME CoreInv, InitializedHasSurface, MainRequest
  PROVE  InitializedHasSurface'
<1>. USE DEF CoreInv
<1>1. CASE ThumbnailNow
  <2>1. \A x \in Threads : InReset(pc[x]) => InReset(pc'[x]) /\ arg'[x] = arg[x]
    BY <1>1 DEF ThumbnailNow, TypeOK, At, Goto, InReset
  <2>2. /\ initialized' = initialized
        /\ \A t \in Textures : surface[t] # "none" => surface'[t] # "none"
    BY <1>1 DEF ThumbnailNow, TypeOK
  <2>. QED  BY <2>1, <2>2, SurfaceKept
<1>2. CASE BackgroundBegin
  <2>1. \A x \in Threads : InReset(pc[x]) => InReset(pc'[x]) /\ arg'[x] = arg[x]
    BY <1>2 DEF BackgroundBegin, TypeOK, At, Goto, Leave, InReset
  <2>2. Applied(arg[Main]) \/ UNCHANGED <<surface, initialized>>
    BY <1>2 DEF BackgroundBegin, BeginLoadAndQueue, NewTask
  <2>. QED  BY <2>1, <2>2, SurfaceApplied, SurfaceKept
<1>3. CASE ForegroundNow
  <2>1. \A x \in Threads : InReset(pc[x]) => InReset(pc'[x]) /\ arg'[x] = arg[x]
    BY <1>3 DEF ForegroundNow, LeaveForeground, InForeground, TypeOK, Goto, Leave, InReset
  <2>2. Applied(arg[Main])  BY <1>3 DEF ForegroundNow
  <2>. QED  BY <2>1, <2>2, SurfaceApplied, SurfaceKept
<1>4. CASE ForegroundFinish
  <2>1. \A x \in Threads : InReset(pc[x]) => InReset(pc'[x]) /\ arg'[x] = arg[x]
    BY <1>4 DEF ForegroundFinish, LeaveForeground, AwaitsBackground, TypeOK, Goto, Leave, InReset
  <2>2. Finished(normalTask[arg[Main]])  BY <1>4 DEF ForegroundFinish
  <2>. QED  BY <2>1, <2>2, SurfaceFinished, SurfaceKept
<1>. QED  BY <1>1, <1>2, <1>3, <1>4 DEF MainRequest

\* Update's loop.
LEMMA SurfaceProcess ==
  ASSUME CoreInv, InitializedHasSurface, NEW k \in Tasks, Process(k)
  PROVE  InitializedHasSurface'
<1>. USE DEF CoreInv
<1>1. UNCHANGED threadVars
  BY DEF Process, ProcessThumbnail, ProcessUrgent, ProcessNew, ProcessLoaded
<1>2. CASE ProcessThumbnail(k)
  <2>1. /\ initialized' = initialized
        /\ \A t \in Textures : surface[t] # "none" => surface'[t] # "none"
    BY <1>2 DEF ProcessThumbnail, Dropped, texVars, TypeOK
  <2>. QED  BY <1>1, <2>1, SurfaceKept DEF threadVars
<1>3. CASE ProcessUrgent(k)
  <2>1. Finished(k)  BY <1>3 DEF ProcessUrgent
  <2>. QED  BY <1>1, <2>1, SurfaceFinished, SurfaceKept DEF threadVars
<1>4. CASE ProcessNew(k) \/ ProcessLoaded(k)
  <2>1. Applied(task[k].texture) \/ UNCHANGED <<surface, initialized>>
    BY <1>4 DEF ProcessNew, ProcessLoaded, BeginLoadAndQueue, Dropped, texVars
  <2>. QED  BY <1>1, <2>1, SurfaceApplied, SurfaceKept DEF threadVars
<1>. QED  BY <1>2, <1>3, <1>4 DEF Process

\* What the main thread does besides.
LEMMA SurfaceMainWork ==
  ASSUME CoreInv, InitializedHasSurface, MainWork
  PROVE  InitializedHasSurface'
<1>. USE DEF CoreInv
<1>1. CASE BeginUpdate \/ EndUpdate \/ FlushCheck \/ FlushLock \/ FlushSuspended
  <2>1. \A x \in Threads : InReset(pc[x]) => InReset(pc'[x]) /\ arg'[x] = arg[x]
    BY <1>1 DEF BeginUpdate, EndUpdate, FlushCheck, FlushLock, FlushSuspended,
       TypeOK, At, Goto, InReset
  <2>. QED
    BY <1>1, <2>1, SurfaceKept
    DEF BeginUpdate, EndUpdate, FlushCheck, FlushLock, FlushSuspended, texVars
<1>2. CASE LoaderInit \/ Terminate \/ (\E k \in Tasks : DeleteFree(k)) \/ FinishDeinit
  <2>1. \A x \in Threads : InReset(pc[x]) => InReset(pc'[x]) /\ arg'[x] = arg[x]
    BY <1>2 DEF LoaderInit, Terminate, DeleteFree, FinishDeinit, threadVars, TypeOK, At,
       Goto, InReset
  <2>. QED
    BY <1>2, <2>1, SurfaceKept DEF LoaderInit, Terminate, DeleteFree, FinishDeinit, texVars
<1>3. CASE FinishInvalidate
  <2>1. \A x \in Threads : InReset(pc[x]) => InReset(pc'[x]) /\ arg'[x] = arg[x]
    BY <1>3 DEF FinishInvalidate, TypeOK, At, Goto, Leave, InReset
  <2>2. \A t \in Textures :
          initialized'[t] => initialized[t] /\ surface'[t] = surface[t]
    BY <1>3 DEF FinishInvalidate, TypeOK
  <2>. QED  BY <2>1, <2>2, SurfaceKept
<1>. QED  BY <1>1, <1>2, <1>3, SurfaceProcess DEF MainWork

\* A texture that counts as initialized has a surface, except while a thread is in
\* the middle of Load_Locked_Surface for it.
THEOREM InitializedShowsSurface == Spec => []InitializedHasSurface
<1>1. Init => InitializedHasSurface
  BY DEF Init, InitializedHasSurface
<1>2. CoreInv /\ InitializedHasSurface /\ [Next]_vars => InitializedHasSurface'
  <2>. SUFFICES ASSUME CoreInv, InitializedHasSurface, [Next]_vars
                PROVE  InitializedHasSurface'
    OBVIOUS
  <2>1. CASE \E l \in Loaders : Loader(l)
    <3>1. UNCHANGED <<texVars, threadVars>>
      BY <2>1 DEF Loader, LoaderStart, LoaderExit, LoaderSeesWork, LoaderTake,
         LoaderLoad, LoaderHandBack
    <3>. QED  BY <3>1 DEF InitializedHasSurface, texVars, threadVars
  <2>2. CASE UNCHANGED vars
    BY <2>2 DEF InitializedHasSurface, vars, texVars, threadVars
  <2>. QED
    BY <2>1, <2>2, SurfaceCall, SurfaceRequest, SurfaceMainRequest, SurfaceMainWork DEF Next
<1>. QED  BY <1>1, <1>2, CoreInvariant, PTL DEF Spec
=============================================================================
