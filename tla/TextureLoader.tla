---------------------------- MODULE TextureLoader ----------------------------
(***************************************************************************)
(* The background texture loader (w3d/renderer/textureloader.cpp).         *)
(*                                                                         *)
(* A texture that is used before its file is loaded asks for a load task.  *)
(* Tasks travel between two queues.  The main thread - the only one that   *)
(* may call Direct3D - takes tasks from the foreground queue, creates and  *)
(* locks the surfaces (Begin_Load) and hands them to the background queue; *)
(* the loader thread fills the surfaces (Load) and hands the task back;    *)
(* the main thread then unlocks the surfaces, gives them to the texture    *)
(* (End_Load) and returns the task to the free list.  Other threads may    *)
(* request textures too; they only ever touch the queues.                  *)
(*                                                                         *)
(* Two spin locks guard all this: g_foregroundCritSec (fgLock), which      *)
(* every request and Update take, and g_backgroundCritSec (bgLock), which  *)
(* the loader keeps for the whole of a Load.  A section that holds one     *)
(* lock and blocks on nothing inside is one action that needs the lock     *)
(* free; the lock variables record the holders that do block, or that      *)
(* other threads can observe at work, while they hold a lock.              *)
(*                                                                         *)
(* The two queues have a mutex of their own besides, taken by every single *)
(* operation on them (SynchronizedTextureLoadTaskListClass), so an         *)
(* operation that is under one of the two locks only is still atomic.  The *)
(* free list has none: Create and Destroy change it under the foreground   *)
(* lock, but Deinit empties it under the background lock.  Here it is a    *)
(* set whose operations are atomic; FreeListRace takes them apart.         *)
(***************************************************************************)
EXTENDS Naturals, Sequences, FiniteSets

CONSTANTS
  Textures,      \* TextureBaseClass objects
  Tasks,         \* TextureLoadTaskClass objects that `new' can hand out
  Main,          \* the thread that owns the Direct3D device
  Clients,       \* other threads that request textures
  Loaders,       \* thread handles the loader thread can run under, one at a time
  Thumbnailed,   \* textures that get a thumbnail first: more than one mip level
  Ops,           \* which of the public entry points the threads call
  NoTask, NoTexture, NoThread

AllOps == {"init", "foreground", "flush", "suspend", "invalidate", "deinit"}

Threads == {Main} \cup Clients

ASSUME ThreadsAssumption ==
  /\ Main \notin Clients
  /\ Loaders \cap Threads = {}
  /\ NoThread \notin Threads \cup Loaders

ASSUME DataAssumption ==
  /\ NoTask \notin Tasks
  /\ NoTexture \notin Textures
  /\ Thumbnailed \subseteq Textures
  /\ Ops \subseteq AllOps

VARIABLES
  fgLock, bgLock,           \* who holds g_foregroundCritSec, g_backgroundCritSec
  fgQueue, bgQueue,         \* g_foregroundQueue, g_backgroundQueue
  parent,                   \* m_parent of a task: the list it is linked into
  task,                     \* m_texture, m_type, m_priority, m_loadState of a task
  locked,                   \* tasks that hold a Direct3D texture with locked surfaces
  normalTask, thumbTask,    \* m_normalTextureLoadTask, m_thumbnailTextureLoadTask
  initialized,              \* m_initialized of a texture
  surface,                  \* what m_d3dTexture of a texture refers to
  pc, arg,                  \* where a requesting thread is, and with which texture
  lpc, ltask,               \* where a loader thread is, and its local task
  isRunning, handle,        \* m_isRunning and m_handle of s_textureLoadThread
  suspended                 \* s_textureLoadSuspended

locks      == <<fgLock, bgLock>>
queues     == <<fgQueue, bgQueue>>
taskVars   == <<parent, task, locked>>
texVars    == <<normalTask, thumbTask, initialized, surface>>
threadVars == <<pc, arg>>
loaderVars == <<lpc, ltask>>
lifeVars   == <<isRunning, handle>>
vars == <<locks, queues, taskVars, texVars, threadVars, loaderVars, lifeVars,
          suspended>>

-----------------------------------------------------------------------------
(* Values.                                                                 *)

Types      == {"TASK_NONE", "TASK_THUMBNAIL", "TASK_LOAD"}
Priorities == {"BACKGROUND", "FOREGROUND"}
States     == {"NONE", "LOAD_BEGUN", "LOADED", "FOREGROUND_OVERRIDE"}

\* "heap" is a task `new' has not handed out, "none" a task whose m_parent is
\* null because some thread has it in a local variable.
Lists == {"heap", "freeList", "fg", "bg", "none"}

TaskRecords == [texture : Textures \cup {NoTexture}, type : Types,
                priority : Priorities, state : States]

\* A task without a texture: the fields Init overwrites have no meaning.
BlankTask == [texture |-> NoTexture, type |-> "TASK_NONE",
              priority |-> "BACKGROUND", state |-> "NONE"]

Surfaces == {"none", "thumbnail", "final"}

PCs == {"off", "idle",
        "init_reset", "init_thumbnail", "init_clear", "init_background",
        "init_foreground", "foreground",
        "init_foreground_bg", "foreground_bg",
        "invalidate", "update", "flush_check", "flush_lock", "flush",
        "deinit"}

LoaderPCs == {"dead", "created", "loop", "locking", "loading", "loaded"}

-----------------------------------------------------------------------------
(* The lock that a thread has to wait for.                                 *)

\* FastCriticalSectionClass: the flag test_and_set finds clear.
IsFreeBlind(lock) == TRUE       \* mutant: the lock is not taken
IsFree(lock) == lock = NoThread

-----------------------------------------------------------------------------
(* The intrusive task lists.                                               *)

\* A queue without one of its tasks.
Without(queue, k) ==
  IF \E i \in 1..Len(queue) : queue[i] = k
    THEN LET i == CHOOSE i \in 1..Len(queue) : queue[i] = k
         IN  [j \in 1..(Len(queue) - 1) |-> IF j < i THEN queue[j] ELSE queue[j + 1]]
    ELSE queue

\* TextureLoadTaskListClass::Remove: nothing happens to a task of another list.
\* NoTask stands for a null pointer the caller has tested before.
Remove(list, queue, k) ==
  IF k # NoTask /\ parent[k] = list THEN Without(queue, k) ELSE queue

\* Tasks that Create may return: a free one, or a new one if none is free.
Creatable ==
  IF \E k \in Tasks : parent[k] = "freeList"
    THEN {k \in Tasks : parent[k] = "freeList"}
    ELSE {k \in Tasks : parent[k] = "heap"}

NewTask(t, type, priority) ==
  [texture |-> t, type |-> type, priority |-> priority, state |-> "NONE"]

\* Destroy: Deinit unhooks the task from its texture and drops the texture, then
\* the free list takes the task.
Destroyed(K) ==
  /\ parent' = [k \in Tasks |-> IF k \in K THEN "freeList" ELSE parent[k]]
  /\ task'   = [k \in Tasks |-> IF k \in K THEN BlankTask ELSE task[k]]

Unhook(pointer, type, K) ==
  [t \in Textures |->
     IF \E k \in K : task[k].texture = t /\ task[k].type = type
       THEN NoTask ELSE pointer[t]]

\* Apply of a loaded or of the missing texture: the texture is initialized.
Applied(t) ==
  /\ surface' = [surface EXCEPT ![t] = "final"]
  /\ initialized' = [initialized EXCEPT ![t] = TRUE]

\* Unlock_Surfaces, and Apply which lets go of the task's Direct3D texture.
UnlockNothing(k) == locked' = locked       \* mutant
Unlock(k) == locked' = locked \ {k}

\* Finish_Load runs the stages that are left (Begin_Load, Load, End_Load), or
\* gives up on the file and applies the missing texture.
FinishedShort(k) ==       \* mutant: a case does not fall through to End_Load
  IF task[k].state \in {"NONE", "LOAD_BEGUN"}
    THEN Applied(task[k].texture) /\ Unlock(k)
    ELSE UNCHANGED <<surface, initialized, locked>>
Finished(k) ==
  IF task[k].state \in {"NONE", "LOAD_BEGUN", "LOADED"}
    THEN Applied(task[k].texture) /\ Unlock(k)
    ELSE UNCHANGED <<surface, initialized, locked>>

-----------------------------------------------------------------------------
Init ==
  /\ fgLock = NoThread /\ bgLock = NoThread
  /\ fgQueue = << >> /\ bgQueue = << >>
  /\ parent = [k \in Tasks |-> "heap"]
  /\ task = [k \in Tasks |-> BlankTask]
  /\ locked = {}
  /\ normalTask = [t \in Textures |-> NoTask]
  /\ thumbTask = [t \in Textures |-> NoTask]
  /\ initialized = [t \in Textures |-> FALSE]
  /\ surface = [t \in Textures |-> "none"]
  /\ pc = [th \in Threads |-> IF th = Main THEN "off" ELSE "idle"]
  /\ arg = [th \in Threads |-> NoTexture]
  /\ lpc = [l \in Loaders |-> "dead"]
  /\ ltask = [l \in Loaders |-> NoTask]
  /\ isRunning = FALSE
  /\ handle = NoThread
  /\ suspended = FALSE

At(th, label) == pc[th] = label
Goto(th, label) == pc' = [pc EXCEPT ![th] = label]
Leave(th) == Goto(th, "idle") /\ arg' = [arg EXCEPT ![th] = NoTexture]

-----------------------------------------------------------------------------
(* ThreadClass and the loader thread.                                      *)

\* Execute: m_isRunning stays as it is, the new thread itself will set it.
\* Creating a thread is taken to succeed, as the code takes it to.
Execute ==
  \E l \in Loaders :
    /\ lpc[l] = "dead"
    /\ lpc' = [lpc EXCEPT ![l] = "created"]
    /\ handle' = l

\* Is_Running asks for the handle, not for m_isRunning: a thread that is created
\* and has not started yet counts.
IsRunning == handle # NoThread

\* Internal_Thread_Function enters Thread_Function.
LoaderStart(l) ==
  /\ lpc[l] = "created"
  /\ lpc' = [lpc EXCEPT ![l] = "loop"]
  /\ isRunning' = TRUE
  /\ UNCHANGED <<locks, queues, taskVars, texVars, threadVars, ltask, handle, suspended>>

\* Thread_Function returns and Internal_Thread_Function clears m_handle.
LoaderExit(l) ==
  /\ lpc[l] = "loop" /\ ~isRunning
  /\ lpc' = [lpc EXCEPT ![l] = "dead"]
  /\ handle' = NoThread
  /\ UNCHANGED <<locks, queues, taskVars, texVars, threadVars, ltask, isRunning, suspended>>

\* Thread_Function finds work, looking at the queue without a lock.
LoaderSeesMore(l) ==       \* mutant: the last task of the queue is overlooked
  /\ lpc[l] = "loop" /\ isRunning
  /\ Len(bgQueue) > 1
  /\ lpc' = [lpc EXCEPT ![l] = "locking"]
  /\ UNCHANGED <<locks, queues, taskVars, texVars, threadVars, ltask, lifeVars, suspended>>
LoaderSeesWork(l) ==
  /\ lpc[l] = "loop" /\ isRunning
  /\ bgQueue # << >>
  /\ lpc' = [lpc EXCEPT ![l] = "locking"]
  /\ UNCHANGED <<locks, queues, taskVars, texVars, threadVars, ltask, lifeVars, suspended>>

\* It locks the background section and takes a task, which it may find gone.
TakeNothing(l) ==
  /\ lpc' = [lpc EXCEPT ![l] = "loop"]
  /\ UNCHANGED <<bgLock, bgQueue, parent, ltask>>

LoaderTake(l) ==
  /\ lpc[l] = "locking" /\ IsFree(bgLock)
  /\ IF bgQueue = << >>
       THEN TakeNothing(l)
       ELSE /\ bgLock' = l
            /\ ltask' = [ltask EXCEPT ![l] = Head(bgQueue)]
            /\ bgQueue' = Tail(bgQueue)
            /\ parent' = [parent EXCEPT ![Head(bgQueue)] = "none"]
            /\ lpc' = [lpc EXCEPT ![l] = "loading"]
  /\ UNCHANGED <<fgLock, fgQueue, task, locked, texVars, threadVars, lifeVars, suspended>>

\* task->Load() has filled the surfaces.
LoaderLoad(l) ==
  /\ lpc[l] = "loading"
  /\ task' = [task EXCEPT ![ltask[l]].state = "LOADED"]
  /\ lpc' = [lpc EXCEPT ![l] = "loaded"]
  /\ UNCHANGED <<locks, queues, parent, locked, texVars, threadVars, ltask, lifeVars, suspended>>

\* Still holding the background section it locks the foreground one, hands the
\* task back and releases both.
LoaderHandBack(l) ==
  /\ lpc[l] = "loaded" /\ IsFree(fgLock)
  /\ fgQueue' = Append(fgQueue, ltask[l])
  /\ parent' = [parent EXCEPT ![ltask[l]] = "fg"]
  /\ ltask' = [ltask EXCEPT ![l] = NoTask]
  /\ bgLock' = NoThread
  /\ lpc' = [lpc EXCEPT ![l] = "loop"]
  /\ UNCHANGED <<fgLock, bgQueue, task, locked, texVars, threadVars, lifeVars, suspended>>

Loader(l) == LoaderStart(l) \/ LoaderExit(l) \/ LoaderSeesWork(l)
             \/ LoaderTake(l) \/ LoaderLoad(l) \/ LoaderHandBack(l)

-----------------------------------------------------------------------------
(* Begin_Load_And_Queue.  The task's file is opened, its surfaces created  *)
(* and locked, and the task goes to the front of the background queue; or  *)
(* no file is there and the texture gets the missing texture.  A loader    *)
(* thread is started first if there is none.                               *)

BeginLoadAndQueue(k, rec) ==
  /\ IF IsRunning THEN UNCHANGED <<lpc, handle>> ELSE Execute
  /\ \/ /\ task' = [task EXCEPT ![k] = [rec EXCEPT !.state = "LOAD_BEGUN"]]
        /\ locked' = locked \cup {k}
        /\ parent' = [parent EXCEPT ![k] = "bg"]
        /\ bgQueue' = <<k>> \o bgQueue
        /\ normalTask' = [normalTask EXCEPT ![rec.texture] = k]
        /\ UNCHANGED <<initialized, surface>>
     \/ /\ Applied(rec.texture)
        /\ task' = [task EXCEPT ![k] = BlankTask]
        /\ parent' = [parent EXCEPT ![k] = "freeList"]
        /\ normalTask' = [normalTask EXCEPT ![rec.texture] = NoTask]
        /\ UNCHANGED <<locked, bgQueue>>

\* A new task is hooked to its texture and joins the foreground queue.
CreateAndQueue(k, rec) ==
  /\ task' = [task EXCEPT ![k] = rec]
  /\ parent' = [parent EXCEPT ![k] = "fg"]
  /\ fgQueue' = Append(fgQueue, k)

-----------------------------------------------------------------------------
(* TextureClass::Init, run by any thread that meets an uninitialized       *)
(* texture, and the three requests it is made of.                          *)

\* What Init asks for first depends on the surface and on W3D's settings.
BeginInit(th, t) ==
  /\ "init" \in Ops
  /\ At(th, "idle")
  /\ ~initialized[t]
  /\ arg' = [arg EXCEPT ![th] = t]
  /\ Goto(th, IF surface[t] # "none" THEN "init_background"
              ELSE IF t \in Thumbnailed THEN "init_reset" ELSE "init_foreground")
  /\ UNCHANGED <<locks, queues, taskVars, texVars, loaderVars, lifeVars, suspended>>

\* Load_Locked_Surface first lets go of the surface, without a lock.
ResetSurface(th) ==
  /\ At(th, "init_reset")
  /\ surface' = [surface EXCEPT ![arg[th]] = "none"]
  /\ Goto(th, "init_thumbnail")
  /\ UNCHANGED <<locks, queues, taskVars, normalTask, thumbTask, initialized, arg,
                 loaderVars, lifeVars, suspended>>

\* Request_Thumbnail, when some thread gave the texture a surface meanwhile or
\* when another thread than the main one finds a task that will do so.
ThumbnailSkip(th) ==
  LET t == arg[th] IN
  /\ At(th, "init_thumbnail") /\ IsFree(fgLock)
  /\ \/ surface[t] # "none"
     \/ /\ th # Main
        /\ \/ thumbTask[t] # NoTask
           \/ normalTask[t] # NoTask /\ task[normalTask[t]].state # "NONE"
  /\ Goto(th, "init_clear")
  /\ UNCHANGED <<locks, queues, taskVars, texVars, arg, loaderVars, lifeVars, suspended>>

\* Request_Thumbnail on the main thread loads it and drops a task queued for it.
ThumbnailNow ==
  LET t == arg[Main]
      K == {thumbTask[t]} \ {NoTask}
  IN
  /\ At(Main, "init_thumbnail") /\ IsFree(fgLock)
  /\ surface[t] = "none"
  /\ surface' = [surface EXCEPT ![t] = "thumbnail"]
  /\ fgQueue' = Remove("fg", fgQueue, thumbTask[t])
  /\ Destroyed(K)
  /\ thumbTask' = Unhook(thumbTask, "TASK_THUMBNAIL", K)
  /\ Goto(Main, "init_clear")
  /\ UNCHANGED <<locks, bgQueue, locked, normalTask, initialized, arg, loaderVars,
                 lifeVars, suspended>>

\* Request_Thumbnail on another thread queues a thumbnail task.
ThumbnailLater(th) ==
  LET t == arg[th] IN
  /\ At(th, "init_thumbnail") /\ th # Main /\ IsFree(fgLock)
  /\ surface[t] = "none"
  /\ thumbTask[t] = NoTask
  /\ normalTask[t] # NoTask => task[normalTask[t]].state = "NONE"
  /\ \E k \in Creatable :
       /\ CreateAndQueue(k, NewTask(t, "TASK_THUMBNAIL", "BACKGROUND"))
       /\ thumbTask' = [thumbTask EXCEPT ![t] = k]
  /\ Goto(th, "init_clear")
  /\ UNCHANGED <<locks, bgQueue, locked, normalTask, initialized, surface, arg,
                 loaderVars, lifeVars, suspended>>

\* Load_Locked_Surface ends by marking the texture uninitialized, without a lock.
ClearInitialized(th) ==
  /\ At(th, "init_clear")
  /\ initialized' = [initialized EXCEPT ![arg[th]] = FALSE]
  /\ Goto(th, "init_background")
  /\ UNCHANGED <<locks, queues, taskVars, normalTask, thumbTask, surface, arg,
                 loaderVars, lifeVars, suspended>>

\* Request_Background_Loading: is there anything to do?
NeedsSecondTask(t) == ~initialized[t]              \* mutant: with a task or not
NeedsTask(t) == ~initialized[t] /\ normalTask[t] = NoTask

BackgroundSkip(th) ==
  /\ At(th, "init_background") /\ IsFree(fgLock)
  /\ ~NeedsTask(arg[th])
  /\ Leave(th)
  /\ UNCHANGED <<locks, queues, taskVars, texVars, loaderVars, lifeVars, suspended>>

\* Request_Background_Loading on the main thread starts the load.
BackgroundBegin ==
  LET t == arg[Main] IN
  /\ At(Main, "init_background") /\ IsFree(fgLock)
  /\ NeedsTask(t)
  /\ \E k \in Creatable : BeginLoadAndQueue(k, NewTask(t, "TASK_LOAD", "BACKGROUND"))
  /\ Leave(Main)
  /\ UNCHANGED <<locks, fgQueue, thumbTask, ltask, isRunning, suspended>>

\* On another thread it queues the task for the main thread.
BackgroundQueue(th) ==
  LET t == arg[th] IN
  /\ At(th, "init_background") /\ th # Main /\ IsFree(fgLock)
  /\ NeedsTask(t)
  /\ \E k \in Creatable :
       /\ CreateAndQueue(k, NewTask(t, "TASK_LOAD", "BACKGROUND"))
       /\ normalTask' = [normalTask EXCEPT ![t] = k]
  /\ Leave(th)
  /\ UNCHANGED <<locks, bgQueue, locked, thumbTask, initialized, surface, loaderVars,
                 lifeVars, suspended>>

-----------------------------------------------------------------------------
(* Request_Foreground_Loading.  It takes the foreground section and, with  *)
(* a task to move or change, the background section inside it.             *)

\* Called for its own sake rather than by Init.
BeginForeground(th, t) ==
  /\ "foreground" \in Ops
  /\ At(th, "idle")
  /\ arg' = [arg EXCEPT ![th] = t]
  /\ Goto(th, "foreground")
  /\ UNCHANGED <<locks, queues, taskVars, texVars, loaderVars, lifeVars, suspended>>

InForeground(th) == pc[th] \in {"init_foreground", "foreground"}
AwaitsBackground(th) == pc[th] \in {"init_foreground_bg", "foreground_bg"}

\* Init goes on to request a background load.
LeaveForeground(th) ==
  IF pc[th] \in {"init_foreground", "init_foreground_bg"}
    THEN Goto(th, "init_background") /\ arg' = arg
    ELSE Leave(th)

ForegroundSkip(th) ==
  /\ InForeground(th) /\ IsFree(fgLock)
  /\ initialized[arg[th]]
  /\ LeaveForeground(th)
  /\ UNCHANGED <<locks, queues, taskVars, texVars, loaderVars, lifeVars, suspended>>

\* Main thread, no load task: a task is created, finished and destroyed on the
\* spot; a thumbnail task is obsolete.  The new task is a free one if there is
\* one, and the thumbnail task just destroyed is.
ForegroundNow ==
  LET t == arg[Main]
      K == {thumbTask[t]} \ {NoTask}
  IN
  /\ InForeground(Main) /\ IsFree(fgLock)
  /\ ~initialized[t] /\ normalTask[t] = NoTask
  /\ fgQueue' = Remove("fg", fgQueue, thumbTask[t])
  /\ IF K = {} THEN \E k \in Creatable : Destroyed({k}) ELSE Destroyed(K)
  /\ thumbTask' = Unhook(thumbTask, "TASK_THUMBNAIL", K)
  /\ Applied(t)
  /\ LeaveForeground(Main)
  /\ UNCHANGED <<locks, bgQueue, locked, normalTask, loaderVars, lifeVars, suspended>>

\* Otherwise the thread goes on to the background section with the foreground
\* one locked.  The main thread has dropped a thumbnail task before.
ForegroundLock(th) ==
  LET t == arg[th]
      K == IF th = Main THEN {thumbTask[t]} \ {NoTask} ELSE {}
  IN
  /\ InForeground(th) /\ IsFree(fgLock)
  /\ ~initialized[t]
  /\ th = Main => normalTask[t] # NoTask
  /\ fgLock' = th
  /\ fgQueue' = IF th = Main THEN Remove("fg", fgQueue, thumbTask[t]) ELSE fgQueue
  /\ Destroyed(K)
  /\ thumbTask' = Unhook(thumbTask, "TASK_THUMBNAIL", K)
  /\ Goto(th, IF pc[th] = "foreground" THEN "foreground_bg" ELSE "init_foreground_bg")
  /\ UNCHANGED <<bgLock, bgQueue, locked, normalTask, initialized, surface, arg,
                 loaderVars, lifeVars, suspended>>

\* The main thread takes the task from the queue it is in and finishes it.
ForegroundFinish ==
  LET k == normalTask[arg[Main]] IN
  /\ AwaitsBackground(Main) /\ IsFree(bgLock)
  /\ fgQueue' = Remove("fg", fgQueue, k)
  /\ bgQueue' = Remove("bg", bgQueue, k)
  /\ Finished(k)
  /\ Destroyed({k})
  /\ normalTask' = Unhook(normalTask, "TASK_LOAD", {k})
  /\ fgLock' = NoThread
  /\ LeaveForeground(Main)
  /\ UNCHANGED <<bgLock, thumbTask, loaderVars, lifeVars, suspended>>

\* Set_Priority(PRIORITY_FOREGROUND).
StillBackground(tasks, k) == tasks       \* mutant
Urgent(tasks, k) == [tasks EXCEPT ![k].priority = "FOREGROUND"]

\* Another thread gives the task foreground priority and sees that it is in the
\* foreground queue, or creates one there; a thumbnail is not needed any more.
ForegroundPromote(th) ==
  LET t == arg[th]
      k == normalTask[t]
      overridden ==
        IF thumbTask[t] = NoTask THEN task
        ELSE [task EXCEPT ![thumbTask[t]].state = "FOREGROUND_OVERRIDE"]
  IN
  /\ AwaitsBackground(th) /\ th # Main /\ IsFree(bgLock)
  /\ IF k = NoTask
       THEN \E n \in Creatable :
              /\ task' = [overridden EXCEPT ![n] = NewTask(t, "TASK_LOAD", "FOREGROUND")]
              /\ parent' = [parent EXCEPT ![n] = "fg"]
              /\ fgQueue' = Append(fgQueue, n)
              /\ normalTask' = [normalTask EXCEPT ![t] = n]
              /\ UNCHANGED bgQueue
       ELSE /\ task' = Urgent(overridden, k)
            /\ IF parent[k] = "bg"
                 THEN /\ bgQueue' = Without(bgQueue, k)
                      /\ fgQueue' = Append(fgQueue, k)
                      /\ parent' = [parent EXCEPT ![k] = "fg"]
                 ELSE UNCHANGED <<queues, parent>>
            /\ UNCHANGED normalTask
  /\ fgLock' = NoThread
  /\ LeaveForeground(th)
  /\ UNCHANGED <<bgLock, locked, thumbTask, initialized, surface, loaderVars, lifeVars,
                 suspended>>

-----------------------------------------------------------------------------
(* TextureLoader::Update, called by the main thread once a frame, and      *)
(* Flush_Pending_Load_Tasks, which calls it with the background section    *)
(* locked.  Update keeps the foreground section for all of its loop.       *)

BeginUpdate ==
  /\ pc[Main] \in {"idle", "flush"}
  /\ ~suspended
  /\ IsFree(fgLock)
  /\ fgLock' = Main
  /\ Goto(Main, "update")
  /\ UNCHANGED <<bgLock, queues, taskVars, texVars, arg, loaderVars, lifeVars, suspended>>

\* Update takes the next task k off the queue; what happens to it is below.
Popped(k) ==
  /\ At(Main, "update")
  /\ fgQueue # << >>
  /\ k = Head(fgQueue)
  /\ fgQueue' = Tail(fgQueue)

\* The switches of both functions do nothing with a task in any other state: it
\* is in no list any more.
Dropped(k) ==
  /\ parent' = [parent EXCEPT ![k] = "none"]
  /\ UNCHANGED <<task, locked, texVars>>

\* Process_Foreground_Thumbnail.
ProcessThumbnail(k) ==
  /\ Popped(k)
  /\ task[k].type = "TASK_THUMBNAIL"
  /\ IF task[k].state \in {"NONE", "FOREGROUND_OVERRIDE"}
       THEN /\ surface' = IF task[k].state = "NONE"
                            THEN [surface EXCEPT ![task[k].texture] = "thumbnail"]
                            ELSE surface
            /\ Destroyed({k})
            /\ thumbTask' = Unhook(thumbTask, "TASK_THUMBNAIL", {k})
            /\ UNCHANGED <<locked, normalTask, initialized>>
       ELSE Dropped(k)
  /\ UNCHANGED <<locks, bgQueue, threadVars, loaderVars, lifeVars, suspended>>

\* Process_Foreground_Load of an urgent task.
ProcessUrgent(k) ==
  /\ Popped(k)
  /\ task[k].type = "TASK_LOAD" /\ task[k].priority = "FOREGROUND"
  /\ Finished(k)
  /\ Destroyed({k})
  /\ normalTask' = Unhook(normalTask, "TASK_LOAD", {k})
  /\ UNCHANGED <<locks, bgQueue, thumbTask, threadVars, loaderVars, lifeVars, suspended>>

\* Process_Foreground_Load of a task another thread has queued.
ProcessNew(k) ==
  /\ Popped(k)
  /\ task[k].type = "TASK_LOAD" /\ task[k].priority = "BACKGROUND"
  /\ task[k].state = "NONE"
  /\ BeginLoadAndQueue(k, task[k])
  /\ UNCHANGED <<locks, thumbTask, threadVars, ltask, isRunning, suspended>>

\* Process_Foreground_Load of a task the loader has handed back.
ProcessLoaded(k) ==
  /\ Popped(k)
  /\ task[k].type = "TASK_LOAD" /\ task[k].priority = "BACKGROUND"
  /\ task[k].state # "NONE"
  /\ IF task[k].state = "LOADED"
       THEN /\ Applied(task[k].texture)
            /\ Unlock(k)
            /\ Destroyed({k})
            /\ normalTask' = Unhook(normalTask, "TASK_LOAD", {k})
            /\ UNCHANGED thumbTask
       ELSE Dropped(k)
  /\ UNCHANGED <<locks, bgQueue, threadVars, loaderVars, lifeVars, suspended>>

\* The queue is empty: Update returns, and so does Flush_Pending_Load_Tasks's turn.
EndUpdate ==
  /\ At(Main, "update")
  /\ fgQueue = << >>
  /\ fgLock' = NoThread
  /\ bgLock' = IF bgLock = Main THEN NoThread ELSE bgLock
  /\ Goto(Main, IF bgLock = Main THEN "flush_check" ELSE "idle")
  /\ UNCHANGED <<queues, taskVars, texVars, arg, loaderVars, lifeVars, suspended>>

BeginFlush ==
  /\ "flush" \in Ops
  /\ At(Main, "idle")
  /\ Goto(Main, "flush_check")
  /\ UNCHANGED <<locks, queues, taskVars, texVars, arg, loaderVars, lifeVars, suspended>>

\* Queues_Not_Empty, under a background lock of its own.
QueuesNeverEmpty == Len(bgQueue) >= 0       \* mutant
QueuesNotEmpty == bgQueue # << >> /\ fgQueue # << >>

FlushCheck ==
  /\ At(Main, "flush_check") /\ IsFree(bgLock)
  /\ Goto(Main, IF QueuesNotEmpty THEN "flush_lock" ELSE "idle")
  /\ UNCHANGED <<locks, queues, taskVars, texVars, arg, loaderVars, lifeVars, suspended>>

FlushLock ==
  /\ At(Main, "flush_lock") /\ IsFree(bgLock)
  /\ bgLock' = Main
  /\ Goto(Main, "flush")
  /\ UNCHANGED <<fgLock, queues, taskVars, texVars, arg, loaderVars, lifeVars, suspended>>

\* Update does nothing while loading is suspended.
FlushSuspended ==
  /\ At(Main, "flush") /\ suspended
  /\ bgLock' = NoThread
  /\ Goto(Main, "flush_check")
  /\ UNCHANGED <<fgLock, queues, taskVars, texVars, arg, loaderVars, lifeVars, suspended>>

\* Suspend_Texture_Load and Continue_Texture_Load.
Suspend ==
  /\ "suspend" \in Ops
  /\ At(Main, "idle")
  /\ suspended' = ~suspended
  /\ UNCHANGED <<locks, queues, taskVars, texVars, threadVars, loaderVars, lifeVars>>

\* TextureBaseClass::Invalidate looks for tasks without a lock ...
BeginInvalidate(t) ==
  /\ "invalidate" \in Ops
  /\ At(Main, "idle")
  /\ normalTask[t] = NoTask /\ thumbTask[t] = NoTask
  /\ arg' = [arg EXCEPT ![Main] = t]
  /\ Goto(Main, "invalidate")
  /\ UNCHANGED <<locks, queues, taskVars, texVars, loaderVars, lifeVars, suspended>>

\* ... and then lets go of the surface.
FinishInvalidateHalf ==       \* mutant: m_initialized stays set
  /\ At(Main, "invalidate")
  /\ surface' = [surface EXCEPT ![arg[Main]] = "none"]
  /\ Leave(Main)
  /\ UNCHANGED <<locks, queues, taskVars, normalTask, thumbTask, initialized,
                 loaderVars, lifeVars, suspended>>
FinishInvalidate ==
  /\ At(Main, "invalidate")
  /\ surface' = [surface EXCEPT ![arg[Main]] = "none"]
  /\ initialized' = [initialized EXCEPT ![arg[Main]] = FALSE]
  /\ Leave(Main)
  /\ UNCHANGED <<locks, queues, taskVars, normalTask, thumbTask, loaderVars, lifeVars,
                 suspended>>

-----------------------------------------------------------------------------
(* TextureLoader::Init and Deinit, with the device.                        *)

LoaderInit ==
  /\ At(Main, "off")
  /\ Execute
  /\ Goto(Main, "idle")
  /\ UNCHANGED <<locks, queues, taskVars, texVars, arg, ltask, isRunning, suspended>>

\* Deinit locks the background section and Stop tells the thread to end ...
BeginDeinit ==
  /\ "deinit" \in Ops
  /\ At(Main, "idle") /\ IsFree(bgLock)
  /\ bgLock' = Main
  /\ isRunning' = FALSE
  /\ Goto(Main, "deinit")
  /\ UNCHANGED <<fgLock, queues, taskVars, texVars, arg, loaderVars, handle, suspended>>

\* ... terminates it if it takes too long ...
Terminate ==
  /\ At(Main, "deinit") /\ handle # NoThread
  /\ lpc' = [lpc EXCEPT ![handle] = "dead"]
  /\ handle' = NoThread
  /\ UNCHANGED <<locks, queues, taskVars, texVars, threadVars, ltask, isRunning, suspended>>

\* ... Deinit deletes the free tasks one by one once there is no thread any more;
\* a request of another thread may take some of them in between ...
DeleteFree(k) ==
  /\ At(Main, "deinit") /\ handle = NoThread
  /\ parent[k] = "freeList"
  /\ parent' = [parent EXCEPT ![k] = "heap"]
  /\ UNCHANGED <<locks, queues, task, locked, texVars, threadVars, loaderVars, lifeVars,
                 suspended>>

\* ... until none is left.
FinishDeinit ==
  /\ At(Main, "deinit") /\ handle = NoThread
  /\ \A k \in Tasks : parent[k] # "freeList"
  /\ bgLock' = NoThread
  /\ Goto(Main, "off")
  /\ UNCHANGED <<fgLock, queues, taskVars, texVars, arg, loaderVars, lifeVars, suspended>>

-----------------------------------------------------------------------------
Process(k) == ProcessThumbnail(k) \/ ProcessUrgent(k) \/ ProcessNew(k) \/ ProcessLoaded(k)

\* What a thread that has entered a request does to get through it.
Request(th) ==
  \/ ResetSurface(th) \/ ThumbnailSkip(th) \/ ThumbnailLater(th) \/ ClearInitialized(th)
  \/ BackgroundSkip(th) \/ BackgroundQueue(th)
  \/ ForegroundSkip(th) \/ ForegroundLock(th) \/ ForegroundPromote(th)

MainRequest == ThumbnailNow \/ BackgroundBegin \/ ForegroundNow \/ ForegroundFinish

MainWork ==
  \/ BeginUpdate \/ (\E k \in Tasks : Process(k)) \/ EndUpdate
  \/ FlushCheck \/ FlushLock \/ FlushSuspended \/ FinishInvalidate
  \/ LoaderInit \/ Terminate \/ (\E k \in Tasks : DeleteFree(k)) \/ FinishDeinit

\* What the rest of the engine may call at any time.
Call ==
  \/ \E th \in Threads, t \in Textures : BeginInit(th, t) \/ BeginForeground(th, t)
  \/ \E t \in Textures : BeginInvalidate(t)
  \/ BeginFlush \/ Suspend \/ BeginDeinit

Next ==
  \/ Call
  \/ \E th \in Threads : Request(th)
  \/ MainRequest
  \/ MainWork
  \/ \E l \in Loaders : Loader(l)

Spec == Init /\ [][Next]_vars

-----------------------------------------------------------------------------
(* Fairness.  The operating system runs every thread.  The locks are       *)
(* polled, so a thread that waits for one gets it only if it looks at a    *)
(* moment the lock is free: strong fairness of the actions that take a     *)
(* lock.  A flush, too, lets go of the background section between two of   *)
(* its turns.  Nothing is assumed of Call, of Suspend or of Terminate's    *)
(* timer beyond that it runs out.                                          *)

Fairness ==
  /\ \A th \in Threads : SF_vars(Request(th))
  /\ SF_vars(MainRequest)
  /\ SF_vars(BeginUpdate)
  /\ WF_vars(\E k \in Tasks : Process(k)) /\ WF_vars(EndUpdate)
  /\ SF_vars(FlushCheck \/ FlushLock) /\ WF_vars(FlushSuspended)
  /\ WF_vars(FinishInvalidate)
  /\ WF_vars(LoaderInit)
  /\ WF_vars(Terminate \/ (\E k \in Tasks : DeleteFree(k)) \/ FinishDeinit)
  /\ \A l \in Loaders : SF_vars(Loader(l))

FairSpec == Spec /\ Fairness

-----------------------------------------------------------------------------
(* Properties.                                                             *)

\* The type invariant.
TypeOK ==
  /\ fgLock \in Threads \cup {NoThread}
  /\ bgLock \in {Main, NoThread} \cup Loaders
  /\ fgQueue \in Seq(Tasks) /\ bgQueue \in Seq(Tasks)
  /\ parent \in [Tasks -> Lists]
  /\ task \in [Tasks -> TaskRecords]
  /\ locked \subseteq Tasks
  /\ normalTask \in [Textures -> Tasks \cup {NoTask}]
  /\ thumbTask \in [Textures -> Tasks \cup {NoTask}]
  /\ initialized \in [Textures -> BOOLEAN]
  /\ surface \in [Textures -> Surfaces]
  /\ pc \in [Threads -> PCs]
  /\ arg \in [Threads -> Textures \cup {NoTexture}]
  /\ lpc \in [Loaders -> LoaderPCs]
  /\ ltask \in [Loaders -> Tasks \cup {NoTask}]
  /\ isRunning \in BOOLEAN
  /\ handle \in Loaders \cup {NoThread}
  /\ suspended \in BOOLEAN

\* Whoever is past a lock holds it, and nobody else: in particular Stop never
\* waits for, or terminates, a loader thread that has a task in its hands.
LockDiscipline ==
  /\ \A th \in Clients : (fgLock = th) <=> AwaitsBackground(th)
  /\ (fgLock = Main) <=> (AwaitsBackground(Main) \/ At(Main, "update"))
  /\ \A l \in Loaders : (bgLock = l) <=> (lpc[l] \in {"loading", "loaded"})
  /\ bgLock = Main => pc[Main] \in {"flush", "update", "deinit"}
  /\ pc[Main] \in {"flush", "deinit"} => bgLock = Main

In(queue, k) == \E i \in 1..Len(queue) : queue[i] = k
Once(queue) == \A i, j \in 1..Len(queue) : queue[i] = queue[j] => i = j

\* The links of a list and the m_parent of its members agree: a task is at most
\* once in one queue, and Remove finds it there.
QueueIntegrity ==
  /\ \A k \in Tasks : (parent[k] = "fg") <=> In(fgQueue, k)
  /\ \A k \in Tasks : (parent[k] = "bg") <=> In(bgQueue, k)
  /\ Once(fgQueue)
  /\ Once(bgQueue)

Live(k) == task[k].texture # NoTexture

\* No task is lost and none is freed early: a task works for a texture exactly
\* while it is in a queue or in the hands of one loader thread.
NoTaskLost ==
  \A k \in Tasks :
    /\ Live(k) <=> (parent[k] \in {"fg", "bg", "none"})
    /\ (parent[k] = "none") <=> (\E l \in Loaders : ltask[l] = k)

\* Textures and tasks point at each other: a texture has at most one task of a
\* kind, however many threads request it.
TaskPointers ==
  /\ \A t \in Textures, k \in Tasks :
       /\ (normalTask[t] = k) <=> (task[k].texture = t /\ task[k].type = "TASK_LOAD")
       /\ (thumbTask[t] = k) <=> (task[k].texture = t /\ task[k].type = "TASK_THUMBNAIL")

\* Surfaces are locked from Begin_Load to End_Load and no longer: a task that is
\* back on the free list has not kept any.
SurfacesUnlocked ==
  \A k \in Tasks : (k \in locked) <=> (task[k].state \in {"LOAD_BEGUN", "LOADED"})

\* A texture whose load task is under way is not initialized yet, whatever the
\* other threads do, so it is loaded once.
PendingUninitialized ==
  \A t \in Textures : normalTask[t] # NoTask => ~initialized[t]

\* The stage of a task agrees with where it is: surfaces are created before a task
\* reaches the loader, and what comes back to the main thread is either untouched,
\* loaded, or was taken off the loader's queue to be finished at once.
StageOfPlace ==
  \A k \in Tasks :
    /\ parent[k] \in {"heap", "freeList"} => task[k] = BlankTask
    /\ parent[k] = "bg" =>
         /\ task[k].type = "TASK_LOAD"
         /\ task[k].priority = "BACKGROUND"
         /\ task[k].state = "LOAD_BEGUN"
    /\ parent[k] = "fg" =>
         \/ /\ task[k].type = "TASK_THUMBNAIL"
            /\ task[k].state \in {"NONE", "FOREGROUND_OVERRIDE"}
         \/ /\ task[k].type = "TASK_LOAD"
            /\ task[k].state # "FOREGROUND_OVERRIDE"
            /\ task[k].state = "LOAD_BEGUN" => task[k].priority = "FOREGROUND"
    /\ \A l \in Loaders : ltask[l] = k =>
         /\ task[k].type = "TASK_LOAD"
         /\ task[k].priority = "BACKGROUND"
         /\ task[k].state = IF lpc[l] = "loading" THEN "LOAD_BEGUN" ELSE "LOADED"

RequestPCs == {"init_reset", "init_thumbnail", "init_clear", "init_background",
               "init_foreground", "foreground", "init_foreground_bg", "foreground_bg"}

\* Where the threads are: what they have in their hands there.
ThreadsAtWork ==
  /\ \A th \in Threads : pc[th] \in RequestPCs \cup {"invalidate"} => arg[th] \in Textures
  /\ \A th \in Clients : pc[th] \in RequestPCs \cup {"idle"}
  /\ \A th \in Threads : AwaitsBackground(th) => ~initialized[arg[th]]
  /\ AwaitsBackground(Main) => /\ normalTask[arg[Main]] # NoTask
                               /\ thumbTask[arg[Main]] = NoTask
  /\ \A l \in Loaders : (ltask[l] # NoTask) <=> (lpc[l] \in {"loading", "loaded"})

\* Locks, queues, tasks and threads agree.
CoreInv ==
  /\ TypeOK
  /\ LockDiscipline
  /\ QueueIntegrity
  /\ NoTaskLost
  /\ TaskPointers
  /\ SurfacesUnlocked
  /\ StageOfPlace
  /\ PendingUninitialized
  /\ ThreadsAtWork

\* There is one loader thread at most, m_handle names it, and from Init to Deinit
\* there is one: neither a request nor a lost Stop leaves two of them or none.
OneLoader ==
  /\ \A l \in Loaders : lpc[l] # "dead" <=> handle = l
  /\ At(Main, "off") => handle = NoThread
  /\ pc[Main] \notin {"off", "deinit"} =>
       /\ handle # NoThread
       /\ \A l \in Loaders : lpc[l] \notin {"dead", "created"} => isRunning

\* The inductive invariant.
IndInv == CoreInv /\ OneLoader

\* A texture that counts as initialized has a surface, except while a thread is
\* in the middle of Load_Locked_Surface for it.
InitializedHasSurface ==
  \A t \in Textures :
    initialized[t] =>
      \/ surface[t] # "none"
      \/ \E th \in Threads : arg[th] = t /\ pc[th] \in {"init_thumbnail", "init_clear"}

\* While a loader thread loads a task nobody else changes the task or its place,
\* and the thread is not terminated.
LoaderUndisturbed ==
  [][\A l \in Loaders :
       lpc[l] \in {"loading", "loaded"} =>
         /\ lpc'[l] # "dead"
         /\ lpc'[l] = lpc[l] =>
              /\ task'[ltask[l]] = task[ltask[l]]
              /\ parent'[ltask[l]] = parent[ltask[l]]]_vars

\* The loader seen as the abstract TextureRequests: a texture with a load task is
\* pending, and no task goes away without having initialized its texture.
Requests == INSTANCE TextureRequests WITH
  status <- [t \in Textures |-> IF normalTask[t] # NoTask THEN "pending"
                                ELSE IF initialized[t] THEN "ready" ELSE "idle"]

ImplementsRequests == Requests!Spec

\* Every request is answered if loading is not suspended for good: whatever the
\* queues hold, and however requests, flushes, suspensions and releases follow
\* each other, no request waits for ever.
CompletesRequests == []<>~suspended => Requests!Answered

\* Flush_Pending_Load_Tasks returns, suspended or not.
FlushReturns == At(Main, "flush_check") ~> At(Main, "idle")

\* A foreground request is over at some time.
ForegroundReturns ==
  \A th \in Threads : At(th, "foreground") ~> At(th, "idle")

=============================================================================
