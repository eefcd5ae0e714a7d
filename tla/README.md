# Formal models of Thyme

Thyme is an open reimplementation of the engine of *Command & Conquer: Generals –
Zero Hour*. These modules model the parts of it in which threads, callbacks and
intrusive data structures meet: they are the parts that are hard to test, and the
parts whose code is complete in this source tree (much of the game itself still
calls the original executable).

Paths below are relative to the repository's `src/`, so `w3d/renderer/textureloader.cpp`
is `src/w3d/renderer/textureloader.cpp`.

1. Inventory
2. What is modelled, and how it corresponds to the code
3. What the runs check, with their bounds
4. Fairness
5. What is proved
6. Findings and divergences
7. What is not modelled
8. Plan

## 1. Inventory

Each part with the state it keeps, what is done to it, whom it meets, and what makes it
correct. Parts marked * are modelled, the rest are listed with the reason in section 7.

| Part | State | Operations | Meets | Correct when |
|---|---|---|---|---|
| Texture loader * `w3d/renderer/textureloader.cpp` | foreground and background queue, two spin locks, the loader thread's handle, a suspend flag | request background / foreground loading and thumbnails, `Update`, `Flush_Pending_Load_Tasks`, `Suspend/Continue`, `Init`, `Deinit`, `Thread_Function` | main thread, any requesting thread, loader thread; textures and tasks shared by all | no task lost or run twice; a requested texture is loaded; no thread waits for ever |
| Load tasks * `textureloadtask.cpp` | texture, type, priority, load state, locked surfaces; free lists | `Create`, `Begin_Load`, `Load`, `End_Load`, `Finish_Load`, `Destroy` | carried between queues by the loader | surfaces locked from begin to end and no longer; one task per texture and kind |
| Task lists * `textureloadtasklist.cpp` | ring of links per list, `m_parent` per task | push, pop at both ends, remove | the two queues have a mutex each, the free list has none and is used under different locks | links form rings, a task is in at most one |
| Textures * `texturebase.cpp`, `texture.cpp` | surface, `m_initialized`, two task pointers | `Init`, `Invalidate`, `Load_Locked_Surface`, `Apply_New_Surface` | requested from any thread, applied on the main thread | an initialized texture has its surface |
| Threads and locks * `w3d/lib/thread.cpp`, `critsection.cpp` | running flag, handle, lock flag | `Execute`, `Stop` with a timeout, lock, unlock | the loader thread | no thread killed with a lock in its hands |
| Memory pools * `game/common/system/mempool.cpp`, `memblob.cpp` | list of blobs, chain of free blocks in each, remembered blob, counts | allocate, free, `Release_Empties`, `Reset` | everything that allocates | every block on a chain or with a caller, once |
| Dynamic allocator * and pool factory `memdynalloc.cpp`, `mempoolfact.cpp` | pools by size, list of raw blocks, a count | allocate, free, reset | memory pools, strings | it is a heap: a block is handed out once and goes back where it came from |
| Transport * `game/network/transport.cpp`, `udp.cpp` | arrays of outgoing and incoming packets, statistics by second | queue, update (send and receive), init | the network, which loses, duplicates, reorders and damages | a queued packet stays queued until it is sent; the search stays in the array |
| Strings * `asciistring.cpp`, `unicodestring.cpp` | pointer to a buffer with a reference count and a capacity | copy, set, append, trim, cut a word off | everything | a string is a value: writing to one changes no other |
| Particle systems * `game/client/system/particlesystem` | list of systems, list of particles by priority, master, slave and control pointers, counts, next id | create, destroy, make room, save, load, reset | frame loop, drawables by id | no pointer to a deleted object; within the limit; ids unique |
| Compression * `refpack.cpp`, manager of formats `compressionmanager.cpp` | hash chains over a window of the text | encode, decode | map files, saves | round trip; within the caller's buffer; ends |
| Message stream * `game/common/messagestream.cpp`, `gamemessagelist.cpp`, `commandlist.cpp` | list of messages, list of translators by priority, command list | append, insert, remove, attach, propagate | translators call back into it | order kept; nobody skipped or asked twice |
| Sound effects * `platform/audio/milesaudiomanager.cpp`, `milesaudiofilecache.cpp` | request list, playing lists, sample pools, counts, file cache with references | add, remove, kill and stop events, `Update`, completion callbacks | Miles' thread, the file cache | handles and events neither lost nor freed twice; no freed data played |
| Streams (music, speech), audio settings | stream list, fading list, volumes | as above | Miles | as above |
| LAN lobby, file transfer `game/network/lanapi.cpp` | player lists, pending actions with timeouts | requests and responses | transport; mostly the original executable | – |
| File systems, streams | directory trees, open files | open, find, read | the operating system | first match wins |
| Serialisation `xfer.cpp`, `datachunk.cpp`, `chunkio.cpp`, `ini.cpp` | nesting positions | read, write | files | what was written is read back |
| Subsystems, name keys, dictionaries, random numbers, CRC | small tables | – | – | – |
| Players, sides, teams, science; scripts, caves, weapons | templates and trees | parse, look up | the original executable | – |
| Renderer, containers and math, input, display, video | caches of device state | – | Direct3D, DirectInput, Bink | – |

### How the modelled parts interact

`TextureClass` asks the loader for its data (`TextureBaseClass::Init`); the loader makes
a task and links it into one of its queues; tasks point back at their texture. The task
lists are therefore modelled twice: as sequences inside `TextureLoader`, and link by link in
`TaskList`, which is shown to implement sequences. The memory pools back all objects
(tasks, messages, audio requests); the dynamic allocator composes them by size, so
`DynamicAllocator` extends `MemoryPool`, and what both promise together is the module `Heap`.
Strings take their buffers from that allocator and keep the size it rounded up to as their
capacity (`ActualSize` in `Strings`); "an address is handed out once" is all they need of it.
The message stream, the sound system and the particle manager are driven once a frame by the
game engine and do not call each other. The transport meets its counterpart on another machine.

### What is hard

* Three kinds of threads use the loader. The main thread is the only one that may call
  Direct3D, so work has to go to and fro between threads under two spin locks.
* `g_freeList` has no lock of its own: `Create` pops it under the foreground lock, `Deinit` empties
  it under the background one.
* A flush holds the background lock while it waits for the loader thread and for the foreground lock.
* Miles calls back from a thread of its own at any point of `MilesAudioManager::Update`.
* Translators change the stream and the list of translators in the middle of the loop over both, and
  what they leave is moved to the command list one link at a time, while the stream still starts with it.
* Pools, sample handles, the audio cache and the particle manager all work at a limit where
  something has to be evicted, killed, removed or grown half way through an operation.
* Systems and particles point at each other in five ways and are deleted in any order.
* Strings write in place when nobody shares the buffer, and keep pointers into it while they do.
* The transport's datagrams are lost, repeated, reordered and refused by the socket.
* RefPack follows chains of positions in tables that are overwritten while it goes on, and packs
  lengths and offsets into a few bits.

`PROJECT.json` lists each hazard with its line and the properties that watch it.

## 2. What is modelled

### TextureLoader, TextureRequests

`TextureLoader.tla` has one action for each section of code that other threads cannot see
the inside of. A section that holds one lock and blocks on nothing inside is one action with the guard
`IsFree(lock)`; a holder that waits for something while it holds a lock is recorded in
`fgLock` or `bgLock`. Between two actions of a thread every other thread may run.

| Action | Code |
|---|---|
| `BeginInit`, `ResetSurface`, `Thumbnail…`, `ClearInitialized`, `Background…` | `TextureClass::Init`: `Load_Locked_Surface`, `Request_Thumbnail`, `Request_Background_Loading` |
| `BeginForeground`, `ForegroundSkip/Now/Lock/Finish/Promote` | `Request_Foreground_Loading`, on the main thread and on another |
| `BeginUpdate`, `Process…`, `EndUpdate` | `TextureLoader::Update`: one task at a time until the foreground queue is empty |
| `BeginFlush`, `FlushCheck`, `FlushLock`, `FlushSuspended` | `Flush_Pending_Load_Tasks` |
| `Suspend` | `Suspend_Texture_Load`, `Continue_Texture_Load` |
| `BeginInvalidate`, `FinishInvalidate` | `TextureBaseClass::Invalidate` |
| `LoaderInit`, `BeginDeinit`, `Terminate`, `DeleteFree`, `FinishDeinit` | `Init`, `Deinit` with `ThreadClass::Execute` and `Stop` |
| `LoaderStart`, `LoaderSeesWork`, `LoaderTake`, `LoaderLoad`, `LoaderHandBack`, `LoaderExit` | `Internal_Thread_Function` and `Thread_Function` |

A texture is reduced to whether it is initialized and what its surface is (none, the
thumbnail, its file or the missing texture, which count as one); files and formats to
whether `Begin_Load` succeeds. There is one loader thread: `ThreadClass::Is_Running` is `m_handle != 0`
(`thread.h:40`), and `handle` is set in the step that starts the thread, so `Begin_Load_And_Queue` does not load by
itself between the start of the thread and its first turn. `Loaders` are the handles a thread may get; that at most one of them is alive at a time, and exactly one between
`Init` and `Deinit`, is the theorem `OneLoaderThread`. `DeleteFree` and `FinishDeinit` are `Delete_Free_Pool`, one
task at a time and only under the background lock, so that a request of another thread may take free tasks in
between. `TextureRequests.tla` is the abstract specification: a
texture is idle, pending or ready; a pending one becomes ready and is never forgotten.

### TaskList, TaskQueues, FreeListRace

`TaskList.tla` is `TextureLoadTaskListClass` link by link: the list object itself is a node
of the ring. `TaskQueues.tla` is what callers think it is, a sequence.

The foreground and the background queue are `SynchronizedTextureLoadTaskListClass`: each push, pop and removal
holds the queue's own mutex (`synctextureloadtasklist.cpp:23`), so it is one step for
all threads, as `TextureLoader` has it, whichever section the caller holds. `g_freeList` is a plain list.
`FreeListRace.tla` takes the pops of its two users apart into single assignments: `Create`, under the
foreground section, and `Delete_Free_Pool`, which `Deinit` calls under the background section only. `TextureLoader`
takes both as atomic (finding 2): what is said of the loader below is said of one that pops the free list in one step.

### MemoryPool, DynamicAllocator, Heap

`MemoryPool.tla` is a family of pools: blobs in list order, the chain of free block numbers of
each, the remembered blob (`m_firstBlobWithFreeBlocks`), the counts, and the blocks callers hold.
`Release_Empties` reads the next pointer of a blob it has deleted (`mempool.cpp:170`), which is undefined; the
model has two of the outcomes, the pointer as it was and a null one that ends the loop early. What any other value would do is outside the
model, and no property is claimed for it. `DynamicAllocator.tla` extends it: `Allocate` picks the first pool whose blocks
are large enough, or makes a raw block and links it at the head of the two-way list; `Free`
looks at the block's header to tell them apart; `Reset` empties pools and raw list. A call holds the
allocator's lock, and within it that of the pools, from start to end: one action per call.
`Heap.tla` is what callers are promised; `ImplementsHeap` shows that the allocator keeps it.

### Transport

Several peers, each with the two packet arrays of `Transport`, its statistics slots and the place
where its `Update` is, and one bag of datagrams for the network. `Update` is one step per
datagram read and one for `Do_Send`, in which the socket may refuse any of the packets. `Fault`
loses, duplicates, damages and forges datagrams (a bag has no order, so reordering is free);
`Restart` and `RestartUnbound` are what `LANAPI` does to get a new socket. The search for a
slot is as in the code: it tests slot *i* and takes *i* + 1, and for incoming packets it looks in the
outgoing array.

### Strings, StringValues

The heap of buffers with their reference counts, capacities and texts, and the pointer of each
string. An operation is a chain of `Release` (`Release_Buffer`), `Shared` (taking over
another's buffer), and `Unique` (`Ensure_Unique_Buffer_Of_Size`, which writes in place or moves to a
buffer of its own) as in the code, including `Trim`, `Remove_Last_Char` and `Next_Token`. When `Trim` or `Next_Token`
writes in place, `strcpy` gets overlapping arguments (`asciistring.cpp:94`), which is undefined; the model has the
result of a copy that runs forward.
`StringValues.tla` is the promise: strings are values, trimming leaves the text between
the first and the last character that is no space, a token is the first word.

### ParticleSystems

Systems and particles as objects that exist or do not, with all pointers among them, the
manager's list of systems and its list of particles for each priority, the counts and the next
id. Each destructor is an operator on a record of that state (`Gone`, `Deleted`), the loops over lists are
recursive functions (`AllGone`, `AllDeleted`, `AllEmitted`), and the operations are chains of
them: creating a system with its slaves, creating a particle with what is removed to make room for it,
destroying by id, `Reset`, and saving and loading, where the pointers come back through
ids. A system's priority is that of its template: `Merge_Related_Systems`, which lets a slave take over another's settings and
with them its priority (`particlesys.cpp:969`), is left out. When something ends is up to `Update`, which is code of the original executable:
anything may end at any time.

### RefPack

`RefPack_Encode` one turn of a loop at a time, with its two tables (`hashtbl`, `link`) and
what memory lies behind the text, then the decoder following the stream byte by byte. The
three forms of a match, the block of literals and the end are packed into code bytes
as the code packs them. The limits of the forms are constants, so that a text of ten
bytes meets each; the code's values are the upper bounds of `FormAssumption`. `link` is allocated and
not initialized (`refpack.cpp:117`). The model marks its entries `Unwritten`; that the marker is never read as a
link, so that its value does not matter, is the theorem `LinksReadWereWritten`.

### MessageStream

The stream, the command list and the list of translators as sequences. Propagation is one
translator call at a time; in the middle of a call the translator may append and insert
messages and attach and remove translators. `msgNext` is the message which the loop picked
before the call. A translator does not remove itself: the code does not forbid it, and then reads
the deleted `TranslatorData` (`messagestream.cpp:159`), so this is a precondition of the model and not a guard of the code.

### MessageLinks

`MessageLinks.tla` extends `MessageStream` by the links of the `GameMessageList`s: `m_firstMessage` and `m_lastMessage` of both
lists, `m_next`, `m_prev` and `m_list` of each message. Every step of `MessageStream` goes together with the assignments the code
makes to the links. The end of a propagation, one concatenation in `MessageStream`, is a step for each message
here (`MoveMessage`): `Append_Message_List` reads `m_next` of a message and has `Append_Message` link it behind the commands,
without taking it out of the stream, whose first message and whose links forward are still those of before; so for a time the two
lists share links. `Destroy_All_Messages` of the command list is a step for each message as well, and `Delete_Instance` removes a
message from the list which `m_list` names. A step of `LinkedSpec` is a step of `MessageStream` or leaves its variables
alone, so that what is proved of `MessageStream` holds of it.

### AudioPlayback

Sound effects only. The playing lists hold `PlayingAudio` records; `Release` is
`Release_Playing_Audio` with all it calls. `pc` and `at` say where `Update` is, with one
action for each request and for each entry of a playing list, and `Completion` may happen between
any two of them; that Miles' thread may also call back in the middle of such a step is not modelled. `StopEntry` is
the `EVENT_UNKVAL3` branch of the loop over the list of sounds, which stops the event and does not move the iterator (section 6). `Loaded` and `Victims` are `Open_File` with `Free_Space_For_Sample`: which
files go is not determined, as a hash map has no order. Miles itself is external: it ends
any sample that runs, and its callback does not overlap a single step of `Update`.
`SoundManager::Can_Play_Now` is in the original executable; both its answers are allowed.
The random choice of a sound in `Generate_Play_Info` is any of the event's sounds.

## 3. What the runs check

| Run | Properties | Shows |
|---|---|---|
| `loader_foreground` | `NoTaskLost`, `IndInv`, `TaskPointers`, `InitializedHasSurface`, `SurfacesUnlocked`, `LoaderUndisturbed`, `ImplementsRequests` | whatever calls of the main thread and another interleave with a loader thread, and however often it is stopped and started: no task is lost or in two places, a texture has one task of a kind and is initialized only with a surface, surfaces get unlocked, nobody touches a task while the loader has it, and the loader implements `TextureRequests` |
| `loader_liveness` | `CompletesRequests`, `FlushReturns` | under fairness a request is completed, unless loading is suspended for good, and a flush returns, suspended or not |
| `loader_deadlock` | `ForegroundReturns` (violated) | finding 1 |
| `tasklist_rings` | `RingsIntact`, `ImplementsQueues` | every sequence of list calls keeps the rings and behaves as sequences do |
| `freelist_race` | `DeletesFreeTasksOnly` (violated) | finding 2 |
| `allocator_blocks` | `EveryBlockOnce`, `CountsCoverUse`, `RawListIntact`, `GrowsOnlyWhenFull`, `ImplementsHeap` | no block is handed out twice or lost, through overflow, releases and resets; a pool grows only when it is full although it remembers one blob only; the list of raw blocks stays whole; together they are a heap |
| `transport_updates` | `SearchStaysInside`, `StatisticsWindow`, `KeptUntilSent`, `EventuallySent` | the search never leaves the array, because it only ever uses slot 1; a statistics slot shows its own period; a refused packet stays queued, is counted once and is sent in the end |
| `strings_values` | `CountsOwners`, `TextsFit`, `ImplementsValues` | counts are the owners, no text leaves its buffer, and strings behave as values that share nothing |
| `particles_lists` | `CountsMatch`, `LinksMutual`, `SlavesShareDestruction`, `IDsUnique`, `LimitKept`, `MakesRoomBelow` | counts and lists agree, no pointer is left to a deleted object, a destroyed system takes its slaves along, ids stay unique over a load, and the limit is exceeded by one at most |
| `refpack_roundtrip` | `RoundTrip`, `SizeBounded`, `Terminates` | what was encoded is decoded, within the bound on its size, and both loops end |
| `messages_propagate` | `OfferedInOrder`, `LinksHoldLists`, `PassedOnWereOffered` | what translators do in the middle of the loop makes nobody be skipped or asked twice; the links, which both lists share while messages are moved, hold all messages in their order forwards and backwards |
| `audio_effects` | `EventsOwned`, `SamplesConserved`, `CallbacksFindEntry`, `CountsMatch`, `CacheAccounted` | handles, events, counts and cache sizes add up however sounds end, fail, loop or are killed |

### Bounds and why they are enough

* **Loader, safety.** Properties speak of one texture or of one task and its neighbours in a queue.
  Two textures and three tasks (a thumbnail and a load task of one beside the load task of the other)
  give queues in which a task has something in front of it and behind it, and one requester
  besides the main thread gives every pair of concurrent calls. All entry points are on (`Ops`). What the
  bounds leave open is closed by the proofs, which are for any numbers.
* **Loader, liveness.** One texture, two tasks, a requester besides the main thread and the loader thread, with requests in the
  background, thumbnails, invalidations, flushes and suspensions at any time. With *two* textures `CompletesRequests` is false, and
  this is the code's doing: `Begin_Load_And_Queue` pushes new tasks in *front* of older ones, so a client
  that asks for one texture for ever (with invalidations between) keeps another at the end
  of the queue; TLC finds that run. The property says what the code gives: the requests for
  a texture are completed when no other texture competes for the loader for ever. Foreground requests are
  off because of finding 1, and `Deinit` because who stops the loader again and again keeps it from its work.
* **Task lists.** Two lists and four tasks: a task leaves from the front, middle or end of a ring,
  and a list is emptied while the other is not. The proof covers any number. The free list's race has
  three tasks: one that both pop and one on either side.
* **Allocator.** Two size classes over three blobs: a pool starts with two blocks, overflows by one,
  a blob can get empty in the middle of the list, and either pool can take a blob the other has freed.
  Three raw blocks give a list with a first, middle and last element. `MaxUsed` bounds
  the count `m_usedBlocksInPool`, which can drift upwards (section 6).
* **Transport.** Two peers, three slots (the code has 128) and two statistics slots (30) over three
  periods, so that a slot is taken over; one fault, two packets queued and two datagrams under way at a time.
  One fault is enough for a refused send, a lost, repeated or forged datagram or a failed bind between any two
  steps; more of them only repeat, as nothing in the code counts them.
* **Strings.** Three strings of at most three characters (two kinds: a letter and the space) and one
  buffer more than strings; `ActualSize` has two sizes, so that a buffer is reused for a longer text.
  Two owners and a third party suffice for every sharing.
* **Particles.** Three systems (one has a slave of lower priority, one is always rendered) and three
  particles with a limit of one, so that a second particle is over it already.
* **RefPack.** All texts of up to ten bytes of two values, every memory behind the text, both modes; the limits are
  so small that all forms, blocks, chains that leave the window and colliding hashes occur. The proofs are
  for texts of any length and for the code's limits.
* **Messages.** Three messages, three translators of two priorities: equal and different
  priorities, an inserted message between two others, and one or two messages moved behind two or one.
* **Audio.** One 2D and one 3D sample, three events, three files of size 1, 1 and 2, a
  footprint of 2, two requests. The pool is full with one sound, so every further one kills
  or is dropped; the large file evicts both small ones. `MaxRequests` also delays a callback
  that has to add a request.

Where a cfg says `CHECK_DEADLOCK FALSE` the system may stop: in the loader's runs with foreground requests because of
finding 1, in the run of the free list's race, where an actor that meets a
null link is not followed further, and in the run of RefPack, which ends.

## 4. Fairness

**`TextureLoader`.** The operating system runs every thread: weak fairness
of the steps that need no lock. The locks are spin locks which a waiter polls
(`Thread_Safe_Set_Flag` sleeps between looks), and no order among waiters is kept; a waiter is assumed to look, at some time, while
the lock is free: strong fairness of the steps which take a lock. This includes the loader thread's taking the background lock between two turns
of a flush: the flush holds the lock while it sleeps (`Switch_Thread`, 423) and lets go of it for a moment only, so on this the
assumption asks much of the scheduler; without it a flush with work in both queues need not return while loading is suspended. `Update` is called every
frame: strong fairness of `BeginUpdate`, as the main thread may be in another call. A thread which is told to stop and does
not is terminated at some time (the timeout of `ThreadClass::Stop`). Nothing
is assumed of what the engine calls or of the order in which tasks are requested. That loading does not
stay suspended for good is a premise of `CompletesRequests`, in its own words (`[]<>~suspended`), and not of `FlushReturns`.

**`Transport`.** A peer with a socket calls `Update` again and again (its callers, which are in the original
executable, do so every frame; `Queue_Send` has no other way out), its reading comes to an end (the network does not bring datagrams faster than they are read),
and `Do_Send` is reached: weak fairness of `Update`, `ReadNothing` and `DoSend`. That sends succeed in the end
is an assumption about the network; the model makes it by bounding refusals with `MaxFaults`. Nothing
is assumed of delivery: a datagram may stay under way for ever.

**`RefPack`.** One thread that runs to the end of both functions: weak fairness of `Next`.

## 5. What is proved

For every value of the constants, checked by TLAPS. The assumptions are the ones named in the
modules: `ThreadsAssumption`, `DataAssumption` (the sets of threads are disjoint, null values are no
elements), `NodesAssumption` of `TaskList` (finitely many tasks), `PoolAssumption` and `AllocatorAssumption` (a blob has at least one
block, the size classes are pools), `TransportAssumption` (two slots and one period at least), `StreamAssumption`
(priorities are numbers), `StringsAssumption` (fewer strings than buffers, and than a
count can tell; the allocator gives at least what is asked for), `FormAssumption` (the limits are
at most those of the code), `ParticleAssumption` (finitely many systems and particles, each template has a priority, the limit
is not 0) and `AudioAssumption` (finitely many files, none of them empty; each handle is in one pool,
once, as `Init_Sample_Pools` allocates it). The bounds of the cfgs are not assumed, except `MaxLength`, `MaxText`,
`MaxRequests` and `MaxID`, which may be any numbers (a text fits in an `int`, an id in its 32 bits).

**`TextureLoaderProofs`.** `LoaderInvariant`: `Spec => []IndInv`. `IndInv` is `CoreInv`, which is about locks, tasks and queues, and
`OneLoader`, about the thread's handle (theorem `OneLoaderThread`); `OneLoader` is shown on top of `CoreInv`. The properties of interest are not
inductive one by one, and each conjunct of `CoreInv` is there for the others:

* `NoTaskLost` and `QueueIntegrity` need each other: a pop takes the head of a sequence
  and has to know that `m_parent` names that queue and that the task is in it once, so
  that it is gone from it afterwards.
* `TaskPointers` is kept by `Create` because a task on the free list has no texture
  (`StageOfPlace`), and by `Destroy` because a task's type and texture lead to the one
  pointer to clear.
* `LockDiscipline` is kept because a holder and its place in the code go together; it is
  what excludes a loader thread from being terminated with a task in its hands.
* `StageOfPlace` ties a task's load state and priority to the queue it is in; `SurfacesUnlocked` and the
  case distinctions in `Update` and `Request_Foreground_Loading` rest on it.
* `PendingUninitialized` needs `ThreadsAtWork`: a thread which waits for the second lock
  has tested `m_initialized` before it and the test still holds after it.

There is one lemma for each action, with the frame conditions of each conjunct stated once
(`QueueFrame`, `TaskFrame`, …); `IndInvStep` puts them together. From it follow
`LocksExclude`, `TasksKept`, `OneTaskPerTexture`, `LoadedOnce` and `SurfacesSettled` (a task whose
surfaces are locked is in a queue or in a thread's hands). `InitializedShowsSurface` takes one more induction: an initialized texture has a surface unless a
thread is in the reset of `Init`, between dropping the surface and clearing `m_initialized`. With one more
induction over the steps `LoaderIsUndisturbed` (an action property) and
`LoaderImplementsRequests`: every step of the loader is a step of `TextureRequests`, or
leaves the status of all textures as it is.

**`TaskListProofs`.** `LinksStayRings`: for any lists and tasks and every sequence of calls
the links form rings. Its lemmas show that unlinking a node and linking one in after any
node keep the rings, aliasing (a ring of one task, the list's own node) included; the
inductive invariant is `TypeOK` and `RingsIntact` together. `RingsImplementQueues` (`ImplementsQueues`) then shows that the rings
implement the sequences of `TaskQueues`. `Holds(L, q)` says that the successors lead from the list *L* through the tasks of
*q* and back, and that these are all that `m_parent` says are in *L*. A push or a removal leads from one such
sequence to the next (`InsertHolds`, `CutHolds`) and leaves the other rings alone (`FrameHolds`). The sequence that `Along` gathers with two
recursive functions is the one that `Holds` speaks of: what they return is given in closed form and the least place at which it could be
otherwise is excluded (`WalkIs`).

**`StringsProofs`.** `Good` says of a heap that each allocated buffer counts its owners and that strings
point at allocated buffers. It is proved of the steps `Release`, `Shared` and `Unique` and so of every
chain of them: in the middle of an operation it holds as well. That `Unique` finds a free buffer is the pigeonhole
(`BufferFree`), and that a count does not wrap follows from there being fewer strings than `CountLimit`.
`Fit` says that a text and its terminator are within the buffer's capacity and that texts stay within
`MaxLength`; `Unique` keeps it because it compares the room needed with the capacity the buffer got for
another text. Hence `BuffersOwned` (`CountsOwners`) and `TextsInBuffers` (`TextsFit`).

For `StringsAreValues`, `Spec => ImplementsValues`, `Sets(q, h, s, v)`, "in `q` the string
*s* is *v* and all others are what they were in *h*", is shown of each step on a `Good` and `Fit` heap: a freed
buffer had no other owner, and a buffer that is written has none. What remains is that the loops of `Trim` and
`Next_Token`, given by first and last positions, do what `StringValues` says by a choice over
parts of the text; the least position exists by the well-foundedness of the naturals.

**`RefPackProofs`.** `DecodesWhatWasEncoded` (`RoundTrip`) and `WorstCase` (`SizeBounded`), for all texts, both modes,
every memory behind the text and all limits up to those of the code. The inductive invariant `IndInv` has three parts.
The tables: every position in `hashtbl` and `link` lies before the current one, whatever was overwritten,
and the one that is looked at lies within the window. The match:
`best` is an offset and a length whose bytes are equal in the text, and at most as long and as far as the form
in which it will be put. The stream: every command put so far, decoded from its code bytes, says
how many literals follow it and which earlier bytes to copy, and is followed by the right piece of the text; the
decoder's output is a prefix of the text that ends where its commands do. That the bits of
a code give back the numbers is arithmetic on `div` and `%` (`ShortCodes` to `EndCodes`, `Headers`). `LinksReadWereWritten` says of the
search that a link it reads was written: whatever position stands in `hashtbl` or in a link has had its own link written in the
step that entered it, and a slot that was written stays so. What the uninitialized table
holds does not matter. `SizeInv`
pays for the bytes put: a match costs no more than it stands for, a block one byte for each `Block` literals.

**`AllocatorProofs`.** `AllocatorInvariant`: `Spec => []IndInv`, from which follow `BlocksOnce` (`EveryBlockOnce`),
`CountsCover` (`CountsCoverUse`), `RawBlocksListed` (`RawListIntact`), `PoolsGrowOnlyWhenFull` (`GrowsOnlyWhenFull`) and
`AllocatorImplementsHeap` (`ImplementsHeap`). The invariant has two halves.

* The pools: no blob is in two lists or twice in one (`BlobsApart`), what callers hold lies in blobs of the
  size classes (`HeldPlaces`), and each chain is the complement of what is out of its blob (`ChainsOK`).
  A full pool grows and takes the first block of the new blob's chain; that this block is nobody's needs the complement, and
  the complement after `Release_Empties` needs that an empty blob has no block out.
* The counts: the pool's total is the sum over its blobs, and its used count covers the sum of theirs. How sums change
  when blobs come and go is proved from their definition: `SumFunctionOnSet` folds over a finite set in an order of
  its own choice, so what would be an induction is an argument by the smallest set for which it fails
  (`LeastSet`, `SumsAgree`). The same is done for the loop of `Release_Empties` (`LeftExists`).
* `RemembersOwn`: a pool with blobs always remembers one of them. It gives `FreesNeverCountDown`, too: the branch of
  `Free_Block` that lowers the pool's count (`mempool.cpp:151`) never runs, so only `Free_Blob` and `Reset` lower it.
* The raw blocks are the entries of a sequence that the links follow both ways (`RawListed`); unlinking any block,
  the head or the last one included, gives the sequence without it.

**`MessageProofs`**, network. `TransportInvariant`: only slot 1 of a buffer is ever filled, and the statistics slots show the
last periods. `SearchInside` (`SearchStaysInside`) and `StatisticsAreTheLastPeriods` (`StatisticsWindow`) are
consequences; the second is arithmetic on a ring (`Back`, `NextSlot`): the slot that is opened is the one that was farthest
back, so no other period changes its slot. `RefusedStayQueued` (`KeptUntilSent`) is about one step: the
packets that leave their slots are as many as the period that is counted gained.

**`MessageProofs`**, message stream. `StreamInvariant`, and from it `TranslatorsInOrder` (`OfferedInOrder`) and `NoneIsPassedOver`
(`PassedOnWereOffered`), for any messages, priorities and number of translators.
Neither is inductive. What makes them so is `LoopAt`: it says of the two nested loops
that a translator *has been through* a message when it stands in front of the current translator, or is the current one
and the message stands in front of the one the loop comes to next (`Done`); it was then offered the message,
if both were there when the loops began, and whoever was offered a message has been through it. Translators may
be attached and removed and messages be put in and taken out because all of that leaves one list *within* the other
(`Within`, an embedding that keeps the order), and what two such lists share is in the same order (`WithinKeeps`); the
message that is destroyed is not the one the loop goes on with, and the translator that is removed is not the current one.
The lemmas on inserting, removing, appending and joining say of each operation on lists that it leaves them so.

**`AudioProofs`.** `AudioInvariant`: `Spec => []IndInv`, and from it `AudioEventsOwned` (`EventsOwned`),
`AudioSamplesConserved` (`SamplesConserved`), `AudioCallbacksFindEntry` (`CallbacksFindEntry`), `AudioCountsMatch`
(`CountsMatch`) and `AudioCacheAccounted` (`CacheAccounted`), with Miles calling back between any two steps of the model. The parts of
`IndInv` say where things are:

* A handle is in the free list or in one entry (`SamplesInv`); what runs belongs to an entry that has not stopped
  (`RunningInv`), and the entry for which a file is being opened is the last of its list and does not run yet (`StartingInv`).
  The count is one behind in between, which is why `CountsMatch` has to look at `pc`.
* No two entries play one event, no two waiting requests claim one, and an event is not both owned and claimed
  (`OneEntryEach`, `OneClaimEach`, `OwnedOrClaimed`). The hard part is the sound that loops after a delay: its entry has handed the
  event on to a request, and both refer to it. `HandedOnInv` says that the request is there, and, once its delay is over, that `Update` is going to
  come past the entry before the request (`GoneInTime`): a delay is counted down among the requests, and both lists are gone
  through after them, so the entry is released in the `Update` before the one that plays the request.
  Without it a second entry for the event could be made while the first is there.
* The size of the cache is `Total`, a fold over a finite set in an order of its own choice; as for the allocator, how it changes
  with one file is an argument by the smallest set (`LeastSet`). The files that are chosen as victims are in the cache
  and not the new one, so what is subtracted was counted.

**`ParticleProofs`.** `Invariance`: `Spec => []IndInv`, and from it `TypesCorrect` (`TypeOK`), `CountsAlwaysMatch` (`CountsMatch`),
`LinksAlwaysMutual` (`LinksMutual`), `DestructionShared` (`SlavesShareDestruction`), `IDsAlwaysUnique` (`IDsUnique`),
`LimitAlwaysKept` (`LimitKept`) and `RoomMadeBelow` (`MakesRoomBelow`).

* An operation is a chain of destructors, so the invariant is about a record of all objects (`Good(h)`) and is shown of each step
  of a chain. `GoodObjects` is `Good` without the manager's list of systems, which in the middle of a deletion or of loading
  does not name the systems there are. Each of `Gone`, `Deleted`, `Emitted` and `Unlinked` has a lemma that says what the
  result is, field by field (`GoneIs`, `UnlinkedIs`, …), and one that says that it is `Good` again.
* The loops over lists are recursive functions. That the states between their turns are there (`GoneRunExists`,
  `DeletedRunExists`, …) and what holds after *n* turns (`Climb`) are arguments by the least number of turns for which it fails.
* A particle that is deleted destroys the system it controls, and the slaves of that. `SlavesDestroyed` survives because
  `Chain` is closed under `slave`; `Slaves` adds to `LinksMutual` that a slave's id is greater than its master's, so that no
  system is its own slave, which `Unlinked` needs.
* `Controls` says that a particle and the system it controls point at each other. It is why no
  pointer is left when either of them goes.
* Loading creates objects anew and finds their links by id. Ids are unique, so that an id leads back to the
  system that was meant (`FindIs`, `BackGood`); `Midway` is what holds while some of the systems are restored and others are not (`RestoredGood`).
* `LimitKept` counts the particles below the highest priority (`Low`). Only `Emitted` adds one, and only with `Excess` at most 0.
  For `RoomMadeBelow`, `BelowIs` says what is in the list of victims, and `ForcedOutIs` that all of them have a priority below that of the new particle.

**Model-checked only.** Liveness, which TLAPS cannot prove here (`CompletesRequests`, `FlushReturns`, `EventuallySent`,
`Terminates`), `LinksHoldLists`, and of course the violated properties.

## 6. Findings and divergences

Shown by a run:

1. **Deadlock** (`textureloader.cpp:370`). `Request_Foreground_Loading` takes the foreground
   lock and then waits for the background one; the loader thread keeps the background lock
   from taking a task until it has handed it back under the foreground lock (84, 89). Both
   wait for ever.
2. **Race on the free list** (`textureloadtask.cpp:640`). `Deinit` empties `g_freeList` under the background lock while
   a request of another thread pops it in `Create` (665) under the foreground lock. The list has no mutex, unlike the two queues: both may pop the same
   task, and the request goes on with one that was deleted.

Seen while modelling, not shown by a run of their own. Unless said otherwise the models have the code as it is:

Loader and library:

* A thumbnail task that another thread queued is processed after an urgent load of the same texture and
  replaces its surface (`textureloader.cpp:459`); the texture counts as initialized and is not loaded again.
* `Flush_Pending_Load_Tasks` keeps the background lock around `Update`, which takes the foreground one
  (`textureloader.cpp:415`, `427`), and so waits for ever for another thread that is in `Request_Foreground_Loading` and waits for the
  background lock: finding 1 without the loader thread.
* `Queues_Not_Empty`, "Checks if there are load tasks queued", is true only while *both* queues hold a task (`textureloader.cpp:390`). A task
  that the loader has handed back, the background queue being empty, stays in the foreground queue when the flush returns, which is to
  flush "all loading tasks held on the foreground queue to completion" (408). The model has the loop as it is.
* With loading suspended `Update` does nothing, so a flush with work in both queues turns without effect until the loader
  thread has emptied the background queue. It does then return (`FlushReturns`, under the fairness of section 4), without having
  flushed anything.
* A `Stop` that comes before the new thread has set `m_isRunning` is lost (`thread.cpp:148`), and
  the thread is terminated when the time is over. `OneLoaderThread` shows that it leaves no second thread.
* The reference counts of textures are changed by several threads without a lock (`refcount.h:46`);
  `SimpleMutexClass::Lock` does not look whether it got the lock (`mutex.h:85`). Neither is modelled.
* `Delete_Free_Pool` pops the first task of each of its three lists and then goes on with
  the first list in each loop (`textureloadtask.cpp:644`).
* `Begin_Compressed_Load` computes a reduction and overwrites it (`textureloadtask.cpp:205`, `217`).

Memory and strings:

* `MemoryPool::Free_Block` lowers `m_usedBlocksInPool` on one of its paths only (`mempool.cpp:151`), when the
  pool remembers no blob, which never happens (`FreesNeverCountDown`); so an empty pool may not count as empty where
  `mempoolfact.cpp:74` asserts that it does. `CountsCoverUse` states the direction that holds.
* `Release_Empties` reads the next pointer of a blob it has deleted (`mempool.cpp:170`).
* `Trim` and `Next_Token` may have `strcpy` copy within one buffer (`asciistring.cpp:94`).
* The destructor of `DynamicMemoryAllocator` asserts the opposite of what it means
  (`memdynalloc.cpp:76`).
* Appending a string to itself in place copies its terminator over and over (`asciistring.cpp`, `Concat`),
  and `Release_Buffer` counts down without a lock. The model leaves self-append and threads out.

Messages, sounds, network, particles:

* `GameMessageList::Insert_Message` links the new message behind the given one
  (`gamemessagelist.cpp:44`); the comment of its caller says "just before the message
  provided" (`messagestream.cpp:48`).
* A translator that removes itself while it is called makes `Propagate_Messages` read `m_next` of the deleted
  `TranslatorData` (`messagestream.cpp:159`). Nothing in the tree does so; the model requires it.
* The destructor of `MessageStream` deletes each translator and then the record whose
  destructor deletes it again (`messagestream.cpp:28`).
* `Release_Open_Audio` passes the cache entry's address where the address of the wave data is compared
  (`milesaudiofilecache.cpp:229`), so samples that play data which is freed are never stopped; and an
  entry whose file was evicted may close another file that was loaded at the same address (149).
* `Find_Lowest_Priority_Sound` declares its running minimum inside the loop and so returns
  the *last* sound of lower priority (`milesaudiomanager.cpp:2129`).
* `Kill_Event_Immediately` compares a handle with an address in the request list and finds
  no waiting request (`milesaudiomanager.cpp:234`); `Stop_Audio_Event` does not reach a
  sound between two delayed loops, which starts again (1878).
* `Process_Playing_List` stops a sound of type `EVENT_UNKVAL3` and does not go on to the next entry
  (`milesaudiomanager.cpp:1253`): it stays in the loop until Miles' thread calls back. No liveness is claimed of `Update`.
* `Transport::Queue_Send` and `Do_Recv` test slot *i* and use *i* + 1
  (`transport.cpp:244`, `211`), and `Do_Recv` looks in the wrong array. `SearchStaysInside` shows why this
  does not write past the array: only slot 1 is used. A second packet before the next update therefore replaces the first, which is lost.
* At the particle limit `Remove_Oldest_Particles` returns one more than the number of its turns, so
  `Create_Particle` makes room and creates nothing (`particlesys.cpp:638`).
* A slave that is not saveable while its master is saved makes the saved game unreadable: `Load_Post_Process`
  finds no system with its id. The model loads only what can be loaded (`LinksSaved`).
* `Merge_Related_Systems` may change the priority of a slave that has particles, which stay in the list of the old
  one, while `Remove_Particle` looks in that of the new one (`particlesys.cpp:969`). Not in the model.
* `Remove_Particle_System` goes on with an iterator it has erased (`particlesysmanager.cpp:352`).

## 7. What is not modelled, and why

* Pixel copies, file formats, mip maps, cube and volume textures (the code creates tasks
  for plain textures only), and reference counts of textures.
* `SimpleMutexClass` and the recursive `CriticalSectionClass`: only the spin lock is used by
  what is modelled. That the audio cache's mutex and the allocator's sections exclude is implied in their actions being atomic.
* Streams (music, speech), pausing, fading, volumes, filters and providers of the sound
  system; arguments of messages; creation and destruction of pools by the factory.
* Obfuscation, check sums and byte counts of the transport; comparing, searching and formatting of strings; motion,
  emission and looks of particles; the other formats, which the compression manager names and does not implement.
* Undefined behaviour beyond the outcomes that section 2 names: the read of a deleted blob, the overlapping `strcpy`, a translator
  that removes itself. Miles' callbacks in the middle of a step of `Update`.
* `Merge_Related_Systems`. Callers of `RefPack_Compress`: nothing in this tree calls it, so `SizeBounded` is about the bound that a caller's
  buffer has to have, and not about one that is there.
* Weak memory: a step reads and writes memory in one order for all threads. Where the code
  races (finding 2) the statements of both threads interleave in all ways; the model is then
  an under-approximation of what the build can do.
* File systems, parsers (INI, xfer, data chunks) and the game's data templates: sequential code without state
  that outlives a call, or tables filled once. Math, renderer, input and video: numeric code, device wrappers.
  LAN lobby, players, sides and scripts: what is in this tree fills in structures and calls the original executable
  for the rest (`Call_Method` with an address), so that their state changes cannot be read off.

Most of the tree is of these kinds. Of its lines of C++, large parts are bundled libraries and headers (`libs/olddx`,
`libs/stlport`), declarations, the Direct 3D renderer and the hooks into the original binary. The share of the
lines that are mapped to a definition is therefore small, although each part with threads, callbacks, eviction,
shared buffers or linked objects whose code is complete has a module.

## 8. Plan

Done: loader, task lists, strings, RefPack, allocator, transport, messages, sound effects and particles with proofs; the free list's race
and the links of the message lists model-checked. Next, in this order:

1. **Audio**: streams and `Pause_Audio` as further actions; the video player's handle.
2. **TextureSize**: `Validate_Texture_Size`, `Get_Reduction` and the loops of
   `Begin_Compressed_Load` as functions, checked against a reference definition over bounded sizes.
3. **Chunk readers**: nesting positions of `ChunkLoadClass`, `ChunkSaveClass` and `DataChunkInput`; what was
   written is read back, also when a chunk is left before its end.
4. **MessageLinks**: a proof that the links hold the sequences, as for the task lists.
5. **Containers**: `MultiList` links as in `TaskList`; `Dict` and its shared, counted data as in `Strings`.
