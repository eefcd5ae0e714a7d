---------------------------- MODULE AudioPlayback ----------------------------
(***************************************************************************)
(* The sound effects of MilesAudioManager and the cache of sound files     *)
(* below it.  The game asks for events, Update turns requests into playing *)
(* audio and releases what has stopped, and Miles calls back when a sample *)
(* is over, from its own thread and between any two steps of Update.       *)
(*                                                                         *)
(* Music, speech and the video player's handle play from streams, not from *)
(* the cache, and are left out, as are volumes, filters and Pause_Audio.   *)
(* Miles is external: a sample that was started and not stopped is over at *)
(* some time, and its callback does not overlap a step of Update.          *)
(***************************************************************************)
EXTENDS Integers, SequencesExt

CONSTANTS Events,       \* AudioEventRTS objects; the id stands for the handle
          Info,         \* AudioEventInfo of each event
          Files, Size,  \* sound files and their sizes
          Buffers,      \* addresses of wave data
          Samples,      \* Miles sample handles, 2D ("global") and 3D ("positional")
          MaxSize,      \* the audio footprint
          MaxRequests,  \* bound on the request list
          Null

Kinds == {"global", "positional"}
FileNames == Files \cup {Null}
Handles == UNION {ToSet(Samples[K]) : K \in Kinds}

ASSUME AudioAssumption ==
  /\ Info \in [Events -> [kind: Kinds, priority: Nat, attack: FileNames, sounds: SUBSET Files,
                          decay: FileNames, loop: BOOLEAN, loops: Nat, delay: 0..1]]
  /\ \A e \in Events : Info[e].sounds # {}
  /\ IsFiniteSet(Files) /\ Size \in [Files -> Nat \ {0}]
  /\ MaxSize \in Nat /\ MaxRequests \in Nat
  /\ Samples \in [Kinds -> Seq(Handles)] /\ \A K \in Kinds : IsInjective(Samples[K])
  /\ ToSet(Samples["global"]) \cap ToSet(Samples["positional"]) = {}
  /\ Null \notin Events \cup Files \cup Buffers \cup Handles

VARIABLES
  list,      \* m_globalAudioList and m_positionalAudioList
  free,      \* m_sampleHandleList and m_3dSampleHandleList
  count,     \* SoundManager's m_2dSamplesPlaying and m_3dSamplesPlaying
  running,   \* the samples Miles plays and will call back for
  requests,  \* m_audioRequestList
  event,     \* the AudioEventRTS objects
  cache,     \* m_cacheMap: the wave data of a file, its ref_count, who loaded it
  size,      \* m_currentSize
  pc, at     \* where Update is and the list position it looks at

vars == <<list, free, count, running, requests, event, cache, size, pc, at>>
sounds == <<list, free, count, running>>
files == <<cache, size>>

Kind(e) == Info[e].kind
Priority(e) == Info[e].priority
Dead == [live |-> FALSE, portion |-> 3, file |-> Null, loops |-> 0, delay |-> 0, kill |-> Null]
Uncached == [data |-> Null, refs |-> 0, owner |-> Null]
Total(F) == FoldFunctionOnSet(+, 0, Size, F)
Cached(c) == {f \in Files : c[f].data # Null}

NewAudio(e, s) == [event |-> e, sample |-> s, handle |-> Null, stopped |-> FALSE,
                   disableLoops |-> FALSE, releaseEvent |-> TRUE]

Init ==
  /\ list = [K \in Kinds |-> << >>]
  /\ free = Samples
  /\ count = [K \in Kinds |-> 0]
  /\ running = {}
  /\ requests = << >>
  /\ event = [e \in Events |-> Dead]
  /\ cache = [f \in Files |-> Uncached]
  /\ size = 0
  /\ pc = "idle" /\ at = 1

-----------------------------------------------------------------------------
(* MilesAudioFileCache.                                                    *)

Closed(c, handle) ==
  [f \in Files |-> IF handle # Null /\ c[f].data = handle
                   THEN [c[f] EXCEPT !.refs = @ - 1] ELSE c[f]]

\* Free_Space_For_Sample: files without references first, and only when they are
\* not enough files loaded for events of lower priority; it stops as soon as
\* enough would be freed, and the hash map has no order of its own.
Unreferenced(c) == {f \in Cached(c) : c[f].refs = 0}
Outranked(e, c) == {f \in Cached(c) : c[f].refs # 0 /\ Priority(c[f].owner) < Priority(e)}
Victims(e, c, required) ==
  IF required <= 0 THEN {{}}
  ELSE {V \in SUBSET (Unreferenced(c) \cup Outranked(e, c)) :
          /\ Total(V) >= required
          /\ \E last \in V :
               /\ Total(V \ {last}) < required
               /\ \/ V \subseteq Unreferenced(c)
                  \/ last \in Outranked(e, c) /\ Unreferenced(c) \subseteq V}

Failed(c, s) == [data |-> Null, cache |-> c, size |-> s]

SizeWithNone(s, f, V) == s + Size[f]                \* mutant: forgets what was freed
SizeWith(s, f, V) == s + Size[f] - Total(V)

\* Release_Open_Audio frees the wave data.  The samples that play it go on: they
\* are looked up by the address of the cache entry and not by that of the data.
Loaded(e, f, c, s) ==
  {[data |-> b,
    cache |-> [g \in Files |-> IF g = f THEN [data |-> b, refs |-> 1, owner |-> e]
                               ELSE IF g \in V THEN Uncached ELSE c[g]],
    size |-> SizeWith(s, f, V)] :
     b \in Buffers \ {c[g].data : g \in Files}, V \in Victims(e, c, s + Size[f] - MaxSize)}

\* Open_File for the portion an event is at: what it may return and leave behind.
\* A file may be missing, or not be in a format Miles plays.
Opened(e, ev, c, s) ==
  LET f == <<Info[e].attack, ev.file, Info[e].decay, Null>>[ev.portion + 1] IN
  IF f \in Cached(c)
  THEN {[data |-> c[f].data, cache |-> [c EXCEPT ![f].refs = @ + 1], size |-> s]}
  ELSE {Failed(c, s)} \cup (IF f = Null THEN {} ELSE Loaded(e, f, c, s))

\* Play_Sample and Play_Sample3D; the latter needs a position to play at.
Played(e, ev, c, s) ==
  Opened(e, ev, c, s) \cup (IF Kind(e) = "positional" THEN {Failed(c, s)} ELSE {})

-----------------------------------------------------------------------------
(* Playing audio.                                                          *)

FirstOf(K, e) == SelectInSeq(list[K], LAMBDA p : p.event = e)

\* Release_Playing_Audio and Release_Miles_Handles, on the main thread.
HandlesKept(handles, s) == handles                  \* mutant: the handle is lost
HandlesBack(handles, s) == IF s = Null THEN handles ELSE Append(handles, s)
StillRunning(s) == running                          \* mutant: the sample plays on
Silenced(s) == running \ {s}
Release(K, p) ==
  /\ free' = [free EXCEPT ![K] = HandlesBack(@, p.sample)]
  /\ count' = [count EXCEPT ![K] = IF p.sample = Null \/ @ = 0 THEN @ ELSE @ - 1]
  /\ running' = Silenced(p.sample)
  /\ cache' = Closed(cache, p.handle)
  /\ event' = IF p.releaseEvent THEN [event EXCEPT ![p.event] = Dead] ELSE event

ReleaseAt(K, i) ==
  /\ Release(K, list[K][i])
  /\ list' = [list EXCEPT ![K] = RemoveAt(@, i)]

-----------------------------------------------------------------------------
(* The game's calls, made between two updates.                             *)

\* Add_Audio_Event, when the sound may be played: Does_Violate_Limit may have
\* named a sound of the same list that it is to replace.  The id of an event
\* is used again only when no request speaks of it any more.
AddEvent(e) ==
  /\ pc = "idle" /\ Len(requests) < MaxRequests
  /\ ~event[e].live
  /\ \A i \in 1..Len(requests) : requests[i].event # e
  /\ \A d \in Events : event[d].kill # e
  /\ \E f \in Info[e].sounds, k \in {Null} \cup {p.event : p \in ToSet(list[Kind(e)])} :
       event' = [event EXCEPT ![e] =
         [live |-> TRUE, portion |-> IF Info[e].attack = Null THEN 1 ELSE 0, file |-> f,
          loops |-> Info[e].loops, delay |-> Info[e].delay, kill |-> k]]
  /\ requests' = Append(requests, [adding |-> TRUE, event |-> e])
  /\ UNCHANGED <<sounds, files, pc, at>>

\* Remove_Audio_Event with the handle Add_Audio_Event returned.
RemoveEvent(e) ==
  /\ pc = "idle" /\ Len(requests) < MaxRequests
  /\ event[e].live
  /\ requests' = Append(requests, [adding |-> FALSE, event |-> e])
  /\ UNCHANGED <<sounds, files, event, pc, at>>

\* Kill_Event_Immediately.  A request that still waits is not found: it compares
\* the handle with the address of the request's event.
KillEvent(e) ==
  /\ pc = "idle"
  /\ FirstOf(Kind(e), e) # 0
  /\ ReleaseAt(Kind(e), FirstOf(Kind(e), e))
  /\ UNCHANGED <<requests, size, pc, at>>

\* Stop_Audio for the effects of one kind.
StopAudio(K) ==
  /\ pc = "idle" /\ list[K] # << >>
  /\ running' = running \ {p.sample : p \in ToSet(list[K])}
  /\ list' = [list EXCEPT ![K] = [i \in DOMAIN @ |-> [@[i] EXCEPT !.stopped = TRUE]]]
  /\ UNCHANGED <<free, count, requests, event, files, pc, at>>

\* Reset: Stop_All_Audio_Immediately and Remove_All_Audio_Requests, which does
\* not free the events of the requests.
Reset ==
  LET items == list["global"] \o list["positional"] IN
  /\ pc = "idle" /\ items \o requests # << >>
  /\ list' = [K \in Kinds |-> << >>]
  /\ free' = [K \in Kinds |-> free[K] \o [i \in DOMAIN list[K] |-> list[K][i].sample]]
  /\ count' = [K \in Kinds |-> IF count[K] > Len(list[K]) THEN count[K] - Len(list[K]) ELSE 0]
  /\ running' = running \ {p.sample : p \in ToSet(items)}
  /\ cache' = [f \in Files |-> [cache[f] EXCEPT !.refs =
                 @ - Cardinality({i \in DOMAIN items : items[i].handle # Null /\ items[i].handle = cache[f].data})]]
  /\ event' = [e \in Events |->
                 IF \E p \in ToSet(items) : p.event = e /\ p.releaseEvent THEN Dead ELSE event[e]]
  /\ requests' = << >>
  /\ UNCHANGED <<size, pc, at>>

-----------------------------------------------------------------------------
(* Update: Process_Request_List.                                           *)

BeginUpdate ==
  /\ pc = "idle" /\ pc' = "requests" /\ at' = 1
  /\ UNCHANGED <<sounds, requests, event, files>>

Current == requests[at]
AtRequest == pc = "requests" /\ at <= Len(requests)
Finish == requests' = RemoveAt(requests, at) /\ pc' = "requests" /\ UNCHANGED at

\* Process_Request_This_Frame and Adjust_Request; delays count in frames.
Due(e) == event[e].delay = 0
DelayRequest ==
  /\ AtRequest /\ Current.adding /\ ~Due(Current.event)
  /\ event' = [event EXCEPT ![Current.event].delay = @ - 1]
  /\ at' = at + 1
  /\ UNCHANGED <<sounds, requests, files, pc>>

\* Stop_Audio_Event: the sound is not stopped, it just does not loop again.
Unlooped(e) ==
  [K \in Kinds |-> [i \in DOMAIN list[K] |->
     [list[K][i] EXCEPT !.disableLoops = @ \/ list[K][i].event = e]]]

StopRequest ==
  /\ AtRequest /\ ~Current.adding
  /\ list' = Unlooped(Current.event)
  /\ Finish
  /\ UNCHANGED <<free, count, running, event, files>>

\* Play_Audio_Event: first the sound this one replaces has to go.
PlayRequest ==
  /\ AtRequest /\ Current.adding /\ Due(Current.event)
  /\ event[Current.event].kill = Null
  /\ pc' = "sample"
  /\ UNCHANGED <<sounds, requests, event, files, at>>

KillReplaced ==
  LET e == Current.event
      victim == event[e].kill
  IN
  /\ AtRequest /\ Current.adding /\ Due(e)
  /\ victim # Null
  /\ FirstOf(Kind(e), victim) # 0
  /\ ReleaseAt(Kind(e), FirstOf(Kind(e), victim))
  /\ pc' = "sample"
  /\ UNCHANGED <<requests, size, at>>

\* Without a sample the new PlayingAudio is released at once, its event with it.
Drop(e) ==
  /\ Release(Kind(e), NewAudio(e, Null))
  /\ Finish
  /\ UNCHANGED <<list, size>>

DropReplacement ==
  LET e == Current.event IN
  /\ AtRequest /\ Current.adding /\ Due(e)
  /\ event[e].kill # Null /\ FirstOf(Kind(e), event[e].kill) = 0
  /\ Drop(e)

\* Find_Lowest_Priority_Sound: the last sound of lower priority that it comes by,
\* and the first one of priority 0.
Lower(K, e) == {i \in DOMAIN list[K] : Priority(list[K][i].event) < Priority(e)}
LowestPriority(K, e) ==
  LET zero == {i \in Lower(K, e) : Priority(list[K][i].event) = 0} IN
  list[K][IF zero = {} THEN Max(Lower(K, e)) ELSE Min(zero)].event

KillLowest ==
  LET e == Current.event
      K == Kind(e)
  IN
  /\ pc = "sample" /\ free[K] = << >> /\ Lower(K, e) # {}
  /\ ReleaseAt(K, FirstOf(K, LowestPriority(K, e)))
  /\ UNCHANGED <<requests, size, pc, at>>

DropForWant ==
  LET e == Current.event IN
  /\ pc = "sample" /\ free[Kind(e)] = << >> /\ Lower(Kind(e), e) = {}
  /\ Drop(e)

\* The new PlayingAudio is in the list before its file is opened.
TakeSample ==
  LET e == Current.event
      K == Kind(e)
  IN
  /\ pc = "sample" /\ free[K] # << >>
  /\ list' = [list EXCEPT ![K] = Append(@, NewAudio(e, Head(free[K])))]
  /\ free' = [free EXCEPT ![K] = Tail(@)]
  /\ pc' = "start"
  /\ UNCHANGED <<count, running, requests, event, files, at>>

StartUncounted(K) == count[K]                       \* mutant: a start not notified
Started(K) == count[K] + 1
StartSample ==
  LET e == Current.event
      K == Kind(e)
      n == Len(list[K])
  IN
  /\ pc = "start"
  /\ \E o \in Played(e, event[e], cache, size) :
       /\ o.data # Null
       /\ list' = [list EXCEPT ![K][n].handle = o.data]
       /\ running' = running \cup {list[K][n].sample}
       /\ cache' = o.cache /\ size' = o.size
  /\ count' = [count EXCEPT ![K] = Started(K)]
  /\ Finish
  /\ UNCHANGED <<free, event>>

\* The start is notified before the failure is seen, and Release notifies the
\* completion: the count is what it was.
StartFails ==
  LET e == Current.event
      K == Kind(e)
      n == Len(list[K])
  IN
  /\ pc = "start"
  /\ Failed(cache, size) \in Played(e, event[e], cache, size)
  /\ list' = [list EXCEPT ![K] = Front(@)]
  /\ free' = [free EXCEPT ![K] = HandlesBack(@, list[K][n].sample)]
  /\ event' = [event EXCEPT ![e] = Dead]
  /\ Finish
  /\ UNCHANGED <<count, running, files>>

-----------------------------------------------------------------------------
(* Update: Process_Playing_List, one entry of a list at a time.            *)

EndRequests ==
  /\ pc = "requests" /\ at > Len(requests)
  /\ pc' = "global" /\ at' = 1
  /\ UNCHANGED <<sounds, requests, event, files>>

AtEntry(K) == pc = K /\ at <= Len(list[K])

\* An entry that has stopped goes, and so does a positional one that nobody hears
\* or whose object is gone.
ReleaseEntry(K) ==
  /\ AtEntry(K) /\ (list[K][at].stopped \/ K = "positional")
  /\ ReleaseAt(K, at)
  /\ UNCHANGED <<requests, size, pc, at>>

PassEntry(K) ==
  /\ AtEntry(K) /\ ~list[K][at].stopped
  /\ at' = at + 1
  /\ UNCHANGED <<sounds, requests, event, files, pc>>

\* An event of type EVENT_UNKVAL3 is stopped, and the iterator stays at its entry
\* until Miles says that the sample is over.
StopEntry ==
  /\ AtEntry("positional") /\ ~list["positional"][at].stopped
  /\ list' = Unlooped(list["positional"][at].event)
  /\ UNCHANGED <<free, count, running, requests, event, files, pc, at>>

EndList(K) ==
  /\ pc = K /\ at > Len(list[K])
  /\ pc' = IF K = "global" THEN "positional" ELSE "idle"
  /\ at' = 1
  /\ UNCHANGED <<sounds, requests, event, files>>

-----------------------------------------------------------------------------
(* Notify_Of_Audio_Completion, for the entry i of list K.                  *)

Looping(e) == Info[e].loop /\ event[e].portion \in {0, 1}
Decreased(n) == IF n = 1 THEN -1 ELSE IF n > 1 THEN n - 1 ELSE n
LoopsOn(p) == ~p.disableLoops /\ Decreased(event[p.event].loops) >= 0

\* Has_More_Loops was asked and Generate_Filename has picked the next sound.
NextLoop(e, f) == [event[e] EXCEPT !.portion = 1, !.loops = Decreased(@), !.file = f,
                                   !.delay = Info[e].delay]

Advanced(e) ==
  LET ev == [event[e] EXCEPT !.portion = IF Looping(e) THEN 1 ELSE @,
                             !.loops = IF Looping(e) THEN Decreased(@) ELSE @]
  IN [ev EXCEPT !.portion = IF ev.portion = 0 THEN 1
                            ELSE IF ev.portion = 1 /\ Info[e].decay # Null THEN 2 ELSE 3]

Put(K, i, p) == list' = [list EXCEPT ![K][i] = p]

\* Start_Next_Loop after a delay: the event goes back to the request list and the
\* entry, which Update releases, must leave it alone.
OwningStill(p) ==                                   \* mutant: the entry frees the event
  [p EXCEPT !.handle = Null, !.stopped = TRUE, !.disableLoops = TRUE]
HandedOn(p) ==
  [p EXCEPT !.handle = Null, !.stopped = TRUE, !.disableLoops = TRUE, !.releaseEvent = FALSE]
LoopLater(K, i) ==
  LET p == list[K][i]
      e == p.event
  IN
  /\ Looping(e) /\ LoopsOn(p) /\ Info[e].delay > 0
  /\ Len(requests) < MaxRequests                    \* bound: the callback waits for room
  /\ \E f \in Info[e].sounds : event' = [event EXCEPT ![e] = NextLoop(e, f)]
  /\ Put(K, i, HandedOn(p))
  /\ requests' = Append(requests, [adding |-> TRUE, event |-> e])
  /\ cache' = Closed(cache, p.handle)
  /\ running' = running \ {p.sample}
  /\ UNCHANGED <<free, count, size>>

\* Start_Next_Loop at once.
LoopNow(K, i) ==
  LET p == list[K][i]
      e == p.event
  IN
  /\ Looping(e) /\ LoopsOn(p) /\ Info[e].delay = 0
  /\ \E f \in Info[e].sounds :
       \E o \in Played(e, NextLoop(e, f), Closed(cache, p.handle), size) :
         /\ o.data # Null
         /\ Put(K, i, [p EXCEPT !.handle = o.data])
         /\ event' = [event EXCEPT ![e] = NextLoop(e, f)]
         /\ cache' = o.cache /\ size' = o.size
  /\ UNCHANGED <<free, count, running, requests>>

\* No further loop, or none that could be started: on to the next portion.  A
\* loop has closed its file by now, so that it is not closed twice.
LoopOver(p) ==
  LET e == p.event IN
  Looping(e) => \/ ~LoopsOn(p)
                \/ /\ Info[e].delay = 0
                   /\ \E f \in Info[e].sounds :
                        Failed(Closed(cache, p.handle), size)
                          \in Played(e, NextLoop(e, f), Closed(cache, p.handle), size)

NextPortion(K, i) ==
  LET p == list[K][i]
      e == p.event
  IN
  /\ LoopOver(p) /\ Advanced(e).portion # 3
  /\ event' = [event EXCEPT ![e] = Advanced(e)]
  /\ \E o \in Played(e, Advanced(e), Closed(cache, p.handle), size) :
       /\ Put(K, i, [p EXCEPT !.handle = o.data, !.stopped = o.data = Null])
       /\ running' = IF o.data = Null THEN running \ {p.sample} ELSE running
       /\ cache' = o.cache /\ size' = o.size
  /\ UNCHANGED <<free, count, requests>>

LastPortion(K, i) ==
  LET p == list[K][i]
      e == p.event
  IN
  /\ LoopOver(p) /\ Advanced(e).portion = 3
  /\ event' = [event EXCEPT ![e] = Advanced(e)]
  /\ Put(K, i, [p EXCEPT !.stopped = TRUE, !.handle = IF Looping(e) THEN Null ELSE @])
  /\ cache' = IF Looping(e) THEN Closed(cache, p.handle) ELSE cache
  /\ running' = running \ {p.sample}
  /\ UNCHANGED <<free, count, requests, size>>

Completion(K, i) ==
  /\ list[K][i].sample \in running
  /\ LoopLater(K, i) \/ LoopNow(K, i) \/ NextPortion(K, i) \/ LastPortion(K, i)
  /\ UNCHANGED <<pc, at>>

-----------------------------------------------------------------------------
GameCalls ==
  \/ \E e \in Events : AddEvent(e) \/ RemoveEvent(e) \/ KillEvent(e)
  \/ \E K \in Kinds : StopAudio(K)
  \/ Reset

Update ==
  \/ BeginUpdate
  \/ DelayRequest \/ StopRequest
  \/ PlayRequest \/ KillReplaced \/ DropReplacement
  \/ KillLowest \/ DropForWant \/ TakeSample \/ StartSample \/ StartFails
  \/ EndRequests \/ StopEntry
  \/ \E K \in Kinds : ReleaseEntry(K) \/ PassEntry(K) \/ EndList(K)

Next ==
  \/ GameCalls
  \/ Update
  \/ \E K \in Kinds : \E i \in DOMAIN list[K] : Completion(K, i)

Spec == Init /\ [][Next]_vars

-----------------------------------------------------------------------------
(* Properties.                                                             *)

\* The type invariant.
Entries == [event: Events, sample: Handles, handle: Buffers \cup {Null}, stopped: BOOLEAN,
            disableLoops: BOOLEAN, releaseEvent: BOOLEAN]
Requests == [adding: BOOLEAN, event: Events]
EventStates == [live: BOOLEAN, portion: 0..3, file: FileNames, loops: Int, delay: 0..1, kill: Events \cup {Null}]
CacheItems == [data: Buffers \cup {Null}, refs: Int, owner: Events \cup {Null}]
TypeOK ==
  /\ list \in [Kinds -> Seq(Entries)]
  /\ \A K \in Kinds : \A i \in 1..Len(list[K]) : Kind(list[K][i].event) = K
  /\ free \in [Kinds -> Seq(Handles)] /\ count \in [Kinds -> Nat] /\ running \subseteq Handles
  /\ requests \in Seq(Requests) /\ event \in [Events -> EventStates]
  /\ cache \in [Files -> CacheItems] /\ size \in Nat
  /\ pc \in Kinds \cup {"idle", "requests", "sample", "start"} /\ at \in Nat \ {0}

\* Who is to free an event: an entry that releases its event, or a request to play
\* it that has not become an entry yet.
Owners(e) ==
  {i \in DOMAIN list[Kind(e)] : list[Kind(e)][i].event = e /\ list[Kind(e)][i].releaseEvent}
Claims(e) ==
  {i \in DOMAIN requests :
     requests[i].adding /\ requests[i].event = e /\ ~(pc = "start" /\ i = at)}

\* Whoever plays or requests an event finds it alive, also when a sound that loops
\* after a delay is in the list and in the requests at once, and at most one of
\* them frees it in the end.
EventsOwned ==
  /\ \A K \in Kinds : \A p \in ToSet(list[K]) : event[p.event].live
  /\ \A r \in ToSet(requests) : r.adding => event[r.event].live
  /\ \A e \in Events : Cardinality(Owners(e)) + Cardinality(Claims(e)) <= 1

\* Every Miles handle is in its free list or in one entry, never in both, and none
\* gets lost however sounds end, fail to start or are killed for others.
SamplesConserved ==
  \A K \in Kinds :
    LET held == free[K] \o [i \in DOMAIN list[K] |-> list[K][i].sample] IN
    IsInjective(held) /\ ToSet(held) = ToSet(Samples[K])

\* A callback finds the entry of its sample: no sample plays on that has been given
\* back.
CallbacksFindEntry ==
  running \subseteq (UNION {{p.sample : p \in ToSet(list[K])} : K \in Kinds})

\* The sound manager's count, from which it tells how many more sounds it may
\* request, is the number of entries that were started.
CountsMatch ==
  \A K \in Kinds :
    count[K] = Len(list[K]) - (IF pc = "start" /\ Kind(Current.event) = K THEN 1 ELSE 0)

\* m_currentSize is what the cache holds, within the footprint at any time.
CacheAccounted ==
  /\ size = Total(Cached(cache))
  /\ size <= MaxSize
=============================================================================
