---------------------------- MODULE MessageStream ----------------------------
(***************************************************************************)
(* MessageStream, GameMessageList and CommandList (game/common): the input *)
(* devices and the GUI put messages into the stream; once a frame          *)
(* Propagate_Messages offers each of them to every translator, in the      *)
(* order of their priorities, and hands what is left to the command list.  *)
(* All of it runs in the main thread; what is hard is that a translator    *)
(* adds messages, and attaches or removes other translators, while         *)
(* Propagate_Messages is between its two nested loops.                     *)
(*                                                                         *)
(* The doubly linked lists of messages and translators are sequences;      *)
(* MessageLinks adds the links of the messages to them.                    *)
(***************************************************************************)
EXTENDS Naturals, SequencesExt

CONSTANTS
  Messages,        \* GameMessage objects that `new' can hand out
  Priorities,      \* priorities that translators are attached with
  MaxTranslators,  \* bound of the model on m_nextTranslatorID
  None             \* no message

ASSUME StreamAssumption == Priorities \subseteq Nat /\ None \notin Messages

VARIABLES
  stream,       \* m_firstMessage .. m_lastMessage of the stream
  commands,     \* the same of g_theCommandList
  translators,  \* m_firstTranslator .. m_lastTranslator
  nextId,       \* m_nextTranslatorID
  phase,        \* where Propagate_Messages is
  tdata, msg, msgNext,  \* its local variables
  offered,      \* the translators each message was offered to (history)
  started       \* messages and translators there when it began (history)

listVars == <<stream, commands>>
loopVars == <<phase, tdata, msg, msgNext>>
vars == <<listVars, translators, nextId, loopVars, offered, started>>

Entries(q) == {q[i] : i \in 1..Len(q)}
Place(q, x) == CHOOSE i \in 1..Len(q) : q[i] = x

Ids == {translators[i].id : i \in 1..Len(translators)}
Unused == Messages \ (Entries(stream) \cup Entries(commands))

\* Remove_Message: those on either side of x are linked.
Unlinked(q, x) == RemoveAt(q, Place(q, x))

Init ==
  /\ stream = << >> /\ commands = << >>
  /\ translators = << >> /\ nextId = 1
  /\ phase = "idle" /\ tdata = 0 /\ msg = None /\ msgNext = None
  /\ offered = [m \in Messages |-> << >>]
  /\ started = [messages |-> {}, translators |-> {}]

-----------------------------------------------------------------------------
(* What the program, or a translator in the middle of a call, may do.      *)

MayCall == phase \in {"idle", "translating"}

Fresh(m) == m \in Unused /\ offered' = [offered EXCEPT ![m] = << >>]

AppendMessage(m) ==
  /\ MayCall /\ Fresh(m)
  /\ stream' = Append(stream, m)
  /\ UNCHANGED <<commands, translators, nextId, loopVars, started>>

\* Insert_Message links the new message behind the one provided.
InsertMessage(m, at) ==
  /\ MayCall /\ Fresh(m)
  /\ stream' = InsertAt(stream, Place(stream, at) + 1, m)
  /\ UNCHANGED <<commands, translators, nextId, loopVars, started>>

\* The new translator goes before the first one with a greater priority.
GreaterOrEqual(p) ==          \* mutant: before those with the same priority, too
  {i \in 1..Len(translators) : translators[i].priority >= p}
Greater(p) == {i \in 1..Len(translators) : translators[i].priority > p}

AttachTranslator(p) ==
  LET data == [id |-> nextId, priority |-> p] IN
  /\ MayCall /\ nextId <= MaxTranslators
  /\ translators' =
       IF Greater(p) = {} THEN Append(translators, data)
       ELSE InsertAt(translators,
                     CHOOSE i \in Greater(p) : \A j \in Greater(p) : i <= j, data)
  /\ nextId' = nextId + 1
  /\ UNCHANGED <<listVars, loopVars, offered, started>>

\* A precondition on the callers that is not in the code: no translator removes
\* itself while it is called.  Remove_Translator deletes its entry, and the outer
\* loop would read m_next of what is deleted.
RemoveTranslator(id) ==
  /\ MayCall /\ id \in Ids
  /\ phase = "translating" => id # tdata
  /\ \E i \in 1..Len(translators) :
       translators[i].id = id /\ translators' = RemoveAt(translators, i)
  /\ started' = [started EXCEPT !.translators = @ \ {id}]
  /\ UNCHANGED <<listVars, nextId, loopVars, offered>>

-----------------------------------------------------------------------------
(* Propagate_Messages.                                                     *)

First(q) == IF q = << >> THEN None ELSE Head(q)
Next(q, x) == IF x = q[Len(q)] THEN None ELSE q[Place(q, x) + 1]

\* tdata's successor; the loops end with tdata = 0.
FollowingId(id) ==
  LET i == CHOOSE i \in 1..Len(translators) : translators[i].id = id
  IN  IF i = Len(translators) THEN 0 ELSE translators[i + 1].id

BeginPropagate ==
  /\ phase = "idle"
  /\ phase' = "next"
  /\ tdata' = IF translators = << >> THEN 0 ELSE translators[1].id
  /\ msg' = First(stream)
  /\ started' = [messages |-> Entries(stream), translators |-> Ids]
  /\ UNCHANGED <<listVars, translators, nextId, msgNext, offered>>

\* Translate_Game_Message is called; the next message is already chosen.
SuccessorNone(m) == None             \* mutant: the loop ends with the first
Successor(m) == Next(stream, m)
OfferMessage ==
  /\ phase = "next" /\ tdata # 0 /\ msg # None
  /\ msgNext' = Successor(msg)
  /\ offered' = [offered EXCEPT ![msg] = Append(@, tdata)]
  /\ phase' = "translating"
  /\ UNCHANGED <<listVars, translators, nextId, tdata, msg, started>>

KeepMessage ==
  /\ phase = "translating"
  /\ msg' = msgNext /\ phase' = "next"
  /\ UNCHANGED <<listVars, translators, nextId, tdata, msgNext, offered, started>>

\* Delete_Instance of a message takes it out of the list it is in.
DestroyMessage ==
  /\ phase = "translating"
  /\ stream' = Unlinked(stream, msg)
  /\ msg' = msgNext /\ phase' = "next"
  /\ started' = [started EXCEPT !.messages = @ \ {msg}]
  /\ UNCHANGED <<commands, translators, nextId, tdata, msgNext, offered>>

NextTranslator ==
  /\ phase = "next" /\ tdata # 0 /\ msg = None
  /\ tdata' = FollowingId(tdata)
  /\ msg' = First(stream)
  /\ UNCHANGED <<listVars, translators, nextId, phase, msgNext, offered, started>>

\* Append_Message_List moves the messages one by one, as MessageLinks has it.
HandedOver == commands \o stream

EndPropagate ==
  /\ phase = "next" /\ tdata = 0
  /\ commands' = HandedOver
  /\ stream' = << >>
  /\ phase' = "idle" /\ msg' = None /\ msgNext' = None
  /\ UNCHANGED <<translators, nextId, tdata, offered, started>>

\* CommandList::Reset.
ResetCommands ==
  /\ phase = "idle" /\ commands # << >>
  /\ commands' = << >>
  /\ UNCHANGED <<stream, translators, nextId, loopVars, offered, started>>

Step ==
  \/ \E m \in Messages : AppendMessage(m)
  \/ \E m \in Messages : \E at \in Entries(stream) : InsertMessage(m, at)
  \/ \E p \in Priorities : AttachTranslator(p)
  \/ \E id \in Ids : RemoveTranslator(id)
  \/ BeginPropagate \/ OfferMessage \/ KeepMessage \/ DestroyMessage
  \/ NextTranslator \/ EndPropagate \/ ResetCommands

Spec == Init /\ [][Step]_vars

-----------------------------------------------------------------------------

\* Higher priority values come later, and translators of one priority in the
\* order they were attached.
Precedes(s, t) == s.priority < t.priority \/ (s.priority = t.priority /\ s.id < t.id)

TranslatorsSorted ==
  \A i, j \in 1..Len(translators) : i < j => Precedes(translators[i], translators[j])

\* The translators stand in that order, and no translator is offered a message
\* twice or before one that precedes it, whatever translators do to both lists
\* while they are called.
OfferedInOrder ==
  /\ TranslatorsSorted
  /\ \A m \in Messages : \A i, j \in 1..Len(offered[m]) :
       /\ i < j => offered[m][i] # offered[m][j]
       /\ (i < j /\ {offered[m][i], offered[m][j]} \subseteq Ids) =>
            \E s, t \in 1..Len(translators) :
              s < t /\ translators[s].id = offered[m][i] /\ translators[t].id = offered[m][j]

\* A message that was in the stream when Propagate_Messages began and that no
\* translator destroyed has been offered to every translator that was attached
\* throughout when it reaches the command list.
PassedOnWereOffered ==
  [][phase = "next" /\ phase' = "idle" =>
       /\ started.messages \subseteq Entries(commands')
       /\ \A m \in started.messages : started.translators \subseteq Entries(offered[m])]_vars
=============================================================================
