---------------------------- MODULE MessageLinks ----------------------------
(***************************************************************************)
(* MessageStream with the links of its two lists: m_next, m_prev and       *)
(* m_list of the GameMessage objects and the ends of the GameMessageLists. *)
(* Each operation on the sequences goes together with what the code        *)
(* assigns to the links, and the loops which relink or delete a whole list *)
(* take a step for each message.  While Append_Message_List runs both      *)
(* lists share links: a message is linked behind the commands while the    *)
(* stream still starts with the first of those that were moved, and m_next *)
(* of the last command leads on into the stream.                           *)
(***************************************************************************)
EXTENDS MessageStream, FiniteSets

Lists == {"stream", "commands"}

VARIABLES
  next, prev, list,  \* m_next, m_prev and m_list of a message
  first, last,       \* m_firstMessage and m_lastMessage of a list
  loop,              \* the loop that runs: none, Append_Message_List or Destroy_All_Messages
  current            \* its local variable `msg'

links == <<next, prev, list, first, last>>
linkedVars == <<vars, links, loop, current>>

\* A message that does not exist has the links its constructor will give it.
LinkedInit ==
  /\ Init
  /\ next = [m \in Messages |-> None] /\ prev = [m \in Messages |-> None]
  /\ list = [m \in Messages |-> None]
  /\ first = [l \in Lists |-> None] /\ last = [l \in Lists |-> None]
  /\ loop = "none" /\ current = None

-----------------------------------------------------------------------------
(* GameMessageList.                                                        *)

OwnerKept(l, m) ==            \* mutant: a message that has a list keeps it
  [list EXCEPT ![m] = IF @ = None THEN l ELSE @]
Owner(l, m) == [list EXCEPT ![m] = l]

\* Append_Message leaves m_next of the message as it is.
LinkLast(l, m) ==
  /\ next' = IF last[l] = None THEN next ELSE [next EXCEPT ![last[l]] = m]
  /\ prev' = [prev EXCEPT ![m] = last[l]]
  /\ first' = IF last[l] = None THEN [first EXCEPT ![l] = m] ELSE first
  /\ last' = [last EXCEPT ![l] = m]
  /\ list' = Owner(l, m)

LinkBehind(l, m, at) ==
  /\ next' = [next EXCEPT ![m] = next[at], ![at] = m]
  /\ prev' = [x \in Messages |->
                IF x = m THEN at ELSE IF x = next[at] THEN m ELSE prev[x]]
  /\ last' = IF next[at] = None THEN [last EXCEPT ![l] = m] ELSE last
  /\ list' = Owner(l, m)
  /\ UNCHANGED first

\* Delete_Instance: the message is removed from the list it takes for its own.
Unlink(m) ==
  LET l == list[m] IN
  /\ next' = [x \in Messages |->
                IF x = m THEN None ELSE IF x = prev[m] THEN next[m] ELSE next[x]]
  /\ prev' = [x \in Messages |->
                IF x = m THEN None ELSE IF x = next[m] THEN prev[m] ELSE prev[x]]
  /\ last'  = IF next[m] = None THEN [last EXCEPT ![l] = prev[m]] ELSE last
  /\ first' = IF prev[m] = None THEN [first EXCEPT ![l] = next[m]] ELSE first
  /\ list' = [list EXCEPT ![m] = None]

ForgetEnds(l) ==
  /\ first' = [first EXCEPT ![l] = None] /\ last' = [last EXCEPT ![l] = None]
  /\ UNCHANGED <<next, prev, list>>

-----------------------------------------------------------------------------
(* The steps of MessageStream.                                             *)

LinkedAppend(m)     == AppendMessage(m) /\ LinkLast("stream", m)
LinkedInsert(m, at) == InsertMessage(m, at) /\ LinkBehind("stream", m, at)
LinkedDestroy       == DestroyMessage /\ Unlink(msg)

NoLinks ==
  /\ \/ \E p \in Priorities : AttachTranslator(p)
     \/ \E id \in Ids : RemoveTranslator(id)
     \/ BeginPropagate \/ OfferMessage \/ KeepMessage \/ NextTranslator
  /\ UNCHANGED links

-----------------------------------------------------------------------------
(* The end of Propagate_Messages, and CommandList::Reset: a loop over the  *)
(* links, behind which the ends of the list are forgotten.                 *)

Begin(name, l) ==
  /\ loop = "none"
  /\ loop' = name /\ current' = first[l]
  /\ UNCHANGED <<vars, links>>

BeginMove  == phase = "next" /\ tdata = 0 /\ Begin("append", "stream")
BeginReset == phase = "idle" /\ commands # << >> /\ Begin("destroy", "commands")

\* Append_Message_List has read m_next before the message is relinked.
MoveMessage ==
  /\ loop = "append" /\ current # None
  /\ current' = next[current]
  /\ LinkLast("commands", current)
  /\ UNCHANGED <<vars, loop>>

EndMove ==
  /\ loop = "append" /\ current = None
  /\ EndPropagate /\ ForgetEnds("stream")
  /\ loop' = "none" /\ UNCHANGED current

\* Destroy_All_Messages.
DestroyCommand ==
  /\ loop = "destroy" /\ current # None
  /\ current' = next[current]
  /\ Unlink(current)
  /\ UNCHANGED <<vars, loop>>

EndReset ==
  /\ loop = "destroy" /\ current = None
  /\ ResetCommands /\ ForgetEnds("commands")
  /\ loop' = "none" /\ UNCHANGED current

\* All of it is done by one thread: while a loop runs nothing else does.
LinkedStep ==
  \/ /\ loop = "none"
     /\ \/ \E m \in Messages : LinkedAppend(m)
        \/ \E m \in Messages : \E at \in Entries(stream) : LinkedInsert(m, at)
        \/ LinkedDestroy
        \/ NoLinks
     /\ UNCHANGED <<loop, current>>
  \/ BeginMove \/ MoveMessage \/ EndMove
  \/ BeginReset \/ DestroyCommand \/ EndReset

LinkedSpec == LinkedInit /\ [][LinkedStep]_linkedVars

-----------------------------------------------------------------------------

\* The messages that the links lead to from m, and no more than there are.
Walk(link, m) ==
  LET at[i \in 1..Cardinality(Messages)] ==
        IF i = 1 THEN m ELSE IF at[i - 1] = None THEN None ELSE link[at[i - 1]]
  IN  SelectSeq([i \in 1..Cardinality(Messages) |-> at[i]], LAMBDA x : x # None)

Holds(l, q) ==
  /\ Walk(next, first[l]) = q
  /\ Walk(prev, last[l]) = Reverse(q)
  /\ {m \in Messages : list[m] = l} = Entries(q)

\* Whenever no loop over the links is under way they hold the two sequences: read
\* forwards or backwards each list has its messages in their order, and they know
\* it.  In particular Append_Message_List has then moved every message of the
\* stream behind the commands, and the stream's old links lead nowhere.
LinksHoldLists ==
  loop = "none" => Holds("stream", stream) /\ Holds("commands", commands)
=============================================================================
