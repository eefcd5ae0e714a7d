------------------------------ MODULE Transport ------------------------------
(***************************************************************************)
(* Transport (game/network/transport.cpp) over UDP (udp.cpp): packets are  *)
(* queued in m_outBuffer and go out in the next update; an update first    *)
(* reads what has arrived into m_inBuffer.  Peers exchange packets over a  *)
(* network that loses, duplicates, reorders and damages them, where        *)
(* strangers send too, and whose sockets refuse to send at times.          *)
(*                                                                         *)
(* Queue_Send and Update are called by one thread of a peer.  Update is    *)
(* taken apart where other peers and the network come between: one step    *)
(* per datagram read, one for Do_Send.  It is called with a socket only    *)
(* (Do_Recv uses m_udpsock without a test).  The check sum and the         *)
(* obfuscation tell a packet of a peer from anything else and are          *)
(* otherwise left out, as are the byte counts beside the packet counts.    *)
(***************************************************************************)
EXTENDS Integers, Bags, SequencesExt

CONSTANTS
  Peers,
  Bodies,       \* contents of packets
  BufferCount,  \* BUFFER_COUNT
  StatsCount,   \* STATS_COUNT
  MaxFaults,    \* bound of the model on what the network and the sockets do wrong
  MaxPeriods,   \* bound on the statistics slots opened
  MaxQueued,    \* bound on the packets queued
  MaxWire,      \* bound on the datagrams under way: more are lost
  Empty,        \* a slot whose length is 0
  Noise         \* a datagram that Is_Thyme_Packet refuses

ASSUME TransportAssumption ==
  /\ BufferCount \in Nat \ {0, 1} /\ StatsCount \in Nat \ {0}
  /\ Empty \notin Bodies \cup {Noise} /\ Noise \notin Bodies

VARIABLES
  sock,      \* m_udpsock is not null
  out,       \* m_outBuffer: Empty or [to, body]
  in,        \* m_inBuffer: Empty or the body
  slot,      \* m_statisticsSlot
  outgoing,  \* m_outgoingPackets
  incoming,  \* m_incomingPackets
  unknown,   \* m_unknownPackets
  late,      \* more than a second has passed since m_lastSecond
  pc,        \* where the peer's thread is in Update
  wire,      \* the network: a bag of [to, body]
  faults, queued,   \* how often the bounded things have happened
  history    \* for the properties: what was counted in each period since Init

peerVars == <<sock, out, in, slot, outgoing, incoming, unknown, late, pc, history>>
transportVars == <<peerVars, wire, faults, queued>>

Slots == 0..(BufferCount - 1)
Periods == 0..(StatsCount - 1)
Datagrams == [to : Peers, body : Bodies \cup {Noise}]

NoneCounted == [sent |-> 0, accepted |-> 0, refused |-> 0]

\* m_inBuffer, m_outBuffer and the counts are what Init leaves; a peer whose
\* transport was never initialised does not queue.
TransportInit ==
  /\ sock = [p \in Peers |-> TRUE]
  /\ out = [p \in Peers |-> [i \in Slots |-> Empty]]
  /\ in = [p \in Peers |-> [i \in Slots |-> Empty]]
  /\ slot = [p \in Peers |-> 0]
  /\ outgoing = [p \in Peers |-> [i \in Periods |-> 0]]
  /\ incoming = outgoing /\ unknown = outgoing
  /\ late = [p \in Peers |-> FALSE]
  /\ pc = [p \in Peers |-> "idle"]
  /\ wire = EmptyBag /\ faults = 0 /\ queued = 0
  /\ history = [p \in Peers |-> <<NoneCounted>>]

\* LANAPI::Init and Set_Local_IP: Reset and then Init of the transport.  The socket
\* is made and bound anew, and all starts from nothing.
Restart(p) ==
  /\ pc[p] = "idle"
  /\ sock' = [sock EXCEPT ![p] = TRUE]
  /\ out' = [out EXCEPT ![p] = [i \in Slots |-> Empty]]
  /\ in' = [in EXCEPT ![p] = [i \in Slots |-> Empty]]
  /\ slot' = [slot EXCEPT ![p] = 0]
  /\ outgoing' = [outgoing EXCEPT ![p] = [i \in Periods |-> 0]]
  /\ incoming' = [incoming EXCEPT ![p] = [i \in Periods |-> 0]]
  /\ unknown' = [unknown EXCEPT ![p] = [i \in Periods |-> 0]]
  /\ late' = [late EXCEPT ![p] = FALSE]
  /\ history' = [history EXCEPT ![p] = <<NoneCounted>>]
  /\ UNCHANGED <<pc, wire, faults, queued>>

\* The socket library does not start, or the socket cannot be bound for a second:
\* there is no socket, and the buffers keep what they had.
RestartUnbound(p) ==
  /\ pc[p] = "idle" /\ faults < MaxFaults
  /\ sock' = [sock EXCEPT ![p] = FALSE]
  /\ faults' = faults + 1
  /\ UNCHANGED <<out, in, slot, outgoing, incoming, unknown, late, pc, wire, queued, history>>

Held(q) == {i \in Slots : q[i] # Empty}

\* The search of Queue_Send and Do_Recv: the slot after the first one whose
\* length is 0, or none when there is no such slot.
FoundSlotPreIncrement(q) ==      \* mutant: the place is moved on before the test
  {i \in 1..BufferCount : i \notin Held(q) /\ \A j \in 1..(i - 1) : j \in Held(q)}
FoundSlot(q) ==
  {i + 1 : i \in {i \in Slots : i \notin Held(q) /\ \A j \in 0..(i - 1) : j \in Held(q)}}

\* Queue_Send of a packet whose length is in range.
QueueSend(p, to, body) ==
  /\ pc[p] = "idle" /\ queued < MaxQueued
  /\ \E i \in FoundSlot(out[p]) : out' = [out EXCEPT ![p][i] = [to |-> to, body |-> body]]
  /\ queued' = queued + 1
  /\ UNCHANGED <<sock, in, slot, outgoing, incoming, unknown, late, pc, wire, faults, history>>

Update(p) ==
  /\ pc[p] = "idle" /\ sock[p]
  /\ pc' = [pc EXCEPT ![p] = "recv"]
  /\ UNCHANGED <<sock, out, in, slot, outgoing, incoming, unknown, late, wire, faults, queued, history>>

Counted(p, field, n) == [history EXCEPT ![p][Len(history[p])][field] = @ + n]

\* Do_Recv, one turn of its loop: Read returns the datagram d.  The place for a
\* packet is looked for in m_outBuffer.
ReadDatagram(p, d) ==
  /\ pc[p] = "recv"
  /\ BagIn(d, wire) /\ d.to = p
  /\ wire' = wire (-) SetToBag({d})
  /\ IF d.body = Noise
       THEN /\ unknown' = [unknown EXCEPT ![p][slot[p]] = @ + 1]
            /\ history' = Counted(p, "refused", 1)
            /\ UNCHANGED <<incoming, in>>
       ELSE /\ incoming' = [incoming EXCEPT ![p][slot[p]] = @ + 1]
            /\ history' = Counted(p, "accepted", 1)
            /\ \E i \in FoundSlot(out[p]) : in' = [in EXCEPT ![p][i] = d.body]
            /\ UNCHANGED unknown
  /\ UNCHANGED <<sock, out, slot, outgoing, late, pc, faults, queued>>

ReadNothingReturns(p) ==      \* mutant: Update returns after Do_Recv
  /\ pc[p] = "recv"
  /\ pc' = [pc EXCEPT ![p] = "idle"]
  /\ UNCHANGED <<sock, out, in, slot, outgoing, incoming, unknown, late, wire, faults, queued, history>>
\* Read has nothing more, or an error: Do_Send comes next either way.
ReadNothing(p) ==
  /\ pc[p] = "recv"
  /\ pc' = [pc EXCEPT ![p] = "send"]
  /\ UNCHANGED <<sock, out, in, slot, outgoing, incoming, unknown, late, wire, faults, queued, history>>

\* The count n of a period with the new slot opened, or just the one that is open.
OpenedDirty(counts, p, s, n) ==       \* mutant: the slot is not set to 0
  [counts EXCEPT ![p][s] = @ + n]
Opened(counts, p, s, n) == [counts EXCEPT ![p][s] = IF late[p] THEN n ELSE @ + n]

\* The slots after Write has sent those of gone.
EmptiedAll(p, gone) ==      \* mutant: a packet that was not sent is dropped
  [out EXCEPT ![p] = [i \in Slots |-> Empty]]
Emptied(p, gone) == [out EXCEPT ![p] = [i \in Slots |-> IF i \in gone THEN Empty ELSE @[i]]]

\* Do_Send: every packet is written, and those that Write takes leave their
\* slots; the others wait for the next update.
DoSend(p, gone) ==
  /\ pc[p] = "send"
  /\ gone \subseteq Held(out[p])
  /\ gone # Held(out[p]) => faults < MaxFaults
  /\ faults' = IF gone = Held(out[p]) THEN faults ELSE faults + 1
  /\ LET s == IF late[p] THEN (slot[p] + 1) % StatsCount ELSE slot[p]
         n == Cardinality(gone) IN
     /\ slot' = [slot EXCEPT ![p] = s]
     /\ outgoing' = Opened(outgoing, p, s, n)
     /\ incoming' = Opened(incoming, p, s, 0)
     /\ unknown' = Opened(unknown, p, s, 0)
     /\ history' = IF late[p]
                     THEN [history EXCEPT ![p] = Append(@, [NoneCounted EXCEPT !.sent = n])]
                     ELSE Counted(p, "sent", n)
  /\ late' = [late EXCEPT ![p] = FALSE]
  /\ out' = Emptied(p, gone)
  /\ wire' = FoldSet(LAMBDA i, w : IF BagCardinality(w) < MaxWire THEN w (+) SetToBag({out[p][i]}) ELSE w,
                     wire, gone)
  /\ pc' = [pc EXCEPT ![p] = "idle"]
  /\ UNCHANGED <<sock, in, queued>>

SecondPasses(p) ==
  /\ ~late[p] /\ Len(history[p]) < MaxPeriods
  /\ late' = [late EXCEPT ![p] = TRUE]
  /\ UNCHANGED <<sock, out, in, slot, outgoing, incoming, unknown, pc, wire, faults, queued, history>>

\* The network: a datagram is lost, arrives twice, is damaged, or comes from
\* somebody else.
Lose(d) == wire' = wire (-) SetToBag({d})
Duplicate(d) == wire' = wire (+) SetToBag({d})
Damage(d) == wire' = (wire (-) SetToBag({d})) (+) SetToBag({[d EXCEPT !.body = Noise]})
Intrude(p) == wire' = wire (+) SetToBag({[to |-> p, body |-> Noise]})

Fault ==
  /\ faults < MaxFaults
  /\ \/ \E d \in BagToSet(wire) : Lose(d) \/ Duplicate(d) \/ Damage(d)
     \/ \E p \in Peers : Intrude(p)
  /\ BagCardinality(wire') <= MaxWire
  /\ faults' = faults + 1
  /\ UNCHANGED <<peerVars, queued>>

TransportNext ==
  \/ \E p \in Peers :
       \/ Restart(p) \/ RestartUnbound(p) \/ Update(p) \/ ReadNothing(p)
       \/ SecondPasses(p)
       \/ \E to \in Peers \ {p}, m \in Bodies : QueueSend(p, to, m)
       \/ \E d \in BagToSet(wire) : ReadDatagram(p, d)
       \/ \E gone \in SUBSET Held(out[p]) : DoSend(p, gone)
  \/ Fault

\* A peer that has a socket updates again and again; its reads come to an end, as
\* the network does not bring datagrams faster than they are read; its sends succeed in
\* the end (MaxFaults bounds the refusals).
Fairness ==
  \A p \in Peers :
    /\ WF_transportVars(Update(p)) /\ WF_transportVars(ReadNothing(p))
    /\ WF_transportVars(\E gone \in SUBSET Held(out[p]) : DoSend(p, gone))

TransportSpec == TransportInit /\ [][TransportNext]_transportVars /\ Fairness

-----------------------------------------------------------------------------

\* The search for a slot tests one and takes the next, in a buffer that is not the
\* one it fills in Do_Recv; all the same it ends inside the array every time, because slot 0 is
\* never filled.  For the same reason nothing is ever put in a slot but 1: the
\* other 126 are not used, and a packet queued before the last one was sent
\* replaces it.
SearchStaysInside ==
  \A p \in Peers :
    /\ FoundSlot(out[p]) # {} /\ FoundSlot(out[p]) \subseteq Slots
    /\ Held(out[p]) \cup Held(in[p]) \subseteq {1}

\* The slots of the statistics are the last StatsCount periods: each holds
\* what was sent, accepted and refused in its period and nothing of the period
\* that had the slot before, and slots never opened hold nothing.
StatisticsWindow ==
  \A p \in Peers : \A age \in Periods :
    LET s == (slot[p] - age) % StatsCount
        of == IF age < Len(history[p]) THEN history[p][Len(history[p]) - age] ELSE NoneCounted IN
    /\ outgoing[p][s] = of.sent
    /\ incoming[p][s] = of.accepted
    /\ unknown[p][s] = of.refused

\* What a step of p counts as sent: in the period that is open after it, beyond what
\* that period had when it was open before.
CountedSent(p) ==
  LET before == Len(history[p])
      after == Len(history'[p]) IN
  history'[p][after].sent - IF after = before THEN history[p][before].sent ELSE 0

\* In an update as many packets leave their slots as are counted sent, neither
\* fewer (they would go out again in the next update) nor more (one that the socket
\* refused would be lost).
KeptUntilSent ==
  [][\A p \in Peers :
       pc[p] = "send" /\ pc'[p] = "idle" =>
         Cardinality(Held(out[p]) \ Held(out'[p])) = CountedSent(p)]_transportVars

\* While a peer keeps its socket, what it has queued is sent in the end, however
\* often the socket refuses it at first and whatever arrives meanwhile.
EventuallySent ==
  \A p \in Peers : sock[p] /\ Held(out[p]) # {} ~> Held(out[p]) = {} \/ ~sock[p]
=============================================================================
