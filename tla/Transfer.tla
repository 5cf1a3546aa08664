------------------------------ MODULE Transfer ------------------------------
(***************************************************************************)
(* One direction of a connection: the Sender of one Conn, the Receiver of  *)
(* the Conn at the other end, and UDP between them.  The network keeps     *)
(* every message until it is lost: a message may arrive late, in any       *)
(* order, more than once or, if it is lost or never taken, not at all.  A  *)
(* datagram that finds the channel of 256 datagrams of the listener full   *)
(* (queueIncomingDatagram) is one that never arrives.                      *)
(***************************************************************************)
EXTENDS Sender, Receiver

CONSTANTS
  MaxLosses,          \* bound: messages lost in one behaviour
  SpuriousTimeouts    \* FALSE: the RTO is longer than every round trip

ASSUME TransferAssumption ==
  MaxLosses \in Nat /\ SpuriousTimeouts \in BOOLEAN

VARIABLE losses       \* bounded number of losses so far

vars == <<senderVars, receiverVars, losses>>

Init == SenderInit /\ ReceiverInit /\ losses = 0

\* The records that were sent in vain: neither the datagram nor an ACK of it
\* is on its way.
Overdue ==
  {s \in DOMAIN unacknowledged :
     /\ Seen(win, s) \/ \A d \in datagrams : d.seq # s
     /\ s \notin ackSlice
     /\ \A r \in replies : r.type = "ACK" => s \notin r.packets}

MayTimeOut == IF SpuriousTimeouts THEN DOMAIN unacknowledged ELSE Overdue

SenderStep ==
  \/ \E r \in WriteKinds, length \in Lengths : BeginWrite(r, length)
  \/ WriteUnreliable
  \/ WriteReliable
  \/ EndWrite
  \/ \E sb, rb \in 0..MaxBudget : TickLock(sb, rb)
  \/ FlushSend
  \/ FlushSendDone
  \/ SkipResend
  \/ \E next \in {"idle", "checkResend"} : Resend(next)
  \/ \E next \in {"idle", "checkResend"} : FlushResendDone(next)
  \/ \E old \in SUBSET MayTimeOut : CheckResend(old)
  \/ \E s \in toEnqueue : EnqueueResend(s)
  \/ EndEnqueue
  \/ CloseSocket

ReceiveReply ==
  \E r \in replies :
    \/ r.type = "ACK" /\ HandleACK(r.packets)
    \/ r.type = "NACK" /\ \E over \in BOOLEAN : HandleNACK(r.packets, over)

\* Only the highest index of those that are old matters to missing.
ReceiverStep ==
  \/ \E d \in datagrams :
       \/ DropDatagram(d)
       \/ ReceiveDatagram(d, {})
       \/ \E t \in win.queue \cup {d.seq} : ReceiveDatagram(d, {t})
  \/ FlushACKs

LoseDatagram ==
  /\ losses < MaxLosses
  /\ \E d \in datagrams : datagrams' = datagrams \ {d}
  /\ losses' = losses + 1
  /\ UNCHANGED <<indices, ccPending, unacknowledged, nackVars, budgets,
                 loopVars, socket, log, receiverVars>>

LoseReply ==
  /\ losses < MaxLosses
  /\ \E r \in replies : replies' = replies \ {r}
  /\ losses' = losses + 1
  /\ UNCHANGED <<win, ackSlice, packetQueue, receivedMessageIndices,
                 sequencedVars, splits, delivered, receiver, received,
                 senderVars>>

Next ==
  \/ SenderStep /\ UNCHANGED <<receiverVars, losses>>
  \/ ReceiveReply /\ UNCHANGED <<receiverVars, losses>>
  \/ ReceiverStep /\ UNCHANGED <<senderVars, losses>>
  \/ LoseDatagram
  \/ LoseReply

Spec == Init /\ [][Next]_vars
-----------------------------------------------------------------------------
(***************************************************************************)
(* Properties.                                                             *)
(***************************************************************************)
TypeOK == SenderTypeOK /\ ReceiverTypeOK /\ losses \in Nat

\* No index has outgrown its field on the wire.
NoWrap ==
  /\ seq <= IndexSpace
  /\ orderIndex <= IndexSpace
  /\ messageIndex <= IndexSpace
  /\ splitID <= SplitSpace

\* What the k-th ordered packet handed over must be: the whole content of the
\* write that got order index k - 1.
IsOrderedWrite(k, content) ==
  \E w \in DOMAIN log :
    /\ log[w].reliability = "ReliableOrdered"
    /\ log[w].orderIndex = k - 1
    /\ content = Content(w, log[w].count)

\* Whatever UDP loses, repeats or reorders and however the fragments of
\* different writes interleave, ordered packets are handed over whole, in the
\* order they were written, each once and with none left out
\* (packetQueue.fetch, receiveSplitPacket; packet.go, reliabilityReliableOrdered).
OrderedDelivery ==
  NoWrap =>
    \A k \in DOMAIN delivered["ReliableOrdered"] :
      IsOrderedWrite(k, delivered["ReliableOrdered"][k])

Held(m) ==
  \/ \E k \in DOMAIN ccPending : ccPending[k].messageIndex = m
  \/ \E s \in DOMAIN unacknowledged : unacknowledged[s].messageIndex = m

\* The sender lets go of a reliable packet (handleACK, returnPacket) only when
\* the other end has handled it: at every instant a message index that was
\* assigned is still queued, still tracked for retransmission, or handled.
NothingForgotten ==
  NoWrap => \A m \in 0..(messageIndex - 1) : Held(m) \/ m \in received

\* As long as the socket is open a packet is in one place of the sender:
\* ccPending and the retransmission map never share one, so that handleACK
\* and closeImmediately return it to the packet pool once.
SingleOwner ==
  socket = "open" =>
    /\ \A j, k \in DOMAIN ccPending :
         ccPending[j].messageIndex = ccPending[k].messageIndex => j = k
    /\ \A s, t \in DOMAIN unacknowledged :
         unacknowledged[s].messageIndex = unacknowledged[t].messageIndex
           => s = t
    /\ \A k \in DOMAIN ccPending, s \in DOMAIN unacknowledged :
         ccPending[k].messageIndex # unacknowledged[s].messageIndex

\* A packet is never left behind by the resend queue: ccNackQueue has no
\* duplicates and holds every member of ccNackSet, so that a number that
\* enqueueResendsLocked skips because it is in the set will be popped.
NackQueueConsistent ==
  /\ \A j, k \in DOMAIN ccNackQueue : ccNackQueue[j] = ccNackQueue[k] => j = k
  /\ \A s \in ccNackSet : \E k \in DOMAIN ccNackQueue : ccNackQueue[k] = s

\* New writes do not overtake queued ones: outside the loops packets wait in
\* ccPending only when there is no send budget (queueOrSend, flushSendQueueLocked).
NoOvertaking ==
  socket = "open" /\ mu \in {"free", "write"} /\ ccPending # <<>> => sendBudget = 0

\* An unsplit reliable packet is handed over at most once, whatever the
\* duplicates and resends (receivedMessageIndices).
ReliableOnce ==
  \A j, k \in DOMAIN delivered["Reliable"] :
    /\ delivered["Reliable"][j] = delivered["Reliable"][k]
    /\ Len(delivered["Reliable"][j]) = 1
    => j = k

\* Sequenced packets never go back: what is handed over was written after
\* everything of its kind that was handed over before, until an index wraps.
SequencedInOrder ==
  NoWrap =>
    \A r \in {"UnreliableSequenced", "ReliableSequenced"} :
      \A j, k \in DOMAIN delivered[r] :
        j < k => delivered[r][j][1].w < delivered[r][k][1].w

\* A datagram is acknowledged only after it was received: an ACK or a pending
\* acknowledgement never names a sequence number outside of the window.
AcksWereReceived ==
  /\ \A s \in ackSlice : Seen(win, s)
  /\ \A r \in replies : r.type = "ACK" => \A s \in r.packets : Seen(win, s)

\* The three limits of a listener's connection keep what they are put on
\* within bounds while it is open, whatever arrives in whatever order: the
\* window of datagrams and the queue of ordered packets span maxWindowSize
\* numbers at most, and the split packets that wait for fragments are at most
\* one more than maxConcurrentSplits, since the test comes before the entry is
\* added (receiveDatagram, receivePacket, receiveSplitPacket).  It is not a
\* bound on all that a peer makes the connection keep: the code puts no limit
\* on receivedMessageIndices.
LimitsRespected ==
  LimitsEnabled /\ receiver = "open" =>
    /\ WindowSize(win) <= MaxWindowSize
    /\ QueueWindowSize(packetQueue) <= MaxWindowSize
    /\ Cardinality(DOMAIN splits) <= MaxConcurrentSplits + 1

\* The window of datagrams and the queue of ordered packets only move
\* forward: a number given up or handed over is never asked for again.
WindowsAdvance ==
  [][/\ win.lowest <= win'.lowest
     /\ packetQueue.lowest <= packetQueue'.lowest
     /\ \A i \in 0..win.highest : Seen(win, i) => Seen(win, i)']_vars
-----------------------------------------------------------------------------
(***************************************************************************)
(* Fairness.  The holder of conn.mu runs on.  Goroutines that wait for     *)
(* conn.mu get it (a sync.Mutex serves its waiters in order when one has   *)
(* waited for 1ms), so lock acquisitions are strongly fair.  The           *)
(* controller gives the resends a positive budget in every tick, and new   *)
(* packets one when nothing is in flight (UDT.GetTransmissionBandwidth:    *)
(* at least one datagram of window minus the unacknowledged bytes in slow  *)
(* start, elapsed time times a positive rate after it).                    *)
(***************************************************************************)
SenderLoops ==
  \/ WriteUnreliable \/ WriteReliable \/ EndWrite
  \/ FlushSend \/ FlushSendDone \/ SkipResend
  \/ \E next \in {"idle", "checkResend"} :
       Resend(next) \/ FlushResendDone(next)
  \/ \E s \in toEnqueue : EnqueueResend(s)
  \/ EndEnqueue

FairTick ==
  \E sb \in 0..MaxBudget, rb \in 1..MaxBudget :
    /\ unacknowledged = <<>> => sb > 0
    /\ TickLock(sb, rb)

Fairness ==
  /\ WF_vars(SenderLoops /\ UNCHANGED <<receiverVars, losses>>)
  /\ SF_vars(FairTick /\ UNCHANGED <<receiverVars, losses>>)
  /\ SF_vars(/\ Resend("checkResend") \/ FlushResendDone("checkResend")
             /\ UNCHANGED <<receiverVars, losses>>)
  /\ SF_vars(CheckResend(MayTimeOut) /\ UNCHANGED <<receiverVars, losses>>)
  /\ SF_vars(/\ \E r \in replies : r.type = "ACK" /\ HandleACK(r.packets)
             /\ UNCHANGED <<receiverVars, losses>>)
  /\ \A s \in 0..(MaxSeq - 1) :
       WF_vars(/\ \E d \in datagrams : /\ d.seq = OnWire(s)
                                       /\ ReceiveDatagram(d, {})
               /\ UNCHANGED <<senderVars, losses>>)
  /\ WF_vars(FlushACKs /\ UNCHANGED <<senderVars, losses>>)

FairSpec == Spec /\ Fairness

\* As long as the socket is open and the receiver has not closed the
\* connection for its limits, every ordered write is handed over, although
\* datagrams and acknowledgements are lost (checkResend, flushACKs).
EventuallyDelivered ==
  \A w \in 1..MaxWrites :
    (w \in DOMAIN log /\ log[w].reliability = "ReliableOrdered") ~>
      \/ socket = "closed"
      \/ receiver = "closed"
      \/ \E k \in DOMAIN delivered["ReliableOrdered"] :
           delivered["ReliableOrdered"][k][1].w = w

\* Every packet is acknowledged in the end: the sender does not keep on
\* resending for ever.
EventuallyAcknowledged ==
  [](ccPending # <<>> \/ unacknowledged # <<>> =>
       <>(\/ socket = "closed" \/ receiver = "closed"
          \/ ccPending = <<>> /\ unacknowledged = <<>>))
-----------------------------------------------------------------------------
\* The ordered writes of the log, by their order index.
OrderedWrites ==
  [i \in {log[w].orderIndex :
            w \in {v \in DOMAIN log : log[v].reliability = "ReliableOrdered"}} |->
     LET w == CHOOSE v \in DOMAIN log :
                /\ log[v].reliability = "ReliableOrdered"
                /\ log[v].orderIndex = i
     IN  Content(w, log[w].count)]

Channel == INSTANCE Channel WITH
             Values <- Contents,
             written <- OrderedWrites,
             handed <- delivered["ReliableOrdered"]

\* Both halves of a connection and the network between them implement the
\* abstract channel while no index outgrows its field: every step of theirs is
\* one write, the hand-over of the contents that are due, or invisible
\* (conn.go, writeWithReliability and receivePacket; packet_queue.go).
ImplementsChannel == Channel!Spec
=============================================================================
