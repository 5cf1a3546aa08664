------------------------------- MODULE Pacing -------------------------------
(***************************************************************************)
(* The sending half of a Conn once more, seen by its congestion            *)
(* controller: budgets are bytes, and a critical section of conn.mu is one *)
(* step (Sender has the loops iteration by iteration, for the sake of a    *)
(* socket that closes; this socket stays open).  With it come the parts    *)
(* that Sender leaves out: the controllers, the count of bytes in flight,  *)
(* the encoding of acknowledgements, and the acknowledgement groups of     *)
(* WriteWithACK.                                                           *)
(*                                                                         *)
(* A packet is the length of its datagram and the order index of its       *)
(* write.  The other end may acknowledge or miss any numbers that were     *)
(* sent, at any time and as often as it likes: this covers every loss,     *)
(* repetition and delay of datagrams and of answers.                       *)
(***************************************************************************)
EXTENDS Acknowledgement, Functions

CONSTANTS
  MTU, CwndMin, CwndMaxThreshold, CwndOffset, Syn, DefaultRtt, DefaultSnd,
  SndCap, IntervalSize, IdleCap,
  Kinds,              \* the controllers newConn may create
  Writes,             \* buffers: the lengths of the datagrams of each
  Elapsed,            \* times between two ticks
  RoundTrips,         \* smoothed round trips
  MaxNackQueueSize,
  ReusedIndices,      \* order indices another Conn may give a pooled packet
  RacedNumbers,       \* bound: datagrams whose packets are reused at once
  MaxWrites,          \* bound: writes of one behaviour
  MaxSeq              \* bound: datagrams of one behaviour

UDT == INSTANCE UDT
Window == INSTANCE SlidingWindow

ASSUME PacingAssumption ==
  /\ MTU \in Nat \ {0} /\ AckMTU \in 11..MTU
  /\ \A w \in Writes : w \in Seq(1..AckMTU)
  /\ \E w \in Writes : w # <<>>
  /\ CwndMaxThreshold \in Nat /\ CwndMin \in 1..CwndMaxThreshold
  /\ SndCap \in Nat /\ DefaultSnd \in 1..SndCap
  /\ IdleCap \in Nat /\ SndCap <= IdleCap
  /\ {CwndOffset, Syn, DefaultRtt, IntervalSize} \subseteq Nat
  /\ Elapsed \subseteq Nat /\ RoundTrips \subseteq Nat \ {0}
  /\ Kinds \subseteq {"UDT", "SlidingWindow"}
  /\ {MaxNackQueueSize, MaxWrites, MaxSeq} \subseteq Nat
  /\ MaxAcknowledgementPackets \in Nat

VARIABLES
  seq, orderIndex,
  ccPending,          \* packets waiting for the send budget
  unacknowledged,     \* retransmission: sequence number -> its packet
  inFlightBytes,      \* retransmission.inFlightBytes
  ccNackQueue, ccNackSet,
  sendBudget, resendBudget,
  ccTotalAckedBytes,
  cc,                 \* the controller
  acknowledgements,   \* order index -> its fragments that are not acknowledged
  acks,               \* packets of an acknowledgement on their way
  flushed,            \* history: the numbers they were written for
  called              \* history: order indices the callback was called for

vars == <<seq, orderIndex, ccPending, unacknowledged, inFlightBytes, ccNackQueue,
          ccNackSet, sendBudget, resendBudget, ccTotalAckedBytes, cc,
          acknowledgements, acks, flushed, called>>

groupVars == <<acknowledgements, called>>
ackVars == <<acks, flushed>>

MaxLength == CHOOSE n \in 1..AckMTU :
               /\ \E w \in Writes : \E k \in DOMAIN w : w[k] = n
               /\ \A w \in Writes : \A k \in DOMAIN w : w[k] <= n

\* conn.effectiveMTU() is AckMTU; the controllers work with the MTU.
TransmissionBandwidth(c, elapsed, unacked, continuous) ==
  IF c.kind = "UDT"
  THEN UDT!GetTransmissionBandwidth(c, elapsed, unacked, continuous)
  ELSE Window!GetTransmissionBandwidth(c, unacked)

RetransmissionBandwidth(c, elapsed, unacked, continuous) ==
  IF c.kind = "UDT"
  THEN UDT!GetRetransmissionBandwidth(c, elapsed, unacked, continuous)
  ELSE Window!GetRetransmissionBandwidth(unacked)

AfterBandwidth(c, continuous) ==
  IF c.kind = "UDT" THEN c ELSE Window!Remember(c, continuous)

AfterAck(c, rtt, continuous, total, s) ==
  IF c.kind = "UDT" THEN UDT!OnAck(c, rtt, continuous, total, s)
                    ELSE Window!OnAck(c, continuous, s)

AfterNAK(c) == IF c.kind = "UDT" THEN UDT!OnLoss(c) ELSE Window!OnNAK(c)

AfterResend(c) == IF c.kind = "UDT" THEN UDT!OnLoss(c) ELSE Window!OnResend(c)

\* The controller after n datagrams were sent.
AfterSending(c, n) ==
  LET after[k \in 0..n] ==
        IF k = 0 THEN c
        ELSE IF c.kind = "UDT" THEN UDT!OnDatagramSent(after[k - 1])
                               ELSE Window!OnDatagramSent(after[k - 1])
  IN  after[n]

New(kind) == IF kind = "UDT" THEN UDT!NewUDT ELSE Window!NewSlidingWindow

Init ==
  /\ seq = 0 /\ orderIndex = 0
  /\ ccPending = <<>>
  /\ unacknowledged = <<>> /\ inFlightBytes = 0
  /\ ccNackQueue = <<>> /\ ccNackSet = {}
  /\ \E kind \in Kinds : cc = New(kind)
  /\ sendBudget = TransmissionBandwidth(cc, 0, 0, FALSE)
  /\ resendBudget = RetransmissionBandwidth(cc, 0, 0, FALSE)
  /\ ccTotalAckedBytes = 0
  /\ acknowledgements = <<>>
  /\ acks = <<>> /\ flushed = {}
  /\ called = <<>>
-----------------------------------------------------------------------------
\* The totals of the first k lengths, and of all of them.
Totals(lengths) ==
  LET sum[k \in 0..Len(lengths)] == IF k = 0 THEN 0 ELSE sum[k - 1] + lengths[k]
  IN  sum

Total(lengths) == Totals(lengths)[Len(lengths)]

\* The number of iterations of a loop "while budget > 0" that spends the
\* lengths one after the other.
Affordable(budget, lengths) ==
  LET spent == Totals(lengths)
  IN  CHOOSE k \in 0..Len(lengths) :
        /\ k = Len(lengths) \/ spent[k] >= budget
        /\ \A j \in 0..(k - 1) : spent[j] < budget

Lengths(packets) == [k \in DOMAIN packets |-> packets[k].length]

Spend(budget, packets) ==
  LET rest == budget - Total(Lengths(packets)) IN IF rest > 0 THEN rest ELSE 0

\* resendMap.add for packets that are sent one after the other from number s.
Record(records, s, packets) ==
  [t \in DOMAIN records \cup s..(s + Len(packets) - 1) |->
     IF t >= s THEN packets[t - s + 1] ELSE records[t]]

\* resendMap.remove
Drop(records, numbers) == [s \in DOMAIN records \ numbers |-> records[s]]

\* Mutant of Removed: a record that is resent is not taken off the count.
RemovedNothing(bytes, packets) == bytes

\* resendMap.remove on the bytes in flight.
Removed(bytes, packets) == bytes - Total(Lengths(packets))

\* The packets at the head of a queue that its budget pays for, and the rest.
Paid(budget, packets) == SubSeq(packets, 1, Affordable(budget, Lengths(packets)))
Unpaid(budget, packets) ==
  SubSeq(packets, Affordable(budget, Lengths(packets)) + 1, Len(packets))

\* sendDatagram for each of the packets, on what is left of the records.
Transmit(c, packets, records, bytes) ==
  /\ seq + Len(packets) <= MaxSeq
  /\ seq' = seq + Len(packets)
  /\ unacknowledged' = Record(records, seq, packets)
  /\ inFlightBytes' = bytes + Total(Lengths(packets))
  /\ cc' = AfterSending(c, Len(packets))
-----------------------------------------------------------------------------
\* writeWithACK, after OnACK has set a callback: the write takes an order
\* index and a group, and passes every fragment to queueOrSend.  Write is the
\* same without the group.
Write(lengths) ==
  LET packets == [k \in DOMAIN lengths |-> [length |-> lengths[k],
                                            orderIndex |-> orderIndex]]
      sent == Paid(sendBudget, packets)
  IN  /\ orderIndex < MaxWrites
      /\ orderIndex' = orderIndex + 1
      /\ acknowledgements' =
           [o \in DOMAIN acknowledgements \cup {orderIndex} |->
              IF o = orderIndex THEN Len(lengths) ELSE acknowledgements[o]]
      /\ Transmit(cc, sent, unacknowledged, inFlightBytes)
      /\ sendBudget' = Spend(sendBudget, sent)
      /\ ccPending' = ccPending \o Unpaid(sendBudget, packets)
      /\ UNCHANGED <<ccNackQueue, ccNackSet, resendBudget, ccTotalAckedBytes,
                     called, ackVars>>

\* An unreliable packet, the ping of every 50th tick: a number, no record.
Ping ==
  /\ seq < MaxSeq
  /\ seq' = seq + 1
  /\ cc' = AfterSending(cc, 1)
  /\ UNCHANGED <<orderIndex, ccPending, unacknowledged, inFlightBytes, ccNackQueue,
                 ccNackSet, sendBudget, resendBudget, ccTotalAckedBytes,
                 groupVars, ackVars>>

IsQueued(s) == s \in ccNackSet /\ s \in DOMAIN unacknowledged

\* tick: the budgets are renewed, then the two queues flushed.
Tick(elapsed) ==
  LET continuous == ccPending # <<>>
      budget == TransmissionBandwidth(cc, elapsed, inFlightBytes, continuous)
      again == RetransmissionBandwidth(cc, elapsed, inFlightBytes, continuous)
      sent == Paid(budget, ccPending)
      costs == [i \in DOMAIN ccNackQueue |->
                  IF IsQueued(ccNackQueue[i])
                  THEN unacknowledged[ccNackQueue[i]].length ELSE 0]
      n == Affordable(again, costs)
      popped == SubSeq(ccNackQueue, 1, n)
      queued == Ascending({i \in DOMAIN popped : IsQueued(popped[i])})
      numbers == [i \in DOMAIN queued |-> popped[queued[i]]]
      resent == [i \in DOMAIN numbers |-> unacknowledged[numbers[i]]]
  IN  /\ Transmit(AfterBandwidth(cc, continuous), sent \o resent,
                  Drop(unacknowledged, Range(numbers)),
                  Removed(inFlightBytes, resent))
      /\ sendBudget' = Spend(budget, sent)
      /\ resendBudget' = Spend(again, resent)
      /\ ccPending' = Unpaid(budget, ccPending)
      /\ ccNackQueue' = SubSeq(ccNackQueue, n + 1, Len(ccNackQueue))
      /\ ccNackSet' = ccNackSet \ Range(popped)
      /\ UNCHANGED <<orderIndex, ccTotalAckedBytes, groupVars, ackVars>>

\* Mutant of Enqueue: the queue takes everything.
EnqueueWithoutRoom(numbers) ==
  /\ ccNackQueue' = ccNackQueue \o Ascending(numbers \ ccNackSet)
  /\ ccNackSet' = ccNackSet \cup numbers

\* enqueueResendsLocked, in the order of a map or of a NACK: as many of the
\* numbers that are not queued yet as there is room for.
Enqueue(numbers) ==
  LET new == numbers \ ccNackSet
      room == MaxNackQueueSize - Len(ccNackQueue)
      n == IF room < Cardinality(new) THEN room ELSE Cardinality(new)
  IN  \E taken \in [1..n -> new] :
        /\ IsInjective(taken)
        /\ ccNackQueue' = ccNackQueue \o taken
        /\ ccNackSet' = ccNackSet \cup Range(taken)

\* checkResend, on the records that are older than the RTO.
CheckResend(old) ==
  /\ old # {} /\ old \subseteq DOMAIN unacknowledged
  /\ cc' = AfterResend(cc)
  /\ Enqueue(old)
  /\ UNCHANGED <<seq, orderIndex, ccPending, unacknowledged, inFlightBytes,
                 sendBudget, resendBudget, ccTotalAckedBytes, groupVars, ackVars>>

\* handleNACK with budget left.
HandleNACK(missing) ==
  /\ missing # {} /\ missing \subseteq DOMAIN unacknowledged
  /\ cc' = AfterNAK(cc)
  /\ Enqueue(missing)
  /\ UNCHANGED <<seq, orderIndex, ccPending, unacknowledged, inFlightBytes,
                 sendBudget, resendBudget, ccTotalAckedBytes, groupVars, ackVars>>
-----------------------------------------------------------------------------
\* flushACKs and sendAcknowledgement of the other end.
SendACK(numbers) ==
  /\ acks = <<>>
  /\ acks' = SendAcknowledgement(numbers)
  /\ flushed' = numbers
  /\ UNCHANGED <<seq, orderIndex, ccPending, unacknowledged, inFlightBytes,
                 ccNackQueue, ccNackSet, sendBudget, resendBudget,
                 ccTotalAckedBytes, cc, groupVars>>

LoseACK ==
  /\ acks # <<>>
  /\ acks' = Tail(acks)
  /\ flushed' = flushed \ ReadPacket(Head(acks))
  /\ UNCHANGED <<seq, orderIndex, ccPending, unacknowledged, inFlightBytes,
                 ccNackQueue, ccNackSet, sendBudget, resendBudget,
                 ccTotalAckedBytes, cc, groupVars>>

\* The packet is back in the pool, its order index cleared, when handleACK
\* looks for its group and when it deletes it: it reads 0, or what another
\* Conn that took the packet out again has written there (a data race).
GroupsSeen == ({0} \cup ReusedIndices) \X ({0} \cup ReusedIndices)

UintMax == 2147483647       \* stands for 2^32 - 1

\* remaining, a uint32, less one.
Less(n) == IF n = 0 THEN UintMax ELSE n - 1

\* Mutant of CountDown: the group starts over.
CountDownAgain(g, o) ==
  IF o[1] \notin DOMAIN g.left THEN g
  ELSE IF g.left[o[1]] # 1 THEN [g EXCEPT !.left[o[1]] = Less(@)]
  ELSE [g EXCEPT !.called = Append(@, o[1])]

\* handleACK, the group of one packet, which is found under o[1] and deleted
\* under o[2]: the callback runs with the last one.
CountDown(g, o) ==
  IF o[1] \notin DOMAIN g.left THEN g
  ELSE IF g.left[o[1]] # 1 THEN [g EXCEPT !.left[o[1]] = Less(@)]
  ELSE [left |-> Drop([g.left EXCEPT ![o[1]] = 0], {o[2]}),
        called |-> Append(g.called, o[1])]

\* The groups after all packets of an acknowledgement.
CountedDown(order, seen, left, calls) ==
  LET after[k \in 0..Len(order)] ==
        IF k = 0 THEN [left |-> left, called |-> calls]
        ELSE CountDown(after[k - 1], seen[order[k]])
  IN  after[Len(order)]

\* handleACK: the records are dropped; if there was one, the controller is
\* told and the pending queue flushed.  Every datagram counts as a full one.
HandleACK(rtt) ==
  LET numbers == ReadPacket(Head(acks))
      known == numbers \cap DOMAIN unacknowledged
      last == CHOOSE s \in numbers : \A t \in numbers : t <= s
      total == ccTotalAckedBytes + Cardinality(known) * AckMTU
      order == Ascending(known)
      gone == [k \in DOMAIN order |-> unacknowledged[order[k]]]
      sent == Paid(sendBudget, ccPending)
  IN  /\ acks # <<>> /\ IsReadable(Head(acks))
      /\ acks' = Tail(acks) /\ flushed' = flushed \ numbers
      /\ ccNackSet' = ccNackSet \ numbers
      /\ ccTotalAckedBytes' = total
      /\ \/ known = {} /\ UNCHANGED <<seq, unacknowledged, inFlightBytes,
                                      sendBudget, cc, ccPending>>
         \/ /\ known # {}
            /\ Transmit(AfterAck(cc, rtt, ccPending # <<>>, total, last), sent,
                        Drop(unacknowledged, known),
                        Removed(inFlightBytes, gone))
            /\ sendBudget' = Spend(sendBudget, sent)
            /\ ccPending' = Unpaid(sendBudget, ccPending)
      /\ \E seen \in [known -> GroupsSeen] :
           LET after == CountedDown(order, seen, acknowledgements, called)
           IN  /\ \A s \in known \ RacedNumbers : seen[s] = <<0, 0>>
               /\ acknowledgements' = after.left
               /\ called' = after.called
      /\ UNCHANGED <<orderIndex, ccNackQueue, resendBudget>>

\* An acknowledgement is handled before anything else happens: what happened
\* in between might as well have happened before it was written.
Next ==
  \/ /\ acks = <<>>
     /\ \/ \E lengths \in Writes : Write(lengths)
        \/ Ping
        \/ \E elapsed \in Elapsed : Tick(elapsed)
        \/ \E old \in SUBSET DOMAIN unacknowledged : CheckResend(old)
        \/ \E missing \in SUBSET DOMAIN unacknowledged : HandleNACK(missing)
        \/ \E numbers \in SUBSET (0..(seq - 1)) \ {{}} : SendACK(numbers)
  \/ LoseACK
  \/ \E rtt \in RoundTrips : HandleACK(rtt)

Spec == Init /\ [][Next]_vars
-----------------------------------------------------------------------------
TypeOK ==
  /\ seq \in 0..MaxSeq /\ orderIndex \in 0..MaxWrites
  /\ sendBudget \in Nat /\ resendBudget \in Nat /\ inFlightBytes \in Nat
  /\ cc \in UDT!Controllers(RoundTrips) \cup Window!Controllers
  /\ DOMAIN unacknowledged \subseteq 0..(seq - 1)
  /\ ccNackSet \subseteq Range(ccNackQueue)
  /\ Len(ccNackQueue) <= MaxNackQueueSize

\* The lengths of the first n datagrams, 0 for those without a record.
Flight(records, n) ==
  [k \in 1..n |-> IF k - 1 \in DOMAIN records THEN records[k - 1].length ELSE 0]

\* The counter of bytes in flight, which add and remove of resendMap keep up
\* to date separately from the map, never drifts from the records.
InFlightExact == inFlightBytes = Total(Flight(unacknowledged, seq))

\* In slow start the window holds: whatever is resent, lost or acknowledged
\* twice and whenever the application writes, no more than the window and the
\* rest of one datagram is in flight (GetTransmissionBandwidth, queueOrSend).
SlowStartWindowKept ==
  cc.kind = "UDT" /\ cc.isInSlowStart => inFlightBytes < cc.window + MaxLength

\* No history of losses and acknowledgements leaves a connection without a
\* budget: when nothing is in flight, the next tick after SndCap sends a
\* packet that waits, and a packet that waits to be resent is resent
\* (capMinSnd, the minimal windows; Transfer's fairness of ticks rests on it).
NeverStarved ==
  /\ unacknowledged = <<>> =>
       TransmissionBandwidth(cc, SndCap, inFlightBytes, TRUE) > 0
  /\ unacknowledged # <<>> =>
       RetransmissionBandwidth(cc, SndCap, inFlightBytes, TRUE) > 0

\* The controller's count of datagrams, by which it tells one congestion
\* block from the next, is the connection's own, pings included.
BlocksFollowSeq ==
  /\ cc.nextDatagramSequenceNumber = seq
  /\ cc.nextCongestionControlBlock <= seq

\* An acknowledgement arrives as it was written: its packets can be read, no
\* number is in two of them, and together they have the numbers that were
\* flushed (acknowledgement.write, read, sendAcknowledgement).
AcknowledgementIntact ==
  /\ flushed = UNION {ReadPacket(acks[k]) : k \in DOMAIN acks}
  /\ \A j, k \in DOMAIN acks :
       j # k => ReadPacket(acks[j]) \cap ReadPacket(acks[k]) = {}
  /\ Cardinality(flushed) <= MaxAcknowledgementPackets =>
       \A k \in DOMAIN acks : IsReadable(acks[k])

\* The callback of OnACK is called at most once for a write, however often
\* its packets are resent and acknowledged.
CalledOnce == \A j, k \in DOMAIN called : called[j] = called[k] => j = k

\* What writeWithACK registers a group for: the callback has run for a write
\* exactly when no packet of it waits or is unacknowledged any more.  The
\* order index that handleACK looks the group up with makes it fail.
AckGroupComplete ==
  \A o \in 0..(orderIndex - 1) :
    o \in Range(called) <=>
      /\ \A k \in DOMAIN ccPending : ccPending[k].orderIndex # o
      /\ \A s \in DOMAIN unacknowledged : unacknowledged[s].orderIndex # o
============================================================================
