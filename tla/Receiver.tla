------------------------------ MODULE Receiver ------------------------------
(***************************************************************************)
(* The receiver half of a Conn (conn.go): the window of datagrams, the    *)
(* reassembly of split packets, the rules of each reliability and the      *)
(* acknowledgements.                                                       *)
(*                                                                         *)
(* receiveDatagram runs in one goroutine per connection and shares only    *)
(* ackSlice with the tick goroutine, so one datagram is one step.  The     *)
(* channel Conn.packets is the history delivered of what was handed to the *)
(* handler, one sequence per reliability.                                  *)
(***************************************************************************)
EXTENDS Packet, DatagramWindow, PacketQueue, FiniteSets

CONSTANTS
  LimitsEnabled,         \* handler.limitsEnabled(): a listener's connection
  MaxWindowSize,         \* maxWindowSize, 2048 in the code
  MaxSplitCount,         \* maxSplitCount, 512 in the code
  MaxConcurrentSplits    \* maxConcurrentSplits, 16 in the code

ASSUME ReceiverAssumption ==
  /\ LimitsEnabled \in BOOLEAN
  /\ MaxWindowSize \in Nat
  /\ MaxSplitCount \in Nat
  /\ MaxConcurrentSplits \in Nat

VARIABLES
  win,                     \* datagrams received
  ackSlice,                \* datagrams to acknowledge at the next flush
  packetQueue,             \* ordered packets, by order index
  receivedMessageIndices,  \* reliable packets received
  highestUnreliableSeqIndex, highestReliableSeqIndex,
  splits,                  \* split ID -> fragments received so far
  delivered,               \* history: contents handed over, by reliability
  receiver,                \* "closed" once an error closed the connection
  received,                \* history: message indices of packets handled
  replies                  \* ACKs and NACKs in the network

sequencedVars == <<highestUnreliableSeqIndex, highestReliableSeqIndex>>
receiverVars == <<win, ackSlice, packetQueue, receivedMessageIndices,
                  sequencedVars, splits, delivered, receiver, received,
                  replies>>

Replies == [type : {"ACK", "NACK"}, packets : SUBSET Nat]

ReceiverTypeOK ==
  /\ win \in DatagramWindows
  /\ ackSlice \subseteq Nat
  /\ packetQueue.lowest \in Nat /\ packetQueue.highest \in Nat
  /\ DOMAIN packetQueue.queue \subseteq Nat
  /\ \A i \in DOMAIN packetQueue.queue : packetQueue.queue[i] \in Contents
  /\ receivedMessageIndices \in DatagramWindows
  /\ highestUnreliableSeqIndex \in Nat /\ highestReliableSeqIndex \in Nat
  /\ DOMAIN splits \subseteq Nat
  /\ splits \in [DOMAIN splits -> Contents]
  /\ delivered \in [Reliabilities -> Seq(Contents)]
  /\ receiver \in {"open", "closed"}
  /\ received \subseteq Nat
  /\ replies \subseteq Replies

ReceiverInit ==
  /\ win = NewDatagramWindow
  /\ ackSlice = {}
  /\ packetQueue = NewPacketQueue
  /\ receivedMessageIndices = NewDatagramWindow
  /\ highestUnreliableSeqIndex = 0 /\ highestReliableSeqIndex = 0
  /\ splits = <<>>
  /\ delivered = [r \in Reliabilities |-> <<>>]
  /\ receiver = "open"
  /\ received = {}
  /\ replies = {}
-----------------------------------------------------------------------------
\* handlePacket on contents that are not empty.
HandlePackets(r, contents) ==
  delivered' = [delivered EXCEPT ![r] = @ \o contents]

\* The end of handleDatagram, reached only when no packet gave an error.
Acknowledge(d) ==
  /\ ackSlice' = ackSlice \cup {d.seq}
  /\ received' = IF IsReliable(d.pk.reliability)
                 THEN received \cup {d.pk.messageIndex} ELSE received
  /\ UNCHANGED receiver

\* An error out of receive: closeImmediately.
Fail == receiver' = "closed" /\ UNCHANGED <<ackSlice, received>>

\* A sequenced packet is dropped if it is older than the newest one.
IsStale(index, highest) ==
  index # highest /\ ~IsNewerSequenceIndex(index, highest)

ReceiveUnreliable(d, content) ==
  /\ HandlePackets("Unreliable", <<content>>)
  /\ Acknowledge(d)
  /\ UNCHANGED <<packetQueue, receivedMessageIndices, sequencedVars>>

\* Mutant of ReceiveReliable: resent packets are not recognised.
ReceiveReliableAgain(d, content) ==
  /\ HandlePackets("Reliable", <<content>>)
  /\ Acknowledge(d)
  /\ UNCHANGED <<packetQueue, receivedMessageIndices, sequencedVars>>

ReceiveReliable(d, content) ==
  /\ IF Seen(receivedMessageIndices, d.pk.messageIndex)
     THEN UNCHANGED <<receivedMessageIndices, delivered>>
     ELSE /\ receivedMessageIndices' =
               Shift(Add(receivedMessageIndices, d.pk.messageIndex))
          /\ HandlePackets("Reliable", <<content>>)
  /\ Acknowledge(d)
  /\ UNCHANGED <<packetQueue, sequencedVars>>

ReceiveUnreliableSequenced(d, content) ==
  /\ IF IsStale(d.pk.sequenceIndex, highestUnreliableSeqIndex)
     THEN UNCHANGED <<highestUnreliableSeqIndex, delivered>>
     ELSE /\ highestUnreliableSeqIndex' = d.pk.sequenceIndex + 1
          /\ HandlePackets("UnreliableSequenced", <<content>>)
  /\ Acknowledge(d)
  /\ UNCHANGED <<packetQueue, receivedMessageIndices, highestReliableSeqIndex>>

ReceiveReliableSequenced(d, content) ==
  /\ IF Seen(receivedMessageIndices, d.pk.messageIndex)
     THEN UNCHANGED <<receivedMessageIndices, highestReliableSeqIndex,
                      delivered>>
     ELSE /\ receivedMessageIndices' =
               Shift(Add(receivedMessageIndices, d.pk.messageIndex))
          /\ IF IsStale(d.pk.sequenceIndex, highestReliableSeqIndex)
             THEN UNCHANGED <<highestReliableSeqIndex, delivered>>
             ELSE /\ highestReliableSeqIndex' = d.pk.sequenceIndex + 1
                  /\ HandlePackets("ReliableSequenced", <<content>>)
  /\ Acknowledge(d)
  /\ UNCHANGED <<packetQueue, highestUnreliableSeqIndex>>

\* Mutant of ReceiveReliableOrdered: a resent packet is not acknowledged.
IgnoreOrderedDuplicates(d, content) ==
  LET q == Put(packetQueue, d.pk.orderIndex, content)
  IN  /\ \/ /\ Occupied(packetQueue, d.pk.orderIndex)
            /\ UNCHANGED <<packetQueue, delivered, ackSlice, received, receiver>>
         \/ /\ ~Occupied(packetQueue, d.pk.orderIndex)
            /\ packetQueue' = AfterFetch(q)
            /\ HandlePackets("ReliableOrdered", Fetched(q))
            /\ Acknowledge(d)
      /\ UNCHANGED <<receivedMessageIndices, sequencedVars>>

\* Mutant of ReceiveReliableOrdered: the window of the queue is not limited.
ReceiveOrderedUnlimited(d, content) ==
  LET q == Put(packetQueue, d.pk.orderIndex, content)
  IN  /\ \/ /\ Occupied(packetQueue, d.pk.orderIndex)
            /\ UNCHANGED <<packetQueue, delivered>>
         \/ /\ ~Occupied(packetQueue, d.pk.orderIndex)
            /\ packetQueue' = AfterFetch(q)
            /\ HandlePackets("ReliableOrdered", Fetched(q))
      /\ Acknowledge(d)
      /\ UNCHANGED <<receivedMessageIndices, sequencedVars>>

\* The queue keeps the packet even if its window has become too big.
ReceiveReliableOrdered(d, content) ==
  LET q == Put(packetQueue, d.pk.orderIndex, content)
  IN  /\ \/ /\ Occupied(packetQueue, d.pk.orderIndex)
            /\ Acknowledge(d)
            /\ UNCHANGED <<packetQueue, delivered>>
         \/ /\ ~Occupied(packetQueue, d.pk.orderIndex)
            /\ IF LimitsEnabled /\ QueueWindowSize(q) > MaxWindowSize
               THEN /\ packetQueue' = q
                    /\ Fail
                    /\ UNCHANGED delivered
               ELSE /\ packetQueue' = AfterFetch(q)
                    /\ HandlePackets("ReliableOrdered", Fetched(q))
                    /\ Acknowledge(d)
      /\ UNCHANGED <<receivedMessageIndices, sequencedVars>>

ReceivePacket(d, content) ==
  \/ d.pk.reliability = "Unreliable" /\ ReceiveUnreliable(d, content)
  \/ d.pk.reliability = "Reliable" /\ ReceiveReliable(d, content)
  \/ /\ d.pk.reliability = "UnreliableSequenced"
     /\ ReceiveUnreliableSequenced(d, content)
  \/ /\ d.pk.reliability = "ReliableSequenced"
     /\ ReceiveReliableSequenced(d, content)
  \/ /\ d.pk.reliability = "ReliableOrdered"
     /\ ReceiveReliableOrdered(d, content)
-----------------------------------------------------------------------------
\* Mutant of TooManySplits: the number of split packets is not limited.
SplitTooLong(pk) == LimitsEnabled /\ pk.splitCount > MaxSplitCount

TooManySplits(pk) ==
  LimitsEnabled /\ \/ pk.splitCount > MaxSplitCount
                   \/ Cardinality(DOMAIN splits) > MaxConcurrentSplits

\* Mutant of Collected: fragments are put in the order of their arrival.
CollectedInArrivalOrder(pk) ==
  LET m == IF pk.splitID \in DOMAIN splits THEN splits[pk.splitID]
           ELSE [k \in 1..pk.splitCount |-> NoFragment]
      free == {k \in DOMAIN m : m[k] = NoFragment}
  IN  [m EXCEPT ![CHOOSE k \in free : \A j \in free : k <= j] = pk.fragment]

\* The fragments received so far, with the one of pk.
Collected(pk) ==
  LET m == IF pk.splitID \in DOMAIN splits THEN splits[pk.splitID]
           ELSE [k \in 1..pk.splitCount |-> NoFragment]
  IN  [m EXCEPT ![pk.splitIndex + 1] = pk.fragment]

OutOfRange(pk) ==
  pk.splitID \in DOMAIN splits /\ pk.splitIndex >= Len(splits[pk.splitID])

\* receiveSplitPacket.  The content of the last fragment to arrive becomes
\* the whole packet, with the indices of that fragment.
ReceiveSplitPacket(d) ==
  LET pk == d.pk
      m == Collected(pk)
      complete == \A k \in DOMAIN m : m[k] # NoFragment
  IN  \/ /\ TooManySplits(pk) \/ OutOfRange(pk)
         /\ Fail
         /\ UNCHANGED <<splits, packetQueue, receivedMessageIndices,
                        sequencedVars, delivered>>
      \/ /\ ~TooManySplits(pk) /\ ~OutOfRange(pk)
         /\ ~complete
         /\ splits' = [s \in DOMAIN splits \cup {pk.splitID} |->
                         IF s = pk.splitID THEN m ELSE splits[s]]
         /\ Acknowledge(d)
         /\ UNCHANGED <<packetQueue, receivedMessageIndices, sequencedVars,
                        delivered>>
      \/ /\ ~TooManySplits(pk) /\ ~OutOfRange(pk)
         /\ complete
         /\ splits' = [s \in DOMAIN splits \ {pk.splitID} |-> splits[s]]
         /\ ReceivePacket(d, m)

HandleDatagram(d) ==
  \/ IsSplit(d.pk) /\ ReceiveSplitPacket(d)
  \/ ~IsSplit(d.pk) /\ ReceivePacket(d, <<d.pk.fragment>>) /\ UNCHANGED splits

\* Mutant of DropDatagram: a datagram that is dropped is acknowledged, though
\* its number may have been given up.
DropDatagramAcknowledged(d) ==
  /\ receiver = "open"
  /\ Seen(win, d.seq)
  /\ ackSlice' = ackSlice \cup {d.seq}
  /\ UNCHANGED <<win, packetQueue, receivedMessageIndices, sequencedVars,
                 splits, delivered, receiver, received, replies>>

\* receiveDatagram on a datagram that is in the window already.
DropDatagram(d) ==
  /\ receiver = "open"
  /\ Seen(win, d.seq)
  /\ UNCHANGED receiverVars

\* receiveDatagram: old is the set of datagrams in the window that arrived at
\* least 1.5 RTT ago.  They are looked at only if the window did not move.
ReceiveDatagram(d, old) ==
  LET added == Add(win, d.seq)
      stuck == Shift(added).lowest = win.lowest
      missing == IF stuck THEN Missing(added, old) ELSE {}
  IN  /\ receiver = "open"
      /\ ~Seen(win, d.seq)
      /\ old \subseteq added.queue
      /\ win' = IF stuck THEN GiveUp(added, old) ELSE Shift(added)
      /\ replies' = IF missing = {} THEN replies
                    ELSE replies \cup {[type |-> "NACK", packets |-> missing]}
      /\ IF LimitsEnabled /\ WindowSize(win') > MaxWindowSize
         THEN /\ Fail
              /\ UNCHANGED <<packetQueue, receivedMessageIndices,
                             sequencedVars, splits, delivered>>
         ELSE HandleDatagram(d)

\* flushACKs, from the tick goroutine of the receiver end.
FlushACKs ==
  /\ receiver = "open"
  /\ ackSlice # {}
  /\ replies' = replies \cup {[type |-> "ACK", packets |-> ackSlice]}
  /\ ackSlice' = {}
  /\ UNCHANGED <<win, packetQueue, receivedMessageIndices, sequencedVars,
                 splits, delivered, receiver, received>>
=============================================================================
