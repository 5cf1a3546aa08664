----------------------------- MODULE TypeProofs -----------------------------
(***************************************************************************)
(* What the operators of Indices, DatagramWindow, PacketQueue and Packet   *)
(* return, then type correctness of Transfer, with the bounds of the       *)
(* windows.                                                                *)
(***************************************************************************)
EXTENDS TransferInv, WellFoundedInduction, FiniteSetTheorems, TLAPS

\* The scan of shift and fetch stops somewhere, at the first index that is
\* not present.
LEMMA FirstGapExists ==
  ASSUME NEW lowest \in Nat, NEW highest \in Nat, lowest <= highest,
         NEW present
  PROVE  IsFirstGap(FirstGap(lowest, highest, present),
                    lowest, highest, present)
<1> DEFINE T == {i \in lowest..highest : i = highest \/ i \notin present}
<1>1. T \subseteq Nat /\ T # {}
  <2>1. highest \in T
    OBVIOUS
  <2>2. T \subseteq Nat
    OBVIOUS
  <2> QED BY <2>1, <2>2
<1>2. PICK x \in T : \A y \in T : ~(<<y, x>> \in OpToRel(<, Nat))
  BY <1>1, WFMin, NatLessThanWellFounded, Zenon
<1>3. \A y \in T : ~(y < x)
  BY <1>1, <1>2 DEF OpToRel
<1>4. IsFirstGap(x, lowest, highest, present)
  <2>1. x \in lowest..highest /\ (x = highest \/ x \notin present)
    OBVIOUS
  <2>2. ASSUME NEW i \in lowest..(x - 1) PROVE i \in present
    <3>1. i \in lowest..highest /\ i < x
      BY <2>1
    <3>2. i \notin T
      BY <1>3, <3>1
    <3> QED BY <3>1, <3>2
  <2> QED BY <2>1, <2>2 DEF IsFirstGap
<1> HIDE DEF T
<1>5. x \in lowest..highest
  BY <1>4 DEF IsFirstGap
<1> QED BY <1>4, <1>5 DEF FirstGap

\* add keeps a window well formed, and the index is seen afterwards.
LEMMA AddOK ==
  ASSUME NEW w, WindowOK(w), NEW i \in Nat, ~Seen(w, i)
  PROVE  /\ WindowOK(Add(w, i))
         /\ Add(w, i).lowest = w.lowest
         /\ Add(w, i).queue = w.queue \cup {i}
<1>1. w \in [lowest : Nat, highest : Nat, queue : SUBSET Nat]
  BY DEF WindowOK, DatagramWindows
<1>2. /\ Add(w, i) \in [lowest : Nat, highest : Nat, queue : SUBSET Nat]
      /\ Add(w, i).lowest = w.lowest
      /\ Add(w, i).queue = w.queue \cup {i}
      /\ Add(w, i).highest = IF i < w.highest THEN w.highest ELSE i + 1
  BY <1>1 DEF Add
<1>3. w.lowest <= i
  BY <1>1 DEF Seen
<1> QED BY <1>1, <1>2, <1>3 DEF WindowOK, DatagramWindows

\* shift keeps a window well formed and changes nothing of what it has seen.
LEMMA ShiftOK ==
  ASSUME NEW w, WindowOK(w)
  PROVE  /\ WindowOK(Shift(w))
         /\ w.lowest <= Shift(w).lowest
         /\ \A i \in Nat : Seen(Shift(w), i) <=> Seen(w, i)
<1> DEFINE gap == FirstGap(w.lowest, w.highest, w.queue)
<1>1. /\ w.lowest \in Nat /\ w.highest \in Nat /\ w.lowest <= w.highest
      /\ w \in [lowest : Nat, highest : Nat, queue : SUBSET Nat]
  BY DEF WindowOK, DatagramWindows
<1>2. IsFirstGap(gap, w.lowest, w.highest, w.queue)
  BY <1>1, FirstGapExists
<1>3. /\ gap \in Nat /\ w.lowest <= gap /\ gap <= w.highest
      /\ \A i \in w.lowest..(gap - 1) : i \in w.queue
  BY <1>1, <1>2 DEF IsFirstGap
<1>4. Shift(w) = [w EXCEPT !.lowest = gap, !.queue = {i \in @ : i >= gap}]
  BY DEF Shift
<1> HIDE DEF gap
<1>5. /\ Shift(w) \in [lowest : Nat, highest : Nat, queue : SUBSET Nat]
      /\ Shift(w).lowest = gap /\ Shift(w).highest = w.highest
      /\ Shift(w).queue = {i \in w.queue : i >= gap}
  BY <1>1, <1>3, <1>4
<1>6. WindowOK(Shift(w))
  BY <1>1, <1>3, <1>5 DEF WindowOK, DatagramWindows
<1>7. ASSUME NEW i \in Nat PROVE Seen(Shift(w), i) <=> Seen(w, i)
  BY <1>1, <1>3, <1>5 DEF Seen, WindowOK
<1> QED BY <1>3, <1>5, <1>6, <1>7

\* missing keeps a window well formed and forgets nothing it has seen.
LEMMA GiveUpOK ==
  ASSUME NEW w, WindowOK(w), NEW old
  PROVE  /\ WindowOK(GiveUp(w, old))
         /\ w.lowest <= GiveUp(w, old).lowest
         /\ \A i \in Nat : Seen(w, i) => Seen(GiveUp(w, old), i)
<1> DEFINE v == [w EXCEPT !.queue = @ \cup Missing(w, old)]
<1>1. WindowOK(v) /\ v.lowest = w.lowest /\ w.queue \subseteq v.queue
  BY DEF WindowOK, DatagramWindows, Missing
<1>2. GiveUp(w, old) = Shift(v)
  BY DEF GiveUp
<1> HIDE DEF v
<1>3. \A i \in Nat : Seen(w, i) => Seen(v, i)
  BY <1>1 DEF Seen
<1> QED BY <1>1, <1>2, <1>3, ShiftOK

\* What missing asks for are indices.
LEMMA MissingIsNat ==
  ASSUME NEW w, WindowOK(w), NEW old
  PROVE  Missing(w, old) \subseteq Nat
BY DEF WindowOK, DatagramWindows, Missing

\* put followed by fetch.
LEMMA FetchOK ==
  ASSUME NEW q, q.lowest \in Nat, q.highest \in Nat, QueueOK(q)
  PROVE  /\ FetchEnd(q) \in Nat
         /\ q.lowest <= FetchEnd(q) /\ FetchEnd(q) <= q.highest
         /\ \A i \in q.lowest..(FetchEnd(q) - 1) : i \in DOMAIN q.queue
         /\ QueueOK(AfterFetch(q))
<1>1. IsFirstGap(FetchEnd(q), q.lowest, q.highest, DOMAIN q.queue)
  BY FirstGapExists DEF FetchEnd, QueueOK
<1>2. /\ FetchEnd(q) \in Nat
      /\ q.lowest <= FetchEnd(q) /\ FetchEnd(q) <= q.highest
      /\ \A i \in q.lowest..(FetchEnd(q) - 1) : i \in DOMAIN q.queue
  BY <1>1 DEF IsFirstGap
<1> QED BY <1>2 DEF AfterFetch, QueueOK

\* put keeps the queue well formed.
LEMMA PutOK ==
  ASSUME NEW q, q.lowest \in Nat, q.highest \in Nat,
         DOMAIN q.queue \subseteq Nat, QueueOK(q),
         NEW index \in Nat, NEW content, ~Occupied(q, index)
  PROVE  /\ QueueOK(Put(q, index, content))
         /\ Put(q, index, content).lowest \in Nat
         /\ Put(q, index, content).highest \in Nat
<1> DEFINE p == Put(q, index, content)
<1>1. /\ p.lowest = q.lowest
      /\ p.highest = IF index < q.highest THEN q.highest ELSE index + 1
      /\ DOMAIN p.queue = DOMAIN q.queue \cup {index}
  BY DEF Put
<1> HIDE DEF p
<1>2. q.lowest <= index
  BY DEF Occupied
<1>3. QueueOK(p)
  BY <1>1, <1>2 DEF QueueOK
<1> QED BY <1>1, <1>3 DEF p

\* split yields at least one fragment for a buffer that is not empty.
LEMMA FragmentCountPositive ==
  ASSUME NEW n \in Nat \ {0}, NEW mtu \in Nat,
         mtu > PacketAdditionalSize + SplitAdditionalSize
  PROVE  FragmentCount(n, mtu) \in Nat \ {0}
<1> DEFINE size == MaxFragmentSize(n, mtu)
<1>1. size \in Nat \ {0}
  BY DEF MaxFragmentSize, PacketAdditionalSize, SplitAdditionalSize
<1> HIDE DEF size
<1>2. n \div size \in Nat /\ n % size \in Nat
  BY <1>1
<1>3. FragmentCount(n, mtu)
        = n \div size + (IF n % size = 0 THEN 0 ELSE 1)
  BY DEF FragmentCount, size
<1>4. CASE n < size
  <2>1. n % size = n
    BY <1>1, <1>4
  <2> QED BY <1>2, <1>3, <2>1
<1>5. CASE n >= size
  <2>1. n \div size # 0
    BY <1>1, <1>5
  <2> QED BY <1>2, <1>3, <2>1
<1> QED BY <1>1, <1>4, <1>5

\* An index read from the wire is an index, the same one below the wrap.
LEMMA OnWireOK ==
  ASSUME NEW i \in Nat
  PROVE  /\ OnWire(i) \in Nat
         /\ i < IndexSpace => OnWire(i) = i
BY IndexSpaceAssumption DEF OnWire
-----------------------------------------------------------------------------
\* newConn gives every field a value of its type.
LEMMA InitType == Init => TypeInv
<1> SUFFICES ASSUME Init PROVE TypeInv
  OBVIOUS
<1>1. SenderTypeOK
  BY SenderAssumption
  DEF Init, SenderInit, SenderTypeOK, MuStates
<1>2. ReceiverTypeOK
  BY DEF Init, ReceiverInit, ReceiverTypeOK, NewDatagramWindow,
         DatagramWindows, NewPacketQueue, Contents, Reliabilities
<1>3. /\ WindowOK(win) /\ WindowOK(receivedMessageIndices)
      /\ QueueOK(packetQueue)
  BY DEF Init, ReceiverInit, WindowOK, QueueOK, NewDatagramWindow,
         DatagramWindows, NewPacketQueue
<1>4. IsFiniteSet(DOMAIN unacknowledged)
  BY FS_EmptySet DEF Init, SenderInit
<1>5. losses \in Nat
  BY DEF Init
<1> QED BY <1>1, <1>2, <1>3, <1>4, <1>5 DEF TypeInv, TypeOK

\* What is written to the wire is a packet.
LEMMA OnWirePacketType ==
  ASSUME NEW pk \in Packets
  PROVE  /\ OnWirePacket(pk) \in Packets
         /\ OnWirePacket(pk).reliability = pk.reliability
         /\ OnWirePacket(pk).fragment = pk.fragment
         /\ OnWirePacket(pk).splitCount = pk.splitCount
         /\ OnWirePacket(pk).splitIndex = pk.splitIndex
         /\ OnWirePacket(pk).splitID = pk.splitID
         /\ OnWirePacket(pk).messageIndex =
              IF IsReliable(pk.reliability) THEN OnWire(pk.messageIndex) ELSE 0
         /\ OnWirePacket(pk).orderIndex =
              IF IsSequencedOrOrdered(pk.reliability)
              THEN OnWire(pk.orderIndex) ELSE 0
<1>1. /\ OnWire(pk.messageIndex) \in Nat /\ OnWire(pk.sequenceIndex) \in Nat
      /\ OnWire(pk.orderIndex) \in Nat
  BY OnWireOK DEF Packets
<1> QED BY <1>1 DEF OnWirePacket, Packets

\* sendUnreliableDatagram and sendDatagram.
LEMMA TransmitType ==
  ASSUME SenderTypeOK, NEW pk \in Packets, Transmit(pk)
  PROVE  seq' \in Nat /\ datagrams' \subseteq Datagrams
<1>1. [seq |-> OnWire(seq), pk |-> OnWirePacket(pk)] \in Datagrams
  BY OnWireOK, OnWirePacketType DEF SenderTypeOK, Datagrams
<1> QED BY <1>1 DEF SenderTypeOK, Transmit

\* sendDatagram: the record is that of a packet.
LEMMA SendDatagramType ==
  ASSUME SenderTypeOK, NEW pk \in Packets, NEW records,
         DOMAIN records \subseteq Nat, records \in [DOMAIN records -> Packets],
         SendDatagram(pk, records)
  PROVE  /\ seq' \in Nat /\ datagrams' \subseteq Datagrams
         /\ DOMAIN unacknowledged' \subseteq Nat
         /\ unacknowledged' \in [DOMAIN unacknowledged' -> Packets]
<1>1. seq' \in Nat /\ datagrams' \subseteq Datagrams
  BY TransmitType DEF SendDatagram
<1> QED BY <1>1 DEF SendDatagram, SenderTypeOK

\* The fragments of a write are packets, and there is at least one.
LEMMA BeginWriteType ==
  ASSUME SenderTypeOK, NEW r \in WriteKinds, NEW length \in Lengths,
         BeginWrite(r, length)
  PROVE  SenderTypeOK'
<1> DEFINE count == FragmentCount(length, EffectiveMTU)
<1>1. count \in Nat \ {0}
  BY FragmentCountPositive, SenderAssumption
<1>2. r \in Reliabilities
  BY SenderAssumption
<1> HIDE DEF count
<1>3. FragmentPackets(r, count) \in Seq(Packets)
  <2>1. splitID % SplitSpace \in Nat
    BY SplitSpaceAssumption DEF SenderTypeOK
  <2>2. ASSUME NEW k \in 1..count
        PROVE  [w |-> Len(log) + 1, i |-> k - 1] \in Fragments
    BY <1>1, <2>2 DEF Fragments, SenderTypeOK
  <2>3. \A k \in 1..count : FragmentPackets(r, count)[k] \in Packets
    BY <1>1, <1>2, <2>1, <2>2 DEF FragmentPackets, Packets, SenderTypeOK
  <2> QED BY <1>1, <2>3 DEF FragmentPackets
<1>4. log' \in Seq(WriteRecords)
  <2>1. [reliability |-> r, count |-> count, orderIndex |-> orderIndex,
         splitID |-> splitID] \in WriteRecords
    BY <1>1, <1>2 DEF WriteRecords, SenderTypeOK
  <2> QED BY <2>1 DEF BeginWrite, SenderTypeOK, count
<1>5. toWrite' \in Seq(Packets)
  BY <1>3 DEF BeginWrite, count
<1>6. /\ orderIndex' \in Nat /\ sequenceIndex' \in Nat /\ splitID' \in Nat
      /\ mu' \in MuStates
  <2>1. /\ orderIndex' \in {orderIndex, orderIndex + 1}
        /\ sequenceIndex' \in {sequenceIndex, sequenceIndex + 1}
        /\ splitID' \in {splitID, splitID + 1}
        /\ mu' = "write"
    BY DEF BeginWrite
  <2>2. orderIndex \in Nat /\ sequenceIndex \in Nat /\ splitID \in Nat
    BY DEF SenderTypeOK
  <2> QED BY <2>1, <2>2 DEF MuStates
<1>7. UNCHANGED <<seq, messageIndex, ccPending, unacknowledged, ccNackQueue,
                  ccNackSet, sendBudget, resendBudget, nackBudget, toEnqueue,
                  tickPhase, socket, datagrams>>
  BY DEF BeginWrite, budgets, nackVars
<1> QED
  BY <1>4, <1>5, <1>6, <1>7 DEF SenderTypeOK

\* sendUnreliableDatagram keeps the types.
LEMMA WriteUnreliableType ==
  ASSUME SenderTypeOK, WriteUnreliable
  PROVE  SenderTypeOK'
<1>1. Head(toWrite) \in Packets /\ Tail(toWrite) \in Seq(Packets)
  BY DEF SenderTypeOK, WriteUnreliable
<1>2. seq' \in Nat /\ datagrams' \subseteq Datagrams
  BY <1>1, TransmitType DEF WriteUnreliable
<1>3. toWrite' \in Seq(Packets)
  BY <1>1 DEF WriteUnreliable
<1> QED
  BY <1>2, <1>3 DEF WriteUnreliable, SenderTypeOK, budgets, nackVars

\* queueOrSend keeps the types.
LEMMA WriteReliableType ==
  ASSUME SenderTypeOK, WriteReliable
  PROVE  SenderTypeOK'
<1> DEFINE pk == [Head(toWrite) EXCEPT !.messageIndex = messageIndex]
<1>1. Head(toWrite) \in Packets /\ Tail(toWrite) \in Seq(Packets)
  BY DEF SenderTypeOK, WriteReliable
<1>2. pk \in Packets
  BY <1>1 DEF SenderTypeOK, Packets
<1> HIDE DEF pk
<1>3. /\ seq' \in Nat /\ datagrams' \subseteq Datagrams
      /\ DOMAIN unacknowledged' \subseteq Nat
      /\ unacknowledged' \in [DOMAIN unacknowledged' -> Packets]
      /\ sendBudget' \in Nat
      /\ toWrite' \in Seq(Packets)
      /\ ccPending' \in Seq(Packets)
  <2>1. CASE sendBudget > 0
    <3>1. SendDatagram(pk, unacknowledged)
      BY <2>1 DEF WriteReliable, pk, SenderTypeOK
    <3>2. /\ sendBudget' = IF socket = "open" THEN sendBudget - 1 ELSE sendBudget
          /\ toWrite' = IF socket = "open" THEN Tail(toWrite) ELSE <<>>
          /\ ccPending' = ccPending
      BY <2>1 DEF WriteReliable, SenderTypeOK
    <3>3. sendBudget' \in Nat
      <4>1. sendBudget \in Nat
        BY DEF SenderTypeOK
      <4> QED BY <2>1, <3>2, <4>1
    <3>4. toWrite' \in Seq(Packets) /\ ccPending' \in Seq(Packets)
      BY <1>1, <3>2 DEF SenderTypeOK
    <3>5. /\ seq' \in Nat /\ datagrams' \subseteq Datagrams
          /\ DOMAIN unacknowledged' \subseteq Nat
          /\ unacknowledged' \in [DOMAIN unacknowledged' -> Packets]
      BY <1>2, <3>1, SendDatagramType DEF SenderTypeOK
    <3> QED BY <3>3, <3>4, <3>5
  <2>2. CASE sendBudget = 0
    <3>1. /\ ccPending' = Append(ccPending, pk)
          /\ toWrite' = Tail(toWrite)
          /\ UNCHANGED <<seq, unacknowledged, datagrams, sendBudget>>
      BY <2>2 DEF WriteReliable, pk
    <3>2. ccPending' \in Seq(Packets)
      BY <1>2, <3>1 DEF SenderTypeOK
    <3> QED BY <1>1, <3>1, <3>2 DEF SenderTypeOK
  <2> QED BY <2>1, <2>2 DEF SenderTypeOK
<1>4. messageIndex' \in Nat
  BY DEF WriteReliable, SenderTypeOK
<1> QED
  BY <1>3, <1>4 DEF WriteReliable, SenderTypeOK, nackVars

\* flushSendQueueLocked keeps the types.
LEMMA FlushSendType ==
  ASSUME SenderTypeOK, FlushSend
  PROVE  SenderTypeOK'
<1>1. Head(ccPending) \in Packets /\ Tail(ccPending) \in Seq(Packets)
  BY DEF SenderTypeOK, FlushSend, CanFlush
<1>2. /\ seq' \in Nat /\ datagrams' \subseteq Datagrams
      /\ DOMAIN unacknowledged' \subseteq Nat
      /\ unacknowledged' \in [DOMAIN unacknowledged' -> Packets]
  BY <1>1, SendDatagramType DEF FlushSend, SenderTypeOK
<1>3. ccPending' \in Seq(Packets)
  BY <1>1 DEF FlushSend, SenderTypeOK
<1>4. sendBudget' \in Nat
  BY DEF FlushSend, CanFlush, SenderTypeOK
<1>5. mu' \in MuStates
  BY DEF FlushSend, SenderTypeOK, MuStates
<1> QED
  BY <1>2, <1>3, <1>4, <1>5 DEF FlushSend, SenderTypeOK, nackVars

\* flushResendQueueLocked keeps the types.
LEMMA ResendType ==
  ASSUME SenderTypeOK, NEW next \in {"idle", "checkResend"}, Resend(next)
  PROVE  SenderTypeOK'
<1> DEFINE s == Head(ccNackQueue)
           rest == Without(unacknowledged, s)
<1>1. unacknowledged[s] \in Packets
  BY DEF SenderTypeOK, Resend
<1>2. DOMAIN rest \subseteq Nat /\ rest \in [DOMAIN rest -> Packets]
  BY DEF SenderTypeOK, Without
<1>3. SendDatagram(unacknowledged[s], rest)
  BY DEF Resend
<1> HIDE DEF rest, s
<1>4. /\ seq' \in Nat /\ datagrams' \subseteq Datagrams
      /\ DOMAIN unacknowledged' \subseteq Nat
      /\ unacknowledged' \in [DOMAIN unacknowledged' -> Packets]
  BY <1>1, <1>2, <1>3, SendDatagramType
<1>5. ccNackQueue # <<>> /\ resendBudget > 0
  BY DEF Resend, CanResend
<1>6. Tail(ccNackQueue) \in Seq(Nat) /\ resendBudget - 1 \in Nat
  BY <1>5 DEF SenderTypeOK
<1>7. \/ /\ ccNackQueue' = Tail(ccNackQueue)
         /\ ccNackSet' \subseteq ccNackSet
         /\ resendBudget' = resendBudget - 1
      \/ UNCHANGED <<ccNackQueue, ccNackSet, resendBudget>>
  BY DEF Resend, nackVars
<1>8. /\ ccNackQueue' \in Seq(Nat) /\ ccNackSet' \subseteq Nat
      /\ resendBudget' \in Nat
  BY <1>6, <1>7 DEF SenderTypeOK
<1>9. /\ mu' \in MuStates
      /\ tickPhase' \in {"idle", "locked", "checkResend"}
  BY DEF Resend, TickUnlock, SenderTypeOK, MuStates
<1> QED
  BY <1>4, <1>8, <1>9 DEF Resend, SenderTypeOK

\* handleNACK keeps the types; the budget may become negative.
LEMMA HandleNACKType ==
  ASSUME SenderTypeOK, NEW missing \in SUBSET Nat, NEW over \in BOOLEAN,
         IsFiniteSet(DOMAIN unacknowledged), HandleNACK(missing, over)
  PROVE  SenderTypeOK'
<1> DEFINE valid == missing \cap DOMAIN unacknowledged
           budget == IF over THEN NackBudgetPerSecond ELSE nackBudget
<1>1. Cardinality(valid) \in Nat
  BY FS_Subset, FS_CardinalityType
<1>2. nackBudget' \in Int
  <2>1. budget \in Int
    BY SenderAssumption DEF SenderTypeOK
  <2>2. nackBudget' = budget \/ nackBudget' = budget - Cardinality(valid)
    BY DEF HandleNACK
  <2> HIDE DEF budget, valid
  <2> QED BY <1>1, <2>1, <2>2
<1>3. mu' \in MuStates /\ toEnqueue' \subseteq Nat
  BY DEF HandleNACK, BeginEnqueue, SenderTypeOK, MuStates
<1> QED
  BY <1>2, <1>3 DEF HandleNACK, SenderTypeOK, indices, nackVars

\* The other steps of the sender.
LEMMA OtherSenderType ==
  ASSUME SenderTypeOK,
         \/ EndWrite
         \/ \E sb, rb \in 0..MaxBudget : TickLock(sb, rb)
         \/ FlushSendDone
         \/ SkipResend
         \/ \E next \in {"idle", "checkResend"} : FlushResendDone(next)
         \/ \E old \in SUBSET MayTimeOut : CheckResend(old)
         \/ \E s \in toEnqueue : EnqueueResend(s)
         \/ EndEnqueue
         \/ CloseSocket
         \/ \E acked \in SUBSET Nat : HandleACK(acked)
  PROVE  SenderTypeOK'
<1> USE DEF SenderTypeOK, indices, nackVars, budgets, loopVars
<1>1. CASE EndWrite
  BY <1>1 DEF EndWrite, MuStates
<1>2. CASE \E sb, rb \in 0..MaxBudget : TickLock(sb, rb)
  <2>1. PICK sb \in 0..MaxBudget, rb \in 0..MaxBudget : TickLock(sb, rb)
    BY <1>2
  <2>2. sb \in Nat /\ rb \in Nat
    BY SenderAssumption
  <2>3. /\ sendBudget' \in Nat /\ resendBudget' \in Nat
        /\ mu' \in MuStates
        /\ tickPhase' \in {"idle", "locked", "checkResend"}
    BY <2>1, <2>2 DEF TickLock, MuStates
  <2> QED BY <2>1, <2>3 DEF TickLock
<1>3. CASE FlushSendDone
  BY <1>3 DEF FlushSendDone, MuStates
<1>4. CASE SkipResend
  BY <1>4, SMTT(40) DEF SkipResend, CanResend
<1>5. CASE \E next \in {"idle", "checkResend"} : FlushResendDone(next)
  BY <1>5 DEF FlushResendDone, TickUnlock, MuStates
<1>6. CASE \E old \in SUBSET MayTimeOut : CheckResend(old)
  BY <1>6 DEF CheckResend, BeginEnqueue, MuStates
<1>7. CASE \E s \in toEnqueue : EnqueueResend(s)
  <2>1. PICK s \in toEnqueue : EnqueueResend(s)
    BY <1>7
  <2>2. s \in Nat
    OBVIOUS
  <2>3. ccNackQueue' \in Seq(Nat)
    <3>1. Append(ccNackQueue, s) \in Seq(Nat)
      BY <2>2
    <3> QED BY <2>1, <3>1 DEF EnqueueResend
  <2>4. ccNackSet' \subseteq Nat /\ toEnqueue' \subseteq Nat
    BY <2>1, <2>2 DEF EnqueueResend
  <2> QED BY <2>1, <2>3, <2>4 DEF EnqueueResend
<1>8. CASE EndEnqueue
  BY <1>8 DEF EndEnqueue, MuStates
<1>9. CASE CloseSocket
  BY <1>9 DEF CloseSocket
<1>10. CASE \E acked \in SUBSET Nat : HandleACK(acked)
  BY <1>10 DEF HandleACK, MuStates
<1> QED BY <1>1, <1>2, <1>3, <1>4, <1>5, <1>6, <1>7, <1>8, <1>9, <1>10

\* The retransmission map stays finite.
LEMMA FiniteRecords ==
  ASSUME IsFiniteSet(DOMAIN unacknowledged), Next
  PROVE  IsFiniteSet(DOMAIN unacknowledged')
<1> DEFINE S == DOMAIN unacknowledged
<1>1. IsFiniteSet(S \cup {seq})
  BY FS_AddElement
<1>2. DOMAIN unacknowledged' \subseteq S \cup {seq}
  <2> USE DEF indices, nackVars, budgets, loopVars
  <2>1. CASE SenderStep
    <3> USE DEF SendDatagram
    <3>1. CASE \E r \in WriteKinds, length \in Lengths : BeginWrite(r, length)
      BY <3>1 DEF BeginWrite
    <3>2. CASE WriteUnreliable
      BY <3>2 DEF WriteUnreliable
    <3>3. CASE WriteReliable
      BY <3>3 DEF WriteReliable
    <3>4. CASE EndWrite \/ FlushSendDone \/ SkipResend \/ EndEnqueue \/ CloseSocket
      BY <3>4 DEF EndWrite, FlushSendDone, SkipResend, EndEnqueue, CloseSocket
    <3>5. CASE \E sb, rb \in 0..MaxBudget : TickLock(sb, rb)
      BY <3>5 DEF TickLock
    <3>6. CASE FlushSend
      BY <3>6 DEF FlushSend
    <3>7. CASE \E next \in {"idle", "checkResend"} : Resend(next)
      BY <3>7 DEF Resend, Without
    <3>8. CASE \E next \in {"idle", "checkResend"} : FlushResendDone(next)
      BY <3>8 DEF FlushResendDone
    <3>9. CASE \E old \in SUBSET MayTimeOut : CheckResend(old)
      BY <3>9 DEF CheckResend
    <3>10. CASE \E s \in toEnqueue : EnqueueResend(s)
      BY <3>10 DEF EnqueueResend
    <3> QED
      BY <2>1, <3>1, <3>2, <3>3, <3>4, <3>5, <3>6, <3>7, <3>8, <3>9, <3>10
      DEF SenderStep
  <2>2. CASE ReceiveReply
    BY <2>2 DEF ReceiveReply, HandleACK, HandleNACK
  <2>3. CASE ReceiverStep /\ UNCHANGED <<senderVars, losses>>
    BY <2>3 DEF senderVars
  <2>4. CASE LoseDatagram
    BY <2>4 DEF LoseDatagram
  <2>5. CASE LoseReply
    BY <2>5 DEF LoseReply, senderVars
  <2> QED BY <2>1, <2>2, <2>3, <2>4, <2>5 DEF Next
<1> QED BY <1>1, <1>2, FS_Subset
-----------------------------------------------------------------------------
\* receivedMessageIndices, after a packet that was not seen.
LEMMA WindowStepOK ==
  ASSUME NEW w, WindowOK(w), NEW i \in Nat, ~Seen(w, i)
  PROVE  /\ WindowOK(Shift(Add(w, i)))
         /\ w.lowest <= Shift(Add(w, i)).lowest
         /\ \A j \in Nat : Seen(w, j) \/ j = i => Seen(Shift(Add(w, i)), j)
<1>1. /\ WindowOK(Add(w, i)) /\ Add(w, i).lowest = w.lowest
      /\ Add(w, i).queue = w.queue \cup {i}
  BY AddOK
<1>2. \A j \in Nat : Seen(w, j) \/ j = i => Seen(Add(w, i), j)
  BY <1>1 DEF Seen
<1> QED BY <1>1, <1>2, ShiftOK

\* What ReceivePacket and its callers may change, with its type.
PacketStateOK ==
  /\ ackSlice \subseteq Nat
  /\ packetQueue.lowest \in Nat /\ packetQueue.highest \in Nat
  /\ DOMAIN packetQueue.queue \subseteq Nat
  /\ \A i \in DOMAIN packetQueue.queue : packetQueue.queue[i] \in Contents
  /\ QueueOK(packetQueue)
  /\ WindowOK(receivedMessageIndices)
  /\ highestUnreliableSeqIndex \in Nat /\ highestReliableSeqIndex \in Nat
  /\ delivered \in [Reliabilities -> Seq(Contents)]
  /\ receiver \in {"open", "closed"}
  /\ received \subseteq Nat

\* The end of handleDatagram keeps the types.
LEMMA AcknowledgeOK ==
  ASSUME PacketStateOK, NEW d \in Datagrams, Acknowledge(d)
  PROVE  /\ ackSlice' \subseteq Nat /\ received' \subseteq Nat
         /\ receiver' \in {"open", "closed"}
BY DEF PacketStateOK, Datagrams, Packets, Acknowledge

\* handlePacket keeps the types.
LEMMA HandlePacketsOK ==
  ASSUME PacketStateOK, NEW r \in Reliabilities, NEW cs \in Seq(Contents),
         HandlePackets(r, cs)
  PROVE  delivered' \in [Reliabilities -> Seq(Contents)]
<1>1. delivered[r] \o cs \in Seq(Contents)
  BY DEF PacketStateOK
<1> QED BY <1>1 DEF PacketStateOK, HandlePackets

\* The ordered case of receivePacket keeps the types and the queue's bounds.
LEMMA ReceiveOrderedOK ==
  ASSUME PacketStateOK, NEW d \in Datagrams, NEW content \in Contents,
         ReceiveReliableOrdered(d, content)
  PROVE  PacketStateOK'
<1> DEFINE index == d.pk.orderIndex
           q == Put(packetQueue, index, content)
<1>1. index \in Nat
  BY DEF Datagrams, Packets
<1>2. CASE Occupied(packetQueue, index)
  <2>1. Acknowledge(d) /\ UNCHANGED <<packetQueue, delivered>>
    BY <1>2 DEF ReceiveReliableOrdered
  <2>2. UNCHANGED <<receivedMessageIndices, sequencedVars>>
    BY DEF ReceiveReliableOrdered
  <2> QED
    BY <2>1, <2>2, AcknowledgeOK DEF PacketStateOK, sequencedVars
<1>3. CASE ~Occupied(packetQueue, index)
  <2>1. /\ QueueOK(q) /\ q.lowest \in Nat /\ q.highest \in Nat
    BY <1>1, <1>3, PutOK DEF PacketStateOK
  <2>2. /\ DOMAIN q.queue \subseteq Nat
        /\ \A i \in DOMAIN q.queue : q.queue[i] \in Contents
    BY <1>1 DEF PacketStateOK, Put
  <2>3. UNCHANGED <<receivedMessageIndices, sequencedVars>>
    BY DEF ReceiveReliableOrdered
  <2>4. CASE packetQueue' = q /\ Fail /\ UNCHANGED delivered
    BY <2>1, <2>2, <2>3, <2>4 DEF PacketStateOK, Fail, sequencedVars
  <2>5. CASE /\ packetQueue' = AfterFetch(q)
             /\ HandlePackets("ReliableOrdered", Fetched(q))
             /\ Acknowledge(d)
    <3>1. /\ FetchEnd(q) \in Nat /\ q.lowest <= FetchEnd(q)
          /\ \A i \in q.lowest..(FetchEnd(q) - 1) : i \in DOMAIN q.queue
          /\ QueueOK(AfterFetch(q))
      BY <2>1, FetchOK
    <3> HIDE DEF q
    <3>2. Fetched(q) \in Seq(Contents)
      <4>1. \A i \in 1..(FetchEnd(q) - q.lowest) :
              q.queue[q.lowest + i - 1] \in Contents
        BY <2>1, <2>2, <3>1
      <4> QED BY <2>1, <3>1, <4>1 DEF Fetched
    <3>3. /\ AfterFetch(q).lowest \in Nat /\ AfterFetch(q).highest \in Nat
          /\ DOMAIN AfterFetch(q).queue \subseteq Nat
          /\ \A i \in DOMAIN AfterFetch(q).queue :
               AfterFetch(q).queue[i] \in Contents
      BY <2>1, <2>2, <3>1 DEF AfterFetch
    <3>4. delivered' \in [Reliabilities -> Seq(Contents)]
      BY <2>5, <3>2, HandlePacketsOK DEF Reliabilities
    <3> QED
      BY <2>3, <2>5, <3>1, <3>3, <3>4, AcknowledgeOK
      DEF PacketStateOK, sequencedVars
  <2> QED BY <1>3, <2>4, <2>5 DEF ReceiveReliableOrdered
<1> QED BY <1>2, <1>3

\* A packet of any reliability.
LEMMA ReceivePacketOK ==
  ASSUME PacketStateOK, NEW d \in Datagrams, NEW content \in Contents,
         ReceivePacket(d, content)
  PROVE  PacketStateOK'
<1> DEFINE m == d.pk.messageIndex
           i == d.pk.sequenceIndex
<1>1. m \in Nat /\ i \in Nat /\ i + 1 \in Nat
  BY DEF Datagrams, Packets
<1>2. <<content>> \in Seq(Contents)
  OBVIOUS
<1>3. ASSUME ~Seen(receivedMessageIndices, m)
      PROVE  WindowOK(Shift(Add(receivedMessageIndices, m)))
  BY <1>1, <1>3, WindowStepOK DEF PacketStateOK
<1>4. ASSUME NEW r \in Reliabilities, HandlePackets(r, <<content>>)
      PROVE  delivered' \in [Reliabilities -> Seq(Contents)]
  BY <1>2, <1>4, HandlePacketsOK
<1> HIDE DEF m, i
<1>5. CASE ReceiveUnreliable(d, content)
  <2>1. Acknowledge(d) /\ delivered' \in [Reliabilities -> Seq(Contents)]
    BY <1>4, <1>5 DEF ReceiveUnreliable, Reliabilities
  <2> QED
    BY <1>5, <2>1, AcknowledgeOK
    DEF ReceiveUnreliable, PacketStateOK, sequencedVars
<1>6. CASE ReceiveReliable(d, content)
  <2>1. /\ Acknowledge(d) /\ delivered' \in [Reliabilities -> Seq(Contents)]
        /\ WindowOK(receivedMessageIndices')
    BY <1>3, <1>4, <1>6 DEF ReceiveReliable, Reliabilities, PacketStateOK, m
  <2> QED
    BY <1>6, <2>1, AcknowledgeOK
    DEF ReceiveReliable, PacketStateOK, sequencedVars
<1>7. CASE ReceiveUnreliableSequenced(d, content)
  <2>1. /\ Acknowledge(d) /\ delivered' \in [Reliabilities -> Seq(Contents)]
        /\ highestUnreliableSeqIndex' \in Nat
    BY <1>1, <1>4, <1>7
    DEF ReceiveUnreliableSequenced, Reliabilities, PacketStateOK, i
  <2> QED
    BY <1>7, <2>1, AcknowledgeOK
    DEF ReceiveUnreliableSequenced, PacketStateOK
<1>8. CASE ReceiveReliableSequenced(d, content)
  <2>1. /\ Acknowledge(d) /\ delivered' \in [Reliabilities -> Seq(Contents)]
        /\ highestReliableSeqIndex' \in Nat
        /\ WindowOK(receivedMessageIndices')
    BY <1>1, <1>3, <1>4, <1>8
    DEF ReceiveReliableSequenced, Reliabilities, PacketStateOK, m, i
  <2> QED
    BY <1>8, <2>1, AcknowledgeOK
    DEF ReceiveReliableSequenced, PacketStateOK
<1>9. CASE ReceiveReliableOrdered(d, content)
  BY <1>9, ReceiveOrderedOK
<1> QED BY <1>5, <1>6, <1>7, <1>8, <1>9 DEF ReceivePacket

\* The fragments collected so far, of a split packet within its range.
LEMMA CollectedOK ==
  ASSUME splits \in [DOMAIN splits -> Contents], NEW pk \in Packets
  PROVE  Collected(pk) \in Contents
<1> DEFINE m == IF pk.splitID \in DOMAIN splits THEN splits[pk.splitID]
                ELSE [k \in 1..pk.splitCount |-> NoFragment]
<1>1. pk.splitCount \in Nat /\ pk.fragment \in Fragments
  BY DEF Packets
<1>2. [k \in 1..pk.splitCount |-> NoFragment] \in Seq(Fragments)
  <2>1. NoFragment \in Fragments
    BY DEF NoFragment, Fragments
  <2> QED BY <1>1, <2>1
<1>3. m \in Seq(Fragments)
  BY <1>2 DEF Contents
<1> HIDE DEF m
<1>4. Len(m) \in Nat /\ m \in [1..Len(m) -> Fragments]
  BY <1>3
<1>5. [m EXCEPT ![pk.splitIndex + 1] = pk.fragment]
         \in [1..Len(m) -> Fragments]
  BY <1>1, <1>4
<1>6. [m EXCEPT ![pk.splitIndex + 1] = pk.fragment] \in Seq(Fragments)
  BY <1>4, <1>5
<1> QED BY <1>6 DEF Collected, m, Contents

\* A datagram that is not in the window.
LEMMA HandleDatagramOK ==
  ASSUME PacketStateOK, NEW d \in Datagrams,
         DOMAIN splits \subseteq Nat, splits \in [DOMAIN splits -> Contents],
         HandleDatagram(d)
  PROVE  /\ PacketStateOK'
         /\ DOMAIN splits' \subseteq Nat
         /\ splits' \in [DOMAIN splits' -> Contents]
<1> DEFINE pk == d.pk
           m == Collected(pk)
<1>1. pk \in Packets /\ <<pk.fragment>> \in Contents /\ pk.splitID \in Nat
  BY DEF Datagrams, Packets, Contents
<1>2. m \in Contents
  BY <1>1, CollectedOK
<1> HIDE DEF pk, m
<1>3. CASE ReceivePacket(d, <<pk.fragment>>) /\ UNCHANGED splits
  BY <1>1, <1>3, ReceivePacketOK
<1>4. CASE ReceiveSplitPacket(d)
  <2>1. CASE /\ Fail
             /\ UNCHANGED <<splits, packetQueue, receivedMessageIndices,
                            sequencedVars, delivered>>
    BY <2>1 DEF Fail, PacketStateOK, sequencedVars
  <2>2. CASE /\ splits' = [s \in DOMAIN splits \cup {pk.splitID} |->
                             IF s = pk.splitID THEN m ELSE splits[s]]
             /\ Acknowledge(d)
             /\ UNCHANGED <<packetQueue, receivedMessageIndices,
                            sequencedVars, delivered>>
    <3>1. PacketStateOK'
      BY <2>2, AcknowledgeOK DEF PacketStateOK, sequencedVars
    <3> QED BY <1>1, <1>2, <2>2, <3>1
  <2>3. CASE /\ splits' = [s \in DOMAIN splits \ {pk.splitID} |-> splits[s]]
             /\ ReceivePacket(d, m)
    BY <1>2, <2>3, ReceivePacketOK
  <2> QED BY <1>4, <2>1, <2>2, <2>3 DEF ReceiveSplitPacket, pk, m
<1> QED BY <1>3, <1>4 DEF HandleDatagram, pk

\* The window after a datagram, and the NACK it may send.
LEMMA ReceiveWindowOK ==
  ASSUME WindowOK(win), NEW d \in Datagrams, NEW old,
         replies \subseteq Replies, ReceiveDatagram(d, old)
  PROVE  /\ WindowOK(win') /\ win.lowest <= win'.lowest
         /\ \A i \in Nat : Seen(win, i) \/ i = d.seq => Seen(win', i)
         /\ replies' \subseteq Replies
<1> DEFINE added == Add(win, d.seq)
<1>1. d.seq \in Nat /\ ~Seen(win, d.seq)
  BY DEF Datagrams, ReceiveDatagram
<1>2. WindowOK(added) /\ added.lowest = win.lowest
      /\ added.queue = win.queue \cup {d.seq}
  BY <1>1, AddOK
<1>3. \A i \in Nat : Seen(win, i) \/ i = d.seq => Seen(added, i)
  BY <1>2 DEF Seen
<1>4. win' \in {GiveUp(added, old), Shift(added)}
  BY DEF ReceiveDatagram
<1>5. /\ replies' \subseteq
           replies \cup {[type |-> "NACK", packets |-> Missing(added, old)]}
  BY DEF ReceiveDatagram
<1> HIDE DEF added
<1>6. Missing(added, old) \subseteq Nat
  BY <1>2, MissingIsNat
<1>7. replies' \subseteq Replies
  BY <1>5, <1>6 DEF Replies
<1>8. WindowOK(win') /\ added.lowest <= win'.lowest
      /\ \A i \in Nat : Seen(added, i) => Seen(win', i)
  BY <1>2, <1>4, GiveUpOK, ShiftOK
<1> QED BY <1>2, <1>3, <1>7, <1>8

\* Whatever the receiver does.
ReceiverInv ==
  /\ ReceiverTypeOK
  /\ WindowOK(win) /\ WindowOK(receivedMessageIndices)
  /\ QueueOK(packetQueue)

\* receiveDatagram keeps the types and the bounds of the windows.
LEMMA ReceiveDatagramType ==
  ASSUME ReceiverInv, NEW d \in Datagrams, NEW old, ReceiveDatagram(d, old)
  PROVE  ReceiverInv'
<1>1. WindowOK(win') /\ replies' \subseteq Replies
  BY ReceiveWindowOK DEF ReceiverInv, ReceiverTypeOK
<1>2. PacketStateOK
  BY DEF PacketStateOK, ReceiverInv, ReceiverTypeOK
<1>3. /\ PacketStateOK'
      /\ DOMAIN splits' \subseteq Nat
      /\ splits' \in [DOMAIN splits' -> Contents]
  <2>1. CASE HandleDatagram(d)
    BY <1>2, <2>1, HandleDatagramOK DEF ReceiverInv, ReceiverTypeOK
  <2>2. CASE /\ Fail
             /\ UNCHANGED <<packetQueue, receivedMessageIndices,
                            sequencedVars, splits, delivered>>
    BY <1>2, <2>2
    DEF Fail, PacketStateOK, sequencedVars, ReceiverInv, ReceiverTypeOK
  <2> QED BY <2>1, <2>2 DEF ReceiveDatagram
<1> QED BY <1>1, <1>3 DEF ReceiverInv, ReceiverTypeOK, PacketStateOK, WindowOK

\* The steps of the receiver keep its types.
LEMMA ReceiverStepType ==
  ASSUME ReceiverInv, datagrams \subseteq Datagrams, ReceiverStep
  PROVE  ReceiverInv'
<1>1. CASE \E d \in datagrams : DropDatagram(d)
  BY <1>1 DEF DropDatagram, ReceiverInv, ReceiverTypeOK, receiverVars,
              sequencedVars
<1>2. CASE \E d \in datagrams : \E old : ReceiveDatagram(d, old)
  BY <1>2, ReceiveDatagramType
<1>3. CASE FlushACKs
  <2>1. replies' \subseteq Replies /\ ackSlice' \subseteq Nat
    BY <1>3 DEF FlushACKs, ReceiverInv, ReceiverTypeOK, Replies
  <2> QED
    BY <1>3, <2>1 DEF FlushACKs, ReceiverInv, ReceiverTypeOK, sequencedVars
<1> QED BY <1>1, <1>2, <1>3 DEF ReceiverStep

\* The steps of the sender keep its types.
LEMMA SenderStepType ==
  ASSUME SenderTypeOK, SenderStep
  PROVE  SenderTypeOK'
BY BeginWriteType, WriteUnreliableType, WriteReliableType, FlushSendType,
   ResendType, OtherSenderType
DEF SenderStep

\* handleACK and handleNACK keep the types.
LEMMA ReceiveReplyType ==
  ASSUME TypeInv, ReceiveReply
  PROVE  SenderTypeOK'
<1>1. PICK r \in replies :
        \/ HandleACK(r.packets)
        \/ \E over \in BOOLEAN : HandleNACK(r.packets, over)
  BY DEF ReceiveReply
<1>2. r.packets \in SUBSET Nat
  BY DEF TypeInv, TypeOK, ReceiverTypeOK, Replies
<1>3. SenderTypeOK /\ IsFiniteSet(DOMAIN unacknowledged)
  BY DEF TypeInv, TypeOK
<1>4. CASE HandleACK(r.packets)
  BY <1>2, <1>3, <1>4, OtherSenderType
<1>5. CASE \E over \in BOOLEAN : HandleNACK(r.packets, over)
  BY <1>2, <1>3, <1>5, HandleNACKType
<1> QED BY <1>1, <1>4, <1>5

\* The types of a receiver that does nothing.
LEMMA ReceiverUnchanged ==
  ASSUME ReceiverInv, UNCHANGED receiverVars
  PROVE  ReceiverInv'
BY DEF ReceiverInv, ReceiverTypeOK, receiverVars, sequencedVars

\* The types of a sender that does nothing.
LEMMA SenderUnchanged ==
  ASSUME SenderTypeOK, UNCHANGED senderVars
  PROVE  SenderTypeOK'
BY DEF SenderTypeOK, senderVars, indices, nackVars, budgets, loopVars

\* Every step keeps the types.
LEMMA NextType ==
  ASSUME TypeInv, [Next]_vars
  PROVE  TypeInv'
<1>1. /\ SenderTypeOK /\ ReceiverInv /\ losses \in Nat
      /\ IsFiniteSet(DOMAIN unacknowledged)
  BY DEF TypeInv, TypeOK, ReceiverInv
<1>2. datagrams \subseteq Datagrams
  BY <1>1 DEF SenderTypeOK
<1>3. SUFFICES SenderTypeOK' /\ ReceiverInv' /\ losses' \in Nat
               /\ IsFiniteSet(DOMAIN unacknowledged')
  BY DEF TypeInv, TypeOK, ReceiverInv
<1>4. CASE SenderStep /\ UNCHANGED <<receiverVars, losses>>
  BY <1>1, <1>4, SenderStepType, ReceiverUnchanged, FiniteRecords DEF Next
<1>5. CASE ReceiveReply /\ UNCHANGED <<receiverVars, losses>>
  BY <1>1, <1>5, ReceiveReplyType, ReceiverUnchanged, FiniteRecords DEF Next
<1>6. CASE ReceiverStep /\ UNCHANGED <<senderVars, losses>>
  BY <1>1, <1>2, <1>6, ReceiverStepType, SenderUnchanged, FiniteRecords
  DEF Next
<1>7. CASE LoseDatagram
  <2>1. datagrams' \subseteq Datagrams /\ losses' \in Nat
    BY <1>1, <1>2, <1>7 DEF LoseDatagram
  <2>2. SenderTypeOK'
    BY <1>1, <1>7, <2>1
    DEF LoseDatagram, SenderTypeOK, indices, nackVars, budgets, loopVars
  <2>3. UNCHANGED receiverVars
    BY <1>7 DEF LoseDatagram
  <2> QED BY <1>1, <1>7, <2>1, <2>2, <2>3, ReceiverUnchanged, FiniteRecords
          DEF Next
<1>8. CASE LoseReply
  <2>1. replies' \subseteq Replies /\ losses' \in Nat
    BY <1>1, <1>8 DEF LoseReply, ReceiverInv, ReceiverTypeOK
  <2>2. ReceiverInv'
    BY <1>1, <1>8, <2>1
    DEF LoseReply, ReceiverInv, ReceiverTypeOK, sequencedVars
  <2>3. UNCHANGED senderVars
    BY <1>8 DEF LoseReply
  <2> QED BY <1>1, <1>8, <2>1, <2>2, <2>3, SenderUnchanged, FiniteRecords
          DEF Next
<1>9. CASE UNCHANGED vars
  <2>1. UNCHANGED senderVars /\ UNCHANGED receiverVars /\ UNCHANGED losses
    BY <1>9 DEF vars
  <2>2. UNCHANGED unacknowledged
    BY <2>1 DEF senderVars
  <2> QED BY <1>1, <2>1, <2>2, SenderUnchanged, ReceiverUnchanged
<1> QED BY <1>4, <1>5, <1>6, <1>7, <1>8, <1>9 DEF Next

\* Every variable keeps its type, and the windows their bounds: no sequence
\* of writes, ticks, losses, duplicates and late datagrams takes lowest past
\* highest (datagram_window.go, packet_queue.go), and the retransmission map
\* stays finite.
THEOREM TypeCorrect == Spec => []TypeInv
<1>1. Init => TypeInv
  BY InitType
<1>2. TypeInv /\ [Next]_vars => TypeInv'
  BY NextType
<1> QED BY <1>1, <1>2, PTL DEF Spec
=============================================================================
