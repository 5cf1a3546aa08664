--------------------------- MODULE ContentProofs ----------------------------
(***************************************************************************)
(* What packets carry, from the write to the hand-over: ordered delivery;  *)
(* then what acknowledgements stand for: the sender lets go of a packet only*)
(* when the receiver has handled it.                                       *)
(***************************************************************************)
EXTENDS SenderProofs

\* A new connection carries no content.
LEMMA InitContent == Init => ContentInv
<1> SUFFICES ASSUME Init PROVE ContentInv
  OBVIOUS
<1>1. LogOK /\ PacketsGenuine
  BY DEF Init, SenderInit, LogOK, PacketsGenuine
<1>2. delivered["ReliableOrdered"] = <<>> /\ packetQueue.lowest = 0
  BY DEF Init, ReceiverInit, Reliabilities, NewPacketQueue
<1>3. DeliveredUpToLowest /\ OrderedDelivery
  BY <1>2 DEF DeliveredUpToLowest, OrderedDelivery
<1>4. ReassemblyOK
  BY DEF Init, ReceiverInit, ReassemblyOK, NewPacketQueue
<1> QED BY <1>1, <1>3, <1>4 DEF ContentInv

\* Writes are added to the log, never changed, and no counter goes back.
LogGrows ==
  /\ DOMAIN log \subseteq DOMAIN log'
  /\ \A w \in DOMAIN log : log'[w] = log[w]

CountersGrow ==
  /\ seq <= seq' /\ orderIndex <= orderIndex'
  /\ messageIndex <= messageIndex' /\ splitID <= splitID'

\* The steps of the sender only add to the log and never lower a counter.
LEMMA SenderGrows ==
  ASSUME SenderTypeOK, SenderStep
  PROVE  LogGrows /\ CountersGrow
<1> USE DEF CountersGrow
<1>1. /\ seq \in Nat /\ orderIndex \in Nat /\ messageIndex \in Nat
      /\ splitID \in Nat /\ log \in Seq(WriteRecords)
  BY DEF SenderTypeOK
<1>2. ASSUME UNCHANGED log PROVE LogGrows
  BY <1>2 DEF LogGrows
<1>3. CASE \E r \in WriteKinds, length \in Lengths : BeginWrite(r, length)
  <2>1. PICK r \in WriteKinds, length \in Lengths : BeginWrite(r, length)
    BY <1>3
  <2>2. LogGrows
    BY <1>1, <2>1 DEF BeginWrite, LogGrows
  <2>3. CountersGrow
    BY <1>1, <2>1 DEF BeginWrite, IsSequencedOrOrdered, IsSequenced
  <2> QED BY <2>2, <2>3
<1>4. CASE WriteUnreliable
  BY <1>1, <1>2, <1>4 DEF WriteUnreliable, Transmit
<1>5. CASE WriteReliable
  BY <1>1, <1>2, <1>5 DEF WriteReliable, SendDatagram, Transmit
<1>6. CASE FlushSend
  BY <1>1, <1>2, <1>6 DEF FlushSend, SendDatagram, Transmit
<1>7. CASE \E next \in {"idle", "checkResend"} : Resend(next)
  BY <1>1, <1>2, <1>7 DEF Resend, SendDatagram, Transmit
<1>8. CASE EndWrite \/ FlushSendDone \/ SkipResend \/ EndEnqueue \/ CloseSocket
  BY <1>1, <1>2, <1>8
  DEF EndWrite, FlushSendDone, SkipResend, EndEnqueue, CloseSocket, indices
<1>9. CASE \E sb, rb \in 0..MaxBudget : TickLock(sb, rb)
  BY <1>1, <1>2, <1>9 DEF TickLock, indices
<1>10. CASE \E next \in {"idle", "checkResend"} : FlushResendDone(next)
  BY <1>1, <1>2, <1>10 DEF FlushResendDone, indices
<1>11. CASE \E old \in SUBSET MayTimeOut : CheckResend(old)
  BY <1>1, <1>2, <1>11 DEF CheckResend, indices
<1>12. CASE \E s \in toEnqueue : EnqueueResend(s)
  BY <1>1, <1>2, <1>12 DEF EnqueueResend, indices
<1> QED
  BY <1>3, <1>4, <1>5, <1>6, <1>7, <1>8, <1>9, <1>10, <1>11, <1>12
  DEF SenderStep

\* No step shortens the log or lowers a counter.
LEMMA NextGrows ==
  ASSUME TypeInv, [Next]_vars
  PROVE  LogGrows /\ CountersGrow
<1>1. SenderTypeOK
  BY DEF TypeInv, TypeOK
<1>2. CASE UNCHANGED <<indices, log>>
  BY <1>1, <1>2 DEF indices, LogGrows, CountersGrow, SenderTypeOK
<1>3. CASE ReceiveReply
  BY <1>2, <1>3 DEF ReceiveReply, HandleACK, HandleNACK
<1>4. CASE UNCHANGED vars \/ LoseDatagram \/ LoseReply \/ UNCHANGED senderVars
  BY <1>2, <1>4 DEF vars, senderVars, LoseDatagram, LoseReply
<1>5. CASE SenderStep
  BY <1>1, <1>5, SenderGrows
<1> QED BY <1>3, <1>4, <1>5 DEF Next

\* As long as no index wraps after a step, none had wrapped before.
LEMMA NoWrapBefore ==
  ASSUME TypeInv, TypeInv', CountersGrow, NoWrap'
  PROVE  NoWrap
<1>1. /\ seq \in Nat /\ orderIndex \in Nat /\ messageIndex \in Nat
      /\ splitID \in Nat /\ seq' \in Nat /\ orderIndex' \in Nat
      /\ messageIndex' \in Nat /\ splitID' \in Nat
  BY DEF TypeInv, TypeOK, SenderTypeOK
<1> QED
  BY <1>1, IndexSpaceAssumption, SplitSpaceAssumption DEF CountersGrow, NoWrap
-----------------------------------------------------------------------------
\* A packet that matches the log matches a longer log.
LEMMA SentGrows ==
  ASSUME LogGrows, NEW pk, SentOK(pk)
  PROVE  SentOK(pk)'
BY DEF LogGrows, SentOK, Genuine, OrderIndexIs, LogIndex

\* The same of a packet in the network.
LEMMA ArrivedGrows ==
  ASSUME LogGrows, NEW pk, ArrivedOK(pk)
  PROVE  ArrivedOK(pk)'
BY DEF LogGrows, ArrivedOK, Genuine, OrderIndexIs, LogIndex

\* write followed by read gives the packet with its indices truncated.
LEMMA SentArrives ==
  ASSUME NEW pk \in Packets, SentOK(pk)
  PROVE  ArrivedOK(OnWirePacket(pk))
BY OnWirePacketType
DEF SentOK, ArrivedOK, Genuine, OrderIndexIs, LogIndex, IsSplit

\* The message index does not matter to what a packet carries.
LEMMA SentRenumbered ==
  ASSUME NEW pk \in Packets, SentOK(pk), NEW m
  PROVE  SentOK([pk EXCEPT !.messageIndex = m])
<1> DEFINE p == [pk EXCEPT !.messageIndex = m]
<1>1. /\ p.reliability = pk.reliability /\ p.fragment = pk.fragment
      /\ p.splitCount = pk.splitCount /\ p.splitIndex = pk.splitIndex
      /\ p.splitID = pk.splitID /\ p.orderIndex = pk.orderIndex
  BY DEF Packets
<1> HIDE DEF p
<1>2. SentOK(p)
  BY <1>1 DEF SentOK, Genuine, OrderIndexIs, LogIndex, IsSplit
<1> QED BY <1>2 DEF p

\* The packets after a step are packets that were somewhere before it.
LEMMA PacketsMove ==
  ASSUME LogGrows,
         \A k \in DOMAIN toWrite' : SentOK(toWrite'[k]),
         \A k \in DOMAIN ccPending' : SentOK(ccPending'[k]),
         \A s \in DOMAIN unacknowledged' : SentOK(unacknowledged'[s]),
         \A d \in datagrams' : ArrivedOK(d.pk)
  PROVE  PacketsGenuine'
BY SentGrows, ArrivedGrows DEF PacketsGenuine

\* sendDatagram and sendUnreliableDatagram.
LEMMA TransmitGenuine ==
  ASSUME PacketsGenuine, NEW pk \in Packets, SentOK(pk), Transmit(pk)
  PROVE  \A d \in datagrams' : ArrivedOK(d.pk)
BY SentArrives DEF Transmit, PacketsGenuine

\* sendDatagram puts one more copy of a packet in the network and in a record.
LEMMA SendGenuine ==
  ASSUME PacketsGenuine, NEW pk \in Packets, SentOK(pk), NEW records,
         DOMAIN records \subseteq DOMAIN unacknowledged,
         \A s \in DOMAIN records : records[s] = unacknowledged[s],
         SendDatagram(pk, records)
  PROVE  /\ \A d \in datagrams' : ArrivedOK(d.pk)
         /\ \A s \in DOMAIN unacknowledged' : SentOK(unacknowledged'[s])
<1>1. \A d \in datagrams' : ArrivedOK(d.pk)
  BY TransmitGenuine DEF SendDatagram
<1> QED BY <1>1 DEF SendDatagram, PacketsGenuine

\* The fragments of a new write carry what the log says, under indices that
\* no earlier write has.
LEMMA BeginWriteGenuine ==
  ASSUME TypeInv, TypeInv', PacketsGenuine, LogOK, LogGrows,
         NEW r \in WriteKinds, NEW length \in Lengths, BeginWrite(r, length)
  PROVE  PacketsGenuine' /\ LogOK'
<1> DEFINE count == FragmentCount(length, EffectiveMTU)
           w == Len(log) + 1
           rec == [reliability |-> r, count |-> count,
                   orderIndex |-> orderIndex, splitID |-> splitID]
<1>1. /\ log \in Seq(WriteRecords) /\ orderIndex \in Nat /\ splitID \in Nat
      /\ Len(log) \in Nat
  BY DEF TypeInv, TypeOK, SenderTypeOK
<1>2. count \in Nat \ {0}
  BY FragmentCountPositive, SenderAssumption
<1>3. /\ log' = Append(log, rec)
      /\ toWrite' = FragmentPackets(r, count)
      /\ UNCHANGED <<ccPending, unacknowledged, datagrams>>
  BY DEF BeginWrite
<1>4. /\ orderIndex' = IF IsSequencedOrOrdered(r) THEN orderIndex + 1
                                                  ELSE orderIndex
      /\ splitID' = IF count > 1 THEN splitID + 1 ELSE splitID
  BY DEF BeginWrite
<1> HIDE DEF count, rec
<1>5. /\ DOMAIN log' = DOMAIN log \cup {w} /\ log'[w] = rec
      /\ w \notin DOMAIN log
      /\ \A v \in DOMAIN log : log'[v] = log[v]
      /\ DOMAIN log = 1..Len(log)
  BY <1>1, <1>3
<1>6. rec = [reliability |-> r, count |-> count,
             orderIndex |-> orderIndex, splitID |-> splitID]
  BY DEF rec
<1>7. PacketsGenuine'
  <2>1. ASSUME NEW k \in 1..count, NEW pk,
               pk = FragmentPackets(r, count)[k]
        PROVE  SentOK(pk)'
    <3>1. pk =
            [reliability |-> r,
             messageIndex |-> 0,
             sequenceIndex |-> IF IsSequenced(r) THEN sequenceIndex ELSE 0,
             orderIndex |-> IF IsSequencedOrOrdered(r) THEN orderIndex ELSE 0,
             splitCount |-> IF count > 1 THEN count ELSE 0,
             splitIndex |-> IF count > 1 THEN k - 1 ELSE 0,
             splitID |-> IF count > 1 THEN splitID % SplitSpace ELSE 0,
             fragment |-> [w |-> w, i |-> k - 1]]
      BY <2>1 DEF FragmentPackets
    <3>2. /\ pk.reliability = r /\ pk.fragment.w = w
          /\ pk.fragment.i = k - 1
          /\ pk.orderIndex = IF IsSequencedOrOrdered(r) THEN orderIndex ELSE 0
          /\ pk.splitCount = IF count > 1 THEN count ELSE 0
          /\ pk.splitIndex = IF count > 1 THEN k - 1 ELSE 0
          /\ pk.splitID = IF count > 1 THEN splitID % SplitSpace ELSE 0
      BY <3>1
    <3> HIDE DEF w
    <3>3. Genuine(pk)'
      BY <1>2, <1>5, <1>6, <3>2 DEF Genuine, IsSplit
    <3>4. OrderIndexIs(pk, LogIndex(pk))'
      BY <1>5, <1>6, <3>2 DEF OrderIndexIs, LogIndex
    <3> QED BY <3>3, <3>4 DEF SentOK
  <2>2. \A k \in DOMAIN toWrite' : SentOK(toWrite[k])'
    <3>1. DOMAIN toWrite' = 1..count
      BY <1>3 DEF FragmentPackets
    <3> QED BY <1>3, <2>1, <3>1
  <2>3. /\ \A k \in DOMAIN ccPending' : SentOK(ccPending[k])'
        /\ \A s \in DOMAIN unacknowledged' : SentOK(unacknowledged[s])'
        /\ \A d \in datagrams' : ArrivedOK(d.pk)'
    BY <1>3, SentGrows, ArrivedGrows DEF PacketsGenuine
  <2> QED BY <2>2, <2>3 DEF PacketsGenuine
<1>8. LogOK'
  <2>1. \A v \in DOMAIN log :
          /\ log[v].orderIndex \in Nat /\ log[v].splitID \in Nat
          /\ log[v].count \in Nat
    <3>1. \A v \in DOMAIN log : log[v] \in WriteRecords
      BY <1>1
    <3> QED BY <3>1 DEF WriteRecords
  <2> HIDE DEF w
  <2>2. /\ rec.reliability = r /\ rec.count = count
        /\ rec.orderIndex = orderIndex /\ rec.splitID = splitID
    BY <1>6
  <2>3. ASSUME NEW v \in DOMAIN log', IsSequencedOrOrdered(log'[v].reliability)
        PROVE  /\ log'[v].orderIndex < orderIndex'
               /\ \A u \in DOMAIN log' :
                    /\ IsSequencedOrOrdered(log'[u].reliability)
                    /\ log'[u].orderIndex = log'[v].orderIndex
                    => u = v
    <3>1. \A u \in DOMAIN log : IsSequencedOrOrdered(log[u].reliability)
                               => log[u].orderIndex < orderIndex
      BY DEF LogOK
    <3>2. /\ orderIndex' \in Nat /\ orderIndex \in Nat
          /\ orderIndex' >= orderIndex
          /\ IsSequencedOrOrdered(r) => orderIndex' = orderIndex + 1
      BY <1>1, <1>4
    <3>3. \A u \in DOMAIN log' :
             \/ u \in DOMAIN log /\ log'[u] = log[u]
             \/ u = w /\ log'[u] = rec
      BY <1>5, <1>6
    <3>4. log'[v].orderIndex < orderIndex'
      BY <2>1, <2>2, <2>3, <3>1, <3>2, <3>3
    <3>5. ASSUME NEW u \in DOMAIN log',
                 IsSequencedOrOrdered(log'[u].reliability),
                 log'[u].orderIndex = log'[v].orderIndex
          PROVE  u = v
      BY <2>1, <2>2, <2>3, <3>1, <3>2, <3>3, <3>5 DEF LogOK
    <3> QED BY <3>4, <3>5
  <2>4. ASSUME NEW v \in DOMAIN log', log'[v].count > 1
        PROVE  /\ log'[v].splitID < splitID'
               /\ \A u \in DOMAIN log' :
                    log'[u].count > 1 /\ log'[u].splitID = log'[v].splitID
                    => u = v
    <3>1. \A u \in DOMAIN log : log[u].count > 1 => log[u].splitID < splitID
      BY DEF LogOK
    <3>2. /\ splitID' \in Nat /\ splitID \in Nat
          /\ splitID' >= splitID
          /\ count > 1 => splitID' = splitID + 1
      BY <1>1, <1>4
    <3>3. \A u \in DOMAIN log' :
             \/ u \in DOMAIN log /\ log'[u] = log[u]
             \/ u = w /\ log'[u] = rec
      BY <1>5, <1>6
    <3>4. log'[v].splitID < splitID'
      BY <2>1, <2>2, <2>4, <3>1, <3>2, <3>3
    <3>5. ASSUME NEW u \in DOMAIN log', log'[u].count > 1,
                 log'[u].splitID = log'[v].splitID
          PROVE  u = v
      BY <2>1, <2>2, <2>4, <3>1, <3>2, <3>3, <3>5 DEF LogOK
    <3> QED BY <3>4, <3>5
  <2> QED BY <2>3, <2>4 DEF LogOK
<1> QED BY <1>7, <1>8

\* The indices of the log change with BeginWrite only.
LEMMA LogUnchanged ==
  ASSUME LogOK, UNCHANGED <<log, orderIndex, splitID>>
  PROVE  LogOK'
BY DEF LogOK

\* The packets of the sender are genuine after each of its steps.
LEMMA SenderGenuine ==
  ASSUME TypeInv, TypeInv', PacketsGenuine, LogOK, LogGrows, SenderStep
  PROVE  PacketsGenuine' /\ LogOK'
<1> USE DEF indices, budgets, nackVars, loopVars
<1>1. /\ \A k \in DOMAIN toWrite : SentOK(toWrite[k])
      /\ \A k \in DOMAIN ccPending : SentOK(ccPending[k])
      /\ \A s \in DOMAIN unacknowledged : SentOK(unacknowledged[s])
      /\ \A d \in datagrams : ArrivedOK(d.pk)
  BY DEF PacketsGenuine
<1>2. /\ toWrite \in Seq(Packets) /\ ccPending \in Seq(Packets)
      /\ \A s \in DOMAIN unacknowledged : unacknowledged[s] \in Packets
      /\ sendBudget \in Nat
  BY DEF TypeInv, TypeOK, SenderTypeOK
<1>3. ASSUME NEW q \in Seq(Packets), q # <<>>,
             \A k \in DOMAIN q : SentOK(q[k])
      PROVE  /\ Head(q) \in Packets /\ SentOK(Head(q))
             /\ \A k \in DOMAIN Tail(q) : SentOK(Tail(q)[k])
  <2>1. 1 \in DOMAIN q /\ Head(q) = q[1] /\ q[1] \in Packets
    BY <1>3
  <2>2. \A k \in DOMAIN Tail(q) : k + 1 \in DOMAIN q /\ Tail(q)[k] = q[k + 1]
    BY <1>3
  <2> QED BY <1>3, <2>1, <2>2
<1>4. CASE \E r \in WriteKinds, length \in Lengths : BeginWrite(r, length)
  BY <1>4, BeginWriteGenuine
<1>5. CASE WriteUnreliable
  <2>1. \A d \in datagrams' : ArrivedOK(d.pk)
    BY <1>1, <1>2, <1>3, <1>5, TransmitGenuine DEF WriteUnreliable
  <2>2. \A k \in DOMAIN toWrite' : SentOK(toWrite'[k])
    BY <1>1, <1>2, <1>3, <1>5 DEF WriteUnreliable
  <2>3. UNCHANGED <<ccPending, unacknowledged, log, orderIndex, splitID>>
    BY <1>5 DEF WriteUnreliable
  <2> QED BY <1>1, <2>1, <2>2, <2>3, PacketsMove, LogUnchanged
<1>6. CASE WriteReliable
  <2> DEFINE pk == [Head(toWrite) EXCEPT !.messageIndex = messageIndex]
  <2>1. Head(toWrite) \in Packets /\ SentOK(Head(toWrite))
        /\ \A k \in DOMAIN Tail(toWrite) : SentOK(Tail(toWrite)[k])
    BY <1>1, <1>2, <1>3, <1>6 DEF WriteReliable
  <2>2. pk \in Packets
    BY <2>1, SenderTypes DEF Packets
  <2>3. SentOK(pk)
    BY <2>1, SentRenumbered
  <2> HIDE DEF pk
  <2>4. UNCHANGED <<log, orderIndex, splitID>>
    BY <1>6 DEF WriteReliable
  <2>5. CASE /\ SendDatagram(pk, unacknowledged)
             /\ toWrite' = IF socket = "open" THEN Tail(toWrite) ELSE <<>>
             /\ UNCHANGED ccPending
    <3>1. /\ \A d \in datagrams' : ArrivedOK(d.pk)
          /\ \A s \in DOMAIN unacknowledged' : SentOK(unacknowledged'[s])
      BY <2>2, <2>3, <2>5, SendGenuine
    <3>2. \A k \in DOMAIN toWrite' : SentOK(toWrite'[k])
      BY <2>1, <2>5
    <3> QED BY <1>1, <2>4, <2>5, <3>1, <3>2, PacketsMove, LogUnchanged
  <2>6. CASE /\ ccPending' = Append(ccPending, pk)
             /\ toWrite' = Tail(toWrite)
             /\ UNCHANGED <<unacknowledged, datagrams>>
    <3>1. \A k \in DOMAIN ccPending' : SentOK(ccPending'[k])
      BY <1>1, <1>2, <2>3, <2>6
    <3>2. \A k \in DOMAIN toWrite' : SentOK(toWrite'[k])
      BY <2>1, <2>6
    <3> QED BY <1>1, <2>4, <2>6, <3>1, <3>2, PacketsMove, LogUnchanged
  <2> QED BY <1>6, <2>5, <2>6 DEF WriteReliable, pk
<1>7. CASE FlushSend
  <2>1. Head(ccPending) \in Packets /\ SentOK(Head(ccPending))
        /\ \A k \in DOMAIN Tail(ccPending) : SentOK(Tail(ccPending)[k])
    BY <1>1, <1>2, <1>3, <1>7 DEF FlushSend, CanFlush
  <2>2. /\ \A d \in datagrams' : ArrivedOK(d.pk)
        /\ \A s \in DOMAIN unacknowledged' : SentOK(unacknowledged'[s])
    BY <1>7, <2>1, SendGenuine DEF FlushSend
  <2>3. \A k \in DOMAIN ccPending' : SentOK(ccPending'[k])
    BY <1>1, <1>7, <2>1 DEF FlushSend
  <2>4. UNCHANGED <<toWrite, log, orderIndex, splitID>>
    BY <1>7 DEF FlushSend
  <2> QED BY <1>1, <2>2, <2>3, <2>4, PacketsMove, LogUnchanged
<1>8. CASE \E next \in {"idle", "checkResend"} : Resend(next)
  <2> DEFINE s == Head(ccNackQueue)
             rest == Without(unacknowledged, s)
  <2>1. /\ SendDatagram(unacknowledged[s], rest)
        /\ s \in DOMAIN unacknowledged
        /\ UNCHANGED <<toWrite, ccPending, log, orderIndex, splitID>>
    BY <1>8 DEF Resend
  <2>2. /\ DOMAIN rest \subseteq DOMAIN unacknowledged
        /\ \A t \in DOMAIN rest : rest[t] = unacknowledged[t]
    BY DEF Without
  <2> HIDE DEF s, rest
  <2>3. /\ \A d \in datagrams' : ArrivedOK(d.pk)
        /\ \A t \in DOMAIN unacknowledged' : SentOK(unacknowledged'[t])
    BY <1>1, <1>2, <2>1, <2>2, SendGenuine
  <2> QED BY <1>1, <2>1, <2>3, PacketsMove, LogUnchanged
<1>9. CASE UNCHANGED <<toWrite, ccPending, unacknowledged, datagrams, log,
                       orderIndex, splitID>>
  BY <1>1, <1>9, PacketsMove, LogUnchanged
<1>10. CASE EndWrite \/ FlushSendDone \/ SkipResend \/ EndEnqueue \/ CloseSocket
  BY <1>9, <1>10
  DEF EndWrite, FlushSendDone, SkipResend, EndEnqueue, CloseSocket
<1>11. CASE \E sb, rb \in 0..MaxBudget : TickLock(sb, rb)
  BY <1>9, <1>11 DEF TickLock
<1>12. CASE \E next \in {"idle", "checkResend"} : FlushResendDone(next)
  BY <1>9, <1>12 DEF FlushResendDone
<1>13. CASE \E old \in SUBSET MayTimeOut : CheckResend(old)
  BY <1>9, <1>13 DEF CheckResend
<1>14. CASE \E s \in toEnqueue : EnqueueResend(s)
  BY <1>9, <1>14 DEF EnqueueResend
<1> QED
  BY <1>4, <1>5, <1>6, <1>7, <1>8, <1>10, <1>11, <1>12, <1>13, <1>14
  DEF SenderStep

\* The packets of the sender and of the network are genuine after every step.
LEMMA NextGenuine ==
  ASSUME TypeInv, TypeInv', PacketsGenuine, LogOK, LogGrows, [Next]_vars
  PROVE  PacketsGenuine' /\ LogOK'
<1> USE DEF indices, budgets, nackVars, loopVars, senderVars
<1>1. CASE SenderStep
  BY <1>1, SenderGenuine
<1>2. ASSUME UNCHANGED <<toWrite, ccPending, log, orderIndex, splitID>>,
             datagrams' \subseteq datagrams,
             DOMAIN unacknowledged' \subseteq DOMAIN unacknowledged,
             \A s \in DOMAIN unacknowledged' :
               unacknowledged'[s] = unacknowledged[s]
      PROVE  PacketsGenuine' /\ LogOK'
  BY <1>2, PacketsMove, LogUnchanged DEF PacketsGenuine
<1>3. CASE ReceiveReply
  BY <1>2, <1>3 DEF ReceiveReply, HandleACK, HandleNACK
<1>4. CASE LoseDatagram
  BY <1>2, <1>4 DEF LoseDatagram
<1>5. CASE UNCHANGED senderVars
  BY <1>2, <1>5
<1> QED BY <1>1, <1>3, <1>4, <1>5 DEF Next, vars, LoseReply
-----------------------------------------------------------------------------
QueueContent ==
  \A i \in DOMAIN packetQueue.queue :
    IsOrderedWrite(i + 1, packetQueue.queue[i])

DeliveredContent ==
  \A k \in DOMAIN delivered["ReliableOrdered"] :
    IsOrderedWrite(k, delivered["ReliableOrdered"][k])

\* What was an ordered write of the log is one of a longer log.
LEMMA OrderedGrows ==
  ASSUME LogGrows, NEW k, NEW c, IsOrderedWrite(k, c)
  PROVE  IsOrderedWrite(k, c)'
BY DEF LogGrows, IsOrderedWrite

\* Length, domain and elements of a concatenation.
LEMMA Concatenation ==
  ASSUME NEW S, NEW s \in Seq(S), NEW t \in Seq(S)
  PROVE  /\ Len(s \o t) = Len(s) + Len(t)
         /\ DOMAIN (s \o t) = 1..(Len(s) + Len(t))
         /\ \A k \in 1..(Len(s) + Len(t)) :
              (s \o t)[k] = IF k <= Len(s) THEN s[k] ELSE t[k - Len(s)]
OBVIOUS

\* put and fetch hand the right write over at each place.
LEMMA OrderedStep ==
  ASSUME PacketStateOK, NEW d \in Datagrams, NEW content \in Contents,
         ReceiveReliableOrdered(d, content), DeliveredUpToLowest
  PROVE  /\ DeliveredUpToLowest'
         /\ /\ LogGrows /\ QueueContent /\ DeliveredContent
            /\ IsOrderedWrite(d.pk.orderIndex + 1, content)
            => QueueContent' /\ DeliveredContent'
<1> DEFINE index == d.pk.orderIndex
           q == Put(packetQueue, index, content)
           before == delivered["ReliableOrdered"]
<1>1. index \in Nat
  BY DEF Datagrams, Packets
<1>2. "ReliableOrdered" \in Reliabilities /\ before \in Seq(Contents)
  BY DEF PacketStateOK, Reliabilities
<1>3. CASE UNCHANGED <<packetQueue, delivered>>
  BY <1>3, OrderedGrows
  DEF DeliveredUpToLowest, QueueContent, DeliveredContent
<1>4. ASSUME ~Occupied(packetQueue, index)
      PROVE  /\ QueueOK(q) /\ q.lowest \in Nat /\ q.highest \in Nat
             /\ q.lowest = packetQueue.lowest
             /\ DOMAIN q.queue = DOMAIN packetQueue.queue \cup {index}
             /\ \A i \in DOMAIN q.queue :
                  q.queue[i] = IF i = index THEN content
                                            ELSE packetQueue.queue[i]
             /\ DOMAIN q.queue \subseteq Nat
  <2>1. /\ QueueOK(q) /\ q.lowest \in Nat /\ q.highest \in Nat
    BY <1>1, <1>4, PutOK DEF PacketStateOK
  <2> QED BY <1>1, <2>1 DEF PacketStateOK, Put
<1>5. ASSUME ~Occupied(packetQueue, index),
             QueueContent, IsOrderedWrite(index + 1, content)
      PROVE  \A i \in DOMAIN q.queue : IsOrderedWrite(i + 1, q.queue[i])
  BY <1>4, <1>5 DEF QueueContent
<1> HIDE DEF q, index, before
<1>6. CASE /\ ~Occupied(packetQueue, index)
           /\ packetQueue' = q /\ UNCHANGED delivered
  <2>1. DeliveredUpToLowest'
    BY <1>4, <1>6 DEF DeliveredUpToLowest
  <2>2. ASSUME LogGrows, QueueContent, DeliveredContent,
               IsOrderedWrite(index + 1, content)
        PROVE  QueueContent' /\ DeliveredContent'
    BY <1>5, <1>6, <2>2, OrderedGrows DEF QueueContent, DeliveredContent
  <2> QED BY <2>1, <2>2 DEF index
<1>7. CASE /\ ~Occupied(packetQueue, index)
           /\ packetQueue' = AfterFetch(q)
           /\ HandlePackets("ReliableOrdered", Fetched(q))
  <2> DEFINE fetched == Fetched(q)
             count == FetchEnd(q) - q.lowest
  <2>1. /\ FetchEnd(q) \in Nat /\ q.lowest <= FetchEnd(q)
        /\ \A i \in q.lowest..(FetchEnd(q) - 1) : i \in DOMAIN q.queue
    BY <1>4, <1>7, FetchOK
  <2>2. /\ count \in Nat /\ q.lowest \in Nat
        /\ q.lowest + count = FetchEnd(q)
        /\ q.lowest + count \in Nat
    BY <1>4, <1>7, <2>1
  <2>3. /\ fetched \in Seq(Contents)
        /\ Len(fetched) = count
        /\ \A i \in 1..count :
             /\ fetched[i] = q.queue[q.lowest + i - 1]
             /\ q.lowest + i - 1 \in DOMAIN q.queue
    <3>1. \A i \in 1..count : q.lowest + i - 1 \in DOMAIN q.queue
      BY <1>4, <1>7, <2>1
    <3>2. \A i \in DOMAIN q.queue : q.queue[i] \in Contents
      BY <1>4, <1>7 DEF PacketStateOK
    <3> QED BY <2>2, <3>1, <3>2 DEF Fetched
  <2>4. delivered'["ReliableOrdered"] = before \o fetched
    BY <1>2, <1>7 DEF HandlePackets, PacketStateOK, before
  <2>5. Len(before) = q.lowest
    BY <1>4, <1>7 DEF DeliveredUpToLowest, before
  <2> HIDE DEF fetched, count
  <2>6. /\ Len(before \o fetched) = q.lowest + count
        /\ DOMAIN (before \o fetched) = 1..(q.lowest + count)
        /\ \A k \in 1..(q.lowest + count) :
             (before \o fetched)[k] =
               IF k <= q.lowest THEN before[k] ELSE fetched[k - q.lowest]
    <3>1. /\ Len(before \o fetched) = Len(before) + Len(fetched)
          /\ DOMAIN (before \o fetched) = 1..(Len(before) + Len(fetched))
          /\ \A k \in 1..(Len(before) + Len(fetched)) :
               (before \o fetched)[k] =
                 IF k <= Len(before) THEN before[k]
                                     ELSE fetched[k - Len(before)]
      BY <1>2, <2>3, Concatenation, Zenon
    <3>2. Len(before) = q.lowest /\ Len(fetched) = count
      BY <2>3, <2>5
    <3> QED BY <3>1, <3>2, Zenon
  <2>7. DeliveredUpToLowest'
    BY <1>7, <2>2, <2>4, <2>6 DEF DeliveredUpToLowest, AfterFetch
  <2>8. ASSUME LogGrows, QueueContent, DeliveredContent,
               IsOrderedWrite(index + 1, content)
        PROVE  QueueContent' /\ DeliveredContent'
    <3>1. \A i \in DOMAIN q.queue : IsOrderedWrite(i + 1, q.queue[i])
      BY <1>5, <1>7, <2>8
    <3>2. QueueContent'
      BY <1>7, <3>1, <2>8, OrderedGrows DEF QueueContent, AfterFetch
    <3>3. ASSUME NEW k \in 1..(q.lowest + count)
          PROVE  IsOrderedWrite(k, (before \o fetched)[k])
      <4>1. CASE k <= q.lowest
        <5>1. k \in DOMAIN before /\ (before \o fetched)[k] = before[k]
          BY <1>2, <1>4, <1>7, <2>2, <2>5, <2>6, <4>1
        <5> QED BY <2>8, <5>1 DEF DeliveredContent, before
      <4>2. CASE k > q.lowest
        <5>1. q.lowest \in Nat /\ k \in Nat
          BY <1>4, <1>7, <2>2
        <5>2. /\ k - q.lowest \in 1..count
              /\ q.lowest + (k - q.lowest) - 1 = k - 1
              /\ (k - 1) + 1 = k
          BY <2>2, <4>2, <5>1
        <5>3. (before \o fetched)[k] = q.queue[k - 1] /\ k - 1 \in DOMAIN q.queue
          <6>1. (before \o fetched)[k] = fetched[k - q.lowest]
            BY <2>6, <4>2, <5>1
          <6>2. /\ fetched[k - q.lowest] = q.queue[q.lowest + (k - q.lowest) - 1]
                /\ q.lowest + (k - q.lowest) - 1 \in DOMAIN q.queue
            BY <2>3, <5>2
          <6> QED BY <5>2, <6>1, <6>2
        <5> QED BY <3>1, <5>2, <5>3
      <4>3. k <= q.lowest \/ k > q.lowest
        BY <2>2
      <4> QED BY <4>1, <4>2, <4>3
    <3>4. DeliveredContent'
      BY <2>4, <2>6, <2>8, <3>3, OrderedGrows DEF DeliveredContent
    <3> QED BY <3>2, <3>4
  <2> QED BY <2>7, <2>8 DEF index
<1> QED BY <1>3, <1>6, <1>7 DEF ReceiveReliableOrdered, q, index
-----------------------------------------------------------------------------
\* What the fragments collected for the write of pk are.
LEMMA CollectedGenuine ==
  ASSUME TypeInv, NoWrap, LogOK, \A id \in DOMAIN splits : SplitOK(id),
         NEW pk \in Packets, ArrivedOK(pk), IsSplit(pk)
  PROVE  LET w == pk.fragment.w
             m == Collected(pk)
         IN  /\ w \in DOMAIN log /\ log[w].count > 1
             /\ pk.splitID = log[w].splitID
             /\ Len(m) = log[w].count /\ DOMAIN m = 1..Len(m)
             /\ \A k \in DOMAIN m : m[k] \in {NoFragment, [w |-> w, i |-> k - 1]}
<1> DEFINE w == pk.fragment.w
           f == pk.fragment
           count == log[w].count
           old == IF pk.splitID \in DOMAIN splits THEN splits[pk.splitID]
                  ELSE [k \in 1..pk.splitCount |-> NoFragment]
<1>1. /\ f \in Fragments /\ f.w \in Nat /\ f.i \in Nat
      /\ f = [w |-> f.w, i |-> f.i]
      /\ pk.splitCount \in Nat
  BY DEF Packets, Fragments
<1>2. /\ log \in Seq(WriteRecords) /\ splitID \in Nat
      /\ splits \in [DOMAIN splits -> Contents]
  BY DEF TypeInv, TypeOK, SenderTypeOK, ReceiverTypeOK
<1>3. /\ w \in DOMAIN log /\ f.i < count /\ count > 1
      /\ pk.splitCount = count /\ pk.splitIndex = f.i
      /\ pk.splitID = log[w].splitID % SplitSpace
  BY DEF ArrivedOK, Genuine
<1>4. log[w] \in WriteRecords
  BY <1>2, <1>3
<1>5. log[w].splitID \in Nat /\ count \in Nat
  BY <1>4 DEF WriteRecords
<1>6. log[w].splitID < SplitSpace
  <2>1. log[w].splitID < splitID
    BY <1>3 DEF LogOK
  <2> QED BY <1>2, <1>5, <2>1, SplitSpaceAssumption DEF NoWrap
<1>7. pk.splitID = log[w].splitID
  BY <1>3, <1>5, <1>6, SplitSpaceAssumption
<1>8. /\ old \in Seq(Fragments) /\ Len(old) = count
      /\ \A k \in 1..count : old[k] \in {NoFragment, [w |-> w, i |-> k - 1]}
  <2>1. CASE pk.splitID \in DOMAIN splits
    <3>1. PICK v \in DOMAIN log :
            /\ log[v].count > 1
            /\ log[v].splitID = pk.splitID
            /\ Len(splits[pk.splitID]) = log[v].count
            /\ \A k \in DOMAIN splits[pk.splitID] :
                 splits[pk.splitID][k] \in {NoFragment, [w |-> v, i |-> k - 1]}
      BY <2>1 DEF SplitOK
    <3>2. v = w
      BY <1>3, <1>7, <3>1 DEF LogOK
    <3>3. splits[pk.splitID] \in Seq(Fragments)
      BY <1>2, <2>1 DEF Contents
    <3>4. DOMAIN splits[pk.splitID] = 1..count
      BY <3>1, <3>2, <3>3
    <3> QED BY <2>1, <3>1, <3>2, <3>3, <3>4
  <2>2. CASE pk.splitID \notin DOMAIN splits
    <3>1. NoFragment \in Fragments
      BY DEF NoFragment, Fragments
    <3> QED BY <1>3, <1>5, <2>2, <3>1
  <2> QED BY <2>1, <2>2
<1>9. Collected(pk) = [old EXCEPT ![pk.splitIndex + 1] = f]
  BY DEF Collected
<1> HIDE DEF old, count, f
<1>10. old \in [1..count -> Fragments]
  BY <1>8
<1> DEFINE m == Collected(pk)
<1>11. m \in [1..count -> Fragments]
  BY <1>1, <1>9, <1>10
<1>12. m \in Seq(Fragments) /\ Len(m) = count /\ DOMAIN m = 1..count
  BY <1>5, <1>11
<1>13. ASSUME NEW k \in 1..count
       PROVE  m[k] \in {NoFragment, [w |-> w, i |-> k - 1]}
  <2>1. CASE k = f.i + 1
    <3>1. m[k] = f
      BY <1>3, <1>9, <1>10, <2>1
    <3>2. f.i = k - 1
      BY <1>1, <2>1
    <3> QED BY <1>1, <3>1, <3>2 DEF f
  <2>2. CASE k # f.i + 1
    <3>1. m[k] = old[k]
      BY <1>3, <1>9, <1>10, <2>2
    <3> QED BY <1>8, <3>1
  <2> QED BY <2>1, <2>2
<1> HIDE DEF m
<1> QED BY <1>3, <1>7, <1>12, <1>13 DEF m, count

\* Complete, they are the write.
LEMMA CompleteIsWrite ==
  ASSUME NEW m, NEW w \in Nat, NEW count \in Nat, DOMAIN m = 1..count,
         m \in Seq(Fragments), count > 0,
         \A k \in 1..count : m[k] \in {NoFragment, [w |-> w, i |-> k - 1]},
         \A k \in 1..count : m[k] # NoFragment
  PROVE  m = Content(w, count)
<1>1. \A k \in 1..count : m[k] = [w |-> w, i |-> k - 1]
  OBVIOUS
<1>2. m = [k \in 1..count |-> m[k]]
  OBVIOUS
<1> QED BY <1>1, <1>2 DEF Content

\* The content of an ordered packet that arrived is the one of its write.
LEMMA ArrivedIsOrderedWrite ==
  ASSUME TypeInv, NoWrap, LogOK, NEW pk \in Packets, ArrivedOK(pk),
         pk.reliability = "ReliableOrdered",
         NEW content,
         content = Content(pk.fragment.w, log[pk.fragment.w].count)
  PROVE  IsOrderedWrite(pk.orderIndex + 1, content)
<1> DEFINE w == pk.fragment.w
<1>1. w \in DOMAIN log /\ log[w].reliability = "ReliableOrdered"
      /\ pk.orderIndex = OnWire(log[w].orderIndex)
  BY DEF ArrivedOK, Genuine, OrderIndexIs, LogIndex, IsSequencedOrOrdered
<1>2. log[w] \in WriteRecords /\ orderIndex \in Nat
  BY <1>1 DEF TypeInv, TypeOK, SenderTypeOK
<1>3. log[w].orderIndex \in Nat
  BY <1>2 DEF WriteRecords
<1>4. log[w].orderIndex < orderIndex
  BY <1>1 DEF LogOK, IsSequencedOrOrdered
<1>5. log[w].orderIndex < IndexSpace
  BY <1>2, <1>3, <1>4, IndexSpaceAssumption DEF NoWrap
<1>6. pk.orderIndex = log[w].orderIndex
  BY <1>1, <1>3, <1>5, OnWireOK
<1> QED BY <1>1, <1>3, <1>6 DEF IsOrderedWrite

\* A step that leaves the ordered packets alone.
LEMMA OrderedUnchanged ==
  ASSUME DeliveredUpToLowest, LogGrows, UNCHANGED packetQueue,
         delivered'["ReliableOrdered"] = delivered["ReliableOrdered"]
  PROVE  /\ DeliveredUpToLowest'
         /\ QueueContent /\ DeliveredContent => QueueContent' /\ DeliveredContent'
BY OrderedGrows DEF DeliveredUpToLowest, QueueContent, DeliveredContent

\* receivePacket hands over ordered packets that are the right writes.
LEMMA ReceivePacketContent ==
  ASSUME PacketStateOK, NEW d \in Datagrams, NEW content \in Contents,
         ReceivePacket(d, content), DeliveredUpToLowest, LogGrows
  PROVE  /\ DeliveredUpToLowest'
         /\ /\ QueueContent /\ DeliveredContent
            /\ d.pk.reliability = "ReliableOrdered" =>
                 IsOrderedWrite(d.pk.orderIndex + 1, content)
            => QueueContent' /\ DeliveredContent'
<1>1. CASE /\ d.pk.reliability = "ReliableOrdered"
           /\ ReceiveReliableOrdered(d, content)
  BY <1>1, OrderedStep
<1>2. ASSUME NEW r \in Reliabilities, r # "ReliableOrdered",
             \/ HandlePackets(r, <<content>>) \/ UNCHANGED delivered,
             UNCHANGED packetQueue
      PROVE  /\ DeliveredUpToLowest'
             /\ QueueContent /\ DeliveredContent
                  => QueueContent' /\ DeliveredContent'
  <2>1. delivered'["ReliableOrdered"] = delivered["ReliableOrdered"]
    BY <1>2 DEF HandlePackets, PacketStateOK, Reliabilities
  <2> QED BY <1>2, <2>1, OrderedUnchanged
<1> USE DEF Reliabilities
<1>3. CASE ReceiveUnreliable(d, content)
  BY <1>2, <1>3 DEF ReceiveUnreliable
<1>4. CASE ReceiveReliable(d, content)
  BY <1>2, <1>4 DEF ReceiveReliable
<1>5. CASE ReceiveUnreliableSequenced(d, content)
  BY <1>2, <1>5 DEF ReceiveUnreliableSequenced
<1>6. CASE ReceiveReliableSequenced(d, content)
  BY <1>2, <1>6 DEF ReceiveReliableSequenced
<1> QED BY <1>1, <1>3, <1>4, <1>5, <1>6 DEF ReceivePacket

\* An entry of splits that matches the log matches a longer log.
LEMMA SplitGrows ==
  ASSUME LogGrows, NEW id \in DOMAIN splits, SplitOK(id),
         splits'[id] = splits[id]
  PROVE  SplitOK(id)'
BY DEF LogGrows, SplitOK

SplitsContent == \A id \in DOMAIN splits : SplitOK(id)

\* handleDatagram keeps reassembly, queue and what was handed over right.
LEMMA HandleDatagramContent ==
  ASSUME TypeInv, LogOK, LogGrows, DeliveredUpToLowest,
         NEW d \in Datagrams, ArrivedOK(d.pk), HandleDatagram(d)
  PROVE  /\ DeliveredUpToLowest'
         /\ NoWrap /\ SplitsContent /\ QueueContent /\ DeliveredContent
            => SplitsContent' /\ QueueContent' /\ DeliveredContent'
<1> DEFINE pk == d.pk
           w == pk.fragment.w
           count == log[w].count
           m == Collected(pk)
<1>1. /\ pk \in Packets /\ pk.splitCount \in Nat /\ pk.fragment \in Fragments
      /\ <<pk.fragment>> \in Contents
  BY DEF Datagrams, Packets, Contents
<1>2. PacketStateOK /\ splits \in [DOMAIN splits -> Contents]
  BY DEF PacketStateOK, TypeInv, TypeOK, ReceiverTypeOK
<1>3. m \in Contents
  BY <1>1, <1>2, CollectedOK
<1>4. w \in DOMAIN log /\ w \in Nat /\ count \in Nat \ {0}
  <2>1. w \in DOMAIN log
    BY DEF ArrivedOK, Genuine
  <2>2. log \in Seq(WriteRecords)
    BY DEF TypeInv, TypeOK, SenderTypeOK
  <2>3. log[w] \in WriteRecords
    BY <2>1, <2>2
  <2> QED BY <2>1, <2>2, <2>3 DEF WriteRecords
<1>5. ASSUME NEW content \in Contents, ReceivePacket(d, content)
      PROVE  /\ DeliveredUpToLowest'
             /\ /\ NoWrap /\ QueueContent /\ DeliveredContent
                /\ content = Content(w, count)
                => QueueContent' /\ DeliveredContent'
  <2>1. ASSUME NoWrap, content = Content(w, count),
               pk.reliability = "ReliableOrdered"
        PROVE  IsOrderedWrite(pk.orderIndex + 1, content)
    BY <1>1, <2>1, ArrivedIsOrderedWrite
  <2> QED BY <1>2, <1>5, <2>1, ReceivePacketContent
<1> HIDE DEF m
<1>6. CASE /\ ~IsSplit(pk) /\ ReceivePacket(d, <<pk.fragment>>)
           /\ UNCHANGED splits
  <2>1. <<pk.fragment>> = Content(w, count)
    <3>1. ~(count > 1) /\ pk.fragment.i < count
      BY <1>6 DEF ArrivedOK, Genuine
    <3>2. count = 1 /\ pk.fragment.i = 0
      BY <1>1, <1>4, <3>1 DEF Fragments
    <3>3. pk.fragment = [w |-> w, i |-> 0]
      BY <1>1, <3>2 DEF Fragments
    <3> QED BY <3>2, <3>3 DEF Content
  <2>2. SplitsContent => SplitsContent'
    BY <1>6, SplitGrows DEF SplitsContent
  <2> QED BY <1>1, <1>5, <1>6, <2>1, <2>2
<1>7. CASE IsSplit(pk) /\ ReceiveSplitPacket(d)
  <2>1. ASSUME NoWrap, SplitsContent
        PROVE  /\ count > 1 /\ pk.splitID = log[w].splitID
               /\ Len(m) = count /\ DOMAIN m = 1..count
               /\ \A k \in DOMAIN m :
                    m[k] \in {NoFragment, [w |-> w, i |-> k - 1]}
    BY <1>1, <1>7, <2>1, CollectedGenuine DEF SplitsContent, m
  <2>2. CASE UNCHANGED <<splits, packetQueue, delivered>>
    <3>1. SplitsContent => SplitsContent'
      BY <2>2, SplitGrows DEF SplitsContent
    <3> QED BY <2>2, <3>1, OrderedUnchanged
  <2>3. CASE /\ splits' = [s \in DOMAIN splits \cup {pk.splitID} |->
                             IF s = pk.splitID THEN m ELSE splits[s]]
             /\ UNCHANGED <<packetQueue, delivered>>
    <3>1. ASSUME NoWrap, SplitsContent PROVE SplitsContent'
      <4> SUFFICES ASSUME NEW id \in DOMAIN splits' PROVE SplitOK(id)'
        BY DEF SplitsContent
      <4>1. CASE id = pk.splitID
        <5>1. splits'[id] = m
          BY <2>3, <4>1
        <5>2. w \in DOMAIN log' /\ log'[w] = log[w]
          BY <1>4 DEF LogGrows
        <5> HIDE DEF w
        <5> QED BY <2>1, <3>1, <4>1, <5>1, <5>2 DEF SplitOK
      <4>2. CASE id # pk.splitID
        BY <2>3, <3>1, <4>2, SplitGrows DEF SplitsContent
      <4> QED BY <4>1, <4>2
    <3> QED BY <2>3, <3>1, OrderedUnchanged
  <2>4. CASE /\ \A k \in DOMAIN m : m[k] # NoFragment
             /\ splits' = [s \in DOMAIN splits \ {pk.splitID} |-> splits[s]]
             /\ ReceivePacket(d, m)
    <3>1. ASSUME NoWrap, SplitsContent PROVE m = Content(w, count)
      <4>1. m \in Seq(Fragments)
        BY <1>3 DEF Contents
      <4>2. /\ w \in Nat /\ count \in Nat /\ count > 0
            /\ DOMAIN m = 1..count
            /\ \A k \in 1..count :
                 m[k] \in {NoFragment, [w |-> w, i |-> k - 1]}
            /\ \A k \in 1..count : m[k] # NoFragment
        BY <1>4, <2>1, <2>4, <3>1
      <4> HIDE DEF w, count
      <4> QED BY <4>1, <4>2, CompleteIsWrite
    <3>2. SplitsContent => SplitsContent'
      BY <2>4, SplitGrows DEF SplitsContent
    <3> QED BY <1>3, <1>5, <2>4, <3>1, <3>2
  <2> QED BY <1>7, <2>2, <2>3, <2>4 DEF ReceiveSplitPacket, m
<1> QED BY <1>6, <1>7 DEF HandleDatagram

\* Every step keeps the contents right.
LEMMA NextContent ==
  ASSUME TypeInv, TypeInv', ContentInv, [Next]_vars
  PROVE  ContentInv'
<1>1. LogGrows /\ CountersGrow
  BY NextGrows
<1>2. PacketsGenuine' /\ LogOK'
  BY <1>1, NextGenuine DEF ContentInv
<1>3. NoWrap' => NoWrap
  BY <1>1, NoWrapBefore
<1>4. /\ LogOK /\ PacketsGenuine /\ DeliveredUpToLowest
      /\ NoWrap => SplitsContent /\ QueueContent /\ DeliveredContent
  BY DEF ContentInv, ReassemblyOK, OrderedDelivery, SplitsContent,
         QueueContent, DeliveredContent
<1>5. /\ DeliveredUpToLowest'
      /\ NoWrap /\ SplitsContent /\ QueueContent /\ DeliveredContent
         => SplitsContent' /\ QueueContent' /\ DeliveredContent'
  <2>1. CASE UNCHANGED <<splits, packetQueue, delivered>>
    <3>1. SplitsContent => SplitsContent'
      BY <1>1, <2>1, SplitGrows DEF SplitsContent
    <3> QED BY <1>1, <1>4, <2>1, <3>1, OrderedUnchanged
  <2>2. CASE \E d \in datagrams : HandleDatagram(d)
    <3>1. PICK d \in datagrams : HandleDatagram(d)
      BY <2>2
    <3>2. d \in Datagrams /\ ArrivedOK(d.pk)
      BY <1>4 DEF TypeInv, TypeOK, SenderTypeOK, PacketsGenuine
    <3> QED BY <1>1, <1>4, <3>1, <3>2, HandleDatagramContent
  <2>3. CASE ReceiverStep
    BY <2>1, <2>2, <2>3
    DEF ReceiverStep, DropDatagram, ReceiveDatagram, FlushACKs, receiverVars
  <2> QED
    BY <2>1, <2>3 DEF Next, vars, receiverVars, LoseDatagram, LoseReply
<1>6. NoWrap' => SplitsContent' /\ QueueContent' /\ DeliveredContent'
  BY <1>3, <1>4, <1>5
<1> QED
  BY <1>2, <1>5, <1>6
  DEF ContentInv, ReassemblyOK, OrderedDelivery, SplitsContent, QueueContent,
      DeliveredContent

\* Wherever a fragment is, it is where it belongs: the inductive invariant
\* behind OrderedDelivery.
THEOREM ContentCorrect == Spec => []ContentInv
<1>1. Init => ContentInv
  BY InitContent
<1>2. TypeInv /\ TypeInv' /\ ContentInv /\ [Next]_vars => ContentInv'
  BY NextContent
<1> QED BY <1>1, <1>2, TypeCorrect, PTL DEF Spec

\* Ordered packets are handed over whole, in the order they were written,
\* once and with none left out, whatever the network does and whatever the
\* MTU, the lengths, the budgets and the limits are, until an index wraps.
THEOREM OrderedDeliveryHolds == Spec => []OrderedDelivery
<1>1. ContentInv => OrderedDelivery
  BY DEF ContentInv
<1> QED BY <1>1, ContentCorrect, PTL
-----------------------------------------------------------------------------
\* A new connection has nothing in flight and nothing to acknowledge.
LEMMA InitAck == Init => AckInv
BY DEF Init, SenderInit, ReceiverInit, AckInv, DatagramsMatch, AcksHandled,
       NothingForgotten

\* The records after a step: the ones before it, and maybe a new one.
RecordsMove ==
  \A s \in DOMAIN unacknowledged' :
    \/ s = seq /\ seq' = seq + 1
    \/ s \in DOMAIN unacknowledged /\ unacknowledged'[s] = unacknowledged[s]

NewDatagramsMatch ==
  NoWrap' =>
    \A d \in datagrams' \ datagrams :
      /\ d.seq = seq /\ seq' = seq + 1
      /\ d.seq \in DOMAIN unacknowledged' =>
           /\ IsReliable(d.pk.reliability)
           /\ d.pk.messageIndex = unacknowledged'[d.seq].messageIndex

\* A step that acknowledges nothing and moves records only by resending
\* keeps datagrams, records and ACKs in agreement.
LEMMA AckStep ==
  ASSUME TypeInv, TypeInv', CountersGrow, DatagramsMatch, AcksHandled,
         RecordsMove, NewDatagramsMatch,
         UNCHANGED <<ackSlice, received>>, replies' \subseteq replies
  PROVE  DatagramsMatch' /\ AcksHandled'
<1>1. NoWrap' => NoWrap
  BY NoWrapBefore
<1>2. /\ seq \in Nat /\ seq' \in Nat /\ seq <= seq'
      /\ \A d \in datagrams : d.seq \in Nat
  BY DEF TypeInv, TypeOK, SenderTypeOK, Datagrams, CountersGrow
<1>3. ASSUME NoWrap', NEW d \in datagrams'
      PROVE  /\ d.seq < seq'
             /\ d.seq \in DOMAIN unacknowledged' =>
                  /\ IsReliable(d.pk.reliability)
                  /\ d.pk.messageIndex = unacknowledged'[d.seq].messageIndex
  <2>1. CASE d \in datagrams
    <3>1. d.seq < seq
      BY <1>1, <1>3, <2>1 DEF DatagramsMatch
    <3>2. d.seq < seq' /\ d.seq # seq
      BY <1>2, <2>1, <3>1
    <3> QED BY <1>1, <1>3, <2>1, <3>2 DEF DatagramsMatch, RecordsMove
  <2>2. CASE d \notin datagrams
    BY <1>2, <1>3, <2>2 DEF NewDatagramsMatch
  <2> QED BY <2>1, <2>2
<1>4. ASSUME NEW s \in Nat, Handled(s) PROVE Handled(s)'
  <2>1. s < seq' /\ s # seq
    BY <1>2, <1>4 DEF Handled
  <2> QED BY <1>4, <2>1 DEF Handled, RecordsMove
<1>5. /\ \A s \in ackSlice : s \in Nat
      /\ \A r \in replies : \A s \in r.packets : s \in Nat
  BY DEF TypeInv, TypeOK, ReceiverTypeOK, Replies
<1>6. AcksHandled'
  BY <1>1, <1>4, <1>5 DEF AcksHandled
<1> QED BY <1>3, <1>6 DEF DatagramsMatch

\* sendDatagram: the datagram carries the packet of the new record.
LEMMA SendMatches ==
  ASSUME TypeInv, TypeInv', SenderInv, NEW pk \in Packets, NEW records,
         DOMAIN records \subseteq DOMAIN unacknowledged,
         \A s \in DOMAIN records : records[s] = unacknowledged[s],
         IsReliable(pk.reliability), pk.messageIndex < messageIndex',
         SendDatagram(pk, records)
  PROVE  RecordsMove /\ NewDatagramsMatch
<1>1. /\ seq' = seq + 1
      /\ DOMAIN unacknowledged' = DOMAIN records \cup {seq}
      /\ unacknowledged'[seq] = pk
      /\ \A s \in DOMAIN records : unacknowledged'[s] = unacknowledged[s]
  BY SendStep
<1>2. RecordsMove
  BY <1>1 DEF RecordsMove
<1>3. ASSUME NoWrap', NEW d \in datagrams' \ datagrams
      PROVE  /\ d.seq = seq
             /\ IsReliable(d.pk.reliability)
             /\ d.pk.messageIndex = pk.messageIndex
  <2>1. d = [seq |-> OnWire(seq), pk |-> OnWirePacket(pk)]
    BY <1>3 DEF SendDatagram, Transmit
  <2>2. /\ seq \in Nat /\ messageIndex' \in Nat /\ pk.messageIndex \in Nat
    BY DEF TypeInv, TypeOK, SenderTypeOK, Packets
  <2>3. seq < IndexSpace /\ pk.messageIndex < IndexSpace
    BY <1>1, <1>3, <2>2, IndexSpaceAssumption DEF NoWrap
  <2>4. OnWire(seq) = seq /\ OnWire(pk.messageIndex) = pk.messageIndex
    BY <2>2, <2>3, OnWireOK
  <2> QED BY <2>1, <2>4, OnWirePacketType
<1> QED BY <1>1, <1>2, <1>3 DEF NewDatagramsMatch

\* NothingForgotten for one message index.
LEMMA HeldOrReceived ==
  ASSUME NothingForgotten, NoWrap, TypeInv, NEW m \in Nat, m < messageIndex
  PROVE  Held(m) \/ m \in received
BY SenderTypes DEF NothingForgotten

\* queueOrSend: the new message index is held, by a record or by ccPending.
LEMMA WriteReliableAck ==
  ASSUME TypeInv, TypeInv', SenderInv, AckInv, WriteReliable,
         UNCHANGED receiverVars
  PROVE  AckInv'
<1> DEFINE pk == [Head(toWrite) EXCEPT !.messageIndex = messageIndex]
<1>1. messageIndex \in Nat /\ messageIndex' = messageIndex + 1
      /\ ccPending \in Seq(Packets) /\ seq \in Nat
  BY SenderTypes DEF WriteReliable
<1>2. Head(toWrite) \in Packets /\ IsReliable(Head(toWrite).reliability)
  <2>1. toWrite \in Seq(Packets) /\ toWrite # <<>>
    BY DEF WriteReliable, TypeInv, TypeOK, SenderTypeOK
  <2> QED BY <2>1 DEF WriteReliable
<1>3. /\ pk \in Packets /\ IsReliable(pk.reliability)
      /\ pk.messageIndex = messageIndex
  BY <1>1, <1>2 DEF Packets
<1> HIDE DEF pk
<1>4. LogGrows /\ CountersGrow
  BY SenderGrows DEF SenderStep, TypeInv, TypeOK
<1>5. UNCHANGED <<ackSlice, received, replies>>
  BY DEF receiverVars
<1>6. \/ /\ SendDatagram(pk, unacknowledged) /\ UNCHANGED ccPending
      \/ /\ ccPending' = Append(ccPending, pk)
         /\ UNCHANGED <<unacknowledged, datagrams>>
  BY DEF WriteReliable, pk
<1>7. RecordsMove /\ NewDatagramsMatch
  <2>1. CASE SendDatagram(pk, unacknowledged)
    BY <1>1, <1>3, <2>1, SendMatches
  <2>2. CASE UNCHANGED <<unacknowledged, datagrams>>
    BY <2>2 DEF RecordsMove, NewDatagramsMatch
  <2> QED BY <1>6, <2>1, <2>2
<1>8. DatagramsMatch' /\ AcksHandled'
  BY <1>4, <1>5, <1>7, AckStep DEF AckInv
<1>9. ASSUME NEW m \in Nat, Held(m) \/ m = messageIndex PROVE Held(m)'
  <2>1. CASE SendDatagram(pk, unacknowledged) /\ UNCHANGED ccPending
    <3>1. /\ seq \in DOMAIN unacknowledged' /\ unacknowledged'[seq] = pk
          /\ \A s \in DOMAIN unacknowledged :
               s \in DOMAIN unacknowledged' /\ unacknowledged'[s] = unacknowledged[s]
      BY <2>1, SendStep
    <3> QED BY <1>3, <1>9, <2>1, <3>1 DEF Held
  <2>2. CASE /\ ccPending' = Append(ccPending, pk)
             /\ UNCHANGED <<unacknowledged, datagrams>>
    <3>1. /\ Len(ccPending) + 1 \in DOMAIN ccPending'
          /\ ccPending'[Len(ccPending) + 1] = pk
          /\ \A k \in DOMAIN ccPending :
               k \in DOMAIN ccPending' /\ ccPending'[k] = ccPending[k]
      BY <1>1, <2>2
    <3> QED BY <1>3, <1>9, <2>2, <3>1 DEF Held
  <2> QED BY <1>6, <2>1, <2>2
<1>10. NothingForgotten'
  <2> SUFFICES ASSUME NoWrap', NEW m \in 0..(messageIndex' - 1)
               PROVE  Held(m)' \/ m \in received'
    BY DEF NothingForgotten
  <2>1. m \in Nat /\ (m < messageIndex \/ m = messageIndex)
    BY <1>1
  <2>2. NoWrap
    BY <1>4, NoWrapBefore
  <2>3. m < messageIndex => Held(m) \/ m \in received
    BY <2>1, <2>2, HeldOrReceived DEF AckInv
  <2> QED BY <1>5, <1>9, <2>1, <2>3
<1> QED BY <1>8, <1>10 DEF AckInv

\* A step that assigns no message index and keeps what was held.
LEMMA KeepAck ==
  ASSUME TypeInv, TypeInv', AckInv, CountersGrow, RecordsMove,
         NewDatagramsMatch, UNCHANGED <<messageIndex, ackSlice, received>>,
         replies' \subseteq replies,
         NoWrap => \A m \in Nat : Held(m) => Held(m)' \/ m \in received
  PROVE  AckInv'
<1>1. DatagramsMatch' /\ AcksHandled'
  BY AckStep DEF AckInv
<1>2. ASSUME NoWrap', NEW m \in 0..(messageIndex' - 1)
      PROVE  Held(m)' \/ m \in received'
  <2>1. NoWrap
    BY <1>2, NoWrapBefore
  <2>2. m \in Nat /\ m < messageIndex
    BY <1>2, SenderTypes
  <2>3. Held(m) \/ m \in received
    BY <2>1, <2>2, HeldOrReceived DEF AckInv
  <2> QED BY <2>1, <2>2, <2>3
<1> QED BY <1>1, <1>2 DEF AckInv, NothingForgotten

\* A step that touches no packet at all.
LEMMA QuietAck ==
  ASSUME TypeInv, TypeInv', AckInv, CountersGrow,
         UNCHANGED <<messageIndex, ccPending, unacknowledged, ackSlice,
                     received>>,
         replies' \subseteq replies, datagrams' \subseteq datagrams
  PROVE  AckInv'
<1>1. RecordsMove
  BY DEF RecordsMove
<1>2. NewDatagramsMatch
  BY DEF NewDatagramsMatch
<1>3. \A m \in Nat : Held(m) => Held(m)'
  BY DEF Held
<1> QED BY <1>1, <1>2, <1>3, KeepAck

\* flushSendQueueLocked moves a packet from ccPending to a record.
LEMMA FlushSendAck ==
  ASSUME TypeInv, TypeInv', SenderInv, AckInv, FlushSend,
         UNCHANGED receiverVars
  PROVE  AckInv'
<1> DEFINE pk == Head(ccPending)
<1>1. LogGrows /\ CountersGrow
  BY SenderGrows DEF SenderStep, TypeInv, TypeOK
<1>2. UNCHANGED <<messageIndex, ackSlice, received, replies>>
  BY DEF FlushSend, receiverVars
<1>3. ccPending \in Seq(Packets) /\ ccPending # <<>>
  BY SenderTypes DEF FlushSend, CanFlush
<1>4. 1 \in DOMAIN ccPending /\ pk = ccPending[1] /\ pk \in Packets
  BY <1>3
<1>5. IsReliable(pk.reliability) /\ pk.messageIndex < messageIndex'
  BY <1>2, <1>4 DEF SenderInv, SenderBookkeeping, Tracked
<1> HIDE DEF pk
<1>6. SendDatagram(pk, unacknowledged)
  BY DEF FlushSend, pk
<1>7. RecordsMove /\ NewDatagramsMatch
  BY <1>4, <1>5, <1>6, SendMatches
<1>8. /\ seq \in DOMAIN unacknowledged' /\ unacknowledged'[seq] = pk
      /\ \A s \in DOMAIN unacknowledged :
           s \in DOMAIN unacknowledged' /\ unacknowledged'[s] = unacknowledged[s]
  BY <1>6, SendStep
<1>9. ccPending' \in {ccPending, Tail(ccPending)}
  BY DEF FlushSend
<1>10. \A k \in DOMAIN ccPending :
         \/ k = 1
         \/ k - 1 \in DOMAIN Tail(ccPending) /\ Tail(ccPending)[k - 1] = ccPending[k]
  BY <1>3
<1>11. ASSUME NEW m \in Nat, Held(m) PROVE Held(m)'
  <2>1. CASE \E s \in DOMAIN unacknowledged : unacknowledged[s].messageIndex = m
    BY <1>8, <2>1 DEF Held
  <2>2. CASE \E k \in DOMAIN ccPending : ccPending[k].messageIndex = m
    <3>1. PICK k \in DOMAIN ccPending : ccPending[k].messageIndex = m
      BY <2>2
    <3>2. CASE k = 1
      BY <1>4, <1>8, <3>1, <3>2 DEF Held
    <3>3. CASE k # 1
      BY <1>9, <1>10, <3>1, <3>3 DEF Held
    <3> QED BY <3>2, <3>3
  <2> QED BY <1>11, <2>1, <2>2 DEF Held
<1> QED BY <1>1, <1>2, <1>7, <1>11, KeepAck

\* flushResendQueueLocked moves a packet from one record to another.
LEMMA ResendAck ==
  ASSUME TypeInv, TypeInv', SenderInv, AckInv,
         NEW next \in {"idle", "checkResend"}, Resend(next),
         UNCHANGED receiverVars
  PROVE  AckInv'
<1> DEFINE s == Head(ccNackQueue)
           pk == unacknowledged[s]
           rest == Without(unacknowledged, s)
<1>1. LogGrows /\ CountersGrow
  BY SenderGrows DEF SenderStep, TypeInv, TypeOK
<1>2. UNCHANGED <<messageIndex, ccPending, ackSlice, received, replies>>
  BY DEF Resend, receiverVars
<1>3. s \in DOMAIN unacknowledged /\ SendDatagram(pk, rest)
  BY DEF Resend
<1>4. /\ DOMAIN rest = DOMAIN unacknowledged \ {s}
      /\ \A t \in DOMAIN rest : rest[t] = unacknowledged[t]
  BY DEF Without
<1>5. pk \in Packets /\ IsReliable(pk.reliability)
      /\ pk.messageIndex < messageIndex'
  BY <1>2, <1>3, SenderTypes DEF SenderInv, SenderBookkeeping, Tracked
<1> HIDE DEF s, pk, rest
<1>6. RecordsMove /\ NewDatagramsMatch
  BY <1>3, <1>4, <1>5, SendMatches
<1>7. /\ seq \in DOMAIN unacknowledged' /\ unacknowledged'[seq] = pk
      /\ \A t \in DOMAIN unacknowledged \ {s} :
           t \in DOMAIN unacknowledged' /\ unacknowledged'[t] = unacknowledged[t]
  BY <1>3, <1>4, SendStep
<1>8. ASSUME NEW m \in Nat, Held(m) PROVE Held(m)'
  BY <1>2, <1>7, <1>8 DEF Held, pk
<1> QED BY <1>1, <1>2, <1>6, <1>8, KeepAck

\* sendUnreliableDatagram takes a number that has no record.
LEMMA WriteUnreliableAck ==
  ASSUME TypeInv, TypeInv', SenderInv, AckInv, WriteUnreliable,
         UNCHANGED receiverVars
  PROVE  AckInv'
<1>1. LogGrows /\ CountersGrow
  BY SenderGrows DEF SenderStep, TypeInv, TypeOK
<1>2. UNCHANGED <<messageIndex, ccPending, unacknowledged, ackSlice, received,
                  replies>>
  BY DEF WriteUnreliable, receiverVars
<1>3. RecordsMove
  BY <1>2 DEF RecordsMove
<1>4. seq \in Nat /\ seq' = seq + 1 /\ seq \notin DOMAIN unacknowledged
  BY SenderTypes
  DEF WriteUnreliable, Transmit, SenderInv, SenderBookkeeping
<1>5. NewDatagramsMatch
  <2> SUFFICES ASSUME NoWrap', NEW d \in datagrams' \ datagrams
               PROVE  d.seq = seq
    BY <1>2, <1>4 DEF NewDatagramsMatch
  <2>1. d.seq = OnWire(seq)
    BY DEF WriteUnreliable, Transmit
  <2>2. seq < IndexSpace
    BY <1>4, IndexSpaceAssumption DEF NoWrap
  <2> QED BY <1>4, <2>1, <2>2, OnWireOK
<1>6. \A m \in Nat : Held(m) => Held(m)'
  BY <1>2 DEF Held
<1> QED BY <1>1, <1>2, <1>3, <1>5, <1>6, KeepAck

\* handleACK lets go of packets that the other end has handled.
LEMMA HandleACKAck ==
  ASSUME TypeInv, TypeInv', SenderInv, AckInv, NEW r \in replies,
         r.type = "ACK", HandleACK(r.packets), UNCHANGED receiverVars
  PROVE  AckInv'
<1>1. CountersGrow
  <2>1. UNCHANGED <<seq, orderIndex, messageIndex, splitID>>
    BY DEF HandleACK, indices
  <2>2. seq \in Nat /\ orderIndex \in Nat /\ messageIndex \in Nat /\ splitID \in Nat
    BY DEF TypeInv, TypeOK, SenderTypeOK
  <2> QED BY <2>1, <2>2 DEF CountersGrow
<1>2. /\ UNCHANGED <<messageIndex, ccPending, datagrams, ackSlice, received,
                     replies>>
      /\ DOMAIN unacknowledged' = DOMAIN unacknowledged \ r.packets
      /\ \A s \in DOMAIN unacknowledged' :
           unacknowledged'[s] = unacknowledged[s]
  BY DEF HandleACK, indices, receiverVars
<1>3. RecordsMove
  BY <1>2 DEF RecordsMove
<1>4. NewDatagramsMatch
  BY <1>2 DEF NewDatagramsMatch
<1>5. ASSUME NoWrap, NEW m \in Nat, Held(m) PROVE Held(m)' \/ m \in received
  <2>1. \A s \in r.packets \cap DOMAIN unacknowledged :
          unacknowledged[s].messageIndex \in received
    BY <1>5 DEF AckInv, AcksHandled, Handled
  <2> QED BY <1>2, <1>5, <2>1 DEF Held
<1> QED BY <1>1, <1>2, <1>3, <1>4, <1>5, KeepAck
-----------------------------------------------------------------------------
\* handleDatagram ends with an acknowledgement or closes the connection.
LEMMA HandledOrFailed ==
  ASSUME NEW d, HandleDatagram(d)
  PROVE  Acknowledge(d) \/ Fail
<1>1. ASSUME NEW c, ReceivePacket(d, c) PROVE Acknowledge(d) \/ Fail
  BY <1>1
  DEF ReceivePacket, ReceiveUnreliable, ReceiveReliable,
      ReceiveUnreliableSequenced, ReceiveReliableSequenced,
      ReceiveReliableOrdered
<1> QED BY <1>1 DEF HandleDatagram, ReceiveSplitPacket

\* receiveDatagram puts a number in ackSlice only with its packet handled.
LEMMA ReceiveDatagramAck ==
  ASSUME TypeInv, AckInv, NEW d \in datagrams, NEW old,
         ReceiveDatagram(d, old), UNCHANGED senderVars
  PROVE  AckInv'
<1>1. UNCHANGED <<seq, messageIndex, orderIndex, splitID, ccPending,
                  unacknowledged, datagrams>>
  BY DEF senderVars, indices
<1>2. NoWrap' <=> NoWrap
  BY <1>1 DEF NoWrap
<1>3. Acknowledge(d) \/ Fail
  BY HandledOrFailed DEF ReceiveDatagram
<1>4. received \subseteq received'
  BY <1>3 DEF Acknowledge, Fail
<1>5. \A r \in replies' : r \in replies \/ r.type = "NACK"
  BY DEF ReceiveDatagram
<1>6. DatagramsMatch'
  BY <1>1, <1>2 DEF AckInv, DatagramsMatch
<1>7. NothingForgotten'
  BY <1>1, <1>2, <1>4 DEF AckInv, NothingForgotten, Held
<1>8. \A s : Handled(s) => Handled(s)'
  BY <1>1, <1>4 DEF Handled
<1>9. ASSUME NoWrap, Acknowledge(d) PROVE Handled(d.seq)'
  <2>1. /\ d.seq < seq
        /\ d.seq \in DOMAIN unacknowledged =>
             /\ IsReliable(d.pk.reliability)
             /\ d.pk.messageIndex = unacknowledged[d.seq].messageIndex
    BY <1>9 DEF AckInv, DatagramsMatch
  <2>2. IsReliable(d.pk.reliability) => d.pk.messageIndex \in received'
    BY <1>9 DEF Acknowledge
  <2> QED BY <1>1, <2>1, <2>2 DEF Handled
<1>10. AcksHandled'
  <2> SUFFICES ASSUME NoWrap PROVE /\ \A s \in ackSlice' : Handled(s)'
                                   /\ \A r \in replies' : r.type = "ACK" =>
                                        \A s \in r.packets : Handled(s)'
    BY <1>2 DEF AcksHandled
  <2>1. \A s \in ackSlice' : Handled(s)'
    <3>1. \A s \in ackSlice : Handled(s)
      BY DEF AckInv, AcksHandled
    <3>2. CASE Acknowledge(d)
      <4>1. ackSlice' = ackSlice \cup {d.seq}
        BY <3>2 DEF Acknowledge
      <4>2. Handled(d.seq)'
        BY <1>9, <3>2
      <4> QED BY <1>8, <3>1, <4>1, <4>2
    <3>3. CASE Fail
      BY <1>8, <3>1, <3>3 DEF Fail
    <3> QED BY <1>3, <3>2, <3>3
  <2>2. ASSUME NEW r \in replies', r.type = "ACK", NEW s \in r.packets
        PROVE  Handled(s)'
    <3>1. r \in replies
      BY <1>5, <2>2
    <3> QED BY <1>8, <2>2, <3>1 DEF AckInv, AcksHandled
  <2> QED BY <2>1, <2>2
<1> QED BY <1>6, <1>7, <1>10 DEF AckInv

\* flushACKs puts in the network what was in ackSlice.
LEMMA FlushACKsAck ==
  ASSUME AckInv, FlushACKs, UNCHANGED senderVars
  PROVE  AckInv'
<1>1. UNCHANGED <<seq, messageIndex, orderIndex, splitID, ccPending,
                  unacknowledged, datagrams, received>>
  BY DEF senderVars, indices, FlushACKs
<1>2. NoWrap' <=> NoWrap
  BY <1>1 DEF NoWrap
<1>3. DatagramsMatch' /\ NothingForgotten'
  BY <1>1, <1>2 DEF AckInv, DatagramsMatch, NothingForgotten, Held
<1>4. \A s : Handled(s) => Handled(s)'
  BY <1>1 DEF Handled
<1>5. AcksHandled'
  BY <1>2, <1>4 DEF AckInv, AcksHandled, FlushACKs
<1> QED BY <1>3, <1>5 DEF AckInv

\* Every step keeps the acknowledgements right.
LEMMA NextAck ==
  ASSUME TypeInv, TypeInv', SenderInv, AckInv, [Next]_vars
  PROVE  AckInv'
<1>1. CountersGrow
  BY NextGrows
<1>2. ASSUME UNCHANGED <<messageIndex, ccPending, unacknowledged, ackSlice,
                         received>>,
             replies' \subseteq replies, datagrams' \subseteq datagrams
      PROVE  AckInv'
  BY <1>1, <1>2, QuietAck
<1> USE DEF indices, budgets, nackVars, loopVars
<1>3. CASE SenderStep /\ UNCHANGED <<receiverVars, losses>>
  <2>1. UNCHANGED receiverVars /\ UNCHANGED <<ackSlice, received, replies>>
    BY <1>3 DEF receiverVars
  <2>2. CASE UNCHANGED <<messageIndex, ccPending, unacknowledged, datagrams>>
    BY <1>2, <2>1, <2>2
  <2>3. CASE WriteUnreliable
    BY <2>1, <2>3, WriteUnreliableAck
  <2>4. CASE WriteReliable
    BY <2>1, <2>4, WriteReliableAck
  <2>5. CASE FlushSend
    BY <2>1, <2>5, FlushSendAck
  <2>6. CASE \E next \in {"idle", "checkResend"} : Resend(next)
    BY <2>1, <2>6, ResendAck
  <2>7. CASE \E r \in WriteKinds, length \in Lengths : BeginWrite(r, length)
    BY <2>2, <2>7 DEF BeginWrite
  <2>8. CASE EndWrite \/ FlushSendDone \/ SkipResend \/ EndEnqueue \/ CloseSocket
    BY <2>2, <2>8
    DEF EndWrite, FlushSendDone, SkipResend, EndEnqueue, CloseSocket
  <2>9. CASE \E sb, rb \in 0..MaxBudget : TickLock(sb, rb)
    BY <2>2, <2>9 DEF TickLock
  <2>10. CASE \E next \in {"idle", "checkResend"} : FlushResendDone(next)
    BY <2>2, <2>10 DEF FlushResendDone
  <2>11. CASE \E old \in SUBSET MayTimeOut : CheckResend(old)
    BY <2>2, <2>11 DEF CheckResend
  <2>12. CASE \E s \in toEnqueue : EnqueueResend(s)
    BY <2>2, <2>12 DEF EnqueueResend
  <2> QED
    BY <1>3, <2>3, <2>4, <2>5, <2>6, <2>7, <2>8, <2>9, <2>10, <2>11, <2>12
    DEF SenderStep
<1>4. CASE ReceiveReply /\ UNCHANGED <<receiverVars, losses>>
  <2>1. CASE \E r \in replies : r.type = "ACK" /\ HandleACK(r.packets)
    BY <1>4, <2>1, HandleACKAck
  <2>2. CASE \E r \in replies, over \in BOOLEAN : HandleNACK(r.packets, over)
    BY <1>2, <1>4, <2>2 DEF HandleNACK, receiverVars
  <2> QED BY <1>4, <2>1, <2>2 DEF ReceiveReply
<1>5. CASE ReceiverStep /\ UNCHANGED <<senderVars, losses>>
  <2>1. CASE \E d \in datagrams : \E old : ReceiveDatagram(d, old)
    BY <1>5, <2>1, ReceiveDatagramAck
  <2>2. CASE FlushACKs
    BY <1>5, <2>2, FlushACKsAck
  <2>3. CASE \E d \in datagrams : DropDatagram(d)
    BY <1>2, <1>5, <2>3 DEF DropDatagram, receiverVars, senderVars
  <2> QED BY <1>5, <2>1, <2>2, <2>3 DEF ReceiverStep
<1>6. CASE LoseDatagram
  BY <1>2, <1>6 DEF LoseDatagram, receiverVars
<1>7. CASE LoseReply
  BY <1>2, <1>7 DEF LoseReply, senderVars
<1>8. CASE UNCHANGED vars
  BY <1>2, <1>8 DEF vars, senderVars, receiverVars
<1> QED BY <1>3, <1>4, <1>5, <1>6, <1>7, <1>8 DEF Next

\* What is acknowledged was handled, and what is not is still held: the
\* inductive invariant behind NothingForgotten.
THEOREM AckCorrect == Spec => []AckInv
<1>1. Init => AckInv
  BY InitAck
<1>2. TypeInv /\ TypeInv' /\ SenderInv /\ AckInv /\ [Next]_vars => AckInv'
  BY NextAck
<1> QED BY <1>1, <1>2, TypeCorrect, SenderCorrect, PTL DEF Spec

\* At every instant a reliable packet is queued, tracked for retransmission
\* or handled by the other end: no ACK, however late or repeated, makes
\* handleACK drop a packet that never arrived, until an index wraps.
THEOREM NothingForgottenHolds == Spec => []NothingForgotten
<1>1. AckInv => NothingForgotten
  BY DEF AckInv
<1> QED BY <1>1, AckCorrect, PTL
-----------------------------------------------------------------------------
\* put and fetch never move the queue of ordered packets back.
LEMMA QueueAdvances ==
  ASSUME PacketStateOK, NEW d \in Datagrams, HandleDatagram(d)
  PROVE  packetQueue.lowest <= packetQueue'.lowest
<1>1. packetQueue.lowest \in Nat
  BY DEF PacketStateOK
<1>2. CASE UNCHANGED packetQueue
  BY <1>1, <1>2
<1>3. ASSUME NEW c, ReceiveReliableOrdered(d, c)
      PROVE  packetQueue.lowest <= packetQueue'.lowest
  <2> DEFINE index == d.pk.orderIndex
             q == Put(packetQueue, index, c)
  <2>1. CASE ~Occupied(packetQueue, index) /\ packetQueue' \in {q, AfterFetch(q)}
    <3>1. index \in Nat
      BY DEF Datagrams, Packets
    <3>2. /\ QueueOK(q) /\ q.lowest \in Nat /\ q.highest \in Nat
          /\ q.lowest = packetQueue.lowest
      BY <2>1, <3>1, PutOK DEF PacketStateOK, Put
    <3> HIDE DEF q
    <3>3. q.lowest <= FetchEnd(q)
      BY <3>2, FetchOK
    <3> QED BY <1>1, <2>1, <3>2, <3>3 DEF AfterFetch
  <2> QED BY <1>2, <1>3, <2>1 DEF ReceiveReliableOrdered
<1>4. ASSUME NEW c, ReceivePacket(d, c)
      PROVE  packetQueue.lowest <= packetQueue'.lowest
  BY <1>2, <1>3, <1>4
  DEF ReceivePacket, ReceiveUnreliable, ReceiveReliable,
      ReceiveUnreliableSequenced, ReceiveReliableSequenced
<1> QED BY <1>2, <1>4 DEF HandleDatagram, ReceiveSplitPacket

\* The windows only move forward: what was received, given up or handed over
\* is never asked for again, whatever arrives and in whatever order.
THEOREM WindowsAdvanceHolds == Spec => WindowsAdvance
<1> DEFINE Advance ==
             /\ win.lowest <= win'.lowest
             /\ packetQueue.lowest <= packetQueue'.lowest
             /\ \A i \in 0..win.highest : Seen(win, i) => Seen(win, i)'
<1>1. ASSUME TypeInv, Next PROVE Advance
  <2>1. /\ WindowOK(win) /\ PacketStateOK /\ replies \subseteq Replies
        /\ win.lowest \in Nat /\ win.highest \in Nat
        /\ packetQueue.lowest \in Nat /\ datagrams \subseteq Datagrams
    BY <1>1
    DEF TypeInv, TypeOK, SenderTypeOK, ReceiverTypeOK, PacketStateOK,
        DatagramWindows
  <2>2. CASE UNCHANGED <<win, packetQueue>>
    BY <2>1, <2>2 DEF Seen
  <2>3. CASE \E d \in datagrams : \E old : ReceiveDatagram(d, old)
    <3> PICK d \in datagrams : \E old : ReceiveDatagram(d, old)
      BY <2>3
    <3>1. PICK old : ReceiveDatagram(d, old)
      OBVIOUS
    <3>2. d \in Datagrams
      BY <2>1
    <3>3. /\ win.lowest <= win'.lowest
          /\ \A i \in Nat : Seen(win, i) => Seen(win', i)
      BY <2>1, <3>1, <3>2, ReceiveWindowOK
    <3>4. packetQueue.lowest <= packetQueue'.lowest
      <4>1. CASE HandleDatagram(d)
        BY <2>1, <3>2, <4>1, QueueAdvances
      <4>2. CASE UNCHANGED packetQueue
        BY <2>1, <4>2
      <4> QED BY <3>1, <4>1, <4>2 DEF ReceiveDatagram
    <3>5. \A i \in 0..win.highest : i \in Nat
      BY <2>1
    <3> QED BY <3>3, <3>4, <3>5 DEF Seen
  <2> QED
    BY <1>1, <2>2, <2>3
    DEF Next, ReceiverStep, DropDatagram, FlushACKs, LoseDatagram, LoseReply,
        receiverVars
<1>2. TypeInv /\ [Next]_vars => [Advance]_vars
  BY <1>1
<1> QED BY <1>2, TypeCorrect, PTL DEF Spec, WindowsAdvance

\* An ACK names only datagrams that the receiver has in its window: flushACKs
\* never acknowledges what was not received or given up.
THEOREM AcksWereReceivedHolds == Spec => []AcksWereReceived
<1>1. Init => AcksWereReceived
  BY DEF Init, ReceiverInit, AcksWereReceived
<1>2. ASSUME TypeInv, AcksWereReceived, Next PROVE AcksWereReceived'
  <2>1. /\ WindowOK(win) /\ replies \subseteq Replies
        /\ ackSlice \subseteq Nat /\ datagrams \subseteq Datagrams
        /\ \A r \in replies : r.packets \subseteq Nat
    BY <1>2 DEF TypeInv, TypeOK, SenderTypeOK, ReceiverTypeOK, Replies
  <2>2. CASE UNCHANGED <<win, ackSlice>> /\ replies' \subseteq replies
    BY <1>2, <2>2 DEF AcksWereReceived, Seen
  <2>3. CASE FlushACKs
    <3>1. UNCHANGED win
      BY <2>3 DEF FlushACKs
    <3>2. /\ ackSlice' = {}
          /\ replies' = replies \cup {[type |-> "ACK", packets |-> ackSlice]}
      BY <2>3 DEF FlushACKs
    <3> QED BY <1>2, <3>1, <3>2 DEF AcksWereReceived, Seen
  <2>4. CASE \E d \in datagrams : \E old : ReceiveDatagram(d, old)
    <3> PICK d \in datagrams : \E old : ReceiveDatagram(d, old)
      BY <2>4
    <3>1. PICK old : ReceiveDatagram(d, old)
      OBVIOUS
    <3>2. d \in Datagrams /\ d.seq \in Nat
      BY <2>1 DEF Datagrams
    <3>3. \A i \in Nat : Seen(win, i) \/ i = d.seq => Seen(win', i)
      BY <2>1, <3>1, <3>2, ReceiveWindowOK
    <3>4. ackSlice' \subseteq ackSlice \cup {d.seq}
      BY <3>1, HandledOrFailed DEF ReceiveDatagram, Acknowledge, Fail
    <3>5. \A r \in replies' : r \in replies \/ r.type = "NACK"
      BY <3>1 DEF ReceiveDatagram
    <3>6. \A s \in ackSlice' : Seen(win', s)
      BY <1>2, <2>1, <3>2, <3>3, <3>4 DEF AcksWereReceived
    <3>7. ASSUME NEW r \in replies', r.type = "ACK", NEW s \in r.packets
          PROVE  Seen(win', s)
      <4>1. r \in replies
        BY <3>5, <3>7
      <4>2. s \in Nat /\ Seen(win, s)
        BY <1>2, <2>1, <3>7, <4>1 DEF AcksWereReceived
      <4> QED BY <3>3, <4>2
    <3> QED BY <3>6, <3>7 DEF AcksWereReceived, Seen
  <2> QED
    BY <1>2, <2>2, <2>3, <2>4
    DEF Next, ReceiverStep, DropDatagram, LoseDatagram, LoseReply,
        receiverVars
<1>3. AcksWereReceived /\ UNCHANGED vars => AcksWereReceived'
  BY DEF AcksWereReceived, vars, receiverVars, Seen
<1>4. TypeInv /\ AcksWereReceived /\ [Next]_vars => AcksWereReceived'
  BY <1>2, <1>3
<1> QED BY <1>1, <1>4, TypeCorrect, PTL DEF Spec
=============================================================================
