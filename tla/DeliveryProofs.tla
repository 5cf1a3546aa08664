---------------------------- MODULE DeliveryProofs ----------------------------
(***************************************************************************)
(* What the receiver keeps and what it hands over: the limits, reliable    *)
(* packets once, sequenced packets in order, and the abstract channel.     *)
(***************************************************************************)
EXTENDS ContentProofs

\* The steps that change what the receiver keeps or has handed over.
LEMMA ReceiverChanges ==
  ASSUME [Next]_vars
  PROVE  \/ UNCHANGED <<win, packetQueue, receivedMessageIndices, sequencedVars, splits,
                        delivered, receiver>>
         \/ /\ \E d \in datagrams : \E old : ReceiveDatagram(d, old)
            /\ UNCHANGED senderVars
<1>1. CASE SenderStep /\ UNCHANGED <<receiverVars, losses>>
  BY <1>1 DEF receiverVars
<1>2. CASE ReceiveReply /\ UNCHANGED <<receiverVars, losses>>
  BY <1>2 DEF receiverVars
<1>3. CASE ReceiverStep /\ UNCHANGED <<senderVars, losses>>
  <2>1. CASE \E d \in datagrams : DropDatagram(d)
    BY <2>1 DEF DropDatagram, receiverVars
  <2>2. CASE \E d \in datagrams : \E old : ReceiveDatagram(d, old)
    BY <1>3, <2>2
  <2>3. CASE FlushACKs
    BY <2>3 DEF FlushACKs
  <2> QED BY <1>3, <2>1, <2>2, <2>3 DEF ReceiverStep
<1>4. CASE LoseDatagram \/ LoseReply \/ UNCHANGED vars
  BY <1>4 DEF LoseDatagram, LoseReply, vars, receiverVars
<1> QED BY <1>1, <1>2, <1>3, <1>4 DEF Next
-----------------------------------------------------------------------------
QueueLimit == QueueWindowSize(packetQueue) <= MaxWindowSize

SplitsLimit == Cardinality(DOMAIN splits) <= MaxConcurrentSplits + 1

\* receivePacket closes the connection when the queue outgrows its limit.
LEMMA ReceivePacketLimit ==
  ASSUME PacketStateOK, LimitsEnabled, QueueLimit,
         NEW d \in Datagrams, NEW c \in Contents, ReceivePacket(d, c),
         receiver = "open", receiver' = "open"
  PROVE  QueueLimit'
<1>1. CASE ReceiveReliableOrdered(d, c)
  <2> DEFINE index == d.pk.orderIndex
             q == Put(packetQueue, index, c)
  <2>1. index \in Nat
    BY DEF Datagrams, Packets
  <2>2. CASE UNCHANGED packetQueue
    BY <2>2 DEF QueueLimit
  <2>3. CASE ~Occupied(packetQueue, index) /\ packetQueue' = AfterFetch(q)
             /\ ~(QueueWindowSize(q) > MaxWindowSize)
    <3>1. QueueOK(q) /\ q.lowest \in Nat /\ q.highest \in Nat
      BY <2>1, <2>3, PutOK DEF PacketStateOK
    <3> HIDE DEF q
    <3>2. FetchEnd(q) \in Nat /\ q.lowest <= FetchEnd(q)
      BY <3>1, FetchOK
    <3>3. packetQueue'.lowest = FetchEnd(q) /\ packetQueue'.highest = q.highest
      BY <2>3 DEF AfterFetch
    <3> QED BY <2>3, <3>1, <3>2, <3>3, ReceiverAssumption DEF QueueLimit, QueueWindowSize
  <2>4. ~Fail
    BY DEF Fail
  <2> QED BY <1>1, <2>2, <2>3, <2>4 DEF ReceiveReliableOrdered
<1>2. CASE UNCHANGED packetQueue
  BY <1>2 DEF QueueLimit
<1> QED
  BY <1>1, <1>2
  DEF ReceivePacket, ReceiveUnreliable, ReceiveReliable, ReceiveUnreliableSequenced,
      ReceiveReliableSequenced

\* handleDatagram keeps both limits, or closes the connection.
LEMMA HandleDatagramLimit ==
  ASSUME TypeInv, SplitsFinite, NEW d \in Datagrams, HandleDatagram(d),
         receiver = "open"
  PROVE  /\ SplitsFinite'
         /\ LimitsEnabled /\ QueueLimit /\ SplitsLimit /\ receiver' = "open"
              => QueueLimit' /\ SplitsLimit'
<1> DEFINE pk == d.pk
           m == Collected(pk)
<1>1. PacketStateOK /\ splits \in [DOMAIN splits -> Contents]
  BY DEF PacketStateOK, TypeInv, TypeOK, ReceiverTypeOK
<1>2. pk \in Packets /\ <<pk.fragment>> \in Contents
  BY DEF Datagrams, Packets, Contents
<1>3. m \in Contents
  BY <1>1, <1>2, CollectedOK
<1>4. Cardinality(DOMAIN splits) \in Nat
  BY FS_CardinalityType DEF SplitsFinite
<1> HIDE DEF m
<1>5. CASE ~IsSplit(pk) /\ ReceivePacket(d, <<pk.fragment>>) /\ UNCHANGED splits
  BY <1>1, <1>2, <1>5, ReceivePacketLimit DEF SplitsFinite, SplitsLimit
<1>6. CASE Fail /\ UNCHANGED splits
  BY <1>6 DEF Fail, SplitsFinite
<1>7. CASE /\ ~TooManySplits(pk)
           /\ splits' = [s \in DOMAIN splits \cup {pk.splitID} |->
                           IF s = pk.splitID THEN m ELSE splits[s]]
           /\ UNCHANGED packetQueue
  <2>1. DOMAIN splits' = DOMAIN splits \cup {pk.splitID}
    BY <1>7
  <2>2. /\ IsFiniteSet(DOMAIN splits')
        /\ Cardinality(DOMAIN splits') =
             IF pk.splitID \in DOMAIN splits THEN Cardinality(DOMAIN splits)
             ELSE Cardinality(DOMAIN splits) + 1
    BY <2>1, FS_AddElement DEF SplitsFinite
  <2>3. LimitsEnabled => ~(Cardinality(DOMAIN splits) > MaxConcurrentSplits)
    BY <1>7 DEF TooManySplits
  <2> QED
    BY <1>4, <1>7, <2>2, <2>3, ReceiverAssumption
    DEF SplitsFinite, SplitsLimit, QueueLimit
<1>8. CASE /\ splits' = [s \in DOMAIN splits \ {pk.splitID} |-> splits[s]]
           /\ ReceivePacket(d, m)
  <2>1. DOMAIN splits' = DOMAIN splits \ {pk.splitID}
    BY <1>8
  <2>2. /\ IsFiniteSet(DOMAIN splits')
        /\ Cardinality(DOMAIN splits') <= Cardinality(DOMAIN splits)
    BY <2>1, FS_Subset DEF SplitsFinite
  <2>3. Cardinality(DOMAIN splits') \in Nat
    BY <2>2, FS_CardinalityType
  <2>4. SplitsLimit => SplitsLimit'
    BY <1>4, <2>2, <2>3, ReceiverAssumption DEF SplitsLimit
  <2>5. LimitsEnabled /\ QueueLimit /\ receiver' = "open" => QueueLimit'
    BY <1>1, <1>3, <1>8, ReceivePacketLimit
  <2> QED BY <2>2, <2>4, <2>5 DEF SplitsFinite
<1> QED BY <1>5, <1>6, <1>7, <1>8 DEF HandleDatagram, ReceiveSplitPacket, m

\* Every step keeps the limits of an open connection.
LEMMA NextLimits ==
  ASSUME TypeInv, SplitsFinite, LimitsRespected, [Next]_vars
  PROVE  SplitsFinite' /\ LimitsRespected'
<1>1. CASE UNCHANGED <<win, packetQueue, receivedMessageIndices, sequencedVars, splits,
                       delivered, receiver>>
  BY <1>1 DEF SplitsFinite, LimitsRespected
<1>2. ASSUME NEW d \in datagrams, NEW old, ReceiveDatagram(d, old)
      PROVE  SplitsFinite' /\ LimitsRespected'
  <2>1. d \in Datagrams /\ receiver = "open"
    BY <1>2 DEF TypeInv, TypeOK, SenderTypeOK, ReceiveDatagram
  <2>2. CASE Fail /\ UNCHANGED splits
    BY <2>2 DEF Fail, SplitsFinite, LimitsRespected
  <2>3. CASE ~(LimitsEnabled /\ WindowSize(win') > MaxWindowSize) /\ HandleDatagram(d)
    <3>1. /\ SplitsFinite'
          /\ LimitsEnabled /\ QueueLimit /\ SplitsLimit /\ receiver' = "open"
               => QueueLimit' /\ SplitsLimit'
      BY <2>1, <2>3, HandleDatagramLimit
    <3>2. WindowOK(win')
      BY <1>2, <2>1, ReceiveWindowOK DEF TypeInv, TypeOK, ReceiverTypeOK
    <3>3. LimitsEnabled => WindowSize(win') <= MaxWindowSize
      BY <2>3, <3>2, ReceiverAssumption DEF WindowSize, WindowOK, DatagramWindows
    <3> QED BY <2>1, <3>1, <3>3 DEF LimitsRespected, QueueLimit, SplitsLimit
  <2> QED BY <1>2, <2>2, <2>3 DEF ReceiveDatagram
<1> QED BY <1>1, <1>2, ReceiverChanges

\* The limits of a listener's connection hold for what they are put on, its
\* window of datagrams, its queue of ordered packets and its split packets,
\* whatever arrives and in whatever order (receiveDatagram, receivePacket,
\* receiveSplitPacket).
THEOREM LimitsRespectedHolds == Spec => []LimitsRespected
<1>1. Init => SplitsFinite /\ LimitsRespected
  <2> SUFFICES ASSUME Init PROVE SplitsFinite /\ LimitsRespected
    OBVIOUS
  <2>1. DOMAIN splits = {} /\ packetQueue.highest = 0 /\ packetQueue.lowest = 0
        /\ win.highest = 0 /\ win.lowest = 0
    BY DEF Init, ReceiverInit, NewPacketQueue, NewDatagramWindow
  <2> QED
    BY <2>1, FS_EmptySet, ReceiverAssumption
    DEF SplitsFinite, LimitsRespected, WindowSize, QueueWindowSize
<1>2. TypeInv /\ SplitsFinite /\ LimitsRespected /\ [Next]_vars
        => SplitsFinite' /\ LimitsRespected'
  BY NextLimits
<1> QED BY <1>1, <1>2, TypeCorrect, PTL DEF Spec
-----------------------------------------------------------------------------
\* The abstract channel.

IsOrdered(w) == w \in DOMAIN log /\ log[w].reliability = "ReliableOrdered"

ChannelView ==
  /\ \A i : i \in DOMAIN OrderedWrites <=> \E w : IsOrdered(w) /\ log[w].orderIndex = i
  /\ \A w : IsOrdered(w) => OrderedWrites[log[w].orderIndex] = Content(w, log[w].count)

\* The writes of the channel are the ordered writes of the log.
LEMMA OrderedWritesAre == LogOK => ChannelView
<1> SUFFICES ASSUME LogOK PROVE ChannelView
  OBVIOUS
<1> DEFINE S == {log[w].orderIndex : w \in {v \in DOMAIN log : IsOrdered(v)}}
           Write(i) == CHOOSE v \in DOMAIN log :
                         log[v].reliability = "ReliableOrdered" /\ log[v].orderIndex = i
           f == [i \in S |-> Content(Write(i), log[Write(i)].count)]
<1>1. OrderedWrites = f
  BY DEF OrderedWrites, IsOrdered
<1>2. DOMAIN f = S
  OBVIOUS
<1>3. \A i : i \in S <=> \E w : IsOrdered(w) /\ log[w].orderIndex = i
  BY DEF IsOrdered
<1>4. ASSUME NEW w, IsOrdered(w)
      PROVE  f[log[w].orderIndex] = Content(w, log[w].count)
  <2> DEFINE i == log[w].orderIndex
  <2>1. i \in S /\ w \in DOMAIN log
    BY <1>4 DEF IsOrdered
  <2>2. /\ Write(i) \in DOMAIN log
        /\ log[Write(i)].reliability = "ReliableOrdered" /\ log[Write(i)].orderIndex = i
    BY <1>4 DEF IsOrdered
  <2> HIDE DEF Write
  <2>3. Write(i) = w
    BY <1>4, <2>1, <2>2 DEF LogOK, IsOrdered, IsSequencedOrOrdered
  <2>4. f[i] = Content(Write(i), log[Write(i)].count)
    BY <2>1
  <2> QED BY <2>3, <2>4
<1> HIDE DEF f
<1> QED BY <1>1, <1>2, <1>3, <1>4 DEF ChannelView

\* At first nothing was written and nothing handed over.
LEMMA ChannelInit == Init => Channel!Init
<1> SUFFICES ASSUME Init PROVE Channel!Init
  OBVIOUS
<1>1. log = <<>> /\ delivered["ReliableOrdered"] = <<>>
  BY DEF Init, SenderInit, ReceiverInit, Reliabilities
<1> DEFINE S == {log[w].orderIndex :
                   w \in {v \in DOMAIN log : log[v].reliability = "ReliableOrdered"}}
           Write(i) == CHOOSE v \in DOMAIN log :
                         log[v].reliability = "ReliableOrdered" /\ log[v].orderIndex = i
           Value(i) == Content(Write(i), log[Write(i)].count)
<1>2. S = {}
  BY <1>1
<1>3. OrderedWrites = [i \in S |-> Value(i)]
  BY DEF OrderedWrites
<1> HIDE DEF Value, S
<1>4. OrderedWrites = <<>>
  BY <1>2, <1>3
<1> QED BY <1>1, <1>4 DEF Channel!Init

\* BeginWrite with an ordered packet is a write of the channel; with another
\* one it is invisible to it.
LEMMA ChannelWrite ==
  ASSUME TypeInv, TypeInv', LogOK, LogOK', LogGrows,
         NEW r \in WriteKinds, NEW length \in Lengths, BeginWrite(r, length),
         UNCHANGED delivered
  PROVE  Channel!Write \/ UNCHANGED <<OrderedWrites, delivered["ReliableOrdered"]>>
<1> DEFINE w == Len(log) + 1
           count == FragmentCount(length, EffectiveMTU)
<1>1. /\ log \in Seq(WriteRecords) /\ orderIndex \in Nat /\ Len(log) \in Nat
      /\ log' \in Seq(WriteRecords)
  BY DEF TypeInv, TypeOK, SenderTypeOK
<1>2. /\ DOMAIN log' = DOMAIN log \cup {w} /\ w \notin DOMAIN log
      /\ log'[w].reliability = r /\ log'[w].count = count /\ log'[w].orderIndex = orderIndex
      /\ log'[w] \in WriteRecords
  BY <1>1 DEF BeginWrite
<1>3. \A v \in DOMAIN log : log'[v] = log[v]
  BY DEF LogGrows
<1>4. \A v : IsOrdered(v)' <=> IsOrdered(v) \/ (v = w /\ r = "ReliableOrdered")
  BY <1>2, <1>3 DEF IsOrdered
<1>5. /\ \A i : i \in DOMAIN OrderedWrites <=> \E v : IsOrdered(v) /\ log[v].orderIndex = i
      /\ \A v : IsOrdered(v) => OrderedWrites[log[v].orderIndex] = Content(v, log[v].count)
  BY OrderedWritesAre DEF ChannelView
<1>6. /\ \A i : i \in DOMAIN OrderedWrites' <=>
           \E v : IsOrdered(v)' /\ log'[v].orderIndex = i
      /\ \A v : IsOrdered(v)' => OrderedWrites'[log'[v].orderIndex] = Content(v, log'[v].count)
  <2>1. LogOK' => ChannelView'
    BY OrderedWritesAre, PTL
  <2> QED BY <2>1 DEF ChannelView
<1> HIDE DEF w, count
<1>7. \A i \in DOMAIN OrderedWrites :
        i \in DOMAIN OrderedWrites' /\ OrderedWrites'[i] = OrderedWrites[i]
  BY <1>3, <1>4, <1>5, <1>6 DEF IsOrdered
<1>8. CASE r = "ReliableOrdered"
  <2>1. DOMAIN OrderedWrites' = DOMAIN OrderedWrites \cup {orderIndex}
    <3>1. ASSUME NEW i \in DOMAIN OrderedWrites'
          PROVE  i \in DOMAIN OrderedWrites \cup {orderIndex}
      <4>1. PICK v : IsOrdered(v)' /\ log'[v].orderIndex = i
        BY <1>6
      <4>2. CASE v = w
        BY <1>2, <4>1, <4>2
      <4>3. CASE IsOrdered(v)
        <5>1. log[v].orderIndex = i
          BY <1>3, <4>1, <4>3 DEF IsOrdered
        <5> QED BY <1>5, <4>3, <5>1
      <4> QED BY <1>4, <4>1, <4>2, <4>3
    <3>2. orderIndex \in DOMAIN OrderedWrites'
      <4>1. PICK v : v = w
        OBVIOUS
      <4>2. IsOrdered(v)' /\ log'[v].orderIndex = orderIndex
        BY <1>2, <1>4, <1>8, <4>1
      <4> QED BY <1>6, <4>2
    <3> QED BY <1>7, <3>1, <3>2
  <2>2. \A j \in DOMAIN OrderedWrites : j < orderIndex
    BY <1>5 DEF LogOK, IsOrdered, IsSequencedOrOrdered
  <2>3. OrderedWrites'[orderIndex] = Content(w, count)
    BY <1>2, <1>4, <1>6, <1>8
  <2>4. Content(w, count) \in Contents
    <3>1. w \in Nat /\ count \in Nat
      BY <1>1, <1>2 DEF w, WriteRecords
    <3>2. \A k \in 1..count : [w |-> w, i |-> k - 1] \in Fragments
      BY <3>1 DEF Fragments
    <3> QED BY <3>1, <3>2 DEF Content, Contents
  <2>5. orderIndex \notin DOMAIN OrderedWrites
    BY <1>1, <2>2
  <2> QED BY <1>7, <2>1, <2>2, <2>3, <2>4, <2>5 DEF Channel!Write
<1>9. CASE r # "ReliableOrdered"
  <2>1. DOMAIN OrderedWrites' = DOMAIN OrderedWrites
    <3>1. ASSUME NEW i \in DOMAIN OrderedWrites'
          PROVE  i \in DOMAIN OrderedWrites
      <4>1. PICK v : IsOrdered(v)' /\ log'[v].orderIndex = i
        BY <1>6
      <4>2. IsOrdered(v)
        BY <1>4, <1>9, <4>1
      <4>3. log[v].orderIndex = i
        BY <1>3, <4>1, <4>2 DEF IsOrdered
      <4> QED BY <1>5, <4>2, <4>3
    <3> QED BY <1>7, <3>1
  <2>2. OrderedWrites' = OrderedWrites
    <3>1. /\ OrderedWrites = [i \in DOMAIN OrderedWrites |-> OrderedWrites[i]]
          /\ OrderedWrites' = [i \in DOMAIN OrderedWrites' |-> OrderedWrites'[i]]
      BY DEF OrderedWrites
    <3> QED BY <1>7, <2>1, <3>1
  <2> QED BY <2>2
<1> QED BY <1>8, <1>9

\* What the receiver hands over is added at the end.
HandedGrows ==
  \E cs \in Seq(Contents) :
    delivered'["ReliableOrdered"] = delivered["ReliableOrdered"] \o cs

\* receivePacket adds to what was handed over.
LEMMA ReceivePacketHands ==
  ASSUME PacketStateOK, NEW d \in Datagrams, NEW c \in Contents, ReceivePacket(d, c)
  PROVE  HandedGrows
<1> DEFINE before == delivered["ReliableOrdered"]
<1>1. before \in Seq(Contents) /\ delivered \in [Reliabilities -> Seq(Contents)]
      /\ "ReliableOrdered" \in Reliabilities
  BY DEF PacketStateOK, Reliabilities
<1>2. ASSUME delivered'["ReliableOrdered"] = before PROVE HandedGrows
  <2>1. before = before \o <<>> /\ <<>> \in Seq(Contents)
    BY <1>1
  <2> QED BY <1>2, <2>1 DEF HandedGrows
<1>3. ASSUME NEW r \in Reliabilities, r # "ReliableOrdered",
             HandlePackets(r, <<c>>) \/ UNCHANGED delivered
      PROVE  delivered'["ReliableOrdered"] = before
  BY <1>1, <1>3 DEF HandlePackets
<1>4. CASE ReceiveReliableOrdered(d, c)
  <2> DEFINE q == Put(packetQueue, d.pk.orderIndex, c)
  <2>1. CASE UNCHANGED delivered
    BY <1>2, <2>1
  <2>2. CASE ~Occupied(packetQueue, d.pk.orderIndex)
             /\ HandlePackets("ReliableOrdered", Fetched(q))
    <3>1. d.pk.orderIndex \in Nat
      BY DEF Datagrams, Packets
    <3>2. QueueOK(q) /\ q.lowest \in Nat /\ q.highest \in Nat
      BY <2>2, <3>1, PutOK DEF PacketStateOK
    <3>3. \A i \in DOMAIN q.queue : q.queue[i] \in Contents
      BY <3>1 DEF PacketStateOK, Put
    <3> HIDE DEF q
    <3>4. /\ FetchEnd(q) \in Nat /\ q.lowest <= FetchEnd(q)
          /\ \A i \in q.lowest..(FetchEnd(q) - 1) : i \in DOMAIN q.queue
      BY <3>2, FetchOK
    <3>5. \A i \in 1..(FetchEnd(q) - q.lowest) : q.queue[q.lowest + i - 1] \in Contents
      BY <3>2, <3>3, <3>4
    <3>6. Fetched(q) \in Seq(Contents)
      BY <3>2, <3>4, <3>5 DEF Fetched
    <3>7. delivered'["ReliableOrdered"] = before \o Fetched(q)
      BY <1>1, <2>2 DEF HandlePackets
    <3> QED BY <3>6, <3>7 DEF HandedGrows
  <2> QED BY <1>4, <2>1, <2>2 DEF ReceiveReliableOrdered
<1>5. CASE ReceiveUnreliable(d, c) \/ ReceiveReliable(d, c)
  BY <1>2, <1>3, <1>5 DEF ReceiveUnreliable, ReceiveReliable, Reliabilities
<1>6. CASE ReceiveUnreliableSequenced(d, c) \/ ReceiveReliableSequenced(d, c)
  BY <1>2, <1>3, <1>6
  DEF ReceiveUnreliableSequenced, ReceiveReliableSequenced, Reliabilities
<1> QED BY <1>4, <1>5, <1>6 DEF ReceivePacket

\* Every step adds to what was handed over, if it changes it at all.
LEMMA NextHands ==
  ASSUME TypeInv, [Next]_vars
  PROVE  HandedGrows
<1>1. PacketStateOK /\ splits \in [DOMAIN splits -> Contents]
  BY DEF PacketStateOK, TypeInv, TypeOK, ReceiverTypeOK
<1>2. CASE UNCHANGED delivered
  <2>1. delivered["ReliableOrdered"] \in Seq(Contents)
    BY <1>1 DEF PacketStateOK, Reliabilities
  <2>2. delivered["ReliableOrdered"] = delivered["ReliableOrdered"] \o <<>>
        /\ <<>> \in Seq(Contents)
    BY <2>1
  <2> QED BY <1>2, <2>2 DEF HandedGrows
<1>3. ASSUME NEW d \in datagrams, NEW old, ReceiveDatagram(d, old)
      PROVE  HandedGrows
  <2>1. /\ d \in Datagrams /\ d.pk \in Packets /\ <<d.pk.fragment>> \in Contents
    <3>1. d \in Datagrams
      BY DEF TypeInv, TypeOK, SenderTypeOK
    <3>2. d.pk \in Packets
      BY <3>1 DEF Datagrams
    <3>3. d.pk.fragment \in Fragments
      BY <3>2 DEF Packets
    <3> QED BY <3>1, <3>2, <3>3 DEF Contents
  <2>2. Collected(d.pk) \in Contents
    BY <1>1, <2>1, CollectedOK
  <2>3. \/ UNCHANGED delivered
        \/ ReceivePacket(d, <<d.pk.fragment>>)
        \/ ReceivePacket(d, Collected(d.pk))
    BY <1>3 DEF ReceiveDatagram, HandleDatagram, ReceiveSplitPacket
  <2> QED BY <1>1, <1>2, <2>1, <2>2, <2>3, ReceivePacketHands
<1> QED BY <1>2, <1>3, ReceiverChanges

\* The steps that write.
LEMMA LogChanges ==
  ASSUME [Next]_vars
  PROVE  \/ UNCHANGED log
         \/ /\ \E r \in WriteKinds, length \in Lengths : BeginWrite(r, length)
            /\ UNCHANGED receiverVars
<1>1. CASE SenderStep /\ UNCHANGED <<receiverVars, losses>>
  <2>1. CASE \E r \in WriteKinds, length \in Lengths : BeginWrite(r, length)
    BY <1>1, <2>1
  <2>2. CASE WriteUnreliable \/ WriteReliable \/ EndWrite \/ FlushSend \/ FlushSendDone
             \/ SkipResend \/ EndEnqueue \/ CloseSocket
    BY <2>2 DEF WriteUnreliable, WriteReliable, EndWrite, FlushSend, FlushSendDone,
                SkipResend, EndEnqueue, CloseSocket
  <2>3. CASE \/ \E sb, rb \in 0..MaxBudget : TickLock(sb, rb)
             \/ \E next \in {"idle", "checkResend"} : Resend(next)
             \/ \E next \in {"idle", "checkResend"} : FlushResendDone(next)
             \/ \E old \in SUBSET MayTimeOut : CheckResend(old)
             \/ \E s \in toEnqueue : EnqueueResend(s)
    BY <2>3 DEF TickLock, Resend, FlushResendDone, CheckResend, EnqueueResend
  <2> QED BY <1>1, <2>1, <2>2, <2>3 DEF SenderStep
<1>2. CASE ReceiveReply
  BY <1>2 DEF ReceiveReply, HandleACK, HandleNACK
<1>3. CASE UNCHANGED senderVars \/ LoseDatagram \/ LoseReply \/ UNCHANGED vars
  BY <1>3 DEF senderVars, LoseDatagram, LoseReply, vars
<1> QED BY <1>1, <1>2, <1>3 DEF Next

\* Every step is one of the channel, or invisible to it.
LEMMA ChannelStep ==
  ASSUME TypeInv, TypeInv', ContentInv, ContentInv', NoWrap', [Next]_vars
  PROVE  [Channel!Next]_<<OrderedWrites, delivered["ReliableOrdered"]>>
<1> DEFINE before == delivered["ReliableOrdered"]
           after == delivered'["ReliableOrdered"]
<1>1. LogOK /\ LogOK' /\ LogGrows
  BY NextGrows DEF ContentInv
<1>2. CASE \E r \in WriteKinds, length \in Lengths :
             BeginWrite(r, length) /\ UNCHANGED receiverVars
  <2>1. UNCHANGED delivered
    BY <1>2 DEF receiverVars
  <2> QED BY <1>1, <1>2, <2>1, ChannelWrite DEF Channel!Next
<1>3. CASE UNCHANGED log
  <2>1. OrderedWrites' = OrderedWrites
    BY <1>3 DEF OrderedWrites
  <2>2. PICK cs \in Seq(Contents) : after = before \o cs
    BY NextHands DEF HandedGrows
  <2>3. before \in Seq(Contents)
    BY DEF TypeInv, TypeOK, ReceiverTypeOK, Reliabilities
  <2>4. /\ Len(after) = Len(before) + Len(cs) /\ Len(before) \in Nat /\ Len(cs) \in Nat
        /\ after \in Seq(Contents) /\ DOMAIN after = 1..Len(after)
        /\ \A k \in 1..Len(before) : after[k] = before[k]
    BY <2>2, <2>3, Concatenation
  <2>5. CASE cs = <<>>
    BY <2>1, <2>2, <2>3, <2>5
  <2>6. CASE cs # <<>>
    <3>1. Len(after) > Len(before)
      BY <2>4, <2>6
    <3>2. SubSeq(after, 1, Len(before)) = before
      BY <2>3, <2>4
    <3>3. ASSUME NEW n \in (Len(before) + 1)..Len(after)
          PROVE  n - 1 \in DOMAIN OrderedWrites /\ after[n] = OrderedWrites[n - 1]
      <4>1. n \in DOMAIN after
        BY <2>4
      <4>2. IsOrderedWrite(n, delivered["ReliableOrdered"][n])'
        BY <4>1 DEF ContentInv, OrderedDelivery
      <4>3. PICK w : IsOrdered(w) /\ log[w].orderIndex = n - 1
                     /\ after[n] = Content(w, log[w].count)
        BY <1>3, <4>2 DEF IsOrderedWrite, IsOrdered
      <4> QED BY <1>1, <4>3, OrderedWritesAre DEF ChannelView
    <3> QED BY <2>1, <3>1, <3>2, <3>3 DEF Channel!Next, Channel!HandOver
  <2> QED BY <2>5, <2>6
<1> QED BY <1>2, <1>3, LogChanges

\* Both halves of a connection and the network between them implement the
\* abstract channel as long as no index outgrows its field, for every MTU,
\* length, budget and limit (writeWithReliability, receivePacket).
THEOREM ChannelImplemented == Spec /\ []NoWrap => ImplementsChannel
<1>1. Init => Channel!Init
  BY ChannelInit
<1>2. TypeInv /\ TypeInv' /\ ContentInv /\ ContentInv' /\ NoWrap' /\ [Next]_vars
        => [Channel!Next]_<<OrderedWrites, delivered["ReliableOrdered"]>>
  BY ChannelStep
<1> QED BY <1>1, <1>2, TypeCorrect, ContentCorrect, PTL DEF Spec, ImplementsChannel, Channel!Spec
-----------------------------------------------------------------------------
\* Copies of packets, and the steps that make them.

\* Where the copies after a step are found.
LEMMA CopiesFrom ==
  ASSUME NEW S,
         \A k \in DOMAIN ccPending' : OnWirePacket(ccPending'[k]) \in S,
         \A s \in DOMAIN unacknowledged' : OnWirePacket(unacknowledged'[s]) \in S,
         \A d \in datagrams' : d.pk \in S
  PROVE  Copies' \subseteq S
BY DEF Copies

\* sendDatagram makes copies of its packet only.
LEMMA SendCopies ==
  ASSUME NEW pk, NEW records, NEW S,
         DOMAIN records \subseteq DOMAIN unacknowledged,
         \A s \in DOMAIN records : records[s] = unacknowledged[s],
         SendDatagram(pk, records), Copies \subseteq S, OnWirePacket(pk) \in S
  PROVE  /\ \A s \in DOMAIN unacknowledged' : OnWirePacket(unacknowledged'[s]) \in S
         /\ \A d \in datagrams' : d.pk \in S
<1>1. /\ \A s \in DOMAIN unacknowledged : OnWirePacket(unacknowledged[s]) \in S
      /\ \A d \in datagrams : d.pk \in S
  BY DEF Copies
<1>2. \A s \in DOMAIN unacknowledged' : OnWirePacket(unacknowledged'[s]) \in S
  BY <1>1 DEF SendDatagram
<1>3. \A d \in datagrams' : d.pk \in S
  <2>1. datagrams' \subseteq datagrams \cup {[seq |-> OnWire(seq), pk |-> OnWirePacket(pk)]}
    BY DEF SendDatagram, Transmit
  <2> QED BY <1>1, <2>1
<1> QED BY <1>2, <1>3

\* The same indices, carried for the same fragment.
SameOrigin(p, q) ==
  /\ p.fragment = q.fragment
  /\ p.reliability = q.reliability
  /\ p.sequenceIndex = q.sequenceIndex

NoCopyMade ==
  UNCHANGED <<log, orderIndex, sequenceIndex, toWrite>> /\ Copies' \subseteq Copies

CopyMade ==
  /\ UNCHANGED <<log, orderIndex, sequenceIndex>>
  /\ toWrite # <<>>
  /\ toWrite' \in {Tail(toWrite), <<>>}
  /\ \E pk \in Packets : /\ SameOrigin(pk, Head(toWrite))
                         /\ Copies' \subseteq Copies \cup {OnWirePacket(pk)}

WriteBegun ==
  \E r \in WriteKinds, length \in Lengths : BeginWrite(r, length) /\ Copies' = Copies

\* The steps of the sender make no copy of a packet it has not kept, except
\* for the first copy of the fragment that is written next.
LEMMA SenderCopies ==
  ASSUME TypeInv, SenderStep
  PROVE  NoCopyMade \/ CopyMade \/ WriteBegun
<1> USE DEF indices, nackVars, budgets, loopVars
<1>1. /\ toWrite \in Seq(Packets) /\ ccPending \in Seq(Packets) /\ messageIndex \in Nat
  BY DEF TypeInv, TypeOK, SenderTypeOK
<1>2. /\ \A k \in DOMAIN ccPending : OnWirePacket(ccPending[k]) \in Copies
      /\ \A s \in DOMAIN unacknowledged : OnWirePacket(unacknowledged[s]) \in Copies
      /\ \A d \in datagrams : d.pk \in Copies
  BY DEF Copies
<1>3. CASE UNCHANGED <<toWrite, ccPending, unacknowledged, datagrams, log, orderIndex,
                       sequenceIndex>>
  BY <1>3 DEF NoCopyMade, Copies
<1>4. CASE \E r \in WriteKinds, length \in Lengths : BeginWrite(r, length)
  <2>1. UNCHANGED <<ccPending, unacknowledged, datagrams>>
    BY <1>4 DEF BeginWrite
  <2>2. Copies' = Copies
    BY <2>1 DEF Copies
  <2> QED BY <1>4, <2>2 DEF WriteBegun
<1>5. CASE WriteUnreliable
  <2> DEFINE pk == Head(toWrite)
             S == Copies \cup {OnWirePacket(pk)}
  <2>1. pk \in Packets /\ toWrite # <<>> /\ SameOrigin(pk, Head(toWrite))
    BY <1>1, <1>5 DEF WriteUnreliable, SameOrigin
  <2>2. /\ UNCHANGED <<log, orderIndex, sequenceIndex, ccPending, unacknowledged>>
        /\ toWrite' \in {Tail(toWrite), <<>>}
    BY <1>5 DEF WriteUnreliable
  <2>3. \A d \in datagrams' : d.pk \in S
    <3>1. datagrams' \subseteq
            datagrams \cup {[seq |-> OnWire(seq), pk |-> OnWirePacket(pk)]}
      BY <1>5 DEF WriteUnreliable, Transmit
    <3> QED BY <1>2, <3>1
  <2>4. Copies' \subseteq S
    BY <1>2, <2>2, <2>3, CopiesFrom
  <2> QED BY <2>1, <2>2, <2>4 DEF CopyMade
<1>6. CASE WriteReliable
  <2> DEFINE pk == [Head(toWrite) EXCEPT !.messageIndex = messageIndex]
             S == Copies \cup {OnWirePacket(pk)}
  <2>1. toWrite # <<>> /\ Head(toWrite) \in Packets
    BY <1>1, <1>6 DEF WriteReliable
  <2>2. pk \in Packets /\ SameOrigin(pk, Head(toWrite))
    BY <1>1, <2>1 DEF Packets, SameOrigin
  <2>3. /\ UNCHANGED <<log, orderIndex, sequenceIndex>>
        /\ toWrite' \in {Tail(toWrite), <<>>}
    BY <1>6 DEF WriteReliable
  <2>4. CASE SendDatagram(pk, unacknowledged) /\ UNCHANGED ccPending
    <3>1. /\ \A s \in DOMAIN unacknowledged' : OnWirePacket(unacknowledged'[s]) \in S
          /\ \A d \in datagrams' : d.pk \in S
      BY <2>4, SendCopies
    <3>2. Copies' \subseteq S
      BY <1>2, <2>4, <3>1, CopiesFrom
    <3> QED BY <2>1, <2>2, <2>3, <3>2 DEF CopyMade
  <2>5. CASE ccPending' = Append(ccPending, pk) /\ UNCHANGED <<unacknowledged, datagrams>>
    <3> HIDE DEF pk
    <3>1. \A k \in DOMAIN ccPending' :
            \/ ccPending'[k] = pk
            \/ k \in DOMAIN ccPending /\ ccPending'[k] = ccPending[k]
      BY <1>1, <2>2, <2>5
    <3>2. \A k \in DOMAIN ccPending' : OnWirePacket(ccPending'[k]) \in S
      BY <1>2, <3>1
    <3>3. Copies' \subseteq S
      BY <1>2, <2>5, <3>2, CopiesFrom
    <3> QED BY <2>1, <2>2, <2>3, <3>3 DEF CopyMade
  <2> QED BY <1>6, <2>4, <2>5 DEF WriteReliable
<1>7. CASE FlushSend
  <2> DEFINE pk == Head(ccPending)
  <2>1. OnWirePacket(pk) \in Copies
    <3>1. 1 \in DOMAIN ccPending /\ pk = ccPending[1]
      BY <1>1, <1>7 DEF FlushSend, CanFlush
    <3> QED BY <1>2, <3>1
  <2>2. /\ \A s \in DOMAIN unacknowledged' : OnWirePacket(unacknowledged'[s]) \in Copies
        /\ \A d \in datagrams' : d.pk \in Copies
    BY <1>7, <2>1, SendCopies DEF FlushSend
  <2>3. \A k \in DOMAIN ccPending' : OnWirePacket(ccPending'[k]) \in Copies
    <3>1. ccPending' \in {ccPending, Tail(ccPending)} /\ ccPending # <<>>
      BY <1>7 DEF FlushSend, CanFlush
    <3>2. \A k \in DOMAIN Tail(ccPending) :
            k + 1 \in DOMAIN ccPending /\ Tail(ccPending)[k] = ccPending[k + 1]
      BY <1>1, <3>1
    <3> QED BY <1>2, <3>1, <3>2
  <2>4. UNCHANGED <<log, orderIndex, sequenceIndex, toWrite>>
    BY <1>7 DEF FlushSend
  <2> QED BY <2>2, <2>3, <2>4, CopiesFrom DEF NoCopyMade
<1>8. CASE \E next \in {"idle", "checkResend"} : Resend(next)
  <2> DEFINE s == Head(ccNackQueue)
             rest == Without(unacknowledged, s)
  <2>1. /\ SendDatagram(unacknowledged[s], rest) /\ s \in DOMAIN unacknowledged
        /\ UNCHANGED <<toWrite, ccPending, log, orderIndex, sequenceIndex>>
    BY <1>8 DEF Resend
  <2>2. /\ DOMAIN rest \subseteq DOMAIN unacknowledged
        /\ \A t \in DOMAIN rest : rest[t] = unacknowledged[t]
    BY DEF Without
  <2> HIDE DEF s, rest
  <2>3. /\ \A t \in DOMAIN unacknowledged' : OnWirePacket(unacknowledged'[t]) \in Copies
        /\ \A d \in datagrams' : d.pk \in Copies
    BY <1>2, <2>1, <2>2, SendCopies
  <2>4. Copies' \subseteq Copies
    BY <1>2, <2>1, <2>3, CopiesFrom
  <2> QED BY <2>1, <2>4 DEF NoCopyMade
<1>9. CASE EndWrite \/ FlushSendDone \/ SkipResend \/ EndEnqueue \/ CloseSocket
  BY <1>3, <1>9 DEF EndWrite, FlushSendDone, SkipResend, EndEnqueue, CloseSocket
<1>10. CASE \E sb, rb \in 0..MaxBudget : TickLock(sb, rb)
  BY <1>3, <1>10 DEF TickLock
<1>11. CASE \E next \in {"idle", "checkResend"} : FlushResendDone(next)
  BY <1>3, <1>11 DEF FlushResendDone
<1>12. CASE \E old \in SUBSET MayTimeOut : CheckResend(old)
  BY <1>3, <1>12 DEF CheckResend
<1>13. CASE \E s \in toEnqueue : EnqueueResend(s)
  BY <1>3, <1>13 DEF EnqueueResend
<1> QED
  BY <1>4, <1>5, <1>6, <1>7, <1>8, <1>9, <1>10, <1>11, <1>12, <1>13 DEF SenderStep

\* What is handed over, with the window and the indices that decide about it.
handing == <<receivedMessageIndices, sequencedVars, splits, delivered>>

\* Every step: the receiver takes a datagram, or it rests and copies are made.
LEMMA NextCopies ==
  ASSUME TypeInv, [Next]_vars
  PROVE  \/ UNCHANGED handing /\ (NoCopyMade \/ CopyMade \/ WriteBegun)
         \/ /\ \E d \in datagrams : \E old : ReceiveDatagram(d, old)
            /\ UNCHANGED senderVars
<1> USE DEF indices, nackVars, budgets, loopVars
<1>1. CASE SenderStep /\ UNCHANGED receiverVars
  BY <1>1, SenderCopies DEF handing, receiverVars
<1>2. ASSUME UNCHANGED <<toWrite, ccPending, log, orderIndex, sequenceIndex>>,
             datagrams' \subseteq datagrams,
             DOMAIN unacknowledged' \subseteq DOMAIN unacknowledged,
             \A s \in DOMAIN unacknowledged' : unacknowledged'[s] = unacknowledged[s]
      PROVE  NoCopyMade
  <2>1. /\ \A k \in DOMAIN ccPending : OnWirePacket(ccPending[k]) \in Copies
        /\ \A s \in DOMAIN unacknowledged : OnWirePacket(unacknowledged[s]) \in Copies
        /\ \A d \in datagrams : d.pk \in Copies
    BY DEF Copies
  <2>2. Copies' \subseteq Copies
    BY <1>2, <2>1, CopiesFrom
  <2> QED BY <1>2, <2>2 DEF NoCopyMade
<1>3. CASE ReceiveReply /\ UNCHANGED receiverVars
  <2>1. NoCopyMade
    BY <1>2, <1>3 DEF ReceiveReply, HandleACK, HandleNACK
  <2> QED BY <1>3, <2>1 DEF handing, receiverVars
<1>4. CASE LoseDatagram
  <2>1. NoCopyMade
    BY <1>2, <1>4 DEF LoseDatagram
  <2> QED BY <1>4, <2>1 DEF LoseDatagram, handing, receiverVars
<1>5. CASE UNCHANGED senderVars /\ UNCHANGED handing
  BY <1>2, <1>5 DEF senderVars
<1>6. CASE LoseReply \/ UNCHANGED vars
  BY <1>5, <1>6 DEF LoseReply, vars, handing, receiverVars
<1>7. CASE ReceiverStep /\ UNCHANGED senderVars
  <2>1. CASE \E d \in datagrams : DropDatagram(d)
    BY <1>5, <1>7, <2>1 DEF DropDatagram, handing, receiverVars
  <2>2. CASE \E d \in datagrams : \E old : ReceiveDatagram(d, old)
    BY <1>7, <2>2
  <2>3. CASE FlushACKs
    BY <1>5, <1>7, <2>3 DEF FlushACKs, handing
  <2> QED BY <1>7, <2>1, <2>2, <2>3 DEF ReceiverStep
<1> QED BY <1>1, <1>3, <1>4, <1>6, <1>7 DEF Next

\* Every copy is genuine.
LEMMA CopiesGenuine ==
  ASSUME TypeInv, PacketsGenuine
  PROVE  \A p \in Copies : p \in Packets /\ ArrivedOK(p)
<1>1. /\ \A k \in DOMAIN ccPending : ccPending[k] \in Packets /\ SentOK(ccPending[k])
      /\ \A s \in DOMAIN unacknowledged :
           unacknowledged[s] \in Packets /\ SentOK(unacknowledged[s])
      /\ \A d \in datagrams : d.pk \in Packets /\ ArrivedOK(d.pk)
  BY DEF TypeInv, TypeOK, SenderTypeOK, Datagrams, PacketsGenuine
<1>2. ASSUME NEW pk \in Packets, SentOK(pk)
      PROVE  OnWirePacket(pk) \in Packets /\ ArrivedOK(OnWirePacket(pk))
  BY <1>2, OnWirePacketType, SentArrives
<1> QED BY <1>1, <1>2 DEF Copies

\* The fragments of a new write belong to no earlier one.
LEMMA NewFragments ==
  ASSUME TypeInv, NEW r \in WriteKinds, NEW length \in Lengths, BeginWrite(r, length)
  PROVE  /\ \A k \in DOMAIN toWrite' :
              /\ toWrite'[k].fragment.w = Len(log) + 1 /\ toWrite'[k].fragment.i = k - 1
              /\ toWrite'[k].reliability = r
              /\ IsSequenced(r) => toWrite'[k].sequenceIndex = sequenceIndex
         /\ \A v \in DOMAIN log : v \in Nat /\ v < Len(log) + 1
         /\ DOMAIN toWrite' \subseteq Nat
<1> DEFINE count == FragmentCount(length, EffectiveMTU)
<1>1. log \in Seq(WriteRecords)
  BY DEF TypeInv, TypeOK, SenderTypeOK
<1>2. count \in Nat \ {0}
  BY FragmentCountPositive, SenderAssumption
<1>3. toWrite' = FragmentPackets(r, count)
  BY DEF BeginWrite
<1> HIDE DEF count
<1>4. DOMAIN toWrite' = 1..count
  BY <1>3 DEF FragmentPackets
<1>5. \A k \in 1..count :
        /\ toWrite'[k].fragment.w = Len(log) + 1 /\ toWrite'[k].fragment.i = k - 1
        /\ toWrite'[k].reliability = r
        /\ IsSequenced(r) => toWrite'[k].sequenceIndex = sequenceIndex
  BY <1>3 DEF FragmentPackets
<1>6. \A v \in DOMAIN log : v \in Nat /\ v < Len(log) + 1
  BY <1>1
<1> QED BY <1>2, <1>4, <1>5, <1>6

\* The fragments that are left after one was written.
LEMMA RestOfWrite ==
  ASSUME toWrite \in Seq(Packets), toWrite # <<>>, toWrite' \in {Tail(toWrite), <<>>}
  PROVE  /\ 1 \in DOMAIN toWrite /\ Head(toWrite) = toWrite[1]
         /\ \A k \in DOMAIN toWrite' :
              k \in Nat \ {0} /\ k + 1 \in DOMAIN toWrite /\ toWrite'[k] = toWrite[k + 1]
OBVIOUS

\* Copies of one fragment stay the same, whatever is resent.
LEMMA CopiesAgreeStep ==
  ASSUME TypeInv, PacketsGenuine, CopiesAgree, NoCopyMade \/ CopyMade \/ WriteBegun
  PROVE  CopiesAgree'
<1>1. CASE NoCopyMade
  BY <1>1 DEF NoCopyMade, CopiesAgree
<1>2. CASE CopyMade
  <2>1. PICK pk \in Packets : /\ SameOrigin(pk, Head(toWrite))
                              /\ Copies' \subseteq Copies \cup {OnWirePacket(pk)}
    BY <1>2 DEF CopyMade
  <2> DEFINE new == OnWirePacket(pk)
  <2>2. /\ 1 \in DOMAIN toWrite /\ Head(toWrite) = toWrite[1]
        /\ \A k \in DOMAIN toWrite' :
             k \in Nat \ {0} /\ k + 1 \in DOMAIN toWrite /\ toWrite'[k] = toWrite[k + 1]
    BY <1>2, RestOfWrite DEF CopyMade, TypeInv, TypeOK, SenderTypeOK
  <2>3. new.fragment = toWrite[1].fragment
    BY <2>1, <2>2, OnWirePacketType DEF SameOrigin
  <2> HIDE DEF new
  <2>4. Copies' \subseteq Copies \cup {new}
    BY <2>1 DEF new
  <2>5. \A p, q \in Copies' : p.fragment = q.fragment => p = q
    BY <2>2, <2>3, <2>4 DEF CopiesAgree
  <2>6. \A p \in Copies', k \in DOMAIN toWrite' : p.fragment # toWrite'[k].fragment
    <3> SUFFICES ASSUME NEW p \in Copies', NEW k \in DOMAIN toWrite'
                 PROVE  p.fragment # toWrite'[k].fragment
      OBVIOUS
    <3>1. CASE p \in Copies
      BY <2>2, <3>1 DEF CopiesAgree
    <3>2. CASE p = new
      <4>1. k + 1 # 1
        BY <2>2
      <4> QED BY <2>2, <2>3, <3>2, <4>1 DEF CopiesAgree
    <3> QED BY <2>4, <3>1, <3>2
  <2>7. \A j, k \in DOMAIN toWrite' :
          toWrite'[j].fragment = toWrite'[k].fragment => j = k
    <3> SUFFICES ASSUME NEW j \in DOMAIN toWrite', NEW k \in DOMAIN toWrite',
                        toWrite'[j].fragment = toWrite'[k].fragment
                 PROVE  j = k
      OBVIOUS
    <3>1. j + 1 = k + 1
      BY <2>2 DEF CopiesAgree
    <3> QED BY <2>2, <3>1
  <2> QED BY <2>5, <2>6, <2>7 DEF CopiesAgree
<1>3. CASE WriteBegun
  <2>1. PICK r \in WriteKinds, length \in Lengths : BeginWrite(r, length) /\ Copies' = Copies
    BY <1>3 DEF WriteBegun
  <2>2. /\ \A k \in DOMAIN toWrite' :
             toWrite'[k].fragment.w = Len(log) + 1 /\ toWrite'[k].fragment.i = k - 1
        /\ \A v \in DOMAIN log : v \in Nat /\ v < Len(log) + 1
        /\ DOMAIN toWrite' \subseteq Nat
    BY <2>1, NewFragments
  <2>3. \A p \in Copies : p.fragment.w \in DOMAIN log
    BY CopiesGenuine DEF ArrivedOK, Genuine
  <2>4. \A p, q \in Copies' : p.fragment = q.fragment => p = q
    BY <2>1 DEF CopiesAgree
  <2>5. \A p \in Copies', k \in DOMAIN toWrite' : p.fragment # toWrite'[k].fragment
    <3> SUFFICES ASSUME NEW p \in Copies, NEW k \in DOMAIN toWrite',
                        p.fragment = toWrite'[k].fragment
                 PROVE  FALSE
      BY <2>1
    <3>1. p.fragment.w = Len(log) + 1
      BY <2>2
    <3> QED BY <2>2, <2>3, <3>1
  <2>6. ASSUME NEW j \in DOMAIN toWrite', NEW k \in DOMAIN toWrite',
               toWrite'[j].fragment = toWrite'[k].fragment
        PROVE  j = k
    <3>1. j - 1 = k - 1
      BY <2>2, <2>6
    <3> QED BY <2>2, <3>1
  <2> QED BY <2>4, <2>5, <2>6 DEF CopiesAgree
<1> QED BY <1>1, <1>2, <1>3

\* What was handed over stays remembered while copies are made.
LEMMA HandedStays ==
  ASSUME TypeInv, PacketsGenuine, CopiesAgree, HandedRemembered, LogGrows,
         NoCopyMade \/ CopyMade \/ WriteBegun, UNCHANGED handing
  PROVE  HandedRemembered'
<1> SUFFICES ASSUME NEW j \in DOMAIN delivered["Reliable"],
                    Len(delivered["Reliable"][j]) = 1
             PROVE  LET f == delivered["Reliable"][j][1]
                    IN  /\ f.w \in DOMAIN log'
                        /\ \A k \in DOMAIN toWrite' : toWrite'[k].fragment # f
                        /\ \A p \in Copies' : p.fragment = f =>
                             Seen(receivedMessageIndices, p.messageIndex)
  BY DEF HandedRemembered, handing, sequencedVars, Seen
<1> DEFINE f == delivered["Reliable"][j][1]
<1>1. /\ f.w \in DOMAIN log
      /\ \A k \in DOMAIN toWrite : toWrite[k].fragment # f
      /\ \A p \in Copies : p.fragment = f => Seen(receivedMessageIndices, p.messageIndex)
  BY DEF HandedRemembered
<1>2. f.w \in DOMAIN log'
  BY <1>1 DEF LogGrows
<1> HIDE DEF f
<1>3. CASE NoCopyMade
  BY <1>1, <1>2, <1>3 DEF NoCopyMade, f
<1>4. CASE CopyMade
  <2>1. PICK pk \in Packets : /\ SameOrigin(pk, Head(toWrite))
                              /\ Copies' \subseteq Copies \cup {OnWirePacket(pk)}
    BY <1>4 DEF CopyMade
  <2>2. /\ 1 \in DOMAIN toWrite /\ Head(toWrite) = toWrite[1]
        /\ \A k \in DOMAIN toWrite' :
             k + 1 \in DOMAIN toWrite /\ toWrite'[k] = toWrite[k + 1]
    BY <1>4, RestOfWrite DEF CopyMade, TypeInv, TypeOK, SenderTypeOK
  <2>3. OnWirePacket(pk).fragment = toWrite[1].fragment
    BY <2>1, <2>2, OnWirePacketType DEF SameOrigin
  <2>4. OnWirePacket(pk).fragment # f
    BY <1>1, <2>2, <2>3
  <2> QED BY <1>1, <1>2, <2>1, <2>2, <2>4 DEF f
<1>5. CASE WriteBegun
  <2>1. PICK r \in WriteKinds, length \in Lengths : BeginWrite(r, length) /\ Copies' = Copies
    BY <1>5 DEF WriteBegun
  <2>2. /\ \A k \in DOMAIN toWrite' :
             toWrite'[k].fragment.w = Len(log) + 1 /\ toWrite'[k].fragment.i = k - 1
        /\ \A v \in DOMAIN log : v \in Nat /\ v < Len(log) + 1
    BY <2>1, NewFragments
  <2>3. ASSUME NEW k \in DOMAIN toWrite' PROVE toWrite'[k].fragment # f
    <3>1. toWrite'[k].fragment.w = Len(log) + 1
      BY <2>2
    <3>2. f.w \in Nat /\ f.w < Len(log) + 1
      BY <1>1, <2>2
    <3> QED BY <3>1, <3>2
  <2> QED BY <1>1, <1>2, <2>1, <2>3 DEF f
<1> QED BY <1>3, <1>4, <1>5

\* What receivePacket hands over, and what it remembers of it.
LEMMA ReceivePacketEffect ==
  ASSUME PacketStateOK, NEW d \in Datagrams, NEW c \in Contents, ReceivePacket(d, c)
  PROVE  /\ \A m \in Nat : Seen(receivedMessageIndices, m) => Seen(receivedMessageIndices', m)
         /\ \/ delivered'["Reliable"] = delivered["Reliable"]
            \/ /\ delivered'["Reliable"] = delivered["Reliable"] \o <<c>>
               /\ ~Seen(receivedMessageIndices, d.pk.messageIndex)
               /\ Seen(receivedMessageIndices', d.pk.messageIndex)
         /\ \A r \in SequencedKinds :
              \/ delivered'[r] = delivered[r] /\ HighestSeqIndex(r)' = HighestSeqIndex(r)
              \/ /\ d.pk.reliability = r
                 /\ delivered'[r] = delivered[r] \o <<c>>
                 /\ ~IsStale(d.pk.sequenceIndex, HighestSeqIndex(r))
                 /\ HighestSeqIndex(r)' = d.pk.sequenceIndex + 1
<1> DEFINE m == d.pk.messageIndex
           w == receivedMessageIndices
<1>1. m \in Nat /\ WindowOK(w)
  BY DEF Datagrams, Packets, PacketStateOK
<1>2. delivered \in [Reliabilities -> Seq(Contents)]
  BY DEF PacketStateOK
<1>3. ASSUME NEW r \in Reliabilities, NEW cs, HandlePackets(r, cs)
      PROVE  /\ delivered'[r] = delivered[r] \o cs
             /\ \A q \in Reliabilities : q # r => delivered'[q] = delivered[q]
  BY <1>2, <1>3 DEF HandlePackets
<1>4. /\ "Reliable" \in Reliabilities /\ SequencedKinds \subseteq Reliabilities
      /\ "Unreliable" \in Reliabilities /\ "ReliableOrdered" \in Reliabilities
      /\ "Reliable" \notin SequencedKinds /\ "Unreliable" \notin SequencedKinds
      /\ "ReliableOrdered" \notin SequencedKinds
  BY DEF Reliabilities, SequencedKinds
<1>5. ~Seen(w, m) => /\ \A j \in Nat : Seen(w, j) => Seen(Shift(Add(w, m)), j)
                     /\ Seen(Shift(Add(w, m)), m)
  BY <1>1, WindowStepOK
<1> HIDE DEF w, m
<1>6. CASE ReceiveUnreliable(d, c)
  <2>1. UNCHANGED <<receivedMessageIndices, sequencedVars>>
        /\ HandlePackets("Unreliable", <<c>>)
    BY <1>6 DEF ReceiveUnreliable
  <2> QED BY <1>3, <1>4, <2>1 DEF HighestSeqIndex, sequencedVars
<1>7. CASE ReceiveReliable(d, c)
  <2>1. UNCHANGED sequencedVars
    BY <1>7 DEF ReceiveReliable
  <2>2. CASE UNCHANGED <<receivedMessageIndices, delivered>>
    BY <2>1, <2>2 DEF HighestSeqIndex, sequencedVars
  <2>3. CASE /\ ~Seen(w, m) /\ receivedMessageIndices' = Shift(Add(w, m))
             /\ HandlePackets("Reliable", <<c>>)
    BY <1>3, <1>4, <1>5, <2>1, <2>3 DEF HighestSeqIndex, sequencedVars, w, m
  <2> QED BY <1>7, <2>2, <2>3 DEF ReceiveReliable, w, m
<1>8. CASE d.pk.reliability = "UnreliableSequenced" /\ ReceiveUnreliableSequenced(d, c)
  <2>1. UNCHANGED <<receivedMessageIndices, highestReliableSeqIndex>>
    BY <1>8 DEF ReceiveUnreliableSequenced
  <2>2. CASE UNCHANGED <<highestUnreliableSeqIndex, delivered>>
    BY <2>1, <2>2 DEF HighestSeqIndex
  <2>3. CASE /\ ~IsStale(d.pk.sequenceIndex, highestUnreliableSeqIndex)
             /\ highestUnreliableSeqIndex' = d.pk.sequenceIndex + 1
             /\ HandlePackets("UnreliableSequenced", <<c>>)
    BY <1>3, <1>4, <1>8, <2>1, <2>3 DEF HighestSeqIndex, SequencedKinds
  <2> QED BY <1>8, <2>2, <2>3 DEF ReceiveUnreliableSequenced
<1>9. CASE d.pk.reliability = "ReliableSequenced" /\ ReceiveReliableSequenced(d, c)
  <2>1. UNCHANGED highestUnreliableSeqIndex
    BY <1>9 DEF ReceiveReliableSequenced
  <2>2. \A j \in Nat : Seen(receivedMessageIndices, j) => Seen(receivedMessageIndices', j)
    BY <1>5, <1>9 DEF ReceiveReliableSequenced, w, m
  <2>3. CASE UNCHANGED <<highestReliableSeqIndex, delivered>>
    BY <2>1, <2>2, <2>3 DEF HighestSeqIndex
  <2>4. CASE /\ ~IsStale(d.pk.sequenceIndex, highestReliableSeqIndex)
             /\ highestReliableSeqIndex' = d.pk.sequenceIndex + 1
             /\ HandlePackets("ReliableSequenced", <<c>>)
    BY <1>3, <1>4, <1>9, <2>1, <2>2, <2>4 DEF HighestSeqIndex, SequencedKinds
  <2> QED BY <1>9, <2>3, <2>4 DEF ReceiveReliableSequenced
<1>10. CASE ReceiveReliableOrdered(d, c)
  <2>1. UNCHANGED <<receivedMessageIndices, sequencedVars>>
    BY <1>10 DEF ReceiveReliableOrdered
  <2>2. \/ UNCHANGED delivered
        \/ \E cs : HandlePackets("ReliableOrdered", cs)
    BY <1>10 DEF ReceiveReliableOrdered
  <2> QED BY <1>3, <1>4, <2>1, <2>2 DEF HighestSeqIndex, sequencedVars
<1> QED BY <1>6, <1>7, <1>8, <1>9, <1>10 DEF ReceivePacket

\* What becomes of a datagram: nothing is handed over, or the packet is, with
\* its own fragment or with all that were collected.
LEMMA ReceiveDatagramEffect ==
  ASSUME TypeInv, NEW d \in datagrams, NEW old, ReceiveDatagram(d, old)
  PROVE  \/ UNCHANGED <<receivedMessageIndices, sequencedVars, delivered>>
         \/ \E c \in Contents :
              /\ ReceivePacket(d, c)
              /\ \/ ~IsSplit(d.pk) /\ c = <<d.pk.fragment>>
                 \/ /\ IsSplit(d.pk) /\ c = Collected(d.pk)
                    /\ \A k \in DOMAIN c : c[k] # NoFragment
<1>1. d \in Datagrams /\ d.pk \in Packets /\ <<d.pk.fragment>> \in Contents
  <2>1. d \in Datagrams
    BY DEF TypeInv, TypeOK, SenderTypeOK
  <2>2. d.pk \in Packets
    BY <2>1 DEF Datagrams
  <2>3. d.pk.fragment \in Fragments
    BY <2>2 DEF Packets
  <2> QED BY <2>1, <2>2, <2>3 DEF Contents
<1>2. Collected(d.pk) \in Contents
  BY <1>1, CollectedOK DEF TypeInv, TypeOK, ReceiverTypeOK
<1> QED BY <1>1, <1>2 DEF ReceiveDatagram, HandleDatagram, ReceiveSplitPacket

\* Packets that are collected consist of several fragments.
LEMMA CollectedLong ==
  ASSUME TypeInv, SplitsLong, NEW pk \in Packets, IsSplit(pk), Genuine(pk)
  PROVE  Len(Collected(pk)) > 1
<1> DEFINE m == IF pk.splitID \in DOMAIN splits THEN splits[pk.splitID]
                ELSE [k \in 1..pk.splitCount |-> NoFragment]
<1>1. pk.splitCount > 1 /\ pk.splitCount \in Nat
  BY DEF Genuine, Packets
<1>2. m \in Contents /\ Len(m) > 1
  <2>1. CASE pk.splitID \in DOMAIN splits
    BY <2>1 DEF SplitsLong, TypeInv, TypeOK, ReceiverTypeOK
  <2>2. CASE pk.splitID \notin DOMAIN splits
    <3>1. NoFragment \in Fragments
      BY DEF NoFragment, Fragments
    <3> QED BY <1>1, <2>2, <3>1 DEF Contents
  <2> QED BY <2>1, <2>2
<1>3. Collected(pk) = [m EXCEPT ![pk.splitIndex + 1] = pk.fragment]
  BY DEF Collected
<1> HIDE DEF m
<1> QED BY <1>2, <1>3 DEF Contents

\* What waits for fragments has more than one.
LEMMA SplitsLongStep ==
  ASSUME TypeInv, SplitsLong, NEW d \in datagrams, Genuine(d.pk), NEW old,
         ReceiveDatagram(d, old)
  PROVE  SplitsLong'
<1>1. d.pk \in Packets
  BY DEF TypeInv, TypeOK, SenderTypeOK, Datagrams
<1>2. \/ UNCHANGED splits
      \/ /\ IsSplit(d.pk)
         /\ splits' = [s \in DOMAIN splits \cup {d.pk.splitID} |->
                         IF s = d.pk.splitID THEN Collected(d.pk) ELSE splits[s]]
      \/ splits' = [s \in DOMAIN splits \ {d.pk.splitID} |-> splits[s]]
  BY DEF ReceiveDatagram, HandleDatagram, ReceiveSplitPacket
<1>3. IsSplit(d.pk) => Len(Collected(d.pk)) > 1
  BY <1>1, CollectedLong
<1> QED BY <1>2, <1>3 DEF SplitsLong

\* An unsplit reliable packet that is handed over was not handed over before.
LEMMA ReceiveOnce ==
  ASSUME TypeInv, PacketsGenuine, ReliableInv, UNCHANGED senderVars,
         NEW d \in datagrams, NEW old, ReceiveDatagram(d, old)
  PROVE  ReliableInv'
<1> DEFINE before == delivered["Reliable"]
           after == delivered'["Reliable"]
<1>1. /\ PacketStateOK /\ d \in Datagrams /\ d.pk \in Packets /\ d.pk \in Copies
      /\ before \in Seq(Contents)
  BY DEF PacketStateOK, TypeInv, TypeOK, SenderTypeOK, ReceiverTypeOK, Datagrams, Copies,
         Reliabilities
<1>2. Genuine(d.pk)
  BY DEF PacketsGenuine, ArrivedOK
<1>3. UNCHANGED <<log, toWrite, ccPending, unacknowledged, datagrams>>
  BY DEF senderVars, loopVars
<1>4. Copies' = Copies
  BY <1>3 DEF Copies
<1>5. CopiesAgree'
  BY <1>3, <1>4 DEF CopiesAgree, ReliableInv
<1>6. SplitsLong'
  BY <1>2, SplitsLongStep DEF ReliableInv
<1>7. \A p \in Copies : p.messageIndex \in Nat
  BY CopiesGenuine DEF Packets
<1> DEFINE Remembered ==
             \A m \in Nat : Seen(receivedMessageIndices, m) => Seen(receivedMessageIndices', m)
           Handed(c) ==
             /\ after = before \o <<c>>
             /\ ~Seen(receivedMessageIndices, d.pk.messageIndex)
             /\ Seen(receivedMessageIndices', d.pk.messageIndex)
             /\ c = <<d.pk.fragment>> \/ Len(c) > 1
<1>8. Remembered /\ (after = before \/ \E c \in Contents : Handed(c))
  <2>1. CASE UNCHANGED <<receivedMessageIndices, delivered>>
    BY <2>1
  <2>2. ASSUME NEW c \in Contents, ReceivePacket(d, c),
               \/ ~IsSplit(d.pk) /\ c = <<d.pk.fragment>>
               \/ IsSplit(d.pk) /\ c = Collected(d.pk)
        PROVE  Remembered /\ (after = before \/ Handed(c))
    <3>1. c = <<d.pk.fragment>> \/ Len(c) > 1
      BY <1>1, <1>2, <2>2, CollectedLong DEF ReliableInv
    <3> QED BY <1>1, <2>2, <3>1, ReceivePacketEffect
  <2> QED BY <2>1, <2>2, ReceiveDatagramEffect
<1>9. CASE after = before
  <2>1. HandedRemembered'
    BY <1>3, <1>4, <1>7, <1>8, <1>9 DEF HandedRemembered, ReliableInv
  <2>2. ReliableOnce'
    BY <1>9 DEF ReliableOnce, ReliableInv
  <2> QED BY <1>5, <1>6, <2>1, <2>2 DEF ReliableInv
<1>10. ASSUME NEW c \in Contents, after = before \o <<c>>,
              ~Seen(receivedMessageIndices, d.pk.messageIndex),
              Seen(receivedMessageIndices', d.pk.messageIndex),
              c = <<d.pk.fragment>> \/ Len(c) > 1
       PROVE  HandedRemembered' /\ ReliableOnce'
  <2>1. /\ DOMAIN after = 1..(Len(before) + 1) /\ Len(before) \in Nat
        /\ DOMAIN before = 1..Len(before)
        /\ \A j \in DOMAIN before : after[j] = before[j]
        /\ after[Len(before) + 1] = c
        /\ \A j \in DOMAIN after : j \in DOMAIN before \/ j = Len(before) + 1
    BY <1>1, <1>10
  <2>2. Len(c) = 1 => c[1] = d.pk.fragment /\ c = <<d.pk.fragment>>
    BY <1>10
  <2>3. ASSUME NEW j \in DOMAIN before, Len(before[j]) = 1
        PROVE  /\ before[j][1].w \in DOMAIN log
               /\ \A k \in DOMAIN toWrite : toWrite[k].fragment # before[j][1]
               /\ \A p \in Copies : p.fragment = before[j][1] =>
                    Seen(receivedMessageIndices, p.messageIndex)
    BY <2>3 DEF ReliableInv, HandedRemembered
  <2>4. ASSUME NEW j \in DOMAIN after, Len(after[j]) = 1
        PROVE  /\ after[j][1].w \in DOMAIN log'
               /\ \A k \in DOMAIN toWrite' : toWrite'[k].fragment # after[j][1]
               /\ \A p \in Copies' : p.fragment = after[j][1] =>
                    Seen(receivedMessageIndices', p.messageIndex)
    <3>1. CASE j \in DOMAIN before
      BY <1>3, <1>4, <1>7, <1>8, <2>1, <2>3, <2>4, <3>1
    <3>2. CASE j = Len(before) + 1
      <4>1. after[j][1] = d.pk.fragment
        BY <2>1, <2>2, <2>4, <3>2
      <4>2. d.pk.fragment.w \in DOMAIN log
        BY <1>2 DEF Genuine
      <4>3. /\ \A k \in DOMAIN toWrite : toWrite[k].fragment # d.pk.fragment
            /\ \A p \in Copies : p.fragment = d.pk.fragment => p = d.pk
        BY <1>1 DEF CopiesAgree, ReliableInv
      <4> QED BY <1>3, <1>4, <1>10, <4>1, <4>2, <4>3
    <3> QED BY <2>1, <3>1, <3>2
  <2>5. HandedRemembered'
    BY <2>4 DEF HandedRemembered
  <2>6. ASSUME NEW j \in DOMAIN before, before[j] = c, Len(c) = 1
        PROVE  FALSE
    <3>1. Seen(receivedMessageIndices, d.pk.messageIndex)
      BY <1>1, <2>2, <2>3, <2>6
    <3> QED BY <1>10, <3>1
  <2>7. ASSUME NEW j \in DOMAIN after, NEW k \in DOMAIN after,
               after[j] = after[k], Len(after[j]) = 1
        PROVE  j = k
    BY <2>1, <2>6, <2>7 DEF ReliableOnce, ReliableInv
  <2>8. ReliableOnce'
    BY <2>7 DEF ReliableOnce
  <2> QED BY <2>5, <2>8
<1> QED BY <1>5, <1>6, <1>8, <1>9, <1>10 DEF ReliableInv

\* Every step keeps what reliable packets rest on.
LEMMA NextReliable ==
  ASSUME TypeInv, ContentInv, ReliableInv, [Next]_vars
  PROVE  ReliableInv'
<1>1. PacketsGenuine /\ LogGrows
  BY NextGrows DEF ContentInv
<1>2. CASE UNCHANGED handing /\ (NoCopyMade \/ CopyMade \/ WriteBegun)
  <2>1. CopiesAgree'
    BY <1>1, <1>2, CopiesAgreeStep DEF ReliableInv
  <2>2. HandedRemembered'
    BY <1>1, <1>2, HandedStays DEF ReliableInv
  <2>3. SplitsLong' /\ ReliableOnce'
    BY <1>2 DEF handing, SplitsLong, ReliableOnce, ReliableInv
  <2> QED BY <2>1, <2>2, <2>3 DEF ReliableInv
<1>3. CASE (\E d \in datagrams : \E old : ReceiveDatagram(d, old)) /\ UNCHANGED senderVars
  BY <1>1, <1>3, ReceiveOnce
<1> QED BY <1>2, <1>3, NextCopies

\* Whatever is resent or repeated by the network, and even when indices wrap,
\* an unsplit reliable packet is handed over at most once
\* (receivedMessageIndices, receiveReliable of receivePacket).
THEOREM ReliableOnceHolds == Spec => []ReliableOnce
<1>1. Init => ReliableInv
  <2> SUFFICES ASSUME Init PROVE ReliableInv
    OBVIOUS
  <2>1. Copies = {} /\ toWrite = <<>> /\ splits = <<>>
    BY DEF Init, SenderInit, ReceiverInit, Copies
  <2>2. delivered["Reliable"] = <<>>
    BY DEF Init, ReceiverInit, Reliabilities
  <2> QED
    BY <2>1, <2>2 DEF ReliableInv, CopiesAgree, SplitsLong, HandedRemembered, ReliableOnce
<1>2. TypeInv /\ ContentInv /\ ReliableInv /\ [Next]_vars => ReliableInv'
  BY NextReliable
<1>3. ReliableInv => ReliableOnce
  BY DEF ReliableInv
<1> QED BY <1>1, <1>2, <1>3, TypeCorrect, ContentCorrect, PTL DEF Spec
-----------------------------------------------------------------------------
\* Sequenced packets.

\* isNewerSequenceIndex lets no lower index pass as long as none has wrapped.
LEMMA NotStale ==
  ASSUME NEW i \in Nat, NEW h \in Nat, i <= IndexSpace, h <= IndexSpace, ~IsStale(i, h)
  PROVE  h <= i
<1> SUFFICES ASSUME i < h PROVE FALSE
  OBVIOUS
<1>1. IndexSpace \in Nat /\ IndexSpace > 0
  BY IndexSpaceAssumption
<1>2. (i - h) % (256 * IndexSpace) < IndexSpace \div 2
  BY DEF IsStale, IsNewerSequenceIndex
<1>3. (i - h) % (256 * IndexSpace) = 256 * IndexSpace + (i - h)
  <2> DEFINE M == 256 * IndexSpace
             x == i - h
  <2>1. M \in Nat /\ M > 0 /\ x \in Int /\ x < 0 /\ 0 <= M + x
    BY <1>1
  <2> HIDE DEF M, x
  <2>2. M + x \in 0..(M - 1) /\ x = M * (-1) + (M + x)
    BY <2>1
  <2>3. x % M = M + x
    BY <2>1, <2>2
  <2> QED BY <2>3 DEF M, x
<1>4. IndexSpace \div 2 <= IndexSpace
  BY <1>1
<1> QED BY <1>1, <1>2, <1>3, <1>4

\* The sequence index of a packet as the other end reads it.
LEMMA OnWireSequence ==
  ASSUME NEW pk \in Packets, IsSequenced(pk.reliability), pk.sequenceIndex < IndexSpace
  PROVE  SameOrigin(OnWirePacket(pk), pk)
<1>1. OnWire(pk.sequenceIndex) = pk.sequenceIndex
  BY OnWireOK DEF Packets
<1>2. OnWirePacket(pk).sequenceIndex = pk.sequenceIndex
  BY <1>1 DEF OnWirePacket, Packets
<1> QED BY <1>2, OnWirePacketType DEF SameOrigin

\* Packets that are under way are packets.
LEMMA UnderwayTypes ==
  ASSUME TypeInv, PacketsGenuine
  PROVE  \A p \in Underway : p \in Packets /\ p.fragment.w \in DOMAIN log
<1>1. \A p \in Copies : p \in Packets /\ p.fragment.w \in DOMAIN log
  BY CopiesGenuine DEF ArrivedOK, Genuine
<1>2. \A k \in DOMAIN toWrite : toWrite[k] \in Packets /\ toWrite[k].fragment.w \in DOMAIN log
  BY DEF TypeInv, TypeOK, SenderTypeOK, PacketsGenuine, SentOK, Genuine
<1> QED BY <1>1, <1>2 DEF Underway

\* What is under way after a copy was made was under way before.
LEMMA CopyTwins ==
  ASSUME TypeInv, PacketsGenuine, SequenceOK, sequenceIndex <= IndexSpace,
         NoCopyMade \/ CopyMade
  PROVE  \A p \in SequencedUnderway' : \E q \in SequencedUnderway : SameOrigin(p, q)
<1>1. CASE NoCopyMade
  <2>1. SequencedUnderway' \subseteq SequencedUnderway
    BY <1>1 DEF NoCopyMade, SequencedUnderway, Underway
  <2> QED BY <2>1 DEF SameOrigin
<1>2. CASE CopyMade
  <2>1. PICK pk \in Packets : /\ SameOrigin(pk, Head(toWrite))
                              /\ Copies' \subseteq Copies \cup {OnWirePacket(pk)}
    BY <1>2 DEF CopyMade
  <2>2. /\ 1 \in DOMAIN toWrite /\ Head(toWrite) = toWrite[1]
        /\ \A k \in DOMAIN toWrite' :
             k + 1 \in DOMAIN toWrite /\ toWrite'[k] = toWrite[k + 1]
    BY <1>2, RestOfWrite DEF CopyMade, TypeInv, TypeOK, SenderTypeOK
  <2>3. Head(toWrite) \in Underway
    BY <2>2 DEF Underway
  <2>4. ASSUME NEW p \in SequencedUnderway'
        PROVE  \E q \in SequencedUnderway : SameOrigin(p, q)
    <3>1. p \in Underway' /\ IsSequenced(p.reliability)
      BY <2>4 DEF SequencedUnderway
    <3>2. CASE p \in Underway
      BY <3>1, <3>2 DEF SequencedUnderway, SameOrigin
    <3>3. CASE p = OnWirePacket(pk)
      <4>1. IsSequenced(pk.reliability)
        BY <3>1, <3>3, OnWirePacketType
      <4>2. Head(toWrite) \in SequencedUnderway
        BY <2>1, <2>3, <4>1 DEF SequencedUnderway, SameOrigin
      <4>3. pk.sequenceIndex < IndexSpace
        <5>1. pk.sequenceIndex < sequenceIndex
          BY <2>1, <4>2 DEF SequenceOK, SameOrigin
        <5>2. pk.sequenceIndex \in Nat /\ sequenceIndex \in Nat
          BY DEF Packets, TypeInv, TypeOK, SenderTypeOK
        <5> QED BY <5>1, <5>2, IndexSpaceAssumption
      <4>4. SameOrigin(p, pk)
        BY <3>3, <4>1, <4>3, OnWireSequence
      <4> QED BY <2>1, <4>2, <4>4 DEF SameOrigin
    <3>4. p \in Underway \/ p = OnWirePacket(pk)
      BY <2>1, <2>2, <3>1 DEF Underway
    <3> QED BY <3>2, <3>3, <3>4
  <2> QED BY <2>4
<1> QED BY <1>1, <1>2

\* Copies change nothing about the order of sequenced packets.
LEMMA CopySequence ==
  ASSUME TypeInv, PacketsGenuine, SequenceOK, sequenceIndex <= IndexSpace,
         NoCopyMade \/ CopyMade, UNCHANGED handing
  PROVE  SequenceOK'
<1>1. \A p \in SequencedUnderway' : \E q \in SequencedUnderway : SameOrigin(p, q)
  BY CopyTwins
<1>2. UNCHANGED <<log, sequenceIndex, delivered, highestUnreliableSeqIndex,
                  highestReliableSeqIndex>>
  BY DEF NoCopyMade, CopyMade, handing, sequencedVars
<1>3. \A r : HighestSeqIndex(r)' = HighestSeqIndex(r)
  BY <1>2 DEF HighestSeqIndex
<1>4. ASSUME NEW p \in SequencedUnderway'
      PROVE  /\ p.sequenceIndex < sequenceIndex
             /\ \A q \in SequencedUnderway' :
                  p.sequenceIndex < q.sequenceIndex => p.fragment.w < q.fragment.w
             /\ HighestSeqIndex(p.reliability) <= p.sequenceIndex =>
                  \A k \in DOMAIN delivered[p.reliability] :
                    delivered[p.reliability][k][1].w < p.fragment.w
  <2>1. PICK t \in SequencedUnderway : SameOrigin(p, t)
    BY <1>1
  <2>2. ASSUME NEW q \in SequencedUnderway', p.sequenceIndex < q.sequenceIndex
        PROVE  p.fragment.w < q.fragment.w
    <3>1. PICK u \in SequencedUnderway : SameOrigin(q, u)
      BY <1>1
    <3> QED BY <2>1, <2>2, <3>1 DEF SequenceOK, SameOrigin
  <2>3. p.sequenceIndex = t.sequenceIndex /\ p.fragment = t.fragment
        /\ p.reliability = t.reliability
    BY <2>1 DEF SameOrigin
  <2>4. /\ t.sequenceIndex < sequenceIndex
        /\ HighestSeqIndex(t.reliability) <= t.sequenceIndex =>
             \A k \in DOMAIN delivered[t.reliability] :
               delivered[t.reliability][k][1].w < t.fragment.w
    BY DEF SequenceOK
  <2> QED BY <2>2, <2>3, <2>4
<1>5. \A r \in SequencedKinds :
        /\ HighestSeqIndex(r) <= IndexSpace
        /\ \A k \in DOMAIN delivered[r] : delivered[r][k][1].w \in DOMAIN log
  BY DEF SequenceOK
<1> HIDE DEF HighestSeqIndex
<1> QED BY <1>2, <1>3, <1>4, <1>5 DEF SequenceOK

\* A new write comes after everything that was written before it.
LEMMA WriteSequence ==
  ASSUME TypeInv, PacketsGenuine, LogGrows, SequenceOK, WriteBegun, UNCHANGED handing
  PROVE  SequenceOK'
<1>1. PICK r \in WriteKinds, length \in Lengths : BeginWrite(r, length) /\ Copies' = Copies
  BY DEF WriteBegun
<1> DEFINE w == Len(log) + 1
<1>2. /\ \A k \in DOMAIN toWrite' :
           /\ toWrite'[k].fragment.w = w
           /\ toWrite'[k].reliability = r
           /\ IsSequenced(r) => toWrite'[k].sequenceIndex = sequenceIndex
      /\ \A v \in DOMAIN log : v \in Nat /\ v < w
      /\ w \in Nat
  BY <1>1, NewFragments, SMTT(40) DEF TypeInv, TypeOK, SenderTypeOK
<1>3. /\ sequenceIndex \in Nat
      /\ sequenceIndex' = IF IsSequenced(r) THEN sequenceIndex + 1 ELSE sequenceIndex
  BY <1>1 DEF TypeInv, TypeOK, SenderTypeOK, BeginWrite
<1>4. UNCHANGED <<delivered, highestUnreliableSeqIndex, highestReliableSeqIndex>>
  BY DEF handing, sequencedVars
<1>5. \A s : HighestSeqIndex(s)' = HighestSeqIndex(s)
  BY <1>4 DEF HighestSeqIndex
<1> HIDE DEF w
<1>6. \A p \in SequencedUnderway :
        /\ p.sequenceIndex \in Nat /\ p.sequenceIndex < sequenceIndex
        /\ p.fragment.w \in DOMAIN log /\ p.reliability \in SequencedKinds
  BY UnderwayTypes DEF SequencedUnderway, SequenceOK, Packets, SequencedKinds, IsSequenced
<1>7. \A p \in SequencedUnderway' :
        \/ p \in SequencedUnderway
        \/ /\ p.fragment.w = w /\ p.sequenceIndex = sequenceIndex
           /\ IsSequenced(r) /\ p.reliability = r
  BY <1>1, <1>2 DEF SequencedUnderway, Underway
<1>8. \A s \in SequencedKinds :
        /\ HighestSeqIndex(s) <= IndexSpace
        /\ \A k \in DOMAIN delivered[s] : delivered[s][k][1].w \in DOMAIN log
  BY DEF SequenceOK
<1>9. ASSUME NEW p \in SequencedUnderway'
      PROVE  /\ p.sequenceIndex < sequenceIndex'
             /\ \A q \in SequencedUnderway' :
                  p.sequenceIndex < q.sequenceIndex => p.fragment.w < q.fragment.w
             /\ HighestSeqIndex(p.reliability) <= p.sequenceIndex =>
                  \A k \in DOMAIN delivered[p.reliability] :
                    delivered[p.reliability][k][1].w < p.fragment.w
  <2>1. CASE p \in SequencedUnderway
    <3>1. p.sequenceIndex < sequenceIndex'
      BY <1>3, <1>6, <2>1
    <3>2. ASSUME NEW q \in SequencedUnderway', p.sequenceIndex < q.sequenceIndex
          PROVE  p.fragment.w < q.fragment.w
      BY <1>2, <1>6, <1>7, <2>1, <3>2 DEF SequenceOK
    <3>3. HighestSeqIndex(p.reliability) <= p.sequenceIndex =>
            \A k \in DOMAIN delivered[p.reliability] :
              delivered[p.reliability][k][1].w < p.fragment.w
      BY <2>1 DEF SequenceOK
    <3> QED BY <3>1, <3>2, <3>3
  <2>2. CASE /\ p.fragment.w = w /\ p.sequenceIndex = sequenceIndex
             /\ IsSequenced(r) /\ p.reliability = r
    <3>1. p.sequenceIndex < sequenceIndex'
      BY <1>3, <2>2
    <3>2. ASSUME NEW q \in SequencedUnderway', p.sequenceIndex < q.sequenceIndex
          PROVE  FALSE
      BY <1>3, <1>6, <1>7, <2>2, <3>2
    <3>3. r \in SequencedKinds
      BY <2>2 DEF SequencedKinds, IsSequenced
    <3>4. \A k \in DOMAIN delivered[r] : delivered[r][k][1].w < w
      BY <1>2, <1>8, <3>3
    <3> QED BY <2>2, <3>1, <3>2, <3>4
  <2> QED BY <1>7, <2>1, <2>2
<1>10. \A s \in SequencedKinds :
         \A k \in DOMAIN delivered[s] : delivered[s][k][1].w \in DOMAIN log'
  BY <1>8 DEF LogGrows
<1> HIDE DEF HighestSeqIndex
<1> QED BY <1>4, <1>5, <1>8, <1>9, <1>10 DEF SequenceOK

\* The content that is handed over with a packet is of its write.
LEMMA HandedIsOfWrite ==
  ASSUME TypeInv, ContentInv, NoWrap, NEW d \in datagrams, NEW c \in Contents,
         \/ ~IsSplit(d.pk) /\ c = <<d.pk.fragment>>
         \/ /\ IsSplit(d.pk) /\ c = Collected(d.pk)
            /\ \A k \in DOMAIN c : c[k] # NoFragment
  PROVE  c[1].w = d.pk.fragment.w
<1>1. CASE c = <<d.pk.fragment>>
  BY <1>1
<1>2. CASE /\ IsSplit(d.pk) /\ c = Collected(d.pk)
           /\ \A k \in DOMAIN c : c[k] # NoFragment
  <2> DEFINE w == d.pk.fragment.w
  <2>1. d.pk \in Packets /\ ArrivedOK(d.pk)
    BY DEF TypeInv, TypeOK, SenderTypeOK, Datagrams, ContentInv, PacketsGenuine
  <2>2. /\ log[w].count > 1 /\ w \in DOMAIN log
        /\ Len(c) = log[w].count /\ DOMAIN c = 1..Len(c)
        /\ \A k \in DOMAIN c : c[k] \in {NoFragment, [w |-> w, i |-> k - 1]}
    BY <1>2, <2>1, CollectedGenuine DEF ContentInv, ReassemblyOK
  <2>3. log[w].count \in Nat
    BY <2>2 DEF TypeInv, TypeOK, SenderTypeOK, WriteRecords
  <2> HIDE DEF w
  <2>4. 1 \in DOMAIN c
    BY <2>2, <2>3
  <2>5. c[1] = [w |-> w, i |-> 1 - 1]
    BY <1>2, <2>2, <2>4
  <2> QED BY <2>5 DEF w
<1> QED BY <1>1, <1>2

\* A sequenced packet that is handed over is of a later write than all before.
LEMMA ReceiveSequence ==
  ASSUME TypeInv, ContentInv, NoWrap, SequenceOK, SequencedInOrder,
         sequenceIndex <= IndexSpace, UNCHANGED senderVars,
         NEW d \in datagrams, NEW old, ReceiveDatagram(d, old)
  PROVE  SequenceOK' /\ SequencedInOrder'
<1> DEFINE pk == d.pk
           i == d.pk.sequenceIndex
           w == d.pk.fragment.w
<1>1. /\ PacketStateOK /\ d \in Datagrams /\ pk \in Packets /\ pk \in Underway
      /\ delivered \in [Reliabilities -> Seq(Contents)]
      /\ SequencedKinds \subseteq Reliabilities
  BY DEF PacketStateOK, TypeInv, TypeOK, SenderTypeOK, ReceiverTypeOK, Datagrams, Copies,
         Underway, Reliabilities, SequencedKinds
<1>2. UNCHANGED <<log, toWrite, ccPending, unacknowledged, datagrams, sequenceIndex>>
  BY DEF senderVars, loopVars, indices
<1>3. SequencedUnderway' = SequencedUnderway
  BY <1>2 DEF Copies, Underway, SequencedUnderway
<1>4. \A p \in SequencedUnderway :
        /\ p.sequenceIndex \in Nat /\ p.fragment.w \in Nat
        /\ p.fragment.w \in DOMAIN log /\ p.reliability \in SequencedKinds
  BY UnderwayTypes DEF SequencedUnderway, Packets, Fragments, SequencedKinds, IsSequenced,
                       ContentInv
<1>5. \A r \in SequencedKinds : HighestSeqIndex(r) \in Nat
  BY <1>1 DEF PacketStateOK, HighestSeqIndex
<1> DEFINE Kept(r) == delivered'[r] = delivered[r] /\ HighestSeqIndex(r)' = HighestSeqIndex(r)
           Handed(r, c) == /\ pk.reliability = r
                           /\ delivered'[r] = delivered[r] \o <<c>>
                           /\ ~IsStale(i, HighestSeqIndex(r))
                           /\ HighestSeqIndex(r)' = i + 1
                           /\ c[1].w = w
<1>6. \A r \in SequencedKinds : Kept(r) \/ \E c \in Contents : Handed(r, c)
  <2>1. CASE UNCHANGED <<sequencedVars, delivered>>
    BY <2>1 DEF HighestSeqIndex, sequencedVars
  <2>2. ASSUME NEW c \in Contents, ReceivePacket(d, c),
               \/ ~IsSplit(d.pk) /\ c = <<d.pk.fragment>>
               \/ /\ IsSplit(d.pk) /\ c = Collected(d.pk)
                  /\ \A k \in DOMAIN c : c[k] # NoFragment
        PROVE  \A r \in SequencedKinds : Kept(r) \/ Handed(r, c)
    <3>1. c[1].w = w
      BY <2>2, HandedIsOfWrite
    <3>2. \A r \in SequencedKinds :
              \/ delivered'[r] = delivered[r] /\ HighestSeqIndex(r)' = HighestSeqIndex(r)
              \/ /\ d.pk.reliability = r
                 /\ delivered'[r] = delivered[r] \o <<c>>
                 /\ ~IsStale(d.pk.sequenceIndex, HighestSeqIndex(r))
                 /\ HighestSeqIndex(r)' = d.pk.sequenceIndex + 1
      BY <1>1, <2>2, ReceivePacketEffect
    <3> QED BY <3>1, <3>2
  <2> QED BY <2>1, <2>2, ReceiveDatagramEffect
<1> HIDE DEF Kept, Handed
<1> DEFINE after(r) == delivered'[r]
           high(r) == HighestSeqIndex(r)'
           Later(r) == \A p \in SequencedUnderway :
                         p.reliability = r /\ high(r) <= p.sequenceIndex =>
                           \A k \in DOMAIN after(r) : after(r)[k][1].w < p.fragment.w
           Logged(r) == \A k \in DOMAIN after(r) : after(r)[k][1].w \in DOMAIN log
           Ascending(r) == \A j, k \in DOMAIN after(r) :
                             j < k => after(r)[j][1].w < after(r)[k][1].w
<1>7. ASSUME NEW r \in SequencedKinds
      PROVE  Later(r) /\ Logged(r) /\ Ascending(r) /\ high(r) <= IndexSpace
  <2> DEFINE before == delivered[r]
  <2>1. /\ HighestSeqIndex(r) <= IndexSpace
        /\ \A k \in DOMAIN before : before[k][1].w \in DOMAIN log
        /\ \A p \in SequencedUnderway :
             p.reliability = r /\ HighestSeqIndex(r) <= p.sequenceIndex =>
               \A k \in DOMAIN before : before[k][1].w < p.fragment.w
        /\ \A j, k \in DOMAIN before : j < k => before[j][1].w < before[k][1].w
    BY DEF SequenceOK, SequencedInOrder, SequencedKinds
  <2>2. CASE Kept(r)
    BY <2>1, <2>2 DEF Kept
  <2>3. ASSUME NEW c \in Contents, Handed(r, c)
        PROVE  Later(r) /\ Logged(r) /\ Ascending(r) /\ high(r) <= IndexSpace
    <3>1. /\ pk.reliability = r /\ after(r) = before \o <<c>>
          /\ ~IsStale(i, HighestSeqIndex(r)) /\ high(r) = i + 1 /\ c[1].w = w
      BY <2>3 DEF Handed
    <3>2. pk \in SequencedUnderway
      BY <1>1, <3>1 DEF SequencedUnderway, SequencedKinds, IsSequenced
    <3>3. i \in Nat /\ i < sequenceIndex /\ sequenceIndex \in Nat
      BY <1>4, <3>2 DEF SequenceOK, TypeInv, TypeOK, SenderTypeOK
    <3>4. HighestSeqIndex(r) <= i
      BY <1>5, <2>1, <3>1, <3>3, NotStale, IndexSpaceAssumption
    <3>5. \A k \in DOMAIN before : before[k][1].w < w /\ before[k][1].w \in DOMAIN log
      BY <2>1, <3>1, <3>2, <3>4
    <3>6. w \in DOMAIN log
      BY <1>4, <3>2
    <3>7. /\ before \in Seq(Contents) /\ Len(before) \in Nat
          /\ DOMAIN before = 1..Len(before)
      BY <1>1
    <3> HIDE DEF before, w
    <3>8. /\ DOMAIN after(r) = 1..(Len(before) + 1)
          /\ \A k \in 1..Len(before) : after(r)[k] = before[k]
          /\ after(r)[Len(before) + 1] = c
      BY <3>1, <3>7
    <3>9. \A k \in DOMAIN after(r) :
            \/ k \in DOMAIN before /\ after(r)[k] = before[k]
            \/ k = Len(before) + 1 /\ after(r)[k] = c
      BY <3>7, <3>8
    <3>10. Later(r)
      <4> SUFFICES ASSUME NEW p \in SequencedUnderway, p.reliability = r,
                          high(r) <= p.sequenceIndex, NEW k \in DOMAIN after(r)
                   PROVE  after(r)[k][1].w < p.fragment.w
        OBVIOUS
      <4>1. i < p.sequenceIndex /\ HighestSeqIndex(r) <= p.sequenceIndex
        BY <1>4, <1>5, <3>1, <3>3, <3>4
      <4>2. w < p.fragment.w
        BY <3>2, <4>1 DEF SequenceOK, w
      <4>3. \A j \in DOMAIN before : before[j][1].w < p.fragment.w
        BY <2>1, <4>1
      <4> QED BY <3>1, <3>9, <4>2, <4>3
    <3>11. Logged(r)
      BY <3>1, <3>5, <3>6, <3>9
    <3>12. Ascending(r)
      <4> SUFFICES ASSUME NEW j \in DOMAIN after(r), NEW k \in DOMAIN after(r), j < k
                   PROVE  after(r)[j][1].w < after(r)[k][1].w
        OBVIOUS
      <4>1. j \in DOMAIN before /\ after(r)[j] = before[j]
        BY <3>7, <3>8, <3>9
      <4> QED BY <2>1, <3>1, <3>5, <3>9, <4>1
    <3>13. high(r) <= IndexSpace
      BY <3>1, <3>3, IndexSpaceAssumption
    <3> QED BY <3>10, <3>11, <3>12, <3>13
  <2> QED BY <1>6, <2>2, <2>3
<1>8. ASSUME NEW p \in SequencedUnderway
      PROVE  /\ p.sequenceIndex < sequenceIndex
             /\ \A q \in SequencedUnderway :
                  p.sequenceIndex < q.sequenceIndex => p.fragment.w < q.fragment.w
             /\ p.reliability \in SequencedKinds
  BY <1>4 DEF SequenceOK
<1>9. SequencedInOrder'
  BY <1>7 DEF SequencedInOrder, SequencedKinds
<1>10. SequenceOK'
  <2> SUFFICES /\ \A p \in SequencedUnderway :
                    /\ p.sequenceIndex < sequenceIndex
                    /\ \A q \in SequencedUnderway :
                         p.sequenceIndex < q.sequenceIndex => p.fragment.w < q.fragment.w
                    /\ HighestSeqIndex(p.reliability)' <= p.sequenceIndex =>
                         \A k \in DOMAIN delivered'[p.reliability] :
                           delivered'[p.reliability][k][1].w < p.fragment.w
               /\ \A r \in SequencedKinds :
                    /\ HighestSeqIndex(r)' <= IndexSpace
                    /\ \A k \in DOMAIN delivered'[r] : delivered'[r][k][1].w \in DOMAIN log
    BY <1>2, <1>3 DEF SequenceOK
  <2> QED BY <1>7, <1>8
<1> QED BY <1>9, <1>10

\* Every step keeps what sequenced packets rest on.
LEMMA NextSequence ==
  ASSUME TypeInv, TypeInv', ContentInv, SequenceInv, [Next]_vars
  PROVE  SequenceInv'
<1>1. LogGrows /\ CountersGrow /\ PacketsGenuine
  BY NextGrows DEF ContentInv
<1>2. /\ sequenceIndex \in Nat /\ orderIndex \in Nat /\ sequenceIndex <= orderIndex
  BY DEF TypeInv, TypeOK, SenderTypeOK, SequenceInv
<1>3. NoWrap => sequenceIndex <= IndexSpace
  BY <1>2, IndexSpaceAssumption DEF NoWrap
<1>4. NoWrap' => NoWrap
  BY <1>1, NoWrapBefore
<1>5. CASE UNCHANGED handing /\ (NoCopyMade \/ CopyMade)
  <2>1. sequenceIndex' <= orderIndex'
    BY <1>2, <1>5 DEF NoCopyMade, CopyMade
  <2>2. NoWrap' => SequenceOK'
    BY <1>1, <1>3, <1>4, <1>5, CopySequence DEF SequenceInv
  <2>3. SequencedInOrder'
    BY <1>4, <1>5 DEF handing, SequencedInOrder, SequenceInv
  <2> QED BY <2>1, <2>2, <2>3 DEF SequenceInv
<1>6. CASE UNCHANGED handing /\ WriteBegun
  <2>1. sequenceIndex' <= orderIndex'
    <3>1. PICK r \in WriteKinds, length \in Lengths : BeginWrite(r, length)
      BY <1>6 DEF WriteBegun
    <3>2. /\ orderIndex' = IF IsSequencedOrOrdered(r) THEN orderIndex + 1 ELSE orderIndex
          /\ sequenceIndex' = IF IsSequenced(r) THEN sequenceIndex + 1 ELSE sequenceIndex
          /\ IsSequenced(r) => IsSequencedOrOrdered(r)
      BY <3>1 DEF BeginWrite, IsSequencedOrOrdered
    <3> QED BY <1>2, <3>2
  <2>2. NoWrap' => SequenceOK'
    BY <1>1, <1>4, <1>6, WriteSequence DEF SequenceInv
  <2>3. SequencedInOrder'
    BY <1>4, <1>6 DEF handing, SequencedInOrder, SequenceInv
  <2> QED BY <2>1, <2>2, <2>3 DEF SequenceInv
<1>7. CASE (\E d \in datagrams : \E old : ReceiveDatagram(d, old)) /\ UNCHANGED senderVars
  <2>1. sequenceIndex' <= orderIndex'
    BY <1>2, <1>7 DEF senderVars, indices
  <2>2. NoWrap' => SequenceOK' /\ SequencedInOrder'
    BY <1>3, <1>4, <1>7, ReceiveSequence DEF SequenceInv
  <2>3. SequencedInOrder'
    BY <2>2 DEF SequencedInOrder
  <2> QED BY <2>1, <2>2, <2>3 DEF SequenceInv
<1> QED BY <1>5, <1>6, <1>7, NextCopies

\* As long as no index has outgrown its field, what is handed over of either
\* sequenced kind was written after all that was handed over of it before
\* (isNewerSequenceIndex, the sequenced cases of receivePacket).
THEOREM SequencedInOrderHolds == Spec => []SequencedInOrder
<1>1. Init => SequenceInv
  <2> SUFFICES ASSUME Init PROVE SequenceInv
    OBVIOUS
  <2>1. Copies = {} /\ toWrite = <<>> /\ sequenceIndex = 0 /\ orderIndex = 0
        /\ highestUnreliableSeqIndex = 0 /\ highestReliableSeqIndex = 0
    BY DEF Init, SenderInit, ReceiverInit, Copies
  <2>2. \A r \in SequencedKinds : delivered[r] = <<>> /\ HighestSeqIndex(r) = 0
    BY <2>1 DEF Init, ReceiverInit, Reliabilities, SequencedKinds, HighestSeqIndex
  <2>3. SequencedUnderway = {}
    BY <2>1 DEF SequencedUnderway, Underway
  <2>4. SequenceOK
    BY <2>2, <2>3, IndexSpaceAssumption DEF SequenceOK
  <2>5. SequencedInOrder
    BY <2>2 DEF SequencedInOrder, SequencedKinds
  <2> QED BY <2>1, <2>4, <2>5 DEF SequenceInv
<1>2. TypeInv /\ TypeInv' /\ ContentInv /\ SequenceInv /\ [Next]_vars => SequenceInv'
  BY NextSequence
<1>3. SequenceInv => SequencedInOrder
  BY DEF SequenceInv
<1> QED BY <1>1, <1>2, <1>3, TypeCorrect, ContentCorrect, PTL DEF Spec
=============================================================================
