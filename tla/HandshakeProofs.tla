--------------------------- MODULE HandshakeProofs ---------------------------
(***************************************************************************)
(* The connection sequence: types, the map of connections, and the Conns   *)
(* that come out of Accept, for any number of dialers and workers, whether *)
(* or not the network answers in time; then what holds in a network that   *)
(* does (Timely): every dialer and its Conn stay in step.                  *)
(***************************************************************************)
EXTENDS Handshake, SequenceTheorems, TLAPS

\* A Conn in the hands of a worker is open, in no one else's, and not yet in
\* the map.
WorkersHold ==
  \A w \in Workers :
    worker[w] # 0 =>
      /\ worker[w] \in DOMAIN conns
      /\ ~conns[worker[w]].closed
      /\ \A a \in Addrs : connections[a] # worker[w]
      /\ \A v \in Workers : worker[v] = worker[w] => v = w

MapValid ==
  \A a \in Addrs :
    connections[a] # 0 => /\ connections[a] \in DOMAIN conns
                          /\ conns[connections[a]].addr = a
                          /\ ~conns[connections[a]].closed

UpdaterValid == updater.op \in {"send", "delete"} => updater.conn \in DOMAIN conns

\* The dialer sends new incoming connection after it saw the answer.
AnswerSeen == \A a \in Addrs : "NewIncoming" \in unacked[a] => fetched[a] = 1

\* The sequence a Conn goes through, with what its dialer has seen.
InSequence ==
  \A c \in DOMAIN conns :
    /\ conns[c].connected => /\ conns[c].receivedConnectionRequest
                             /\ fetched[conns[c].addr] = 1
    /\ conns[c].accepted => conns[c].connected

HandedAreMarked ==
  \A i \in DOMAIN HandedOver :
    HandedOver[i] \in DOMAIN conns /\ conns[HandedOver[i]].accepted

HandshakeCore ==
  /\ Len(conns) <= MaxConns
  /\ WorkersHold
  /\ MapValid
  /\ UpdaterValid
  /\ AnswerSeen
  /\ InSequence
  /\ HandedAreMarked
  /\ AcceptedOnce

\* The inductive invariant.
HandshakeInv == TypeOK /\ HandshakeCore
-----------------------------------------------------------------------------
\* The index of the size that request1 tries is one of mtuSizes.
LEMMA SizeIndex ==
  ASSUME NEW i \in Nat, NEW n \in Nat, NEW l \in Nat, i < n * l
  PROVE  i \div n + 1 \in 1..l
<1>1. n > 0
  <2> SUFFICES ASSUME n = 0 PROVE FALSE
    OBVIOUS
  <2> QED OBVIOUS
<1> DEFINE q == i \div n
<1>2. q \in Nat /\ n * q <= i
  BY <1>1
<1> HIDE DEF q
<1>3. ASSUME l <= q PROVE FALSE
  <2>1. PICK k \in Nat : q = l + k
    BY <1>2, <1>3
  <2>2. n * q = n * l + n * k /\ n * k \in Nat /\ n * l \in Nat
    BY <2>1
  <2> QED BY <1>2, <2>2
<1>4. q < l
  BY <1>2, <1>3
<1> QED BY <1>2, <1>4 DEF q

\* What either end sends is a message.
LEMMA MessageType ==
  ASSUME NEW type \in {"Request1", "Reply1", "Incompatible", "Request2", "Reply2",
                       "Disconnect"},
         NEW a \in Addrs, NEW size \in Nat, NEW salt \in Nat, NEW n \in Nat
  PROVE  Message(type, a, size, salt, n) \in Messages
BY DEF Message, Messages

\* min(pk.MTU, maxMTUSize) of a size that is not refused.
LEMMA SmallerType ==
  ASSUME NEW size \in Nat, MinMTU <= size
  PROVE  Smaller(size, MaxMTU) \in MinMTU..MaxMTU /\ Smaller(size, MaxMTU) \in Nat
BY ListenerAssumption DEF Smaller

NetworkTypeOK == toServer \subseteq Messages /\ toClient \subseteq Messages

\* The steps of a dialer keep its types.
LEMMA DialerStepType ==
  ASSUME TypeOK, NEW a \in Addrs, DialerStep(a)
  PROVE  DialerTypeOK' /\ NetworkTypeOK'
<1> USE DEF NetworkTypeOK
<1>1. DialerTypeOK /\ NetworkTypeOK
  BY DEF TypeOK
<1>2. /\ tries[a] \in Nat /\ fetched[a] \in Nat /\ fetched[a] + 1 \in Nat
      /\ tries \in [Addrs -> 0..(TriesPerSize * Len(MTUSizes))]
      /\ TriesPerSize * Len(MTUSizes) \in Nat /\ Len(MTUSizes) \in Nat /\ TriesPerSize \in Nat
  BY <1>1, DialerAssumption DEF DialerTypeOK
<1>3. Message("Disconnect", a, 0, 0, fetched[a] + 1) \in Messages
  BY <1>2, MessageType
<1>4. CASE Dial(a)
  BY <1>1, <1>4 DEF Dial, DialerTypeOK, Phases
<1>5. CASE Request1(a)
  <2> DEFINE size == MTUSizes[tries[a] \div TriesPerSize + 1]
  <2>1. size \in Nat
    <3>1. tries[a] \div TriesPerSize + 1 \in 1..Len(MTUSizes)
      BY <1>2, <1>5, SizeIndex DEF Request1
    <3> QED BY <3>1, DialerAssumption
  <2> HIDE DEF size
  <2>2. Message("Request1", a, size, 0, tries[a]) \in Messages
    BY <1>2, <2>1, MessageType
  <2>3. toServer' = toServer \cup {Message("Request1", a, size, 0, tries[a])}
    BY <1>5 DEF Request1, Request, size
  <2>4. tries' \in [Addrs -> 0..(TriesPerSize * Len(MTUSizes))]
    <3> DEFINE bound == TriesPerSize * Len(MTUSizes)
    <3>1. tries[a] < bound /\ bound \in Nat /\ tries \in [Addrs -> 0..bound]
          /\ tries' = [tries EXCEPT ![a] = tries[a] + 1]
      BY <1>2, <1>5 DEF Request1
    <3> HIDE DEF bound
    <3>2. tries' \in [Addrs -> 0..bound]
      BY <1>2, <3>1
    <3> QED BY <3>2 DEF bound
  <2>5. UNCHANGED <<phase, mtu, cookie, unacked, fetched, toClient>>
    BY <1>5 DEF Request1
  <2> QED BY <1>1, <2>2, <2>3, <2>4, <2>5 DEF DialerTypeOK
<1>6. CASE Reply2Timeout(a)
  <2>1. tries' \in [Addrs -> 0..(TriesPerSize * Len(MTUSizes))]
    <3> DEFINE bound == TriesPerSize * Len(MTUSizes)
    <3>1. bound \in Nat /\ tries \in [Addrs -> 0..bound] /\ tries' = [tries EXCEPT ![a] = 0]
      BY <1>2, <1>6 DEF Reply2Timeout
    <3> HIDE DEF bound
    <3>2. tries' \in [Addrs -> 0..bound]
      BY <3>1
    <3> QED BY <3>2 DEF bound
  <2>2. UNCHANGED <<mtu, cookie, unacked, fetched, toServer, toClient>>
        /\ phase' = [phase EXCEPT ![a] = "discoverMTU"]
    BY <1>6 DEF Reply2Timeout
  <2> QED BY <1>1, <2>1, <2>2 DEF DialerTypeOK, Phases
<1>7. CASE DialTimeout(a)
  BY <1>1, <1>7 DEF DialTimeout, DialerTypeOK, Phases
<1>8. CASE DialerIdleTimeout(a)
  BY <1>1, <1>3, <1>8 DEF DialerIdleTimeout, DialerTypeOK, Phases
<1>9. ASSUME NEW m \in toClient, m.addr = a,
             \/ ReceiveReply1(a, m) \/ ReceiveIncompatible(a, m)
             \/ ReceiveReply2(a, m) \/ ReceiveDisconnect(a, m) \/ IgnoreMessage(a, m)
      PROVE  DialerTypeOK' /\ NetworkTypeOK'
  <2>1. m.mtu \in Nat /\ m.cookie \in Nat
    BY <1>1 DEF Messages
  <2>2. Message("Request2", a, m.mtu, m.cookie, tries[a]) \in Messages
    BY <1>2, <2>1, MessageType
  <2>3. CASE ReceiveReply1(a, m)
    BY <1>1, <2>1, <2>2, <2>3 DEF ReceiveReply1, Request, DialerTypeOK, Phases
  <2>4. CASE ReceiveIncompatible(a, m)
    BY <1>1, <2>4 DEF ReceiveIncompatible, DialerTypeOK, Phases
  <2>5. CASE ReceiveReply2(a, m)
    BY <1>1, <2>1, <2>5 DEF ReceiveReply2, DialerTypeOK, Phases
  <2>6. CASE ReceiveDisconnect(a, m)
    BY <1>1, <1>3, <2>6 DEF ReceiveDisconnect, DialerTypeOK, Phases
  <2>7. CASE IgnoreMessage(a, m)
    BY <1>1, <2>7 DEF IgnoreMessage, DialerTypeOK, dialerVars
  <2> QED BY <1>9, <2>3, <2>4, <2>5, <2>6, <2>7
<1> QED BY <1>4, <1>5, <1>6, <1>7, <1>8, <1>9 DEF DialerStep

\* A Conn that changes is still one, and the others stay as they are.
LEMMA ConnUpdate ==
  ASSUME NEW s \in Seq(Conns), NEW c \in DOMAIN s, NEW e \in Conns
  PROVE  LET t == [s EXCEPT ![c] = e]
         IN  /\ t \in Seq(Conns) /\ DOMAIN t = DOMAIN s /\ Len(t) = Len(s)
             /\ t[c] = e
             /\ \A b \in DOMAIN s : b # c => t[b] = s[b]
OBVIOUS

\* closeImmediately keeps the types.
LEMMA CloseConnType ==
  ASSUME ListenerTypeOK, NetworkTypeOK, NEW c \in DOMAIN conns, CloseConn(c)
  PROVE  /\ conns' \in Seq(Conns) /\ DOMAIN conns' = DOMAIN conns
         /\ connections' \in [Addrs -> ConnIDs]
         /\ toClient' \subseteq Messages
<1>1. conns \in Seq(Conns) /\ conns[c] \in Conns
  BY DEF ListenerTypeOK
<1>2. conns[c].addr \in Addrs /\ [conns[c] EXCEPT !.closed = TRUE] \in Conns
  BY <1>1 DEF Conns
<1>3. conns' = [conns EXCEPT ![c] = [conns[c] EXCEPT !.closed = TRUE]]
  BY DEF CloseConn
<1>4. conns' \in Seq(Conns) /\ DOMAIN conns' = DOMAIN conns
  BY <1>1, <1>2, <1>3, ConnUpdate
<1>5. connections' \in [Addrs -> ConnIDs]
  BY <1>2, ListenerAssumption DEF ListenerTypeOK, CloseConn, ConnIDs
<1>6. Message("Disconnect", conns[c].addr, 0, 0, NextOrderIndex(c)) \in Messages
  BY <1>2, MessageType DEF NextOrderIndex
<1> QED BY <1>4, <1>5, <1>6 DEF CloseConn, NetworkTypeOK

\* The reader of the socket and the workers keep the types.
LEMMA WorkerStepType ==
  ASSUME TypeOK, WorkersHold, WorkerStep
  PROVE  ListenerTypeOK' /\ NetworkTypeOK'
<1> USE DEF connVars, saltVars, acceptVars
<1>1. ListenerTypeOK /\ NetworkTypeOK
  BY DEF TypeOK, NetworkTypeOK
<1>2. \A m \in toServer \cup unconnected :
        m.addr \in Addrs /\ m.mtu \in Nat /\ m.n \in Nat /\ m.cookie \in Nat
  BY <1>1 DEF NetworkTypeOK, ListenerTypeOK, Messages
<1>3. \A a \in Addrs : HostOf[a] \in Hosts
  BY DEF Hosts
<1>4. ASSUME NEW m \in toServer, Dispatch(m)
      PROVE  ListenerTypeOK' /\ NetworkTypeOK'
  BY <1>1, <1>4 DEF Dispatch, ListenerTypeOK, NetworkTypeOK
<1>5. ASSUME NEW w \in Workers, StoreConn(w)
      PROVE  ListenerTypeOK' /\ NetworkTypeOK'
  <2>1. worker[w] \in DOMAIN conns
    BY <1>5 DEF StoreConn, WorkersHold
  <2>2. conns[worker[w]] \in Conns /\ worker[w] \in ConnIDs /\ 0 \in ConnIDs
    BY <1>1, <2>1, ListenerAssumption DEF ListenerTypeOK, ConnIDs
  <2>3. conns[worker[w]].addr \in Addrs
    BY <2>2 DEF Conns
  <2> QED BY <1>1, <1>5, <2>2, <2>3 DEF StoreConn, ListenerTypeOK, NetworkTypeOK
<1>6. ASSUME NEW w \in Workers, NEW m \in unconnected, HandleRequest1(w, m)
      PROVE  ListenerTypeOK' /\ NetworkTypeOK'
  <2>1. blocks' \subseteq Hosts
    BY <1>1, <1>2, <1>3, <1>6 DEF HandleRequest1, Block, ListenerTypeOK
  <2>2. toClient' \subseteq Messages
    <3>1. currentCookieSalt \in Nat
      BY <1>1 DEF ListenerTypeOK
    <3>2. Message("Incompatible", m.addr, 0, 0, m.n) \in Messages
      BY <1>2, MessageType
    <3>3. ~Refused(m) =>
            Message("Reply1", m.addr, Smaller(m.mtu, MaxMTU), currentCookieSalt, m.n) \in Messages
      BY <1>2, <3>1, MessageType, SmallerType, ListenerAssumption DEF Refused
    <3> QED BY <1>1, <1>6, <3>2, <3>3 DEF HandleRequest1, Reply, NetworkTypeOK
  <2>3. /\ unconnected' \subseteq unconnected
        /\ UNCHANGED <<listening, worker, connVars, saltVars, acceptVars, toServer>>
    BY <1>6 DEF HandleRequest1
  <2> QED BY <1>1, <2>1, <2>2, <2>3 DEF ListenerTypeOK, NetworkTypeOK
<1>7. ASSUME NEW w \in Workers, NEW m \in unconnected, HandleRequest2(w, m)
      PROVE  ListenerTypeOK' /\ NetworkTypeOK'
  <2> DEFINE size == Smaller(m.mtu, MaxMTU)
  <2>1. blocks' \subseteq Hosts
    BY <1>1, <1>2, <1>3, <1>7 DEF HandleRequest2, Block, ListenerTypeOK
  <2>2. ~Refused(m) => size \in MinMTU..MaxMTU /\ size \in Nat
    BY <1>2, SmallerType, ListenerAssumption DEF Refused
  <2> HIDE DEF size
  <2>3. toClient' \subseteq Messages
    <3>1. ~Refused(m) => Message("Reply2", m.addr, size, 0, m.n) \in Messages
      BY <1>2, <2>2, MessageType
    <3> QED BY <1>1, <1>7, <3>1 DEF HandleRequest2, Reply, NetworkTypeOK, size
  <2>4. conns' \in Seq(Conns)
    <3>1. ~Refused(m) => NewConn(m.addr, size) \in Conns
      BY <1>2, <2>2 DEF NewConn, Conns
    <3>2. \/ UNCHANGED conns
          \/ ~Refused(m) /\ conns' = Append(conns, NewConn(m.addr, size))
      BY <1>7 DEF HandleRequest2, size
    <3>3. conns \in Seq(Conns)
      BY <1>1 DEF ListenerTypeOK
    <3> QED BY <3>1, <3>2, <3>3
  <2>5. worker' \in [Workers -> ConnIDs]
    <3>1. Len(conns) \in Nat /\ worker \in [Workers -> ConnIDs]
      BY <1>1 DEF ListenerTypeOK
    <3>2. \/ UNCHANGED worker
          \/ Len(conns) < MaxConns
             /\ worker' = [worker EXCEPT ![w] = IF listening THEN Len(conns) + 1 ELSE 0]
      BY <1>7 DEF HandleRequest2
    <3> QED BY <3>1, <3>2, ListenerAssumption DEF ConnIDs
  <2>6. currentCookieSalt' \in Nat /\ prevCookieSalt' \in Nat
    BY <1>1, <1>7 DEF HandleRequest2, Rotate, ListenerTypeOK
  <2>7. /\ unconnected' \subseteq unconnected
        /\ UNCHANGED <<listening, connections, acceptVars, toServer>>
    BY <1>7 DEF HandleRequest2
  <2> QED
    BY <1>1, <2>1, <2>3, <2>4, <2>5, <2>6, <2>7 DEF ListenerTypeOK, NetworkTypeOK
<1> QED BY <1>4, <1>5, <1>6, <1>7 DEF WorkerStep

\* The Conns keep the types.
LEMMA ConnStepType ==
  ASSUME TypeOK, MapValid, NEW a \in Addrs, NEW c \in DOMAIN conns, ConnStep(a, c)
  PROVE  ListenerTypeOK' /\ DialerTypeOK' /\ NetworkTypeOK'
<1> USE DEF connVars, saltVars, acceptVars
<1>1. ListenerTypeOK /\ DialerTypeOK /\ NetworkTypeOK /\ conns[c] \in Conns
      /\ conns \in Seq(Conns)
  BY DEF TypeOK, NetworkTypeOK, ListenerTypeOK
<1>2. CASE ReceiveConnectionRequest(a, c)
  <2> DEFINE e == [conns[c] EXCEPT !.receivedConnectionRequest = TRUE, !.unacked = TRUE]
  <2>1. e \in Conns
    BY <1>1 DEF Conns
  <2>2. conns' = [conns EXCEPT ![c] = e]
    BY <1>1, <1>2 DEF ReceiveConnectionRequest
  <2> HIDE DEF e
  <2>3. conns' \in Seq(Conns)
    BY <1>1, <2>1, <2>2, ConnUpdate
  <2> QED
    BY <1>1, <1>2, <2>3
    DEF ReceiveConnectionRequest, ListenerTypeOK, DialerTypeOK, NetworkTypeOK
<1>3. CASE ReceiveNewIncoming(a, c)
  <2> DEFINE e == [conns[c] EXCEPT !.connected = conns[c].receivedConnectionRequest]
  <2>1. e \in Conns
    BY <1>1 DEF Conns
  <2>2. conns' = [conns EXCEPT ![c] = e]
    BY <1>3 DEF ReceiveNewIncoming
  <2> HIDE DEF e
  <2>3. conns' \in Seq(Conns)
    BY <1>1, <2>1, <2>2, ConnUpdate
  <2> QED
    BY <1>1, <1>3, <2>3
    DEF ReceiveNewIncoming, ListenerTypeOK, DialerTypeOK, NetworkTypeOK
<1> QED BY <1>2, <1>3 DEF ConnStep

\* The ends of Conns keep the types.
LEMMA ConnClosesType ==
  ASSUME TypeOK, NEW c \in DOMAIN conns, ConnCloses(c)
  PROVE  ListenerTypeOK' /\ NetworkTypeOK'
<1> USE DEF connVars, saltVars, acceptVars
<1>1. ListenerTypeOK /\ NetworkTypeOK
  BY DEF TypeOK, NetworkTypeOK
<1>2. CloseConn(c) => /\ conns' \in Seq(Conns)
                      /\ connections' \in [Addrs -> ConnIDs]
                      /\ toClient' \subseteq Messages
  BY <1>1, CloseConnType
<1>3. ASSUME NEW a \in Addrs, NEW m \in toServer, HandleDisconnect(a, c, m)
      PROVE  ListenerTypeOK' /\ NetworkTypeOK'
  BY <1>1, <1>2, <1>3 DEF HandleDisconnect, ListenerTypeOK, NetworkTypeOK
<1>4. CASE IdleTimeout(c)
  BY <1>1, <1>2, <1>4 DEF IdleTimeout, ListenerTypeOK, NetworkTypeOK
<1> QED BY <1>3, <1>4 DEF ConnCloses

\* The packet connection request accepted keeps the types.
LEMMA AcceptedType ==
  ASSUME TypeOK, NEW c \in DOMAIN conns, DeliverAccepted(c) \/ DropAccepted(c)
  PROVE  TypeOK'
<1> USE DEF connVars, saltVars, acceptVars
<1>1. /\ ListenerTypeOK /\ DialerTypeOK /\ NetworkTypeOK
      /\ conns[c] \in Conns /\ conns \in Seq(Conns)
      /\ losses \in 0..MaxLosses /\ duplicates \in 0..MaxDuplicates
  BY DEF TypeOK, NetworkTypeOK, ListenerTypeOK
<1> DEFINE e == [conns[c] EXCEPT !.unacked = FALSE]
           a == conns[c].addr
<1>2. e \in Conns /\ a \in Addrs
  BY <1>1 DEF Conns
<1>3. conns' = [conns EXCEPT ![c] = e]
  BY DEF DeliverAccepted, DropAccepted
<1> HIDE DEF e, a
<1>4. conns' \in Seq(Conns)
  BY <1>1, <1>2, <1>3, ConnUpdate
<1>5. CASE DeliverAccepted(c)
  <2>1. ReceiveAccepted(a) /\ UNCHANGED faults
        /\ UNCHANGED <<listening, unconnected, worker, connections, saltVars, blocks, acceptVars>>
    BY <1>5 DEF DeliverAccepted, a
  <2>2. ListenerTypeOK'
    BY <1>1, <1>4, <2>1 DEF ListenerTypeOK
  <2>3. fetched' \in [Addrs -> Nat]
    <3>1. fetched' = [fetched EXCEPT ![a] = 1] \/ fetched' = fetched
      BY <2>1 DEF ReceiveAccepted
    <3>2. fetched \in [Addrs -> Nat]
      BY <1>1 DEF DialerTypeOK
    <3> QED BY <3>1, <3>2
  <2>4. phase' \in [Addrs -> Phases]
    BY <1>1, <2>1 DEF ReceiveAccepted, DialerTypeOK, Phases
  <2>5. unacked' \in [Addrs -> SUBSET {"ConnectionRequest", "NewIncoming"}]
    <3>1. unacked[a] \cup {"NewIncoming"} \in SUBSET {"ConnectionRequest", "NewIncoming"}
      BY <1>1, <1>2 DEF DialerTypeOK
    <3> QED BY <1>1, <2>1, <3>1, ZenonT(60) DEF ReceiveAccepted, DialerTypeOK
  <2>6. UNCHANGED <<tries, mtu, cookie, toServer, toClient>>
    BY <2>1 DEF ReceiveAccepted
  <2>7. DialerTypeOK' /\ NetworkTypeOK'
    BY <1>1, <2>3, <2>4, <2>5, <2>6 DEF DialerTypeOK, NetworkTypeOK
  <2> QED BY <1>1, <2>1, <2>2, <2>7 DEF TypeOK, NetworkTypeOK, faults
<1>6. CASE DropAccepted(c)
  <2>1. UNCHANGED <<dialerVars, listening, unconnected, worker, connections, saltVars, blocks,
                    acceptVars, toServer, toClient, faults>>
    BY <1>6 DEF DropAccepted
  <2>2. ListenerTypeOK'
    BY <1>1, <1>4, <2>1 DEF ListenerTypeOK
  <2>3. DialerTypeOK' /\ NetworkTypeOK'
    BY <1>1, <2>1 DEF dialerVars, DialerTypeOK, NetworkTypeOK
  <2> QED BY <1>1, <2>1, <2>2, <2>3 DEF TypeOK, NetworkTypeOK, faults
<1> QED BY <1>5, <1>6

\* updateConnections keeps the types.
LEMMA UpdaterStepType ==
  ASSUME TypeOK, MapValid, UpdaterValid, UpdaterStep
  PROVE  ListenerTypeOK' /\ NetworkTypeOK'
<1> USE DEF connVars, saltVars, acceptVars
<1>1. ListenerTypeOK /\ NetworkTypeOK /\ conns \in Seq(Conns) /\ 0 \in ConnIDs
  BY ListenerAssumption DEF TypeOK, NetworkTypeOK, ListenerTypeOK, ConnIDs
<1>2. ASSUME NEW a \in Addrs, UpdateConnected(a)
      PROVE  ListenerTypeOK' /\ NetworkTypeOK'
  <2> DEFINE c == connections[a]
             e == [conns[c] EXCEPT !.accepted = TRUE]
  <2>1. c \in DOMAIN conns /\ c \in ConnIDs
    BY <1>1, <1>2 DEF UpdateConnected, MapValid, ListenerTypeOK
  <2>2. conns[c] \in Conns
    BY <1>1, <2>1
  <2>3. e \in Conns /\ conns' = [conns EXCEPT ![c] = e]
    BY <1>2, <2>2 DEF UpdateConnected, Conns
  <2> HIDE DEF c, e
  <2>4. conns' \in Seq(Conns)
    BY <1>1, <2>1, <2>3, ConnUpdate
  <2>5. /\ updater' = [op |-> "send", conn |-> c]
        /\ UNCHANGED <<listening, unconnected, worker, connections, saltVars, blocks, incoming,
                       incomingClosed, acceptedConns, panicked, toServer, toClient>>
    BY <1>2 DEF UpdateConnected, c
  <2> QED BY <1>1, <2>1, <2>4, <2>5 DEF ListenerTypeOK, NetworkTypeOK
<1>3. ASSUME NEW a \in Addrs, SequenceTimeout(a)
      PROVE  ListenerTypeOK' /\ NetworkTypeOK'
  <2> DEFINE c == connections[a]
  <2>1. c \in DOMAIN conns /\ c \in ConnIDs
    BY <1>1, <1>3 DEF SequenceTimeout, MapValid, ListenerTypeOK
  <2>2. /\ CloseConn(c) /\ updater' = [op |-> "delete", conn |-> c]
        /\ UNCHANGED <<listening, unconnected, worker, saltVars, blocks, incoming,
                       incomingClosed, acceptedConns, panicked, toServer>>
    BY <1>3 DEF SequenceTimeout
  <2> HIDE DEF c
  <2>3. /\ conns' \in Seq(Conns)
        /\ connections' \in [Addrs -> ConnIDs]
        /\ toClient' \subseteq Messages
    BY <1>1, <2>1, <2>2, CloseConnType
  <2> QED BY <1>1, <2>1, <2>2, <2>3 DEF ListenerTypeOK, NetworkTypeOK
<1>4. CASE UpdateSend
  <2>1. incoming \in Seq(ConnIDs) /\ updater.conn \in ConnIDs /\ Idle.conn = 0
    BY <1>1 DEF ListenerTypeOK, Idle
  <2>2. incoming' \in Seq(ConnIDs)
    BY <1>4, <2>1 DEF UpdateSend
  <2>3. panicked' \in BOOLEAN
    BY <1>1, <1>4 DEF UpdateSend, ListenerTypeOK
  <2>4. updater' \in [op : {"idle", "send", "delete", "returned"}, conn : ConnIDs]
    BY <1>1, <1>4 DEF UpdateSend, ListenerTypeOK, Idle
  <2> QED BY <1>1, <1>4, <2>2, <2>3, <2>4 DEF UpdateSend, ListenerTypeOK, NetworkTypeOK
<1>5. CASE UpdateDelete
  <2>1. conns[updater.conn] \in Conns
    BY <1>1, <1>5 DEF UpdateDelete, UpdaterValid
  <2>2. conns[updater.conn].addr \in Addrs
    BY <2>1 DEF Conns
  <2> QED BY <1>1, <1>5, <2>2 DEF UpdateDelete, ListenerTypeOK, NetworkTypeOK, Idle
<1>6. CASE UpdateReturn
  BY <1>1, <1>6 DEF UpdateReturn, ListenerTypeOK, NetworkTypeOK
<1> QED BY <1>2, <1>3, <1>4, <1>5, <1>6 DEF UpdaterStep

\* So do Accept, the timers of the listener and its end.
LEMMA OtherListenerType ==
  ASSUME TypeOK, Accept \/ Housekeeping \/ CloseListener \/ CloseIncoming
  PROVE  ListenerTypeOK' /\ NetworkTypeOK'
<1> USE DEF connVars, saltVars, acceptVars
<1>1. ListenerTypeOK /\ NetworkTypeOK
  BY DEF TypeOK, NetworkTypeOK
<1>2. CASE Accept
  <2>1. incoming \in Seq(ConnIDs) /\ acceptedConns \in Seq(ConnIDs) /\ incoming # <<>>
    BY <1>1, <1>2 DEF ListenerTypeOK, Accept
  <2>2. incoming' \in Seq(ConnIDs) /\ acceptedConns' \in Seq(ConnIDs)
    BY <1>2, <2>1 DEF Accept
  <2> QED BY <1>1, <1>2, <2>2 DEF Accept, ListenerTypeOK, NetworkTypeOK
<1>3. CASE RotateSalts
  BY <1>1, <1>3 DEF RotateSalts, Rotate, ListenerTypeOK, NetworkTypeOK
<1>4. CASE \E h \in Hosts : Unblock(h)
  BY <1>1, <1>4 DEF Unblock, ListenerTypeOK, NetworkTypeOK
<1>5. CASE CloseListener
  BY <1>1, <1>5 DEF CloseListener, ListenerTypeOK, NetworkTypeOK
<1>6. CASE CloseIncoming
  BY <1>1, <1>6 DEF CloseIncoming, ListenerTypeOK, NetworkTypeOK
<1> QED BY <1>2, <1>3, <1>4, <1>5, <1>6 DEF Housekeeping

\* Every step keeps the types.
LEMMA NextHandshakeType ==
  ASSUME TypeOK, WorkersHold, MapValid, UpdaterValid, [Next]_vars
  PROVE  TypeOK'
<1> USE DEF NetworkTypeOK
<1>1. /\ ListenerTypeOK /\ DialerTypeOK /\ NetworkTypeOK
      /\ losses \in 0..MaxLosses /\ duplicates \in 0..MaxDuplicates
  BY DEF TypeOK
<1>2. UNCHANGED dialerVars => DialerTypeOK'
  BY <1>1 DEF dialerVars, DialerTypeOK
<1>3. UNCHANGED listenerVars => ListenerTypeOK'
  BY <1>1 DEF listenerVars, connVars, saltVars, acceptVars, ListenerTypeOK
<1>4. UNCHANGED faults => losses' \in 0..MaxLosses /\ duplicates' \in 0..MaxDuplicates
  BY <1>1 DEF faults
<1>5. CASE \E a \in Addrs : DialerStep(a) /\ UNCHANGED <<listenerVars, faults>>
  BY <1>3, <1>4, <1>5, DialerStepType DEF TypeOK
<1>6. CASE WorkerStep /\ UNCHANGED <<dialerVars, faults>>
  BY <1>2, <1>4, <1>6, WorkerStepType DEF TypeOK
<1>7. CASE \E a \in Addrs, c \in DOMAIN conns : ConnStep(a, c) /\ UNCHANGED faults
  BY <1>4, <1>7, ConnStepType DEF TypeOK
<1>8. CASE \E c \in DOMAIN conns : ConnCloses(c) /\ UNCHANGED <<dialerVars, faults>>
  BY <1>2, <1>4, <1>8, ConnClosesType DEF TypeOK
<1>9. CASE \E c \in DOMAIN conns : DeliverAccepted(c) \/ DropAccepted(c)
  BY <1>9, AcceptedType
<1>10. CASE UpdaterStep /\ UNCHANGED <<dialerVars, faults>>
  BY <1>2, <1>4, <1>10, UpdaterStepType DEF TypeOK
<1>11. CASE /\ Accept \/ Housekeeping \/ CloseListener \/ CloseIncoming
            /\ UNCHANGED <<dialerVars, faults>>
  BY <1>2, <1>4, <1>11, OtherListenerType DEF TypeOK
<1>12. ASSUME NEW m \in toServer \cup toClient, LoseMessage(m)
       PROVE  TypeOK'
  <2>1. losses' \in 0..MaxLosses /\ UNCHANGED duplicates
    BY <1>1, <1>12, HandshakeAssumption DEF LoseMessage
  <2>2. NetworkTypeOK' /\ UNCHANGED <<dialerVars, listenerVars>>
    BY <1>1, <1>12 DEF LoseMessage
  <2> QED BY <1>1, <1>2, <1>3, <2>1, <2>2 DEF TypeOK
<1>13. ASSUME NEW m \in toServer, DuplicateRequest(m)
       PROVE  TypeOK'
  <2>1. duplicates' \in 0..MaxDuplicates /\ UNCHANGED losses
    BY <1>1, <1>13, HandshakeAssumption DEF DuplicateRequest
  <2>2. /\ unconnected' \subseteq Messages
        /\ UNCHANGED <<dialerVars, toServer, toClient, listening, worker, connVars, saltVars,
                       blocks, acceptVars>>
    BY <1>1, <1>13 DEF DuplicateRequest, ListenerTypeOK
  <2>3. ListenerTypeOK'
    BY <1>1, <2>2 DEF ListenerTypeOK, connVars, saltVars, acceptVars
  <2> QED BY <1>1, <1>2, <2>1, <2>2, <2>3 DEF TypeOK
<1>14. CASE UNCHANGED vars
  BY <1>1, <1>2, <1>3, <1>4, <1>14 DEF TypeOK, vars
<1> QED
  BY <1>5, <1>6, <1>7, <1>8, <1>9, <1>10, <1>11, <1>12, <1>13, <1>14 DEF Next
-----------------------------------------------------------------------------
\* What a step may do to the Conns there are.  The first two actions are what
\* the map of connections depends on, the last what Accept depends on.
ConnsPlaced ==
  /\ DOMAIN conns' = DOMAIN conns
  /\ \A c \in DOMAIN conns : /\ conns'[c].addr = conns[c].addr
                             /\ conns'[c].closed = conns[c].closed

MapKept == ConnsPlaced /\ UNCHANGED <<worker, connections>>

ConnsGrow ==
  \A c \in DOMAIN conns : c \in DOMAIN conns' /\ (conns[c].accepted => conns'[c].accepted)

\* A step that opens, closes and moves no Conn.
LEMMA MapFrame ==
  ASSUME WorkersHold, MapValid, MapKept
  PROVE  WorkersHold' /\ MapValid'
<1>1. WorkersHold'
  BY DEF WorkersHold, MapKept, ConnsPlaced
<1>2. MapValid'
  BY DEF MapValid, MapKept, ConnsPlaced
<1> QED BY <1>1, <1>2

\* A step after which the same Conns are on their way to Accept.
LEMMA HandedFrame ==
  ASSUME HandedAreMarked, AcceptedOnce, ConnsGrow, HandedOver' = HandedOver
  PROVE  HandedAreMarked' /\ AcceptedOnce'
<1>1. HandedAreMarked'
  BY DEF HandedAreMarked, ConnsGrow
<1>2. AcceptedOnce'
  BY DEF AcceptedOnce
<1> QED BY <1>1, <1>2

\* No dialer forgets the answer it has seen, or goes on without it.
DialersKept ==
  \A a \in Addrs : /\ fetched[a] = 1 => fetched'[a] = 1
                   /\ "NewIncoming" \in unacked'[a] =>
                        "NewIncoming" \in unacked[a] \/ fetched'[a] = 1

\* The address of a Conn is one, and its flags are flags.
LEMMA ConnFields ==
  ASSUME TypeOK, NEW c \in DOMAIN conns
  PROVE  /\ conns \in Seq(Conns) /\ conns[c] \in Conns /\ conns[c].addr \in Addrs
         /\ c # 0 /\ c \in Nat /\ Len(conns) \in Nat /\ DOMAIN conns = 1..Len(conns)
<1>1. conns \in Seq(Conns)
  BY DEF TypeOK, ListenerTypeOK
<1>2. conns[c] \in Conns /\ DOMAIN conns = 1..Len(conns) /\ Len(conns) \in Nat
  BY <1>1
<1> QED BY <1>1, <1>2 DEF Conns

\* A step that leaves the Conns as they are.
LEMMA SequenceFrame ==
  ASSUME TypeOK, AnswerSeen, InSequence, DialersKept, UNCHANGED conns
  PROVE  AnswerSeen' /\ InSequence'
<1>1. \A c \in DOMAIN conns : conns[c].addr \in Addrs
  BY ConnFields
<1>2. AnswerSeen'
  BY DEF AnswerSeen, DialersKept
<1>3. InSequence'
  BY <1>1 DEF InSequence, DialersKept
<1> QED BY <1>2, <1>3

\* A step that none of this is about.
LEMMA OtherStep ==
  ASSUME HandshakeInv, DialersKept,
         UNCHANGED <<worker, connections, conns, updater, incoming, acceptedConns>>
  PROVE  HandshakeCore'
<1>1. WorkersHold' /\ MapValid'
  BY MapFrame DEF HandshakeInv, HandshakeCore, MapKept, ConnsPlaced
<1>2. UpdaterValid'
  BY DEF HandshakeInv, HandshakeCore, UpdaterValid
<1>3. AnswerSeen' /\ InSequence'
  BY SequenceFrame DEF HandshakeInv, HandshakeCore
<1>4. HandedAreMarked' /\ AcceptedOnce'
  BY HandedFrame DEF HandshakeInv, HandshakeCore, ConnsGrow, HandedOver
<1> QED BY <1>1, <1>2, <1>3, <1>4 DEF HandshakeInv, HandshakeCore

\* The steps of a dialer: none of them makes it forget the answer it has seen.
LEMMA DialerStepCore ==
  ASSUME HandshakeInv, NEW a \in Addrs, DialerStep(a), UNCHANGED listenerVars
  PROVE  HandshakeCore'
<1>1. unacked \in [Addrs -> SUBSET {"ConnectionRequest", "NewIncoming"}]
  BY DEF HandshakeInv, TypeOK, DialerTypeOK
<1>2. UNCHANGED fetched
  BY DEF DialerStep, Dial, Request1, Reply2Timeout, DialTimeout, DialerIdleTimeout,
         ReceiveReply1, ReceiveIncompatible, ReceiveReply2, ReceiveDisconnect, IgnoreMessage,
         dialerVars
<1>3. \/ UNCHANGED unacked
      \/ unacked' = [unacked EXCEPT ![a] = {}]
      \/ unacked' = [unacked EXCEPT ![a] = {"ConnectionRequest"}]
  BY DEF DialerStep, Dial, Request1, Reply2Timeout, DialTimeout, DialerIdleTimeout,
         ReceiveReply1, ReceiveIncompatible, ReceiveReply2, ReceiveDisconnect, IgnoreMessage,
         dialerVars
<1>4. DialersKept
  BY <1>1, <1>2, <1>3 DEF DialersKept
<1>5. UNCHANGED <<worker, connections, conns, updater, incoming, acceptedConns>>
  BY DEF listenerVars, connVars, acceptVars
<1> QED BY <1>4, <1>5, OtherStep

\* A Conn that is created is in nobody's hands but those of the worker that
\* made it.
LEMMA ConnCreated ==
  ASSUME HandshakeInv, NEW w \in Workers, worker[w] = 0, NEW e \in Conns,
         ~e.connected, ~e.accepted, ~e.closed,
         Len(conns) < MaxConns, conns' = Append(conns, e),
         \/ worker' = [worker EXCEPT ![w] = Len(conns) + 1]
         \/ worker' = [worker EXCEPT ![w] = 0]
         \/ worker' = worker,
         UNCHANGED <<connections, updater, incoming, acceptedConns, unacked, fetched>>
  PROVE  HandshakeCore'
<1>1. /\ conns \in Seq(Conns) /\ Len(conns) \in Nat /\ MaxConns \in Nat
      /\ worker \in [Workers -> ConnIDs]
      /\ DOMAIN conns = 1..Len(conns)
  <2>1. conns \in Seq(Conns) /\ worker \in [Workers -> ConnIDs]
    BY DEF HandshakeInv, TypeOK, ListenerTypeOK
  <2> QED BY <2>1, ListenerAssumption
<1> DEFINE new == Len(conns) + 1
<1>2. /\ new \notin DOMAIN conns /\ new # 0
      /\ DOMAIN conns' = DOMAIN conns \cup {new}
      /\ Len(conns') <= MaxConns
      /\ conns'[new] = e
      /\ \A c \in DOMAIN conns : conns'[c] = conns[c]
  <2>1. DOMAIN conns' = 1..new /\ Len(conns') = new
    BY <1>1
  <2> QED BY <1>1, <2>1
<1>3. \A v \in Workers : \/ worker'[v] = worker[v]
                         \/ v = w /\ worker'[v] \in {0, new}
  BY <1>1
<1> HIDE DEF new
<1>4. \A a \in Addrs : connections[a] # new
  BY <1>2 DEF HandshakeInv, HandshakeCore, MapValid
<1>5. \A v \in Workers : worker[v] # new
  BY <1>2 DEF HandshakeInv, HandshakeCore, WorkersHold
<1>6. WorkersHold'
  <2> SUFFICES ASSUME NEW v \in Workers, worker'[v] # 0
               PROVE  /\ worker'[v] \in DOMAIN conns'
                      /\ ~conns'[worker'[v]].closed
                      /\ \A a \in Addrs : connections[a] # worker'[v]
                      /\ \A u \in Workers : worker'[u] = worker'[v] => u = v
    BY DEF WorkersHold
  <2>1. CASE worker'[v] = new
    BY <1>2, <1>3, <1>4, <1>5, <2>1
  <2>2. CASE worker'[v] # new
    <3>1. worker'[v] = worker[v]
      BY <1>3, <2>2
    <3>2. /\ worker[v] \in DOMAIN conns
          /\ ~conns[worker[v]].closed
          /\ \A a \in Addrs : connections[a] # worker[v]
          /\ \A u \in Workers : worker[u] = worker[v] => u = v
      BY <3>1 DEF HandshakeInv, HandshakeCore, WorkersHold
    <3>3. \A u \in Workers : worker'[u] = worker'[v] => u = v
      BY <1>3, <2>2, <3>1, <3>2
    <3> QED BY <1>2, <3>1, <3>2, <3>3
  <2> QED BY <2>1, <2>2
<1>7. MapValid'
  BY <1>2 DEF HandshakeInv, HandshakeCore, MapValid
<1>8. UpdaterValid'
  BY <1>2 DEF HandshakeInv, HandshakeCore, UpdaterValid
<1>9. AnswerSeen'
  BY DEF HandshakeInv, HandshakeCore, AnswerSeen
<1>10. InSequence'
  BY <1>2 DEF HandshakeInv, HandshakeCore, InSequence
<1>11. HandedAreMarked' /\ AcceptedOnce'
  <2>1. ConnsGrow /\ HandedOver' = HandedOver
    BY <1>2 DEF ConnsGrow, HandedOver
  <2> QED BY <2>1, HandedFrame DEF HandshakeInv, HandshakeCore
<1> QED BY <1>2, <1>6, <1>7, <1>8, <1>9, <1>10, <1>11 DEF HandshakeCore

\* The worker puts its Conn in the map, whatever was there.
LEMMA StoreConnCore ==
  ASSUME HandshakeInv, NEW w \in Workers, StoreConn(w), UNCHANGED dialerVars
  PROVE  HandshakeCore'
<1> USE DEF acceptVars
<1> DEFINE c == worker[w]
           b == conns[c].addr
<1>1. /\ c # 0 /\ worker \in [Workers -> ConnIDs] /\ connections \in [Addrs -> ConnIDs]
      /\ connections' = [connections EXCEPT ![b] = c]
      /\ worker' = [worker EXCEPT ![w] = 0]
      /\ UNCHANGED <<conns, updater, incoming, acceptedConns, unacked, fetched>>
  BY DEF StoreConn, HandshakeInv, TypeOK, ListenerTypeOK, dialerVars
<1>2. c \in DOMAIN conns /\ ~conns[c].closed /\ \A v \in Workers : worker[v] = c => v = w
  BY <1>1 DEF HandshakeInv, HandshakeCore, WorkersHold
<1>3. b \in Addrs
  BY <1>2, ConnFields DEF HandshakeInv
<1>4. \A a \in Addrs : connections'[a] = IF a = b THEN c ELSE connections[a]
  BY <1>1, <1>3
<1>5. \A v \in Workers : worker'[v] = IF v = w THEN 0 ELSE worker[v]
  BY <1>1
<1>6. conns[c].addr = b
  OBVIOUS
<1> HIDE DEF c, b
<1>7. WorkersHold'
  <2> SUFFICES ASSUME NEW v \in Workers, worker'[v] # 0
               PROVE  /\ worker'[v] \in DOMAIN conns'
                      /\ ~conns'[worker'[v]].closed
                      /\ \A a \in Addrs : connections'[a] # worker'[v]
                      /\ \A u \in Workers : worker'[u] = worker'[v] => u = v
    BY DEF WorkersHold
  <2>1. v # w /\ worker'[v] = worker[v] /\ worker[v] # c
    BY <1>2, <1>5
  <2>2. /\ worker[v] \in DOMAIN conns
        /\ ~conns[worker[v]].closed
        /\ \A a \in Addrs : connections[a] # worker[v]
        /\ \A u \in Workers : worker[u] = worker[v] => u = v
    BY <2>1 DEF HandshakeInv, HandshakeCore, WorkersHold
  <2> QED BY <1>1, <1>4, <1>5, <2>1, <2>2
<1>8. MapValid'
  BY <1>1, <1>2, <1>4, <1>6 DEF HandshakeInv, HandshakeCore, MapValid
<1>9. UpdaterValid' /\ AnswerSeen' /\ Len(conns') <= MaxConns
  BY <1>1 DEF HandshakeInv, HandshakeCore, UpdaterValid, AnswerSeen
<1>10. InSequence'
  BY <1>1 DEF HandshakeInv, HandshakeCore, InSequence
<1>11. HandedAreMarked' /\ AcceptedOnce'
  <2>1. ConnsGrow /\ HandedOver' = HandedOver
    BY <1>1 DEF ConnsGrow, HandedOver
  <2> QED BY <2>1, HandedFrame DEF HandshakeInv, HandshakeCore
<1> QED BY <1>7, <1>8, <1>9, <1>10, <1>11 DEF HandshakeCore

\* The reader of the socket and the workers.
LEMMA WorkerStepCore ==
  ASSUME HandshakeInv, WorkerStep, UNCHANGED dialerVars
  PROVE  HandshakeCore'
<1> USE DEF connVars, acceptVars
<1>1. DialersKept /\ UNCHANGED <<unacked, fetched>>
  BY DEF DialersKept, dialerVars
<1>2. ASSUME NEW m \in toServer, Dispatch(m)
      PROVE  HandshakeCore'
  BY <1>1, <1>2, OtherStep DEF Dispatch
<1>3. ASSUME NEW w \in Workers, StoreConn(w)
      PROVE  HandshakeCore'
  BY <1>3, StoreConnCore
<1>4. ASSUME NEW w \in Workers, NEW m \in unconnected, HandleRequest1(w, m)
      PROVE  HandshakeCore'
  BY <1>1, <1>4, OtherStep DEF HandleRequest1
<1>5. ASSUME NEW w \in Workers, NEW m \in unconnected, HandleRequest2(w, m)
      PROVE  HandshakeCore'
  <2> DEFINE e == NewConn(m.addr, Smaller(m.mtu, MaxMTU))
  <2>1. worker[w] = 0 /\ UNCHANGED <<connections, updater, incoming, acceptedConns>>
    BY <1>5 DEF HandleRequest2
  <2>2. \/ UNCHANGED <<worker, conns>>
        \/ /\ ~Refused(m) /\ Len(conns) < MaxConns /\ conns' = Append(conns, e)
           /\ \/ worker' = [worker EXCEPT ![w] = Len(conns) + 1]
              \/ worker' = [worker EXCEPT ![w] = 0]
              \/ worker' = worker
    BY <1>5 DEF HandleRequest2
  <2>3. CASE UNCHANGED <<worker, conns>>
    BY <1>1, <2>1, <2>3, OtherStep
  <2>4. ~Refused(m) => e \in Conns
    <3>1. m.addr \in Addrs /\ m.mtu \in Nat
      BY DEF HandshakeInv, TypeOK, ListenerTypeOK, Messages
    <3>2. ~Refused(m) => Smaller(m.mtu, MaxMTU) \in MinMTU..MaxMTU
      BY <3>1, SmallerType, ListenerAssumption DEF Refused
    <3> QED BY <3>1, <3>2 DEF NewConn, Conns
  <2>5. ~e.connected /\ ~e.accepted /\ ~e.closed
    BY DEF NewConn
  <2> HIDE DEF e
  <2>6. CASE ~UNCHANGED <<worker, conns>>
    BY <1>1, <2>1, <2>2, <2>4, <2>5, <2>6, ConnCreated
  <2> QED BY <2>3, <2>6
<1> QED BY <1>2, <1>3, <1>4, <1>5 DEF WorkerStep

\* A Conn goes on in the sequence, where it is.
LEMMA ConnAdvances ==
  ASSUME HandshakeInv, NEW c \in DOMAIN conns, NEW e \in Conns,
         conns' = [conns EXCEPT ![c] = e],
         e.addr = conns[c].addr, e.closed = conns[c].closed,
         conns[c].accepted => e.accepted,
         e.connected => e.receivedConnectionRequest /\ fetched'[e.addr] = 1,
         e.accepted => e.connected,
         DialersKept, UNCHANGED <<worker, connections>>
  PROVE  /\ Len(conns') <= MaxConns /\ WorkersHold' /\ MapValid' /\ AnswerSeen' /\ InSequence'
         /\ ConnsGrow /\ DOMAIN conns' = DOMAIN conns
<1>1. /\ conns \in Seq(Conns)
      /\ \A b \in DOMAIN conns : conns[b].addr \in Addrs
  BY ConnFields DEF HandshakeInv
<1>2. /\ DOMAIN conns' = DOMAIN conns /\ Len(conns') = Len(conns)
      /\ conns'[c] = e
      /\ \A b \in DOMAIN conns : b # c => conns'[b] = conns[b]
  BY <1>1, ConnUpdate
<1>3. WorkersHold' /\ MapValid'
  BY <1>2, MapFrame DEF HandshakeInv, HandshakeCore, MapKept, ConnsPlaced
<1>4. AnswerSeen'
  BY DEF HandshakeInv, HandshakeCore, AnswerSeen, DialersKept
<1>5. InSequence'
  <2> SUFFICES ASSUME NEW b \in DOMAIN conns
               PROVE  /\ conns'[b].connected => /\ conns'[b].receivedConnectionRequest
                                                /\ fetched'[conns'[b].addr] = 1
                      /\ conns'[b].accepted => conns'[b].connected
    BY <1>2 DEF InSequence
  <2>1. CASE b = c
    BY <1>2, <2>1
  <2>2. CASE b # c
    <3>1. /\ conns[b].connected => /\ conns[b].receivedConnectionRequest
                                   /\ fetched[conns[b].addr] = 1
          /\ conns[b].accepted => conns[b].connected
      BY DEF HandshakeInv, HandshakeCore, InSequence
    <3> QED BY <1>1, <1>2, <2>2, <3>1 DEF DialersKept
  <2> QED BY <2>1, <2>2
<1>6. ConnsGrow
  BY <1>2 DEF ConnsGrow
<1> QED BY <1>2, <1>3, <1>4, <1>5, <1>6 DEF HandshakeInv, HandshakeCore

\* The packets of the Conns: new incoming connection comes from a dialer that
\* saw the answer, to the Conn of its own address.
LEMMA ConnStepCore ==
  ASSUME HandshakeInv, NEW a \in Addrs, NEW c \in DOMAIN conns, ConnStep(a, c)
  PROVE  HandshakeCore'
<1> USE DEF acceptVars
<1>1. UNCHANGED <<worker, connections, updater, incoming, acceptedConns, fetched>>
  BY DEF ConnStep, ReceiveConnectionRequest, ReceiveNewIncoming
<1>2. conns[c] \in Conns /\ conns[c].addr \in Addrs /\ conns \in Seq(Conns)
  BY ConnFields DEF HandshakeInv
<1>3. conns[c].addr = a
  BY DEF ConnStep, ReceiveConnectionRequest, ReceiveNewIncoming, Reachable,
         HandshakeInv, HandshakeCore, MapValid
<1>4. /\ conns[c].connected => conns[c].receivedConnectionRequest /\ fetched[a] = 1
      /\ conns[c].accepted => conns[c].connected
  BY <1>3 DEF HandshakeInv, HandshakeCore, InSequence
<1>5. unacked \in [Addrs -> SUBSET {"ConnectionRequest", "NewIncoming"}]
  BY DEF HandshakeInv, TypeOK, DialerTypeOK
<1>6. DialersKept
  <2>1. \A b \in Addrs : unacked'[b] \subseteq unacked[b]
    BY <1>5 DEF ConnStep, ReceiveConnectionRequest, ReceiveNewIncoming
  <2> QED BY <1>1, <2>1 DEF DialersKept
<1>7. SUFFICES ASSUME NEW e \in Conns, conns' = [conns EXCEPT ![c] = e],
                      e.addr = conns[c].addr, e.closed = conns[c].closed,
                      conns[c].accepted => e.accepted,
                      e.connected => e.receivedConnectionRequest /\ fetched[a] = 1,
                      e.accepted => e.connected
               PROVE  HandshakeCore'
  <2>1. CASE ReceiveConnectionRequest(a, c)
    <3> DEFINE e == [conns[c] EXCEPT !.receivedConnectionRequest = TRUE, !.unacked = TRUE]
    <3>1. /\ e \in Conns /\ e.addr = conns[c].addr /\ e.closed = conns[c].closed
          /\ e.accepted = conns[c].accepted /\ e.connected = conns[c].connected
          /\ e.receivedConnectionRequest
      BY <1>2 DEF Conns
    <3>2. conns' = [conns EXCEPT ![c] = e]
      BY <1>2, <2>1 DEF ReceiveConnectionRequest
    <3> HIDE DEF e
    <3> QED BY <1>4, <1>7, <3>1, <3>2
  <2>2. CASE ReceiveNewIncoming(a, c)
    <3> DEFINE e == [conns[c] EXCEPT !.connected = conns[c].receivedConnectionRequest]
    <3>1. /\ e \in Conns /\ e.addr = conns[c].addr /\ e.closed = conns[c].closed
          /\ e.accepted = conns[c].accepted
          /\ e.connected = conns[c].receivedConnectionRequest
          /\ e.receivedConnectionRequest = conns[c].receivedConnectionRequest
      BY <1>2 DEF Conns
    <3>2. conns' = [conns EXCEPT ![c] = e]
      BY <1>2, <2>2 DEF ReceiveNewIncoming
    <3>3. fetched[a] = 1
      BY <2>2 DEF ReceiveNewIncoming, HandshakeInv, HandshakeCore, AnswerSeen
    <3> HIDE DEF e
    <3> QED BY <1>4, <1>7, <3>1, <3>2, <3>3
  <2> QED BY <2>1, <2>2 DEF ConnStep
<1>8. /\ Len(conns') <= MaxConns /\ WorkersHold' /\ MapValid' /\ AnswerSeen' /\ InSequence'
      /\ ConnsGrow /\ DOMAIN conns' = DOMAIN conns
  BY <1>1, <1>3, <1>6, <1>7, ConnAdvances
<1>9. UpdaterValid'
  BY <1>1, <1>8 DEF HandshakeInv, HandshakeCore, UpdaterValid
<1>10. HandedAreMarked' /\ AcceptedOnce'
  BY <1>1, <1>8, HandedFrame DEF HandshakeInv, HandshakeCore, HandedOver
<1> QED BY <1>8, <1>9, <1>10 DEF HandshakeCore

\* The answer reaches the dialer, or is given up.
LEMMA AcceptedCore ==
  ASSUME HandshakeInv, NEW c \in DOMAIN conns, DeliverAccepted(c) \/ DropAccepted(c)
  PROVE  HandshakeCore'
<1> USE DEF acceptVars
<1>1. UNCHANGED <<worker, connections, updater, incoming, acceptedConns>>
  BY DEF DeliverAccepted, DropAccepted
<1>2. conns[c] \in Conns /\ conns[c].addr \in Addrs /\ conns \in Seq(Conns)
  BY ConnFields DEF HandshakeInv
<1>3. /\ unacked \in [Addrs -> SUBSET {"ConnectionRequest", "NewIncoming"}]
      /\ fetched \in [Addrs -> Nat]
  BY DEF HandshakeInv, TypeOK, DialerTypeOK
<1>4. DialersKept
  <2> DEFINE a == conns[c].addr
  <2>1. \/ UNCHANGED <<unacked, fetched>>
        \/ /\ fetched' = [fetched EXCEPT ![a] = 1]
           /\ unacked' = [unacked EXCEPT ![a] = unacked[a] \cup {"NewIncoming"}]
    BY DEF DeliverAccepted, DropAccepted, ReceiveAccepted, dialerVars
  <2>2. a \in Addrs
    BY <1>2
  <2> HIDE DEF a
  <2> QED BY <1>3, <2>1, <2>2 DEF DialersKept
<1> DEFINE e == [conns[c] EXCEPT !.unacked = FALSE]
<1>5. /\ e \in Conns /\ e.addr = conns[c].addr /\ e.closed = conns[c].closed
      /\ e.accepted = conns[c].accepted /\ e.connected = conns[c].connected
      /\ e.receivedConnectionRequest = conns[c].receivedConnectionRequest
  BY <1>2 DEF Conns
<1>6. conns' = [conns EXCEPT ![c] = e]
  BY <1>2 DEF DeliverAccepted, DropAccepted
<1> HIDE DEF e
<1>7. /\ conns[c].connected => conns[c].receivedConnectionRequest /\ fetched'[conns[c].addr] = 1
      /\ conns[c].accepted => conns[c].connected
  BY <1>2, <1>4 DEF HandshakeInv, HandshakeCore, InSequence, DialersKept
<1>8. /\ Len(conns') <= MaxConns /\ WorkersHold' /\ MapValid' /\ AnswerSeen' /\ InSequence'
      /\ ConnsGrow /\ DOMAIN conns' = DOMAIN conns
  BY <1>1, <1>4, <1>5, <1>6, <1>7, ConnAdvances
<1>9. UpdaterValid'
  BY <1>1, <1>8 DEF HandshakeInv, HandshakeCore, UpdaterValid
<1>10. HandedAreMarked' /\ AcceptedOnce'
  BY <1>1, <1>8, HandedFrame DEF HandshakeInv, HandshakeCore, HandedOver
<1> QED BY <1>8, <1>9, <1>10 DEF HandshakeCore

\* closeImmediately: a Conn is in the map under its own address or not at all,
\* so it leaves the map with it.
LEMMA CloseConnCore ==
  ASSUME HandshakeInv, NEW c \in DOMAIN conns, CloseConn(c),
         \A w \in Workers : worker[w] # c, UNCHANGED <<worker, unacked, fetched>>
  PROVE  /\ Len(conns') <= MaxConns /\ WorkersHold' /\ MapValid' /\ AnswerSeen' /\ InSequence'
         /\ ConnsGrow /\ DOMAIN conns' = DOMAIN conns
<1>1. /\ conns \in Seq(Conns) /\ conns[c] \in Conns /\ conns[c].addr \in Addrs
      /\ connections \in [Addrs -> ConnIDs]
  BY ConnFields DEF HandshakeInv, TypeOK, ListenerTypeOK
<1> DEFINE e == [conns[c] EXCEPT !.closed = TRUE]
<1>2. /\ e \in Conns /\ e.addr = conns[c].addr
      /\ e.accepted = conns[c].accepted /\ e.connected = conns[c].connected
      /\ e.receivedConnectionRequest = conns[c].receivedConnectionRequest
  BY <1>1 DEF Conns
<1>3. conns' = [conns EXCEPT ![c] = e]
  BY <1>1 DEF CloseConn
<1> HIDE DEF e
<1>4. /\ DOMAIN conns' = DOMAIN conns /\ Len(conns') = Len(conns)
      /\ conns'[c] = e
      /\ \A b \in DOMAIN conns : b # c => conns'[b] = conns[b]
  BY <1>1, <1>2, <1>3, ConnUpdate
<1>5. \A a \in Addrs : connections'[a] = IF a = conns[c].addr THEN 0 ELSE connections[a]
  BY <1>1 DEF CloseConn
<1>6. WorkersHold'
  <2> SUFFICES ASSUME NEW v \in Workers, worker'[v] # 0
               PROVE  /\ worker'[v] \in DOMAIN conns'
                      /\ ~conns'[worker'[v]].closed
                      /\ \A a \in Addrs : connections'[a] # worker'[v]
                      /\ \A u \in Workers : worker'[u] = worker'[v] => u = v
    BY DEF WorkersHold
  <2>1. /\ worker[v] \in DOMAIN conns
        /\ ~conns[worker[v]].closed
        /\ \A a \in Addrs : connections[a] # worker[v]
        /\ \A u \in Workers : worker[u] = worker[v] => u = v
    BY DEF HandshakeInv, HandshakeCore, WorkersHold
  <2> QED BY <1>4, <1>5, <2>1
<1>7. MapValid'
  <2> SUFFICES ASSUME NEW a \in Addrs, connections'[a] # 0
               PROVE  /\ connections'[a] \in DOMAIN conns'
                      /\ conns'[connections'[a]].addr = a
                      /\ ~conns'[connections'[a]].closed
    BY DEF MapValid
  <2>1. a # conns[c].addr /\ connections'[a] = connections[a]
    BY <1>5
  <2>2. /\ connections[a] \in DOMAIN conns /\ conns[connections[a]].addr = a
        /\ ~conns[connections[a]].closed
    BY <2>1 DEF HandshakeInv, HandshakeCore, MapValid
  <2> QED BY <1>4, <2>1, <2>2
<1>8. AnswerSeen'
  BY DEF HandshakeInv, HandshakeCore, AnswerSeen
<1>9. InSequence'
  BY <1>2, <1>4 DEF HandshakeInv, HandshakeCore, InSequence
<1>10. ConnsGrow
  BY <1>2, <1>4 DEF ConnsGrow
<1> QED BY <1>4, <1>6, <1>7, <1>8, <1>9, <1>10 DEF HandshakeInv, HandshakeCore

\* The ends of Conns.
LEMMA ConnClosesCore ==
  ASSUME HandshakeInv, NEW c \in DOMAIN conns, ConnCloses(c), UNCHANGED dialerVars
  PROVE  HandshakeCore'
<1> USE DEF connVars, acceptVars
<1>1. DialersKept /\ UNCHANGED <<unacked, fetched>>
  BY DEF DialersKept, dialerVars
<1>2. UNCHANGED <<worker, updater, incoming, acceptedConns>>
  BY DEF ConnCloses, HandleDisconnect, IdleTimeout
<1>3. \/ UNCHANGED <<connections, conns>>
      \/ CloseConn(c) /\ \A w \in Workers : worker[w] # c
  <2>1. ASSUME NEW a \in Addrs, Reachable(a, c)
        PROVE  \A w \in Workers : worker[w] # c
    BY <2>1 DEF Reachable, HandshakeInv, HandshakeCore, WorkersHold
  <2> QED BY <2>1 DEF ConnCloses, HandleDisconnect, IdleTimeout
<1>4. CASE UNCHANGED <<connections, conns>>
  BY <1>1, <1>2, <1>4, OtherStep
<1>5. CASE CloseConn(c) /\ \A w \in Workers : worker[w] # c
  <2>1. /\ Len(conns') <= MaxConns /\ WorkersHold' /\ MapValid' /\ AnswerSeen' /\ InSequence'
        /\ ConnsGrow /\ DOMAIN conns' = DOMAIN conns
    BY <1>1, <1>2, <1>5, CloseConnCore
  <2>2. UpdaterValid'
    BY <1>2, <2>1 DEF HandshakeInv, HandshakeCore, UpdaterValid
  <2>3. HandedAreMarked' /\ AcceptedOnce'
    BY <1>2, <2>1, HandedFrame DEF HandshakeInv, HandshakeCore, HandedOver
  <2> QED BY <2>1, <2>2, <2>3 DEF HandshakeCore
<1> QED BY <1>3, <1>4, <1>5
-----------------------------------------------------------------------------
\* What moves from one stage on the way to Accept to the next keeps its place.
LEMMA MovesOn ==
  ASSUME NEW S, NEW s \in Seq(S), NEW t \in Seq(S), NEW x \in S
  PROVE  /\ (s \o Append(t, x)) \o <<>> = (s \o t) \o <<x>>
         /\ t # <<>> => Append(s, Head(t)) \o Tail(t) = s \o t
<1>1. (s \o Append(t, x)) \o <<>> = (s \o t) \o <<x>>
  OBVIOUS
<1>2. ASSUME t # <<>> PROVE Append(s, Head(t)) \o Tail(t) = s \o t
  BY <1>2
<1> QED BY <1>1, <1>2

\* updateConnections hands over a Conn that it has not handed over before.
LEMMA UpdateConnectedCore ==
  ASSUME HandshakeInv, NEW a \in Addrs, UpdateConnected(a), UNCHANGED dialerVars
  PROVE  HandshakeCore'
<1> DEFINE c == connections[a]
           e == [conns[c] EXCEPT !.accepted = TRUE]
<1>1. /\ updater = Idle /\ conns[c].connected /\ ~conns[c].accepted /\ c # 0
      /\ conns' = [conns EXCEPT ![c].accepted = TRUE]
      /\ updater' = [op |-> "send", conn |-> c]
      /\ UNCHANGED <<worker, connections, incoming, acceptedConns, unacked, fetched>>
  BY DEF UpdateConnected, dialerVars
<1>2. c \in DOMAIN conns
  BY <1>1 DEF HandshakeInv, HandshakeCore, MapValid
<1>3. conns \in Seq(Conns) /\ conns[c] \in Conns
  BY <1>2, ConnFields DEF HandshakeInv
<1>4. /\ e \in Conns /\ e.addr = conns[c].addr /\ e.closed = conns[c].closed
      /\ e.accepted /\ e.connected = conns[c].connected
      /\ e.receivedConnectionRequest = conns[c].receivedConnectionRequest
      /\ conns' = [conns EXCEPT ![c] = e]
  BY <1>1, <1>2, <1>3 DEF Conns
<1> HIDE DEF c, e
<1>5. /\ conns[c].accepted => e.accepted
      /\ e.connected => e.receivedConnectionRequest /\ fetched'[e.addr] = 1
      /\ e.accepted => e.connected
  <2>1. conns[c].connected => conns[c].receivedConnectionRequest /\ fetched[conns[c].addr] = 1
    BY <1>2 DEF HandshakeInv, HandshakeCore, InSequence
  <2> QED BY <1>1, <1>4, <2>1
<1>6. DialersKept
  BY <1>1 DEF DialersKept
<1>7. /\ Len(conns') <= MaxConns /\ WorkersHold' /\ MapValid' /\ AnswerSeen' /\ InSequence'
      /\ ConnsGrow /\ DOMAIN conns' = DOMAIN conns
  BY <1>1, <1>2, <1>4, <1>5, <1>6, ConnAdvances
<1>8. UpdaterValid'
  BY <1>1, <1>2, <1>7 DEF UpdaterValid
<1>9. PICK s \in Seq(ConnIDs) : s = acceptedConns \o incoming
  <2>1. acceptedConns \in Seq(ConnIDs) /\ incoming \in Seq(ConnIDs)
    BY DEF HandshakeInv, TypeOK, ListenerTypeOK
  <2>2. acceptedConns \o incoming \in Seq(ConnIDs)
    BY <2>1, ConcatProperties
  <2> QED BY <2>2
<1>10. HandedOver = s /\ HandedOver' = s \o <<c>>
  <2>1. HandedOver = s \o <<>>
    BY <1>1, <1>9 DEF HandedOver, Idle
  <2>2. s \o <<>> = s
    OBVIOUS
  <2>3. HandedOver' = s \o <<c>>
    BY <1>1, <1>9 DEF HandedOver
  <2> QED BY <2>1, <2>2, <2>3
<1>11. /\ DOMAIN (s \o <<c>>) = 1..(Len(s) + 1) /\ DOMAIN s = 1..Len(s) /\ Len(s) \in Nat
       /\ (s \o <<c>>)[Len(s) + 1] = c
       /\ \A i \in DOMAIN s : (s \o <<c>>)[i] = s[i]
  <2>1. c \in ConnIDs
    BY DEF HandshakeInv, TypeOK, ListenerTypeOK, c
  <2> QED BY <2>1
<1>12. \A i \in DOMAIN s : s[i] \in DOMAIN conns /\ conns[s[i]].accepted
  BY <1>10 DEF HandshakeInv, HandshakeCore, HandedAreMarked
<1>13. \A i \in DOMAIN s : s[i] # c
  BY <1>1, <1>12
<1>14. conns'[c].accepted
  BY <1>2, <1>3, <1>4, ConnUpdate
<1> DEFINE t == s \o <<c>>
<1>15. \A i \in DOMAIN t : i = Len(s) + 1 \/ i \in DOMAIN s
  BY <1>11
<1>16. HandedAreMarked'
  <2>1. \A i \in DOMAIN t : t[i] \in DOMAIN conns' /\ conns'[t[i]].accepted
    BY <1>2, <1>7, <1>11, <1>12, <1>14, <1>15 DEF ConnsGrow
  <2> QED BY <1>10, <2>1 DEF HandedAreMarked
<1>17. AcceptedOnce'
  <2>1. \A i, j \in DOMAIN s : s[i] = s[j] => i = j
    BY <1>10 DEF HandshakeInv, HandshakeCore, AcceptedOnce
  <2>2. \A i, j \in DOMAIN t : t[i] = t[j] => i = j
    BY <1>11, <1>13, <1>15, <2>1
  <2> QED BY <1>10, <2>2 DEF AcceptedOnce
<1> QED BY <1>7, <1>8, <1>16, <1>17 DEF HandshakeCore

\* What else updateConnections does.
LEMMA UpdaterStepCore ==
  ASSUME HandshakeInv, UpdaterStep, UNCHANGED dialerVars
  PROVE  HandshakeCore'
<1> USE DEF connVars
<1>1. DialersKept /\ UNCHANGED <<unacked, fetched>>
  BY DEF DialersKept, dialerVars
<1>2. /\ incoming \in Seq(ConnIDs) /\ acceptedConns \in Seq(ConnIDs) /\ updater.conn \in ConnIDs
      /\ connections \in [Addrs -> ConnIDs]
  BY DEF HandshakeInv, TypeOK, ListenerTypeOK
<1>3. ASSUME NEW a \in Addrs, UpdateConnected(a)
      PROVE  HandshakeCore'
  BY <1>3, UpdateConnectedCore
<1>4. ASSUME NEW a \in Addrs, SequenceTimeout(a)
      PROVE  HandshakeCore'
  <2> DEFINE c == connections[a]
  <2>1. /\ c # 0 /\ CloseConn(c) /\ updater = Idle /\ updater' = [op |-> "delete", conn |-> c]
        /\ UNCHANGED <<worker, incoming, acceptedConns>>
    BY <1>4 DEF SequenceTimeout
  <2>2. c \in DOMAIN conns
    BY <2>1 DEF HandshakeInv, HandshakeCore, MapValid
  <2>3. \A w \in Workers : worker[w] # c
    BY <2>1 DEF HandshakeInv, HandshakeCore, WorkersHold
  <2> HIDE DEF c
  <2>4. /\ Len(conns') <= MaxConns /\ WorkersHold' /\ MapValid' /\ AnswerSeen' /\ InSequence'
        /\ ConnsGrow /\ DOMAIN conns' = DOMAIN conns
    BY <1>1, <2>1, <2>2, <2>3, CloseConnCore
  <2>5. UpdaterValid'
    BY <2>1, <2>2, <2>4 DEF UpdaterValid
  <2>6. HandedOver' = HandedOver
    BY <2>1 DEF HandedOver, Idle
  <2>7. HandedAreMarked' /\ AcceptedOnce'
    BY <2>4, <2>6, HandedFrame DEF HandshakeInv, HandshakeCore
  <2> QED BY <2>4, <2>5, <2>7 DEF HandshakeCore
<1>5. ASSUME UNCHANGED <<worker, connections, conns>>, UpdaterValid', HandedOver' = HandedOver
      PROVE  HandshakeCore'
  <2>1. WorkersHold' /\ MapValid'
    BY <1>5, MapFrame DEF HandshakeInv, HandshakeCore, MapKept, ConnsPlaced
  <2>2. AnswerSeen' /\ InSequence'
    BY <1>1, <1>5, SequenceFrame DEF HandshakeInv, HandshakeCore
  <2>3. HandedAreMarked' /\ AcceptedOnce'
    BY <1>5, HandedFrame DEF HandshakeInv, HandshakeCore, ConnsGrow
  <2> QED BY <1>5, <2>1, <2>2, <2>3 DEF HandshakeInv, HandshakeCore
<1>6. CASE UpdateSend
  <2>1. UNCHANGED <<worker, connections, conns, acceptedConns>> /\ updater.op = "send"
    BY <1>6 DEF UpdateSend
  <2>2. CASE UNCHANGED <<incoming, updater>>
    BY <1>1, <2>1, <2>2, OtherStep
  <2>3. CASE incoming' = Append(incoming, updater.conn) /\ updater' = Idle
    <3>1. UpdaterValid'
      BY <2>3 DEF UpdaterValid, Idle
    <3>2. HandedOver = (acceptedConns \o incoming) \o <<updater.conn>>
      BY <2>1 DEF HandedOver
    <3>3. HandedOver' = (acceptedConns \o Append(incoming, updater.conn)) \o <<>>
      BY <2>1, <2>3 DEF HandedOver, Idle
    <3>4. HandedOver' = HandedOver
      BY <1>2, <3>2, <3>3, MovesOn
    <3> QED BY <1>5, <2>1, <3>1, <3>4
  <2> QED BY <1>6, <2>2, <2>3 DEF UpdateSend
<1>7. CASE UpdateDelete
  <2> DEFINE b == conns[updater.conn].addr
  <2>1. /\ connections' = [connections EXCEPT ![b] = 0] /\ updater.op = "delete" /\ updater' = Idle
        /\ UNCHANGED <<worker, conns, incoming, acceptedConns>>
    BY <1>7 DEF UpdateDelete
  <2> HIDE DEF b
  <2>2. \A a \in Addrs : connections'[a] = connections[a] \/ connections'[a] = 0
    BY <1>2, <2>1
  <2>3. WorkersHold'
    BY <2>1, <2>2 DEF HandshakeInv, HandshakeCore, WorkersHold
  <2>4. MapValid'
    BY <2>1, <2>2 DEF HandshakeInv, HandshakeCore, MapValid
  <2>5. UpdaterValid' /\ HandedOver' = HandedOver
    BY <2>1 DEF UpdaterValid, HandedOver, Idle
  <2>6. AnswerSeen' /\ InSequence'
    BY <1>1, <2>1, SequenceFrame DEF HandshakeInv, HandshakeCore
  <2>7. HandedAreMarked' /\ AcceptedOnce'
    BY <2>1, <2>5, HandedFrame DEF HandshakeInv, HandshakeCore, ConnsGrow
  <2> QED BY <2>1, <2>3, <2>4, <2>5, <2>6, <2>7 DEF HandshakeInv, HandshakeCore
<1>8. CASE UpdateReturn
  <2>1. UpdaterValid' /\ HandedOver' = HandedOver /\ UNCHANGED <<worker, connections, conns>>
    BY <1>8 DEF UpdateReturn, UpdaterValid, HandedOver, Idle
  <2> QED BY <1>5, <2>1
<1> QED BY <1>3, <1>4, <1>6, <1>7, <1>8 DEF UpdaterStep

\* Accept takes the Conn that waited longest; the timers and the end of the
\* listener leave the Conns alone.
LEMMA OtherListenerCore ==
  ASSUME HandshakeInv, Accept \/ Housekeeping \/ CloseListener \/ CloseIncoming,
         UNCHANGED dialerVars
  PROVE  HandshakeCore'
<1> USE DEF connVars, acceptVars
<1>1. DialersKept /\ UNCHANGED <<unacked, fetched>>
  BY DEF DialersKept, dialerVars
<1>2. CASE Accept
  <2>1. incoming \in Seq(ConnIDs) /\ acceptedConns \in Seq(ConnIDs)
    BY DEF HandshakeInv, TypeOK, ListenerTypeOK
  <2>2. /\ incoming # <<>> /\ UNCHANGED <<worker, connections, conns, updater>>
        /\ acceptedConns' = Append(acceptedConns, Head(incoming)) /\ incoming' = Tail(incoming)
    BY <1>2 DEF Accept
  <2>3. Append(acceptedConns, Head(incoming)) \o Tail(incoming) = acceptedConns \o incoming
    <3>1. Head(incoming) \in ConnIDs
      BY <2>1, <2>2
    <3> QED BY <2>1, <2>2, <3>1, MovesOn
  <2>4. HandedOver' = HandedOver
    BY <2>2, <2>3 DEF HandedOver
  <2>5. WorkersHold' /\ MapValid'
    BY <2>2, MapFrame DEF HandshakeInv, HandshakeCore, MapKept, ConnsPlaced
  <2>6. UpdaterValid'
    BY <2>2 DEF HandshakeInv, HandshakeCore, UpdaterValid
  <2>7. AnswerSeen' /\ InSequence'
    BY <1>1, <2>2, SequenceFrame DEF HandshakeInv, HandshakeCore
  <2>8. HandedAreMarked' /\ AcceptedOnce'
    BY <2>2, <2>4, HandedFrame DEF HandshakeInv, HandshakeCore, ConnsGrow
  <2> QED BY <2>2, <2>5, <2>6, <2>7, <2>8 DEF HandshakeInv, HandshakeCore
<1>3. CASE Housekeeping \/ CloseListener \/ CloseIncoming
  <2>1. UNCHANGED <<worker, connections, conns, updater, incoming, acceptedConns>>
    BY <1>3 DEF Housekeeping, RotateSalts, Unblock, CloseListener, CloseIncoming
  <2> QED BY <1>1, <2>1, OtherStep
<1> QED BY <1>2, <1>3
-----------------------------------------------------------------------------
\* Nobody dials, there is no Conn and nothing is handed over at first.
LEMMA HandshakeInitial ==
  ASSUME Init
  PROVE  HandshakeInv
<1> USE DEF Init, DialerInit, ListenerInit
<1>1. DialerTypeOK
  <2>1. 0 \in 0..(TriesPerSize * Len(MTUSizes))
    <3>1. TriesPerSize \in Nat /\ Len(MTUSizes) \in Nat
      BY DialerAssumption
    <3> QED BY <3>1
  <2> QED BY <2>1 DEF DialerTypeOK, Phases
<1>2. 0 \in ConnIDs
  BY ListenerAssumption DEF ConnIDs
<1>3. ListenerTypeOK
  <2>1. /\ worker \in [Workers -> ConnIDs] /\ connections \in [Addrs -> ConnIDs]
        /\ updater \in [op : {"idle", "send", "delete", "returned"}, conn : ConnIDs]
    BY <1>2 DEF Idle
  <2>2. conns \in Seq(Conns) /\ incoming \in Seq(ConnIDs) /\ acceptedConns \in Seq(ConnIDs)
    BY EmptySeq
  <2>3. /\ listening \in BOOLEAN /\ incomingClosed \in BOOLEAN /\ panicked \in BOOLEAN
        /\ unconnected \subseteq Messages /\ blocks \subseteq Hosts
        /\ currentCookieSalt \in Nat /\ prevCookieSalt \in Nat
    OBVIOUS
  <2> QED BY <2>1, <2>2, <2>3 DEF ListenerTypeOK
<1>4. TypeOK
  BY <1>1, <1>3, HandshakeAssumption DEF TypeOK
<1>5. WorkersHold /\ MapValid /\ UpdaterValid /\ AnswerSeen
  BY DEF WorkersHold, MapValid, UpdaterValid, AnswerSeen, Idle
<1>6. InSequence /\ Len(conns) <= MaxConns
  BY ListenerAssumption DEF InSequence
<1>7. HandedOver = <<>>
  BY DEF HandedOver, Idle
<1>8. HandedAreMarked /\ AcceptedOnce
  BY <1>7 DEF HandedAreMarked, AcceptedOnce
<1> QED BY <1>4, <1>5, <1>6, <1>8 DEF HandshakeInv, HandshakeCore

\* Every step keeps the invariant.
LEMMA HandshakeStep ==
  ASSUME HandshakeInv, [Next]_vars
  PROVE  HandshakeInv'
<1>1. TypeOK'
  BY NextHandshakeType DEF HandshakeInv, HandshakeCore
<1>2. UNCHANGED dialerVars => DialersKept
  BY DEF dialerVars, DialersKept
<1>3. UNCHANGED listenerVars =>
        UNCHANGED <<worker, connections, conns, updater, incoming, acceptedConns>>
  BY DEF listenerVars, connVars, acceptVars
<1>4. CASE \E a \in Addrs : DialerStep(a) /\ UNCHANGED listenerVars
  BY <1>4, DialerStepCore, <1>1 DEF HandshakeInv
<1>5. CASE WorkerStep /\ UNCHANGED dialerVars
  BY <1>1, <1>5, WorkerStepCore DEF HandshakeInv
<1>6. CASE \E a \in Addrs, c \in DOMAIN conns : ConnStep(a, c)
  BY <1>1, <1>6, ConnStepCore DEF HandshakeInv
<1>7. CASE \E c \in DOMAIN conns : ConnCloses(c) /\ UNCHANGED dialerVars
  BY <1>1, <1>7, ConnClosesCore DEF HandshakeInv
<1>8. CASE \E c \in DOMAIN conns : DeliverAccepted(c) \/ DropAccepted(c)
  BY <1>1, <1>8, AcceptedCore DEF HandshakeInv
<1>9. CASE UpdaterStep /\ UNCHANGED dialerVars
  BY <1>1, <1>9, UpdaterStepCore DEF HandshakeInv
<1>10. CASE /\ Accept \/ Housekeeping \/ CloseListener \/ CloseIncoming
            /\ UNCHANGED dialerVars
  BY <1>1, <1>10, OtherListenerCore DEF HandshakeInv
<1>11. CASE \E m \in toServer \cup toClient : LoseMessage(m)
  <2>1. UNCHANGED <<dialerVars, listenerVars>>
    BY <1>11 DEF LoseMessage
  <2> QED BY <1>1, <1>2, <1>3, <2>1, OtherStep DEF HandshakeInv
<1>12. CASE \E m \in toServer : DuplicateRequest(m)
  <2>1. UNCHANGED dialerVars /\ UNCHANGED <<worker, connVars, acceptVars>>
    BY <1>12 DEF DuplicateRequest
  <2> QED BY <1>1, <1>2, <2>1, OtherStep DEF connVars, acceptVars, HandshakeInv
<1>13. CASE UNCHANGED vars
  BY <1>1, <1>2, <1>3, <1>13, OtherStep DEF vars, HandshakeInv
<1> QED
  BY <1>4, <1>5, <1>6, <1>7, <1>8, <1>9, <1>10, <1>11, <1>12, <1>13 DEF Next

\* The inductive invariant holds in every state the dialers, the listener and
\* the network reach.
THEOREM HandshakeInvariant == Spec => []HandshakeInv
<1>1. Init => HandshakeInv
  BY HandshakeInitial
<1>2. HandshakeInv /\ [Next]_vars => HandshakeInv'
  BY HandshakeStep
<1> QED BY <1>1, <1>2, PTL DEF Spec

\* Every variable of the dialers, of the listener and of the network keeps its
\* type, the MTU of a Conn its limits, and no message names an address that
\* does not dial.
THEOREM HandshakeTypes == Spec => []TypeOK
<1>1. HandshakeInv => TypeOK
  BY DEF HandshakeInv
<1> QED BY <1>1, HandshakeInvariant, PTL

\* No Conn comes out of Accept twice, although updateConnections meets it in
\* the map at every tick and may be about to send it.
THEOREM AcceptedOnceHolds == Spec => []AcceptedOnce
<1>1. HandshakeInv => AcceptedOnce
  BY DEF HandshakeInv, HandshakeCore
<1> QED BY <1>1, HandshakeInvariant, PTL

\* A Conn handed to Accept took the connection request, and its dialer saw the
\* answer before it sent new incoming connection.
THEOREM AcceptedAreConnectedHolds == Spec => []AcceptedAreConnected
<1>1. HandshakeInv => AcceptedAreConnected
  <2> SUFFICES ASSUME HandshakeInv, NEW i \in DOMAIN HandedOver
               PROVE  LET c == HandedOver[i]
                      IN  /\ conns[c].receivedConnectionRequest /\ conns[c].connected
                          /\ fetched[conns[c].addr] = 1
    BY DEF AcceptedAreConnected
  <2>1. HandedOver[i] \in DOMAIN conns /\ conns[HandedOver[i]].accepted
    BY DEF HandshakeInv, HandshakeCore, HandedAreMarked
  <2> QED BY <2>1 DEF HandshakeInv, HandshakeCore, InSequence
<1> QED BY <1>1, HandshakeInvariant, PTL

\* No path that closes a Conn leaves it in the map, and every Conn in the map
\* is stored under its own address.
THEOREM MapHoldsOpenConnsHolds == Spec => []MapHoldsOpenConns
<1>1. HandshakeInv => MapHoldsOpenConns
  BY DEF HandshakeInv, HandshakeCore, MapValid, MapHoldsOpenConns
<1> QED BY <1>1, HandshakeInvariant, PTL
-----------------------------------------------------------------------------
\* A network that answers in time: what the rest is about.  Timeouts fire only
\* when nothing is under way, no request arrives twice, reply 2 is not lost,
\* every size tried is one the listener takes, and nobody shares an IP with a
\* dialer of another protocol version.
Timely ==
  /\ ~SlowNetwork /\ ~FilterMayFail /\ MaxDuplicates = 0
  /\ "Reply2" \notin LossyTypes
  /\ \A k \in DOMAIN MTUSizes : MinMTU <= MTUSizes[k]
  /\ \A a \in Addrs \ Outdated, b \in Outdated : HostOf[a] # HostOf[b]

\* The messages under way, and those that open a connection.
Messaging == toServer \cup toClient \cup unconnected
Openings == {m \in Messaging : m.type # "Disconnect"}

Directed ==
  /\ \A m \in toServer : m.type \in {"Request1", "Request2", "Disconnect"}
  /\ \A m \in toClient : m.type \in {"Reply1", "Incompatible", "Reply2", "Disconnect"}
  /\ \A m \in unconnected : m.type \in {"Request1", "Request2"} /\ m \notin toServer

\* Requests and first replies are of a size that the listener takes.
SizesTaken ==
  \A m \in Openings : m.type \in {"Request1", "Reply1", "Request2"} => MinMTU <= m.mtu

\* A dialer and the listener send one message at a time.
OneAtATime == \A m, n \in Openings : m.addr = n.addr => m = n

\* A dialer that starts (again) has nothing under way.
StartsClean ==
  /\ \A a \in Addrs : phase[a] = "idle" => tries[a] = 0
  /\ \A m \in Openings :
       LET p == phase[m.addr]
       IN  /\ p # "idle"
           /\ p = "discoverMTU" => tries[m.addr] # 0 /\ m.type \notin {"Request2", "Reply2"}

OutdatedRefused ==
  /\ \A m \in Openings : m.type \in {"Reply1", "Request2", "Reply2"} => m.addr \notin Outdated
  /\ \A a \in Outdated : phase[a] \notin {"openConnection", "connect", "connected"}

\* The dialer asks for nothing any more: it has the second reply, gets it, or
\* has given up.
Settled(a) ==
  /\ \A m \in Openings : m.addr = a => m.type = "Reply2"
  /\ phase[a] \notin {"idle", "discoverMTU"}
  /\ phase[a] = "openConnection" => \E m \in toClient : m.type = "Reply2" /\ m.addr = a

Served(a) ==
  \/ connections[a] # 0
  \/ \E w \in Workers : worker[w] # 0 /\ conns[worker[w]].addr = a

HasConn(a) == \E c \in DOMAIN conns : conns[c].addr = a

ServedSettled ==
  \A a \in Addrs : Served(a) \/ (listening /\ HasConn(a)) => Settled(a)

\* updateConnections, which deletes by address, finds nothing to delete.
DeleteDone ==
  \A a \in Addrs :
    updater.op = "delete" /\ conns[updater.conn].addr = a => Settled(a) /\ ~Served(a)

\* An open Conn is in the map or in the hands of the one worker that serves
\* its address, except for one made after the listener was closed.
OpenPlaced ==
  \A c \in DOMAIN conns, a \in Addrs :
    ~conns[c].closed /\ conns[c].addr = a =>
      \/ connections[a] = c
      \/ \E w \in Workers : worker[w] = c
      \/ ~listening /\ ~Served(a) /\ ~conns[c].receivedConnectionRequest

WorkerAlone ==
  \A w \in Workers :
    worker[w] # 0 =>
      LET e == conns[worker[w]]
      IN  /\ connections[e.addr] = 0
          /\ ~e.receivedConnectionRequest
          /\ \A v \in Workers : worker[v] # 0 /\ conns[worker[v]].addr = e.addr => v = w

\* While the listener is open an address gets one Conn.
OneConn ==
  listening => \A c, d \in DOMAIN conns : conns[c].addr = conns[d].addr => c = d

\* What the dialer knows of the sequence.
DialerKnows ==
  /\ \A m \in toServer : m.type = "Disconnect" => phase[m.addr] = "closed"
  /\ \A a \in Addrs : phase[a] \notin {"connected", "closed"} => fetched[a] = 0
  /\ \A a \in Addrs : phase[a] \notin {"connect", "connected"} => unacked[a] = {}
  /\ \A c \in DOMAIN conns : conns[c].unacked => conns[c].receivedConnectionRequest

\* The Conn c is where the dialer at a takes it to be, and whatever it waits
\* for is under way.
InStep(a, c) ==
  /\ conns[c].addr = a /\ ~conns[c].closed
  /\ phase[a] \in {"connect", "connected"} => conns[c].mtu = mtu[a]
  /\ phase[a] = "connect" =>
       \/ ~conns[c].receivedConnectionRequest /\ "ConnectionRequest" \in unacked[a]
       \/ conns[c].receivedConnectionRequest /\ conns[c].unacked
  /\ phase[a] = "connected" =>
       /\ conns[c].receivedConnectionRequest
       /\ conns[c].connected \/ "NewIncoming" \in unacked[a]

DialInStep(a) ==
  /\ phase[a] \in {"connect", "connected"} => \E c \in DOMAIN conns : InStep(a, c)
  /\ \A m \in toClient :
       m.type = "Reply2" /\ m.addr = a /\ phase[a] = "openConnection" =>
         \E c \in DOMAIN conns :
           InStep(a, c) /\ ~conns[c].receivedConnectionRequest /\ conns[c].mtu = m.mtu

DialsInStep == listening => \A a \in Addrs : DialInStep(a)

\* What a timely network spares its dialers: whoever is served asks no more, so
\* that a worker blocks only hosts of dialers of another protocol version.
OnlyOutdatedBlocked == \A h \in blocks : \E a \in Outdated : HostOf[a] = h

MessagesOK == Directed /\ SizesTaken /\ OneAtATime /\ StartsClean /\ OutdatedRefused

ServiceOK == ServedSettled /\ DeleteDone /\ OpenPlaced /\ WorkerAlone /\ OneConn

\* The inductive invariant of a timely network, with HandshakeInv.
TimelyInv == MessagesOK /\ ServiceOK /\ DialerKnows /\ DialsInStep /\ OnlyOutdatedBlocked

\* An address that has asked for its connection asks for nothing any more.
SettledKept == \A b \in Addrs : Settled(b) => Settled(b)'
-----------------------------------------------------------------------------
\* Messages are from and to addresses that dial.
LEMMA MessageAddrs ==
  ASSUME TypeOK
  PROVE  /\ \A m \in Messaging : m \in Messages /\ m.addr \in Addrs
         /\ Openings \subseteq Messaging
BY DEF TypeOK, ListenerTypeOK, Messaging, Messages, Openings

\* A timeout fires when nothing is under way.
LEMMA Quiet ==
  ASSUME Timely, NEW a \in Addrs, TimeOut(a)
  PROVE  /\ \A m \in Messaging : m.addr # a
         /\ \A w \in Workers : worker[w] # 0 => conns[worker[w]].addr # a
         /\ \A c \in DOMAIN conns : conns[c].addr = a => ~conns[c].unacked
         /\ unacked[a] # {} => \A c \in DOMAIN conns : ~Reachable(a, c)
BY DEF Timely, TimeOut, UnderWay, Messaging

\* Messages disappear, and dialers go on.
LEMMA FewerMessages ==
  ASSUME TypeOK, MessagesOK, Directed', Openings' \subseteq Openings,
         \A b \in Addrs : \/ phase'[b] = phase[b] /\ tries'[b] = tries[b]
                          \/ phase'[b] \in {"connect", "connected", "failed", "closed"},
         \A b \in Outdated : phase'[b] = phase[b] \/ phase'[b] \in {"failed", "closed"},
         \A m \in toClient :
           m.type = "Reply2" => m \in toClient' \/ phase'[m.addr] # "openConnection"
  PROVE  MessagesOK' /\ SettledKept
<1>1. \A m \in Openings : m.addr \in Addrs
  BY MessageAddrs
<1>2. SizesTaken' /\ OneAtATime'
  BY DEF MessagesOK, SizesTaken, OneAtATime
<1>3. StartsClean'
  <2>1. ASSUME NEW b \in Addrs, phase'[b] = "idle" PROVE tries'[b] = 0
    BY <2>1 DEF MessagesOK, StartsClean
  <2>2. ASSUME NEW m \in Openings'
        PROVE  /\ phase'[m.addr] # "idle"
               /\ phase'[m.addr] = "discoverMTU" =>
                    tries'[m.addr] # 0 /\ m.type \notin {"Request2", "Reply2"}
    BY <1>1 DEF MessagesOK, StartsClean
  <2> QED BY <2>1, <2>2 DEF StartsClean
<1>4. OutdatedRefused'
  BY DEF MessagesOK, OutdatedRefused
<1>5. SettledKept
  <2> SUFFICES ASSUME NEW b \in Addrs, Settled(b) PROVE Settled(b)'
    BY DEF SettledKept
  <2>1. \A m \in Openings' : m.addr = b => m.type = "Reply2"
    BY DEF Settled
  <2>2. phase'[b] \notin {"idle", "discoverMTU"}
    BY DEF Settled
  <2>3. ASSUME phase'[b] = "openConnection"
        PROVE  \E m \in toClient' : m.type = "Reply2" /\ m.addr = b
    <3>1. phase[b] = "openConnection"
      BY <2>3
    <3>2. PICK m \in toClient : m.type = "Reply2" /\ m.addr = b
      BY <3>1 DEF Settled
    <3> QED BY <2>3, <3>2
  <2> QED BY <2>1, <2>2, <2>3 DEF Settled
<1> QED BY <1>2, <1>3, <1>4, <1>5 DEF MessagesOK

\* A message is answered by another.
LEMMA MessageAnswered ==
  ASSUME TypeOK, MessagesOK, Directed', NEW m \in Openings, m.type # "Reply2", NEW n,
         n.addr = m.addr, Openings' \subseteq (Openings \ {m}) \cup {n},
         n.type \in {"Reply1", "Request2"} => MinMTU <= n.mtu,
         n.type # "Request1",
         n.type \in {"Reply1", "Request2", "Reply2"} => n.addr \notin Outdated,
         n.type \in {"Request2", "Reply2"} => phase'[m.addr] \notin {"idle", "discoverMTU"},
         \A b \in Addrs : \/ phase'[b] = phase[b] /\ tries'[b] = tries[b]
                          \/ /\ b = m.addr /\ b \notin Outdated
                             /\ phase'[b] = "openConnection" /\ tries'[b] = tries[b],
         \A x \in toClient : x.type = "Reply2" => x \in toClient'
  PROVE  MessagesOK' /\ SettledKept
<1>1. \A x \in Openings : x.addr \in Addrs
  BY MessageAddrs
<1>2. \A x \in Openings' : x = n \/ (x \in Openings /\ x.addr # m.addr)
  BY DEF MessagesOK, OneAtATime
<1>3. SizesTaken'
  BY <1>2 DEF MessagesOK, SizesTaken
<1>4. OneAtATime'
  BY <1>2 DEF MessagesOK, OneAtATime
<1>5. StartsClean'
  <2>1. ASSUME NEW b \in Addrs, phase'[b] = "idle" PROVE tries'[b] = 0
    BY <2>1 DEF MessagesOK, StartsClean
  <2>2. ASSUME NEW x \in Openings'
        PROVE  /\ phase'[x.addr] # "idle"
               /\ phase'[x.addr] = "discoverMTU" =>
                    tries'[x.addr] # 0 /\ x.type \notin {"Request2", "Reply2"}
    <3>1. CASE x = n
      <4>1. phase[m.addr] # "idle" /\ (phase[m.addr] = "discoverMTU" => tries[m.addr] # 0)
        BY DEF MessagesOK, StartsClean
      <4> QED BY <1>1, <3>1, <4>1
    <3>2. CASE x \in Openings /\ x.addr # m.addr
      BY <1>1, <3>2 DEF MessagesOK, StartsClean
    <3> QED BY <1>2, <3>1, <3>2
  <2> QED BY <2>1, <2>2 DEF StartsClean
<1>6. OutdatedRefused'
  <2>1. \A b \in Outdated : b \in Addrs
    BY DialerAssumption
  <2>2. \A b \in Outdated : phase'[b] = phase[b]
    BY <2>1
  <2> QED BY <1>2, <2>2 DEF MessagesOK, OutdatedRefused
<1>7. SettledKept
  <2> SUFFICES ASSUME NEW b \in Addrs, Settled(b) PROVE Settled(b)'
    BY DEF SettledKept
  <2>1. b # m.addr
    BY DEF Settled
  <2>2. phase'[b] = phase[b]
    BY <2>1
  <2> QED BY <1>2, <2>1, <2>2 DEF Settled
<1> QED BY <1>3, <1>4, <1>5, <1>6, <1>7 DEF MessagesOK

\* A dialer: what it sends follows what it got, or nothing is under way.
LEMMA DialerMessages ==
  ASSUME Timely, TypeOK, MessagesOK, NEW a \in Addrs, DialerStep(a), UNCHANGED unconnected
  PROVE  MessagesOK' /\ SettledKept
<1> USE DEF Message
<1>1. /\ \A m \in Messaging : m \in Messages /\ m.addr \in Addrs
      /\ Openings \subseteq Messaging
      /\ phase \in [Addrs -> Phases] /\ mtu \in [Addrs -> Nat]
  BY MessageAddrs DEF TypeOK, DialerTypeOK
<1>2. tries \in [Addrs -> Nat]
  <2>1. TriesPerSize * Len(MTUSizes) \in Nat
    BY DialerAssumption
  <2> QED BY <2>1 DEF TypeOK, DialerTypeOK
<1>3. Directed
  BY DEF MessagesOK
<1>4. CASE Dial(a)
  <2>1. /\ phase[a] = "idle" /\ phase'[a] = "discoverMTU"
        /\ \A b \in Addrs : b # a => phase'[b] = phase[b]
        /\ UNCHANGED <<tries, toServer, toClient, unconnected>>
    BY <1>1, <1>4 DEF Dial
  <2>2. Openings' = Openings
    BY <2>1 DEF Openings, Messaging
  <2>3. \A m \in Openings : m.addr # a
    BY <2>1 DEF MessagesOK, StartsClean
  <2>4. Directed' /\ SizesTaken' /\ OneAtATime'
    BY <2>1, <2>2 DEF MessagesOK, Directed, SizesTaken, OneAtATime
  <2>5. StartsClean'
    BY <1>1, <2>1, <2>2, <2>3 DEF MessagesOK, StartsClean
  <2>6. OutdatedRefused'
    BY <2>1, <2>2, DialerAssumption DEF MessagesOK, OutdatedRefused
  <2>7. SettledKept
    BY <2>1, <2>2 DEF SettledKept, Settled
  <2> QED BY <2>4, <2>5, <2>6, <2>7 DEF MessagesOK
<1>5. CASE /\ Request1(a)
           /\ \/ phase[a] = "discoverMTU" /\ tries[a] = 0
              \/ TimeOut(a) /\ (phase[a] = "discoverMTU" \/ SlowNetwork)
  <2> DEFINE size == MTUSizes[tries[a] \div TriesPerSize + 1]
             n == Message("Request1", a, size, 0, tries[a])
  <2>1. phase[a] = "discoverMTU" /\ \A m \in Openings : m.addr # a
    BY <1>1, <1>5, Quiet DEF Timely, MessagesOK, StartsClean
  <2>2. MinMTU <= size
    <3>1. /\ tries[a] \in Nat /\ TriesPerSize \in Nat /\ Len(MTUSizes) \in Nat
          /\ tries[a] < TriesPerSize * Len(MTUSizes)
      BY <1>2, <1>5, DialerAssumption DEF Request1
    <3>2. tries[a] \div TriesPerSize + 1 \in 1..Len(MTUSizes)
      BY <3>1, SizeIndex
    <3>3. DOMAIN MTUSizes = 1..Len(MTUSizes)
      BY DialerAssumption
    <3> QED BY <3>2, <3>3 DEF Timely
  <2>3. n.type = "Request1" /\ n.addr = a /\ n.mtu = size
    OBVIOUS
  <2>4. /\ toServer' = toServer \cup {n} /\ UNCHANGED <<phase, toClient, unconnected>>
        /\ tries'[a] # 0 /\ \A b \in Addrs : b # a => tries'[b] = tries[b]
    BY <1>2, <1>5 DEF Request1, Request
  <2> HIDE DEF n, size
  <2>5. Openings' = Openings \cup {n}
    BY <2>3, <2>4 DEF Openings, Messaging
  <2>6. n \notin unconnected
    BY <2>1, <2>3 DEF Openings, Messaging
  <2>7. Directed'
    BY <1>3, <2>3, <2>4, <2>6 DEF Directed
  <2>8. SizesTaken' /\ OneAtATime'
    BY <2>1, <2>2, <2>3, <2>5 DEF MessagesOK, SizesTaken, OneAtATime
  <2>9. StartsClean'
    BY <1>1, <2>1, <2>3, <2>4, <2>5 DEF MessagesOK, StartsClean
  <2>10. OutdatedRefused'
    BY <2>3, <2>4, <2>5 DEF MessagesOK, OutdatedRefused
  <2>11. SettledKept
    BY <2>1, <2>3, <2>4, <2>5 DEF SettledKept, Settled
  <2> QED BY <2>7, <2>8, <2>9, <2>10, <2>11 DEF MessagesOK
<1>6. CASE Reply2Timeout(a) /\ TimeOut(a)
  <2>1. /\ phase[a] = "openConnection" /\ phase'[a] = "discoverMTU"
        /\ \A b \in Addrs : b # a => phase'[b] = phase[b] /\ tries'[b] = tries[b]
        /\ UNCHANGED <<toServer, toClient, unconnected>>
    BY <1>1, <1>2, <1>6 DEF Reply2Timeout
  <2>2. \A m \in Messaging : m.addr # a
    BY <1>6, Quiet
  <2>3. Openings' = Openings
    BY <2>1 DEF Openings, Messaging
  <2>4. Directed' /\ SizesTaken' /\ OneAtATime'
    BY <2>1, <2>3 DEF MessagesOK, Directed, SizesTaken, OneAtATime
  <2>5. StartsClean'
    BY <1>1, <2>1, <2>2, <2>3 DEF MessagesOK, StartsClean
  <2>6. OutdatedRefused'
    BY <2>1, <2>3, DialerAssumption DEF MessagesOK, OutdatedRefused
  <2>7. ~Settled(a)
    BY <2>1, <2>2 DEF Settled, Messaging
  <2>8. SettledKept
    BY <2>1, <2>3, <2>7 DEF SettledKept, Settled
  <2> QED BY <2>4, <2>5, <2>6, <2>8 DEF MessagesOK
<1>7. CASE DialTimeout(a)
  <2>1. /\ phase'[a] = "failed" /\ UNCHANGED <<tries, toServer, toClient, unconnected>>
        /\ \A b \in Addrs : b # a => phase'[b] = phase[b]
    BY <1>1, <1>7 DEF DialTimeout
  <2>2. Directed' /\ Openings' \subseteq Openings
    BY <1>3, <2>1 DEF Directed, Openings, Messaging
  <2>3. \A b \in Outdated : phase'[b] = phase[b] \/ phase'[b] \in {"failed", "closed"}
    BY <2>1, DialerAssumption
  <2> QED BY <2>1, <2>2, <2>3, FewerMessages
<1>8. CASE DialerIdleTimeout(a)
  <2> DEFINE n == Message("Disconnect", a, 0, 0, fetched[a] + 1)
  <2>1. /\ phase'[a] = "closed" /\ UNCHANGED <<tries, toClient, unconnected>>
        /\ toServer' = toServer \cup {n} /\ n.type = "Disconnect"
        /\ \A b \in Addrs : b # a => phase'[b] = phase[b]
    BY <1>1, <1>8 DEF DialerIdleTimeout
  <2> HIDE DEF n
  <2>2. Directed' /\ Openings' \subseteq Openings
    BY <1>3, <2>1 DEF Directed, Openings, Messaging
  <2>3. \A b \in Outdated : phase'[b] = phase[b] \/ phase'[b] \in {"failed", "closed"}
    BY <2>1, DialerAssumption
  <2> QED BY <2>1, <2>2, <2>3, FewerMessages
<1>9. ASSUME NEW m \in toClient, m.addr = a,
             \/ ReceiveReply1(a, m) \/ ReceiveIncompatible(a, m)
             \/ ReceiveReply2(a, m) \/ ReceiveDisconnect(a, m)
             \/ IgnoreMessage(a, m)
      PROVE  MessagesOK' /\ SettledKept
  <2>1. m \in Messaging /\ (m.type # "Disconnect" => m \in Openings)
    BY DEF Messaging, Openings
  <2>2. CASE ReceiveReply1(a, m)
    <3> DEFINE n == Message("Request2", a, m.mtu, m.cookie, tries[a])
    <3>1. n.type = "Request2" /\ n.addr = a /\ n.mtu = m.mtu
      OBVIOUS
    <3>2. /\ m.type = "Reply1" /\ phase'[a] = "openConnection"
          /\ toServer' = toServer \cup {n} /\ toClient' = toClient \ {m}
          /\ UNCHANGED <<tries, unconnected>>
          /\ \A b \in Addrs : b # a => phase'[b] = phase[b]
      BY <1>1, <2>2 DEF ReceiveReply1, Request
    <3> HIDE DEF n
    <3>3. m \in Openings /\ m \notin toServer /\ m \notin unconnected
      BY <1>3, <2>1, <3>2 DEF Directed
    <3>4. n \notin unconnected
      <4> SUFFICES ASSUME n \in unconnected PROVE FALSE
        OBVIOUS
      <4>1. n \in Openings
        BY <3>1 DEF Openings, Messaging
      <4> QED BY <1>9, <3>1, <3>2, <3>3, <4>1 DEF MessagesOK, OneAtATime
    <3>5. Directed'
      BY <1>3, <3>1, <3>2, <3>4 DEF Directed
    <3>6. Openings' \subseteq (Openings \ {m}) \cup {n}
      BY <3>2, <3>3 DEF Openings, Messaging
    <3>7. MinMTU <= n.mtu /\ a \notin Outdated
      BY <1>9, <3>1, <3>2, <3>3 DEF MessagesOK, SizesTaken, OutdatedRefused
    <3> QED BY <1>9, <3>1, <3>2, <3>3, <3>5, <3>6, <3>7, MessageAnswered
  <2>3. CASE ReceiveIncompatible(a, m)
    <3>1. /\ phase'[a] = "failed" /\ m.type = "Incompatible" /\ toClient' = toClient \ {m}
          /\ UNCHANGED <<tries, toServer, unconnected>>
          /\ \A b \in Addrs : b # a => phase'[b] = phase[b]
      BY <1>1, <2>3 DEF ReceiveIncompatible
    <3>2. Directed' /\ Openings' \subseteq Openings
      BY <1>3, <3>1 DEF Directed, Openings, Messaging
    <3>3. \A b \in Outdated : phase'[b] = phase[b] \/ phase'[b] \in {"failed", "closed"}
      BY <3>1, DialerAssumption
    <3> QED BY <3>1, <3>2, <3>3, FewerMessages
  <2>4. CASE ReceiveReply2(a, m)
    <3>1. /\ phase'[a] = "connect" /\ m.type = "Reply2" /\ toClient' = toClient \ {m}
          /\ UNCHANGED <<tries, toServer, unconnected>>
          /\ \A b \in Addrs : b # a => phase'[b] = phase[b]
      BY <1>1, <2>4 DEF ReceiveReply2
    <3>2. Directed' /\ Openings' \subseteq Openings
      BY <1>3, <3>1 DEF Directed, Openings, Messaging
    <3>3. a \notin Outdated
      BY <1>9, <2>1, <3>1 DEF MessagesOK, OutdatedRefused
    <3>4. \A b \in Outdated : phase'[b] = phase[b]
      BY <3>1, <3>3, DialerAssumption
    <3> QED BY <1>9, <3>1, <3>2, <3>4, FewerMessages
  <2>5. CASE ReceiveDisconnect(a, m)
    <3> DEFINE n == Message("Disconnect", a, 0, 0, fetched[a] + 1)
    <3>1. /\ phase' = phase \/ phase' = [phase EXCEPT ![a] = "closed"]
          /\ m.type = "Disconnect" /\ toClient' = toClient \ {m}
          /\ toServer' = toServer \/ toServer' = toServer \cup {n}
          /\ n.type = "Disconnect" /\ UNCHANGED <<tries, unconnected>>
      BY <2>5 DEF ReceiveDisconnect
    <3> HIDE DEF n
    <3>2. Directed' /\ Openings' \subseteq Openings
      BY <1>3, <3>1 DEF Directed, Openings, Messaging
    <3>3. \A b \in Addrs : phase'[b] = phase[b] \/ phase'[b] = "closed"
      BY <1>1, <3>1
    <3>4. \A b \in Outdated : phase'[b] = phase[b] \/ phase'[b] \in {"failed", "closed"}
      BY <3>3, DialerAssumption
    <3> QED BY <3>1, <3>2, <3>3, <3>4, FewerMessages
  <2>6. CASE IgnoreMessage(a, m)
    <3>1. /\ ~Takes(a, m.type) /\ toClient' = toClient \ {m}
          /\ UNCHANGED <<phase, tries, toServer, unconnected>>
      BY <2>6 DEF IgnoreMessage, dialerVars
    <3>2. Directed' /\ Openings' \subseteq Openings
      BY <1>3, <3>1 DEF Directed, Openings, Messaging
    <3>3. m.type = "Reply2" => phase[a] # "openConnection"
      BY <3>1 DEF Takes
    <3> QED BY <1>9, <3>1, <3>2, <3>3, FewerMessages
  <2> QED BY <1>9, <2>2, <2>3, <2>4, <2>5, <2>6
<1> QED BY <1>4, <1>5, <1>6, <1>7, <1>8, <1>9 DEF DialerStep

\* The workers: a request is taken once, and answered by one message.
LEMMA WorkerMessages ==
  ASSUME Timely, TypeOK, MessagesOK, WorkerStep, UNCHANGED dialerVars
  PROVE  MessagesOK' /\ SettledKept
<1> USE DEF Message
<1>1. /\ \A m \in Messaging : m \in Messages /\ m.addr \in Addrs /\ m.mtu \in Nat
      /\ Openings \subseteq Messaging
  BY MessageAddrs DEF Messages
<1>2. Directed /\ UNCHANGED <<phase, tries>>
  BY DEF MessagesOK, dialerVars
<1>3. ASSUME Directed', Openings' \subseteq Openings, toClient \subseteq toClient'
      PROVE  MessagesOK' /\ SettledKept
  BY <1>2, <1>3, FewerMessages
<1>4. ASSUME NEW m \in toServer, Dispatch(m)
      PROVE  MessagesOK' /\ SettledKept
  <2>1. /\ m.type \in {"Request1", "Request2"}
        /\ unconnected' = unconnected \/ unconnected' = unconnected \cup {m}
        /\ toServer' = toServer \ {m} /\ UNCHANGED toClient
    BY <1>4 DEF Dispatch
  <2>2. Directed'
    BY <1>2, <2>1 DEF Directed
  <2>3. Openings' \subseteq Openings
    BY <2>1 DEF Openings, Messaging
  <2> QED BY <1>3, <2>1, <2>2, <2>3
<1>5. ASSUME NEW w \in Workers, StoreConn(w)
      PROVE  MessagesOK' /\ SettledKept
  <2>1. UNCHANGED <<toServer, toClient, unconnected>>
    BY <1>5 DEF StoreConn
  <2>2. Directed' /\ Openings' \subseteq Openings
    BY <1>2, <2>1 DEF Directed, Openings, Messaging
  <2> QED BY <1>3, <2>1, <2>2
<1>6. ASSUME NEW m \in unconnected, unconnected' = unconnected \ {m}, UNCHANGED toServer,
             UNCHANGED toClient
      PROVE  MessagesOK' /\ SettledKept
  <2>1. Directed' /\ Openings' \subseteq Openings
    BY <1>2, <1>6 DEF Directed, Openings, Messaging
  <2> QED BY <1>3, <1>6, <2>1
<1>7. ASSUME NEW m \in unconnected, unconnected' = unconnected \ {m}, UNCHANGED toServer,
             NEW n, n.addr = m.addr, n.type \in {"Reply1", "Incompatible", "Reply2"},
             toClient' = toClient \cup {n},
             n.type = "Reply1" => MinMTU <= n.mtu,
             n.type \in {"Reply1", "Reply2"} => n.addr \notin Outdated,
             n.type = "Reply2" => m.type = "Request2"
      PROVE  MessagesOK' /\ SettledKept
  <2>1. m \in Openings /\ m \notin toServer /\ m \notin toClient
    BY <1>2, <1>7 DEF Directed, Openings, Messaging
  <2>2. m.type # "Reply2" /\ m.addr \in Addrs
    BY <1>1, <1>2, <2>1, <1>7 DEF Directed
  <2>3. Directed'
    BY <1>2, <1>7 DEF Directed
  <2>4. Openings' \subseteq (Openings \ {m}) \cup {n}
    BY <1>7, <2>1 DEF Openings, Messaging
  <2>5. n.type = "Reply2" => phase'[m.addr] \notin {"idle", "discoverMTU"}
    BY <1>2, <1>7, <2>1 DEF MessagesOK, StartsClean
  <2>6. \A b \in Addrs : phase'[b] = phase[b] /\ tries'[b] = tries[b]
    BY <1>2
  <2>7. \A x \in toClient : x.type = "Reply2" => x \in toClient'
    BY <1>7
  <2> QED BY <1>7, <2>1, <2>2, <2>3, <2>4, <2>5, <2>6, <2>7, MessageAnswered
<1>8. \A m \in unconnected : m \in Openings /\ MinMTU <= m.mtu /\ m.mtu \in Nat
  BY <1>1, <1>2 DEF Directed, Openings, Messaging, MessagesOK, SizesTaken
<1>9. ASSUME NEW m \in unconnected
      PROVE  MinMTU <= Smaller(m.mtu, MaxMTU)
  BY <1>8, ListenerAssumption DEF Smaller
<1>10. ASSUME NEW w \in Workers, NEW m \in unconnected, HandleRequest1(w, m)
       PROVE  MessagesOK' /\ SettledKept
  <2>1. unconnected' = unconnected \ {m} /\ UNCHANGED toServer
    BY <1>10 DEF HandleRequest1
  <2>2. CASE UNCHANGED toClient
    BY <1>6, <2>1, <2>2
  <2> DEFINE n1 == Message("Incompatible", m.addr, 0, 0, m.n)
             n2 == Message("Reply1", m.addr, Smaller(m.mtu, MaxMTU), currentCookieSalt, m.n)
  <2>3. \/ UNCHANGED toClient
        \/ toClient' = toClient \cup {n1}
        \/ m.addr \notin Outdated /\ toClient' = toClient \cup {n2}
    BY <1>10 DEF HandleRequest1, Reply
  <2>4. /\ n1.type = "Incompatible" /\ n1.addr = m.addr
        /\ n2.type = "Reply1" /\ n2.addr = m.addr /\ n2.mtu = Smaller(m.mtu, MaxMTU)
    OBVIOUS
  <2> HIDE DEF n1, n2
  <2>5. CASE toClient' = toClient \cup {n1}
    BY <1>7, <2>1, <2>4, <2>5
  <2>6. CASE m.addr \notin Outdated /\ toClient' = toClient \cup {n2}
    BY <1>7, <1>9, <2>1, <2>4, <2>6
  <2> QED BY <2>2, <2>3, <2>5, <2>6
<1>11. ASSUME NEW w \in Workers, NEW m \in unconnected, HandleRequest2(w, m)
       PROVE  MessagesOK' /\ SettledKept
  <2>1. unconnected' = unconnected \ {m} /\ UNCHANGED toServer /\ m.type = "Request2"
    BY <1>11 DEF HandleRequest2
  <2> DEFINE n == Message("Reply2", m.addr, Smaller(m.mtu, MaxMTU), 0, m.n)
  <2>2. UNCHANGED toClient \/ toClient' = toClient \cup {n}
    BY <1>11 DEF HandleRequest2, Reply
  <2>3. n.type = "Reply2" /\ n.addr = m.addr
    OBVIOUS
  <2> HIDE DEF n
  <2>4. m.addr \notin Outdated
    BY <1>8, <2>1 DEF MessagesOK, OutdatedRefused
  <2>5. CASE UNCHANGED toClient
    BY <1>6, <2>1, <2>5
  <2>6. CASE toClient' = toClient \cup {n}
    BY <1>7, <2>1, <2>3, <2>4, <2>6
  <2> QED BY <2>2, <2>5, <2>6
<1> QED BY <1>4, <1>5, <1>10, <1>11 DEF WorkerStep

\* Everything else sends disconnect notifications at most.
LEMMA OtherMessages ==
  ASSUME TypeOK, MessagesOK, UNCHANGED <<tries, unconnected>>,
         \A b \in Addrs : phase'[b] = phase[b] \/ (phase[b] = "connect" /\ phase'[b] = "connected"),
         toServer' \subseteq toServer, toClient \subseteq toClient',
         \A m \in toClient' \ toClient : m.type = "Disconnect"
  PROVE  MessagesOK' /\ SettledKept
<1>1. Directed'
  BY DEF MessagesOK, Directed
<1>2. Openings' \subseteq Openings
  BY DEF Openings, Messaging
<1>3. \A b \in Outdated : phase'[b] = phase[b]
  BY DialerAssumption DEF MessagesOK, OutdatedRefused
<1>4. \A b \in Addrs : \/ phase'[b] = phase[b] /\ tries'[b] = tries[b]
                       \/ phase'[b] \in {"connect", "connected", "failed", "closed"}
  OBVIOUS
<1>5. \A m \in toClient : m.type = "Reply2" => m \in toClient'
  OBVIOUS
<1> QED BY <1>1, <1>2, <1>3, <1>4, <1>5, FewerMessages

\* What a Conn that closes does to the messages.
LEMMA CloseConnMessages ==
  ASSUME NEW c, CloseConn(c)
  PROVE  toClient \subseteq toClient' /\ \A m \in toClient' \ toClient : m.type = "Disconnect"
BY DEF CloseConn, Message

\* Every step: one message of an address at a time, and an address that has
\* asked for its connection asks for nothing any more.
LEMMA MessagesStep ==
  ASSUME Timely, HandshakeInv, MessagesOK, [Next]_vars
  PROVE  MessagesOK' /\ SettledKept
<1>1. TypeOK
  BY DEF HandshakeInv
<1>2. ASSUME UNCHANGED dialerVars, UNCHANGED unconnected,
             toServer' \subseteq toServer, toClient \subseteq toClient',
             \A m \in toClient' \ toClient : m.type = "Disconnect"
      PROVE  MessagesOK' /\ SettledKept
  BY <1>1, <1>2, OtherMessages DEF dialerVars
<1>3. CASE \E a \in Addrs : DialerStep(a) /\ UNCHANGED listenerVars
  BY <1>1, <1>3, DialerMessages DEF listenerVars
<1>4. CASE WorkerStep /\ UNCHANGED dialerVars
  BY <1>1, <1>4, WorkerMessages
<1>5. CASE \E a \in Addrs, c \in DOMAIN conns : ConnStep(a, c)
  <2>1. UNCHANGED <<phase, tries, unconnected, toServer, toClient>>
    BY <1>5 DEF ConnStep, ReceiveConnectionRequest, ReceiveNewIncoming
  <2> QED BY <1>1, <2>1, OtherMessages
<1>6. CASE \E c \in DOMAIN conns : ConnCloses(c) /\ UNCHANGED dialerVars
  <2> SUFFICES ASSUME NEW c \in DOMAIN conns, ConnCloses(c), UNCHANGED dialerVars
               PROVE  MessagesOK' /\ SettledKept
    BY <1>6
  <2>1. UNCHANGED unconnected /\ toServer' \subseteq toServer
    BY DEF ConnCloses, HandleDisconnect, IdleTimeout
  <2>2. UNCHANGED toClient \/ CloseConn(c)
    BY DEF ConnCloses, HandleDisconnect, IdleTimeout
  <2> QED BY <1>2, <2>1, <2>2, CloseConnMessages
<1>7. CASE \E c \in DOMAIN conns : DeliverAccepted(c) \/ DropAccepted(c)
  <2> SUFFICES ASSUME NEW c \in DOMAIN conns, DeliverAccepted(c) \/ DropAccepted(c)
               PROVE  MessagesOK' /\ SettledKept
    BY <1>7
  <2>1. UNCHANGED <<tries, unconnected, toServer, toClient>>
    BY DEF DeliverAccepted, DropAccepted, ReceiveAccepted, dialerVars
  <2>2. \/ UNCHANGED phase
        \/ /\ phase[conns[c].addr] \in {"connect", "connected"}
           /\ phase' = [phase EXCEPT ![conns[c].addr] = "connected"]
    BY DEF DeliverAccepted, DropAccepted, ReceiveAccepted, dialerVars
  <2>3. phase \in [Addrs -> Phases]
    BY <1>1 DEF TypeOK, DialerTypeOK
  <2>4. \A b \in Addrs :
          phase'[b] = phase[b] \/ (phase[b] = "connect" /\ phase'[b] = "connected")
    BY <2>2, <2>3
  <2> QED BY <1>1, <2>1, <2>4, OtherMessages
<1>8. CASE UpdaterStep /\ UNCHANGED dialerVars
  <2>1. UNCHANGED <<unconnected, toServer>>
    BY <1>8 DEF UpdaterStep, UpdateConnected, SequenceTimeout, UpdateSend, UpdateDelete,
                UpdateReturn
  <2>2. UNCHANGED toClient \/ \E a \in Addrs : CloseConn(connections[a])
    BY <1>8 DEF UpdaterStep, UpdateConnected, SequenceTimeout, UpdateSend, UpdateDelete,
                UpdateReturn
  <2> QED BY <1>2, <1>8, <2>1, <2>2, CloseConnMessages
<1>9. CASE /\ Accept \/ Housekeeping \/ CloseListener \/ CloseIncoming
           /\ UNCHANGED dialerVars
  <2>1. UNCHANGED <<unconnected, toServer, toClient>>
    BY <1>9 DEF Accept, Housekeeping, RotateSalts, Unblock, CloseListener, CloseIncoming
  <2> QED BY <1>2, <1>9, <2>1
<1>10. ASSUME NEW m \in toServer \cup toClient, LoseMessage(m)
       PROVE  MessagesOK' /\ SettledKept
  <2>1. /\ toServer' = toServer \ {m} /\ toClient' = toClient \ {m}
        /\ UNCHANGED <<phase, tries, unconnected>>
        /\ m \in toServer \/ m.type \in LossyTypes
    BY <1>10 DEF LoseMessage, dialerVars, listenerVars
  <2>2. m.type # "Reply2"
    BY <2>1 DEF Timely, MessagesOK, Directed
  <2>3. Directed' /\ Openings' \subseteq Openings
    BY <2>1 DEF MessagesOK, Directed, Openings, Messaging
  <2> QED BY <1>1, <2>1, <2>2, <2>3, FewerMessages
<1>11. \A m \in toServer : ~DuplicateRequest(m)
  <2>1. duplicates \in 0..MaxDuplicates /\ MaxDuplicates = 0
    BY <1>1 DEF TypeOK, Timely
  <2> QED BY <2>1 DEF DuplicateRequest
<1>12. CASE UNCHANGED vars
  BY <1>2, <1>12 DEF vars, listenerVars
<1> QED
  BY <1>3, <1>4, <1>5, <1>6, <1>7, <1>8, <1>9, <1>10, <1>11, <1>12 DEF Next
-----------------------------------------------------------------------------
\* A step that opens, closes and moves no Conn.
LEMMA ServiceFrame ==
  ASSUME HandshakeInv, ServiceOK, SettledKept, MapKept,
         \A c \in DOMAIN conns :
           \/ conns'[c].receivedConnectionRequest = conns[c].receivedConnectionRequest
           \/ connections[conns[c].addr] = c /\ conns[c].addr \in Addrs,
         listening' => listening,
         updater'.op = "delete" => updater' = updater
  PROVE  ServiceOK'
<1>1. /\ DOMAIN conns' = DOMAIN conns /\ UNCHANGED <<worker, connections>>
      /\ \A c \in DOMAIN conns : /\ conns'[c].addr = conns[c].addr
                                 /\ conns'[c].closed = conns[c].closed
  BY DEF MapKept, ConnsPlaced
<1>2. /\ \A w \in Workers : worker[w] # 0 => worker[w] \in DOMAIN conns
      /\ \A w \in Workers, a \in Addrs : worker[w] # 0 => connections[a] # worker[w]
  BY DEF HandshakeInv, HandshakeCore, WorkersHold
<1>3. \A a \in Addrs : (Served(a)' <=> Served(a)) /\ (HasConn(a)' <=> HasConn(a))
  BY <1>1, <1>2 DEF Served, HasConn
<1>4. ServedSettled'
  BY <1>3 DEF ServiceOK, ServedSettled, SettledKept
<1>5. DeleteDone'
  <2>1. updater'.op = "delete" => updater.conn \in DOMAIN conns
    BY DEF HandshakeInv, HandshakeCore, UpdaterValid
  <2> QED BY <1>1, <1>3, <2>1 DEF ServiceOK, DeleteDone, SettledKept
<1>6. OpenPlaced'
  BY <1>1, <1>3 DEF ServiceOK, OpenPlaced
<1>7. WorkerAlone'
  BY <1>1, <1>2 DEF ServiceOK, WorkerAlone
<1>8. OneConn'
  BY <1>1 DEF ServiceOK, OneConn
<1> QED BY <1>4, <1>5, <1>6, <1>7, <1>8 DEF ServiceOK

\* A step that none of this is about.
LEMMA ServiceUnchanged ==
  ASSUME HandshakeInv, ServiceOK, SettledKept, UNCHANGED <<worker, connections, conns>>,
         listening' => listening, updater'.op = "delete" => updater' = updater
  PROVE  ServiceOK'
<1>1. MapKept
  BY DEF MapKept, ConnsPlaced
<1> QED BY <1>1, ServiceFrame

\* A Conn is made for an address that has none yet, or by a listener that is
\* closed and will not serve it.
LEMMA ServiceCreated ==
  ASSUME Timely, HandshakeInv, MessagesOK, ServiceOK, SettledKept,
         NEW w \in Workers, NEW m \in unconnected, NEW e \in Conns, NEW n,
         worker[w] = 0, m.type = "Request2",
         e.addr = m.addr, ~e.closed, ~e.receivedConnectionRequest,
         conns' = Append(conns, e),
         worker' = [worker EXCEPT ![w] = IF listening THEN Len(conns) + 1 ELSE 0],
         unconnected' = unconnected \ {m}, n.type = "Reply2", n.addr = m.addr,
         toClient' = IF listening THEN toClient \cup {n} ELSE toClient,
         UNCHANGED <<listening, connections, updater, toServer, phase>>
  PROVE  ServiceOK'
<1> DEFINE new == Len(conns) + 1
           a == m.addr
<1>1. /\ conns \in Seq(Conns) /\ Len(conns) \in Nat
      /\ worker \in [Workers -> ConnIDs]
      /\ DOMAIN conns = 1..Len(conns)
  <2>1. conns \in Seq(Conns) /\ worker \in [Workers -> ConnIDs]
    BY DEF HandshakeInv, TypeOK, ListenerTypeOK
  <2> QED BY <2>1
<1>2. /\ new \notin DOMAIN conns /\ new # 0
      /\ DOMAIN conns' = DOMAIN conns \cup {new}
      /\ conns'[new] = e
      /\ \A c \in DOMAIN conns : conns'[c] = conns[c]
  <2>1. DOMAIN conns' = 1..new
    BY <1>1
  <2> QED BY <1>1, <2>1
<1>3. \A v \in Workers : worker'[v] = IF v = w /\ listening THEN new ELSE worker[v]
  BY <1>1
<1>4. /\ \A v \in Workers : worker[v] # 0 => worker[v] \in DOMAIN conns
      /\ updater.op = "delete" => updater.conn \in DOMAIN conns
      /\ \A c \in DOMAIN conns : conns[c].addr \in Addrs
  BY ConnFields DEF HandshakeInv, HandshakeCore, WorkersHold, UpdaterValid
<1> HIDE DEF new
<1>5. m \in Openings /\ a \in Addrs /\ m \notin toServer /\ m \notin toClient
  <2>1. m \in Openings /\ m \notin toServer /\ m \notin toClient
    BY DEF MessagesOK, Directed, Openings, Messaging
  <2> QED BY <2>1, MessageAddrs DEF HandshakeInv
<1>6. ~Settled(a)
  BY <1>5 DEF Settled
<1>7. ~Served(a) /\ (listening => ~HasConn(a))
  BY <1>5, <1>6 DEF ServiceOK, ServedSettled
<1>8. listening => Settled(a)'
  <2> SUFFICES ASSUME listening PROVE Settled(a)'
    OBVIOUS
  <2>1. Openings' \subseteq (Openings \ {m}) \cup {n}
    BY <1>5 DEF Openings, Messaging
  <2>2. \A x \in Openings' : x.addr = a => x.type = "Reply2"
    BY <1>5, <2>1 DEF MessagesOK, OneAtATime
  <2>3. phase'[a] \notin {"idle", "discoverMTU"}
    BY <1>5 DEF MessagesOK, StartsClean
  <2> QED BY <2>2, <2>3 DEF Settled
<1>9. \A b \in Addrs : /\ b # a => /\ Served(b)' <=> Served(b)
                                   /\ HasConn(b)' <=> HasConn(b)
                       /\ ~listening => (Served(b)' <=> Served(b))
  BY <1>2, <1>3, <1>4 DEF Served, HasConn
<1> HIDE DEF a
<1>10. ServedSettled'
  BY <1>8, <1>9 DEF ServiceOK, ServedSettled, SettledKept
<1>11. DeleteDone'
  <2>1. updater.op = "delete" => conns[updater.conn].addr # a
    BY <1>5, <1>6 DEF ServiceOK, DeleteDone
  <2> QED BY <1>2, <1>4, <1>9, <2>1 DEF ServiceOK, DeleteDone, SettledKept
<1>12. OpenPlaced'
  <2> SUFFICES ASSUME NEW c \in DOMAIN conns', NEW b \in Addrs, ~conns'[c].closed,
                      conns'[c].addr = b
               PROVE  \/ connections'[b] = c
                      \/ \E v \in Workers : worker'[v] = c
                      \/ ~listening' /\ ~Served(b)' /\ ~conns'[c].receivedConnectionRequest
    BY DEF OpenPlaced
  <2>1. CASE c = new /\ listening
    BY <1>3, <2>1
  <2>2. CASE c = new /\ ~listening
    <3>1. b = a
      BY <1>2, <2>2 DEF a
    <3> QED BY <1>2, <1>5, <1>7, <1>9, <2>2, <3>1
  <2>3. CASE c # new
    <3>1. c \in DOMAIN conns /\ conns'[c] = conns[c]
      BY <1>2, <2>3
    <3>2. \/ connections[b] = c
          \/ \E v \in Workers : worker[v] = c
          \/ ~listening /\ ~Served(b) /\ ~conns[c].receivedConnectionRequest
      BY <3>1 DEF ServiceOK, OpenPlaced
    <3>3. c # 0
      BY <1>1, <3>1
    <3>4. ASSUME NEW v \in Workers, worker[v] = c PROVE worker'[v] = c
      BY <1>3, <3>3, <3>4
    <3> QED BY <1>9, <3>1, <3>2, <3>4
  <2> QED BY <2>1, <2>2, <2>3
<1>13. WorkerAlone'
  <2>1. ASSUME NEW v \in Workers, worker[v] # 0
        PROVE  /\ worker[v] \in DOMAIN conns /\ worker'[v] = worker[v] /\ v # w
               /\ conns[worker[v]].addr # a
    <3>1. worker[v] \in DOMAIN conns /\ worker'[v] = worker[v] /\ v # w
      BY <1>3, <1>4, <2>1
    <3>2. conns[worker[v]].addr # a
      BY <1>7, <2>1 DEF Served
    <3> QED BY <3>1, <3>2
  <2>2. connections[a] = 0
    BY <1>7 DEF Served
  <2>3. \A v \in Workers : worker'[v] # 0 => (v = w /\ worker'[v] = new) \/ worker[v] # 0
    BY <1>3
  <2>4. conns'[new].addr = a /\ ~conns'[new].receivedConnectionRequest
    BY <1>2 DEF a
  <2> SUFFICES ASSUME NEW v \in Workers, worker'[v] # 0
               PROVE  /\ connections[conns'[worker'[v]].addr] = 0
                      /\ ~conns'[worker'[v]].receivedConnectionRequest
                      /\ \A u \in Workers :
                           worker'[u] # 0 /\ conns'[worker'[u]].addr = conns'[worker'[v]].addr
                             => u = v
    BY DEF WorkerAlone
  <2>5. CASE worker[v] = 0
    <3>1. v = w /\ worker'[v] = new
      BY <2>3, <2>5
    <3>2. ASSUME NEW u \in Workers, worker'[u] # 0, conns'[worker'[u]].addr = a PROVE u = v
      <4>1. CASE worker[u] # 0
        <5>1. /\ worker[u] \in DOMAIN conns /\ worker'[u] = worker[u]
              /\ conns[worker[u]].addr # a
          BY <2>1, <4>1
        <5> QED BY <1>2, <3>2, <5>1
      <4> QED BY <2>3, <3>1, <3>2, <4>1
    <3>3. /\ conns'[worker'[v]].addr = a
          /\ ~conns'[worker'[v]].receivedConnectionRequest
      BY <2>4, <3>1
    <3> QED BY <2>2, <3>2, <3>3
  <2>6. CASE worker[v] # 0
    <3>1. /\ worker[v] \in DOMAIN conns /\ worker'[v] = worker[v]
          /\ conns[worker[v]].addr # a /\ conns'[worker[v]] = conns[worker[v]]
      BY <1>2, <2>1, <2>6
    <3>2. /\ connections[conns[worker[v]].addr] = 0
          /\ ~conns[worker[v]].receivedConnectionRequest
          /\ \A u \in Workers :
               worker[u] # 0 /\ conns[worker[u]].addr = conns[worker[v]].addr => u = v
      BY <2>6 DEF ServiceOK, WorkerAlone
    <3>3. ASSUME NEW u \in Workers, worker'[u] # 0,
                 conns'[worker'[u]].addr = conns[worker[v]].addr
          PROVE  u = v
      <4>1. worker[u] # 0
        BY <2>3, <2>4, <3>1, <3>3
      <4>2. worker[u] \in DOMAIN conns /\ worker'[u] = worker[u]
        BY <2>1, <4>1
      <4>3. conns'[worker[u]] = conns[worker[u]]
        BY <1>2, <4>2
      <4> QED BY <3>2, <3>3, <4>1, <4>2, <4>3
    <3>4. /\ conns'[worker'[v]].addr = conns[worker[v]].addr
          /\ ~conns'[worker'[v]].receivedConnectionRequest
      BY <3>1, <3>2
    <3> QED BY <3>2, <3>3, <3>4
  <2> QED BY <2>5, <2>6
<1>14. OneConn'
  <2>1. listening => \A c \in DOMAIN conns : conns[c].addr # a
    BY <1>7 DEF HasConn
  <2>2. conns'[new].addr = a
    BY <1>2 DEF a
  <2> QED BY <1>2, <2>1, <2>2 DEF ServiceOK, OneConn
<1> QED BY <1>10, <1>11, <1>12, <1>13, <1>14 DEF ServiceOK

\* The end of handleOpenConnectionRequest2: the Conn goes from the worker to
\* the map, where nothing is stored for its address.
LEMMA ServiceStored ==
  ASSUME HandshakeInv, ServiceOK, SettledKept, NEW w \in Workers, StoreConn(w)
  PROVE  ServiceOK'
<1> PICK c, b : c = worker[w] /\ b = conns[worker[w]].addr
  OBVIOUS
<1>1. /\ c # 0 /\ c \in DOMAIN conns /\ b \in Addrs
      /\ \A v \in Workers : worker[v] # 0 => worker[v] \in DOMAIN conns
  <2>1. /\ c # 0
        /\ \A v \in Workers : worker[v] # 0 => worker[v] \in DOMAIN conns
    BY DEF StoreConn, HandshakeInv, HandshakeCore, WorkersHold
  <2>2. c \in DOMAIN conns
    BY <2>1
  <2>3. b \in Addrs
    BY <2>2, ConnFields DEF HandshakeInv
  <2> QED BY <2>1, <2>2, <2>3
<1>2. /\ \A x \in Addrs : connections'[x] = IF x = b THEN c ELSE connections[x]
      /\ \A v \in Workers : worker'[v] = IF v = w THEN 0 ELSE worker[v]
      /\ UNCHANGED <<conns, listening, updater>>
  <2>1. worker \in [Workers -> ConnIDs] /\ connections \in [Addrs -> ConnIDs]
    BY DEF HandshakeInv, TypeOK, ListenerTypeOK
  <2> QED BY <1>1, <2>1 DEF StoreConn, acceptVars
<1>3. /\ connections[b] = 0
      /\ ~conns[c].receivedConnectionRequest
      /\ \A v \in Workers : worker[v] # 0 /\ conns[worker[v]].addr = b => v = w
  BY <1>1 DEF ServiceOK, WorkerAlone
<1>4. Served(b) /\ Served(b)'
  BY <1>1, <1>2 DEF Served
<1>5. \A x \in Addrs : x # b => (Served(x)' <=> Served(x))
  <2> SUFFICES ASSUME NEW x \in Addrs, x # b PROVE Served(x)' <=> Served(x)
    OBVIOUS
  <2>1. connections'[x] = connections[x]
    BY <1>2
  <2>2. conns[worker[w]].addr # x
    OBVIOUS
  <2>3. \A v \in Workers : /\ worker'[v] # 0 /\ conns[worker'[v]].addr = x
                           <=> worker[v] # 0 /\ conns[worker[v]].addr = x
    BY <1>2, <2>2
  <2> QED BY <1>2, <2>1, <2>3 DEF Served
<1>6. ServedSettled' /\ DeleteDone'
  <2>1. \A x \in Addrs : /\ Served(x)' <=> Served(x)
                         /\ HasConn(x)' <=> HasConn(x)
    BY <1>2, <1>4, <1>5 DEF HasConn
  <2> QED BY <1>2, <2>1 DEF ServiceOK, ServedSettled, DeleteDone, SettledKept
<1>7. OpenPlaced'
  <2> SUFFICES ASSUME NEW d \in DOMAIN conns, NEW x \in Addrs, ~conns[d].closed,
                      conns[d].addr = x
               PROVE  \/ connections'[x] = d
                      \/ \E v \in Workers : worker'[v] = d
                      \/ ~listening /\ ~Served(x)' /\ ~conns[d].receivedConnectionRequest
    BY <1>2 DEF OpenPlaced
  <2>1. \/ connections[x] = d
        \/ \E v \in Workers : worker[v] = d
        \/ ~listening /\ ~Served(x) /\ ~conns[d].receivedConnectionRequest
    BY DEF ServiceOK, OpenPlaced
  <2>2. d # 0
    BY ConnFields DEF HandshakeInv
  <2>3. CASE connections[x] = d
    BY <1>2, <1>3, <2>2, <2>3
  <2>4. ASSUME NEW v \in Workers, worker[v] = d
        PROVE  connections'[x] = d \/ worker'[v] = d
    <3>1. CASE v = w
      BY <1>2, <2>4, <3>1
    <3> QED BY <1>2, <2>4, <3>1
  <2>5. Served(x)' <=> Served(x)
    BY <1>4, <1>5
  <2> QED BY <2>1, <2>3, <2>4, <2>5
<1>8. WorkerAlone'
  <2> SUFFICES ASSUME NEW v \in Workers, worker'[v] # 0
               PROVE  /\ connections'[conns[worker'[v]].addr] = 0
                      /\ ~conns[worker'[v]].receivedConnectionRequest
                      /\ \A u \in Workers :
                           worker'[u] # 0 /\ conns[worker'[u]].addr = conns[worker'[v]].addr
                             => u = v
    BY <1>2 DEF WorkerAlone
  <2>1. v # w /\ worker'[v] = worker[v] /\ worker[v] # 0
    BY <1>2
  <2>2. /\ connections[conns[worker[v]].addr] = 0
        /\ ~conns[worker[v]].receivedConnectionRequest
        /\ \A u \in Workers :
             worker[u] # 0 /\ conns[worker[u]].addr = conns[worker[v]].addr => u = v
    BY <2>1 DEF ServiceOK, WorkerAlone
  <2>3. conns[worker[v]].addr # b
    BY <1>3, <2>1
  <2>4. conns[worker[v]].addr \in Addrs
    BY <1>1, <2>1, ConnFields DEF HandshakeInv
  <2>5. \A u \in Workers : worker'[u] # 0 => worker'[u] = worker[u]
    BY <1>2
  <2>6. connections'[conns[worker[v]].addr] = 0
    BY <1>2, <2>2, <2>3, <2>4
  <2> QED BY <2>1, <2>2, <2>5, <2>6
<1>9. OneConn'
  BY <1>2 DEF ServiceOK, OneConn
<1> QED BY <1>6, <1>7, <1>8, <1>9 DEF ServiceOK

\* What closeImmediately does to the Conns and to the map.
LEMMA CloseConnEffect ==
  ASSUME TypeOK, NEW c \in DOMAIN conns, CloseConn(c)
  PROVE  /\ DOMAIN conns' = DOMAIN conns
         /\ conns'[c].closed
         /\ \A d \in DOMAIN conns :
              /\ conns'[d].addr = conns[d].addr
              /\ conns'[d].mtu = conns[d].mtu
              /\ conns'[d].receivedConnectionRequest = conns[d].receivedConnectionRequest
              /\ conns'[d].connected = conns[d].connected
              /\ conns'[d].unacked = conns[d].unacked
              /\ d # c => conns'[d].closed = conns[d].closed
         /\ \A x \in Addrs : connections'[x] = IF x = conns[c].addr THEN 0 ELSE connections[x]
<1>1. /\ conns \in Seq(Conns) /\ conns[c] \in Conns /\ conns[c].addr \in Addrs
      /\ connections \in [Addrs -> ConnIDs]
  BY ConnFields DEF TypeOK, ListenerTypeOK
<1> DEFINE e == [conns[c] EXCEPT !.closed = TRUE]
<1>2. /\ e \in Conns /\ e.addr = conns[c].addr /\ e.mtu = conns[c].mtu /\ e.closed
      /\ e.receivedConnectionRequest = conns[c].receivedConnectionRequest
      /\ e.connected = conns[c].connected /\ e.unacked = conns[c].unacked
  BY <1>1 DEF Conns
<1>3. conns' = [conns EXCEPT ![c] = e]
  BY <1>1 DEF CloseConn
<1> HIDE DEF e
<1>4. /\ DOMAIN conns' = DOMAIN conns /\ conns'[c] = e
      /\ \A b \in DOMAIN conns : b # c => conns'[b] = conns[b]
  BY <1>1, <1>2, <1>3, ConnUpdate
<1>5. \A x \in Addrs : connections'[x] = IF x = conns[c].addr THEN 0 ELSE connections[x]
  BY <1>1 DEF CloseConn
<1> QED BY <1>2, <1>4, <1>5

\* closeImmediately: the entry it deletes is its own.
LEMMA ServiceClosed ==
  ASSUME HandshakeInv, ServiceOK, SettledKept, NEW c \in DOMAIN conns, CloseConn(c),
         ~conns[c].closed, \A w \in Workers : worker[w] # c,
         UNCHANGED <<worker, listening>>,
         \/ UNCHANGED updater
         \/ /\ updater' = [op |-> "delete", conn |-> c]
            /\ Settled(conns[c].addr)
            /\ \A w \in Workers : worker[w] # 0 => conns[worker[w]].addr # conns[c].addr
  PROVE  ServiceOK'
<1> PICK b : b = conns[c].addr
  OBVIOUS
<1>1. /\ DOMAIN conns' = DOMAIN conns
      /\ conns'[c].closed
      /\ \A d \in DOMAIN conns :
           /\ conns'[d].addr = conns[d].addr
           /\ conns'[d].receivedConnectionRequest = conns[d].receivedConnectionRequest
           /\ d # c => conns'[d].closed = conns[d].closed
      /\ \A x \in Addrs : connections'[x] = IF x = b THEN 0 ELSE connections[x]
  BY CloseConnEffect DEF HandshakeInv
<1>2. /\ \A v \in Workers : worker[v] # 0 => worker[v] \in DOMAIN conns
      /\ updater.op = "delete" => updater.conn \in DOMAIN conns
      /\ \A d \in DOMAIN conns : conns[d].addr \in Addrs
  BY ConnFields DEF HandshakeInv, HandshakeCore, WorkersHold, UpdaterValid
<1>3. b \in Addrs
  BY <1>2
<1>4. connections[b] = c \/ (~listening /\ ~Served(b))
  BY <1>3 DEF ServiceOK, OpenPlaced
<1>5. \A x \in Addrs : /\ Served(x)' => Served(x)
                       /\ HasConn(x)' <=> HasConn(x)
                       /\ x # b => (Served(x)' <=> Served(x))
  BY <1>1, <1>2 DEF Served, HasConn
<1>6. ServedSettled'
  BY <1>5 DEF ServiceOK, ServedSettled, SettledKept
<1>7. DeleteDone'
  <2>1. CASE UNCHANGED updater
    BY <1>1, <1>2, <1>5, <2>1 DEF ServiceOK, DeleteDone, SettledKept
  <2>2. CASE /\ updater' = [op |-> "delete", conn |-> c]
             /\ Settled(conns[c].addr)
             /\ \A w \in Workers : worker[w] # 0 => conns[worker[w]].addr # conns[c].addr
    <3>1. updater'.conn = c /\ conns'[c].addr = b
      BY <1>1, <2>2
    <3>2. Settled(b)'
      BY <1>3, <2>2 DEF SettledKept
    <3>3. ~Served(b)'
      <4>1. connections'[b] = 0
        BY <1>1, <1>3
      <4>2. \A w \in Workers : worker'[w] # 0 => conns'[worker'[w]].addr # b
        BY <1>1, <1>2, <2>2
      <4> QED BY <4>1, <4>2 DEF Served
    <3> QED BY <3>1, <3>2, <3>3 DEF DeleteDone
  <2> QED BY <2>1, <2>2
<1>8. OpenPlaced'
  <2> SUFFICES ASSUME NEW d \in DOMAIN conns, NEW x \in Addrs, ~conns'[d].closed,
                      conns'[d].addr = x
               PROVE  \/ connections'[x] = d
                      \/ \E v \in Workers : worker'[v] = d
                      \/ ~listening' /\ ~Served(x)' /\ ~conns'[d].receivedConnectionRequest
    BY <1>1 DEF OpenPlaced
  <2>1. d # c /\ ~conns[d].closed /\ conns[d].addr = x
    BY <1>1
  <2>2. \/ connections[x] = d
        \/ \E v \in Workers : worker[v] = d
        \/ ~listening /\ ~Served(x) /\ ~conns[d].receivedConnectionRequest
    BY <2>1 DEF ServiceOK, OpenPlaced
  <2>3. CASE connections[x] = d
    <3>1. d # 0
      BY ConnFields DEF HandshakeInv
    <3>2. x # b
      BY <1>4, <2>1, <2>3, <3>1 DEF Served
    <3> QED BY <1>1, <2>3, <3>2
  <2> QED BY <1>1, <1>5, <2>2, <2>3
<1>9. WorkerAlone'
  <2> SUFFICES ASSUME NEW v \in Workers, worker[v] # 0
               PROVE  /\ connections'[conns'[worker[v]].addr] = 0
                      /\ ~conns'[worker[v]].receivedConnectionRequest
                      /\ \A u \in Workers :
                           worker[u] # 0 /\ conns'[worker[u]].addr = conns'[worker[v]].addr
                             => u = v
    BY DEF WorkerAlone
  <2>1. /\ connections[conns[worker[v]].addr] = 0
        /\ ~conns[worker[v]].receivedConnectionRequest
        /\ \A u \in Workers :
             worker[u] # 0 /\ conns[worker[u]].addr = conns[worker[v]].addr => u = v
    BY DEF ServiceOK, WorkerAlone
  <2>2. worker[v] \in DOMAIN conns /\ conns[worker[v]].addr \in Addrs
    BY <1>2
  <2>3. connections'[conns'[worker[v]].addr] = 0
    BY <1>1, <2>1, <2>2
  <2>4. ~conns'[worker[v]].receivedConnectionRequest
    BY <1>1, <2>1, <2>2
  <2>5. ASSUME NEW u \in Workers, worker[u] # 0,
               conns'[worker[u]].addr = conns'[worker[v]].addr
        PROVE  u = v
    BY <1>1, <1>2, <2>1, <2>2, <2>5
  <2> QED BY <2>3, <2>4, <2>5
<1>10. OneConn'
  BY <1>1 DEF ServiceOK, OneConn
<1> QED BY <1>6, <1>7, <1>8, <1>9, <1>10 DEF ServiceOK

\* A Conn is neither opened nor closed nor moved, whatever else it learns.
LEMMA ConnRewritten ==
  ASSUME TypeOK, NEW c \in DOMAIN conns, NEW e \in Conns, conns' = [conns EXCEPT ![c] = e],
         e.addr = conns[c].addr, e.closed = conns[c].closed, UNCHANGED <<worker, connections>>
  PROVE  /\ MapKept /\ conns'[c] = e
         /\ \A d \in DOMAIN conns : d # c => conns'[d] = conns[d]
<1>1. conns \in Seq(Conns)
  BY DEF TypeOK, ListenerTypeOK
<1>2. /\ DOMAIN conns' = DOMAIN conns /\ conns'[c] = e
      /\ \A d \in DOMAIN conns : d # c => conns'[d] = conns[d]
  BY <1>1, ConnUpdate
<1> QED BY <1>2 DEF MapKept, ConnsPlaced

\* What the connection request does to the Conn of its address.
LEMMA ConnectionRequestEffect ==
  ASSUME HandshakeInv, NEW a \in Addrs, NEW c \in DOMAIN conns, ReceiveConnectionRequest(a, c)
  PROVE  /\ MapKept /\ connections[a] = c /\ conns[c].addr = a
         /\ \A d \in DOMAIN conns : d # c => conns'[d] = conns[d]
         /\ conns'[c].mtu = conns[c].mtu /\ conns'[c].connected = conns[c].connected
         /\ conns'[c].receivedConnectionRequest /\ conns'[c].unacked
<1>1. connections[a] = c /\ conns[c].addr = a /\ UNCHANGED <<worker, connections>>
  BY DEF ReceiveConnectionRequest, Reachable, HandshakeInv, HandshakeCore, MapValid
<1>2. TypeOK /\ conns[c] \in Conns /\ conns \in Seq(Conns)
  BY ConnFields DEF HandshakeInv
<1> DEFINE e == [conns[c] EXCEPT !.receivedConnectionRequest = TRUE, !.unacked = TRUE]
<1>3. /\ e \in Conns /\ e.addr = conns[c].addr /\ e.closed = conns[c].closed
      /\ e.mtu = conns[c].mtu /\ e.connected = conns[c].connected
      /\ e.receivedConnectionRequest /\ e.unacked
  BY <1>2 DEF Conns
<1>4. conns' = [conns EXCEPT ![c] = e]
  BY <1>2 DEF ReceiveConnectionRequest
<1> HIDE DEF e
<1>5. /\ MapKept /\ conns'[c] = e
      /\ \A d \in DOMAIN conns : d # c => conns'[d] = conns[d]
  BY <1>1, <1>2, <1>3, <1>4, ConnRewritten
<1> QED BY <1>1, <1>3, <1>5

\* What new incoming connection does to the Conn of its address.
LEMMA NewIncomingEffect ==
  ASSUME HandshakeInv, NEW a \in Addrs, NEW c \in DOMAIN conns, ReceiveNewIncoming(a, c)
  PROVE  /\ MapKept /\ connections[a] = c /\ conns[c].addr = a
         /\ \A d \in DOMAIN conns : d # c => conns'[d] = conns[d]
         /\ conns'[c].mtu = conns[c].mtu
         /\ conns'[c].receivedConnectionRequest = conns[c].receivedConnectionRequest
         /\ conns'[c].unacked = conns[c].unacked
         /\ conns[c].receivedConnectionRequest => conns'[c].connected
<1>1. connections[a] = c /\ conns[c].addr = a /\ UNCHANGED <<worker, connections>>
  BY DEF ReceiveNewIncoming, Reachable, HandshakeInv, HandshakeCore, MapValid
<1>2. TypeOK /\ conns[c] \in Conns /\ conns \in Seq(Conns)
  BY ConnFields DEF HandshakeInv
<1> DEFINE e == [conns[c] EXCEPT !.connected = conns[c].receivedConnectionRequest]
<1>3. /\ e \in Conns /\ e.addr = conns[c].addr /\ e.closed = conns[c].closed
      /\ e.mtu = conns[c].mtu /\ e.unacked = conns[c].unacked
      /\ e.receivedConnectionRequest = conns[c].receivedConnectionRequest
      /\ e.connected = conns[c].receivedConnectionRequest
  BY <1>2 DEF Conns
<1>4. conns' = [conns EXCEPT ![c] = e]
  BY <1>2 DEF ReceiveNewIncoming
<1> HIDE DEF e
<1>5. /\ MapKept /\ conns'[c] = e
      /\ \A d \in DOMAIN conns : d # c => conns'[d] = conns[d]
  BY <1>1, <1>2, <1>3, <1>4, ConnRewritten
<1> QED BY <1>1, <1>3, <1>5

\* The answer that reaches the dialer, or is given up, leaves the rest of its
\* Conn as it is.
LEMMA AcceptedEffect ==
  ASSUME HandshakeInv, NEW c \in DOMAIN conns, DeliverAccepted(c) \/ DropAccepted(c)
  PROVE  /\ MapKept /\ ~conns'[c].unacked
         /\ \A d \in DOMAIN conns :
              /\ conns'[d].mtu = conns[d].mtu /\ conns'[d].connected = conns[d].connected
              /\ conns'[d].receivedConnectionRequest = conns[d].receivedConnectionRequest
              /\ d # c => conns'[d].unacked = conns[d].unacked
<1>1. UNCHANGED <<worker, connections>>
  BY DEF DeliverAccepted, DropAccepted
<1>2. TypeOK /\ conns[c] \in Conns /\ conns \in Seq(Conns)
  BY ConnFields DEF HandshakeInv
<1> DEFINE e == [conns[c] EXCEPT !.unacked = FALSE]
<1>3. /\ e \in Conns /\ e.addr = conns[c].addr /\ e.closed = conns[c].closed
      /\ e.mtu = conns[c].mtu /\ ~e.unacked
      /\ e.receivedConnectionRequest = conns[c].receivedConnectionRequest
      /\ e.connected = conns[c].connected
  BY <1>2 DEF Conns
<1>4. conns' = [conns EXCEPT ![c] = e]
  BY <1>2 DEF DeliverAccepted, DropAccepted
<1> HIDE DEF e
<1>5. /\ MapKept /\ conns'[c] = e
      /\ \A d \in DOMAIN conns : d # c => conns'[d] = conns[d]
  BY <1>1, <1>2, <1>3, <1>4, ConnRewritten
<1> QED BY <1>3, <1>5

\* updateConnections marks a Conn that has finished the sequence.
LEMMA UpdateConnectedEffect ==
  ASSUME HandshakeInv, NEW a \in Addrs, UpdateConnected(a)
  PROVE  /\ MapKept
         /\ \A d \in DOMAIN conns :
              /\ conns'[d].mtu = conns[d].mtu /\ conns'[d].connected = conns[d].connected
              /\ conns'[d].receivedConnectionRequest = conns[d].receivedConnectionRequest
              /\ conns'[d].unacked = conns[d].unacked
<1> DEFINE c == connections[a]
<1>1. c \in DOMAIN conns /\ UNCHANGED <<worker, connections>>
  BY DEF UpdateConnected, HandshakeInv, HandshakeCore, MapValid
<1>2. TypeOK /\ conns[c] \in Conns /\ conns \in Seq(Conns)
  BY <1>1, ConnFields DEF HandshakeInv
<1> DEFINE e == [conns[c] EXCEPT !.accepted = TRUE]
<1>3. /\ e \in Conns /\ e.addr = conns[c].addr /\ e.closed = conns[c].closed
      /\ e.mtu = conns[c].mtu /\ e.unacked = conns[c].unacked
      /\ e.receivedConnectionRequest = conns[c].receivedConnectionRequest
      /\ e.connected = conns[c].connected
  BY <1>2 DEF Conns
<1>4. conns' = [conns EXCEPT ![c] = e]
  BY <1>1, <1>2 DEF UpdateConnected
<1> HIDE DEF e, c
<1>5. /\ MapKept /\ conns'[c] = e
      /\ \A d \in DOMAIN conns : d # c => conns'[d] = conns[d]
  BY <1>1, <1>2, <1>3, <1>4, ConnRewritten
<1> QED BY <1>3, <1>5

\* A worker that answers: whatever it does, only the last branch of request 2
\* changes who is served.
LEMMA ServiceWorker ==
  ASSUME Timely, HandshakeInv, MessagesOK, ServiceOK, SettledKept, WorkerStep,
         UNCHANGED dialerVars
  PROVE  ServiceOK'
<1>1. ASSUME UNCHANGED <<worker, connections, conns, listening, updater>>
      PROVE  ServiceOK'
  BY <1>1, ServiceUnchanged
<1>2. ASSUME NEW m \in toServer, Dispatch(m)
      PROVE  ServiceOK'
  BY <1>1, <1>2 DEF Dispatch, connVars, acceptVars
<1>3. ASSUME NEW w \in Workers, NEW m \in unconnected, HandleRequest1(w, m)
      PROVE  ServiceOK'
  BY <1>1, <1>3 DEF HandleRequest1, connVars, acceptVars
<1>4. ASSUME NEW w \in Workers, NEW m \in unconnected, HandleRequest2(w, m)
      PROVE  ServiceOK'
  <2>1. /\ worker[w] = 0 /\ m.type = "Request2" /\ unconnected' = unconnected \ {m}
        /\ UNCHANGED <<listening, connections, updater, toServer, phase>>
    BY <1>4 DEF HandleRequest2, acceptVars, dialerVars
  <2> DEFINE e == NewConn(m.addr, Smaller(m.mtu, MaxMTU))
             n == Message("Reply2", m.addr, Smaller(m.mtu, MaxMTU), 0, m.n)
  <2>2. \/ UNCHANGED <<worker, conns>>
        \/ /\ conns' = Append(conns, e)
           /\ toClient' = IF listening THEN toClient \cup {n} ELSE toClient
           /\ worker' = [worker EXCEPT ![w] = IF listening THEN Len(conns) + 1 ELSE 0]
    BY <1>4 DEF HandleRequest2, Reply, Timely
  <2>3. CASE UNCHANGED <<worker, conns>>
    BY <1>1, <2>1, <2>3
  <2>4. CASE /\ conns' = Append(conns, e)
             /\ toClient' = IF listening THEN toClient \cup {n} ELSE toClient
             /\ worker' = [worker EXCEPT ![w] = IF listening THEN Len(conns) + 1 ELSE 0]
    <3>1. m \in Messages /\ m.addr \in Addrs /\ m.mtu \in Nat
      BY MessageAddrs DEF HandshakeInv, Messaging, Messages
    <3>2. MinMTU <= m.mtu
      BY <2>1 DEF MessagesOK, SizesTaken, Openings, Messaging
    <3>3. Smaller(m.mtu, MaxMTU) \in MinMTU..MaxMTU
      BY <3>1, <3>2, SmallerType
    <3>4. e \in Conns /\ e.addr = m.addr /\ ~e.closed /\ ~e.receivedConnectionRequest
      BY <3>1, <3>3 DEF NewConn, Conns
    <3>5. n.type = "Reply2" /\ n.addr = m.addr
      BY DEF Message
    <3> HIDE DEF e, n
    <3> QED BY <2>1, <2>4, <3>4, <3>5, ServiceCreated
  <2> QED BY <2>2, <2>3, <2>4
<1>5. ASSUME NEW w \in Workers, StoreConn(w)
      PROVE  ServiceOK'
  BY <1>5, ServiceStored
<1> QED BY <1>2, <1>3, <1>4, <1>5 DEF WorkerStep

\* updateConnections: the Conn it closes has no successor when it deletes the
\* address once more.
LEMMA ServiceUpdater ==
  ASSUME Timely, HandshakeInv, ServiceOK, SettledKept, UpdaterStep
  PROVE  ServiceOK'
<1>1. ASSUME NEW a \in Addrs, UpdateConnected(a)
      PROVE  ServiceOK'
  <2>1. UNCHANGED listening /\ updater' = [op |-> "send", conn |-> connections[a]]
    BY <1>1 DEF UpdateConnected
  <2>2. updater'.op # "delete"
    BY <2>1
  <2> QED BY <1>1, <2>1, <2>2, UpdateConnectedEffect, ServiceFrame
<1>2. ASSUME NEW a \in Addrs, SequenceTimeout(a), TimeOut(a)
      PROVE  ServiceOK'
  <2> DEFINE c == connections[a]
  <2>1. /\ c # 0 /\ CloseConn(c) /\ updater' = [op |-> "delete", conn |-> c]
        /\ UNCHANGED <<worker, listening>>
    BY <1>2 DEF SequenceTimeout
  <2>2. c \in DOMAIN conns /\ conns[c].addr = a /\ ~conns[c].closed
    BY <2>1 DEF HandshakeInv, HandshakeCore, MapValid
  <2>3. \A w \in Workers : worker[w] # c
    BY <2>1 DEF HandshakeInv, HandshakeCore, WorkersHold
  <2>4. Settled(a)
    BY <2>1 DEF ServiceOK, ServedSettled, Served
  <2>5. \A w \in Workers : worker[w] # 0 => conns[worker[w]].addr # a
    BY <1>2, Quiet
  <2> HIDE DEF c
  <2> QED BY <2>1, <2>2, <2>3, <2>4, <2>5, ServiceClosed
<1>3. CASE UpdateSend
  <2>1. /\ UNCHANGED <<worker, connections, conns, listening>>
        /\ updater' = updater \/ updater' = Idle
    BY <1>3 DEF UpdateSend, connVars
  <2>2. updater'.op = "delete" => updater' = updater
    BY <2>1 DEF Idle
  <2> QED BY <2>1, <2>2, ServiceUnchanged
<1>4. CASE UpdateDelete
  <2> DEFINE x == conns[updater.conn].addr
  <2>1. /\ updater.op = "delete" /\ UNCHANGED <<worker, conns, listening>>
        /\ updater' = Idle /\ connections' = [connections EXCEPT ![x] = 0]
    BY <1>4 DEF UpdateDelete
  <2>2. x \in Addrs
    <3>1. updater.conn \in DOMAIN conns
      BY <2>1 DEF HandshakeInv, HandshakeCore, UpdaterValid
    <3> QED BY <3>1, ConnFields DEF HandshakeInv
  <2>3. connections[x] = 0
    BY <2>1, <2>2 DEF ServiceOK, DeleteDone, Served
  <2>4. connections \in [Addrs -> ConnIDs]
    BY DEF HandshakeInv, TypeOK, ListenerTypeOK
  <2>5. UNCHANGED connections
    BY <2>1, <2>2, <2>3, <2>4
  <2>6. updater'.op # "delete"
    BY <2>1 DEF Idle
  <2> QED BY <2>1, <2>5, <2>6, ServiceUnchanged
<1>5. CASE UpdateReturn
  <2>1. /\ UNCHANGED <<worker, connections, conns, listening>>
        /\ updater'.op # "delete"
    BY <1>5 DEF UpdateReturn, connVars
  <2> QED BY <2>1, ServiceUnchanged
<1> QED BY <1>1, <1>2, <1>3, <1>4, <1>5 DEF UpdaterStep

\* Every step: an open Conn has its place, and its address is asked for only
\* once.
LEMMA ServiceStep ==
  ASSUME Timely, HandshakeInv, MessagesOK, ServiceOK, SettledKept, [Next]_vars
  PROVE  ServiceOK'
<1>1. ASSUME UNCHANGED <<worker, connections, conns, updater>>, listening' => listening
      PROVE  ServiceOK'
  BY <1>1, ServiceUnchanged
<1>2. CASE UNCHANGED listenerVars
  BY <1>1, <1>2 DEF listenerVars, connVars, acceptVars
<1>3. CASE WorkerStep /\ UNCHANGED dialerVars
  BY <1>3, ServiceWorker
<1>4. ASSUME NEW a \in Addrs, NEW c \in DOMAIN conns, ConnStep(a, c)
      PROVE  ServiceOK'
  <2>1. UNCHANGED <<listening, updater>>
    BY <1>4 DEF ConnStep, ReceiveConnectionRequest, ReceiveNewIncoming, acceptVars
  <2>2. CASE ReceiveConnectionRequest(a, c)
    <3>1. /\ MapKept /\ connections[a] = c /\ conns[c].addr = a
          /\ \A d \in DOMAIN conns : d # c => conns'[d] = conns[d]
      BY <2>2, ConnectionRequestEffect
    <3>2. \A d \in DOMAIN conns :
            \/ conns'[d].receivedConnectionRequest = conns[d].receivedConnectionRequest
            \/ connections[conns[d].addr] = d /\ conns[d].addr \in Addrs
      BY <3>1
    <3> QED BY <2>1, <3>1, <3>2, ServiceFrame
  <2>3. CASE ReceiveNewIncoming(a, c)
    <3>1. /\ MapKept
          /\ \A d \in DOMAIN conns : d # c => conns'[d] = conns[d]
          /\ conns'[c].receivedConnectionRequest = conns[c].receivedConnectionRequest
      BY <2>3, NewIncomingEffect
    <3>2. \A d \in DOMAIN conns :
            conns'[d].receivedConnectionRequest = conns[d].receivedConnectionRequest
      BY <3>1
    <3> QED BY <2>1, <3>1, <3>2, ServiceFrame
  <2> QED BY <1>4, <2>2, <2>3 DEF ConnStep
<1>5. ASSUME NEW c \in DOMAIN conns, ConnCloses(c)
      PROVE  ServiceOK'
  <2>1. UNCHANGED <<listening, updater, worker>>
    BY <1>5 DEF ConnCloses, HandleDisconnect, IdleTimeout, acceptVars
  <2>2. \/ UNCHANGED <<connections, conns>>
        \/ /\ CloseConn(c) /\ ~conns[c].closed
           /\ (\A w \in Workers : worker[w] # c) \/ \E a \in Addrs : connections[a] = c
    BY <1>5 DEF ConnCloses, HandleDisconnect, IdleTimeout, Reachable, connVars
  <2>3. (\E a \in Addrs : connections[a] = c) => \A w \in Workers : worker[w] # c
    <3>1. c # 0
      BY ConnFields DEF HandshakeInv
    <3> QED BY <3>1 DEF HandshakeInv, HandshakeCore, WorkersHold
  <2> QED BY <1>1, <2>1, <2>2, <2>3, ServiceClosed
<1>6. ASSUME NEW c \in DOMAIN conns, DeliverAccepted(c) \/ DropAccepted(c)
      PROVE  ServiceOK'
  <2>1. UNCHANGED <<listening, updater>>
    BY <1>6 DEF DeliverAccepted, DropAccepted, acceptVars
  <2>2. /\ MapKept
        /\ \A d \in DOMAIN conns :
             conns'[d].receivedConnectionRequest = conns[d].receivedConnectionRequest
    BY <1>6, AcceptedEffect
  <2> QED BY <2>1, <2>2, ServiceFrame
<1>7. CASE UpdaterStep
  BY <1>7, ServiceUpdater
<1>8. CASE Accept \/ Housekeeping \/ CloseListener \/ CloseIncoming
  BY <1>1, <1>8 DEF Accept, Housekeeping, RotateSalts, Unblock, CloseListener, CloseIncoming,
                    connVars, acceptVars
<1>9. ASSUME NEW m \in toServer, DuplicateRequest(m)
      PROVE  ServiceOK'
  BY <1>1, <1>9 DEF DuplicateRequest, connVars, acceptVars
<1>10. CASE UNCHANGED vars
  BY <1>2, <1>10 DEF vars
<1> QED
  BY <1>2, <1>3, <1>4, <1>5, <1>6, <1>7, <1>8, <1>9, <1>10 DEF Next, LoseMessage

\* The Conns after one is made.
LEMMA AppendCases ==
  ASSUME NEW S, NEW s \in Seq(S), NEW e
  PROVE  \A c \in DOMAIN Append(s, e) :
           \/ c = Len(s) + 1 /\ Append(s, e)[c] = e
           \/ c \in DOMAIN s /\ Append(s, e)[c] = s[c]
OBVIOUS

\* A request that a worker takes is never refused: the address has no
\* connection, and the size is one that the listener takes.
LEMMA NeverRefused ==
  ASSUME HandshakeInv, MessagesOK, ServiceOK, NEW m \in unconnected
  PROVE  ~Refused(m)
<1>1. m \in Openings /\ m.type \in {"Request1", "Request2"}
  BY DEF MessagesOK, Directed, Openings, Messaging
<1>2. m.addr \in Addrs /\ m.mtu \in Nat
  BY MessageAddrs DEF HandshakeInv, Messaging, Messages
<1>3. MinMTU <= m.mtu
  BY <1>1 DEF MessagesOK, SizesTaken
<1>4. ~Settled(m.addr)
  BY <1>1 DEF Settled
<1>5. connections[m.addr] = 0
  BY <1>2, <1>4 DEF ServiceOK, ServedSettled, Served
<1> QED BY <1>2, <1>3, <1>5, ListenerAssumption DEF Refused

\* Every step: only a dialer of another protocol version has its host blocked.
LEMMA BlocksStep ==
  ASSUME Timely, HandshakeInv, MessagesOK, ServiceOK, OnlyOutdatedBlocked, [Next]_vars
  PROVE  OnlyOutdatedBlocked'
<1>1. ASSUME blocks' \subseteq blocks
      PROVE  OnlyOutdatedBlocked'
  BY <1>1 DEF OnlyOutdatedBlocked
<1>2. ASSUME NEW a \in Outdated, blocks' \subseteq blocks \cup {HostOf[a]}
      PROVE  OnlyOutdatedBlocked'
  BY <1>2 DEF OnlyOutdatedBlocked
<1>3. CASE UNCHANGED listenerVars
  BY <1>1, <1>3 DEF listenerVars
<1>4. ASSUME NEW m \in toServer, Dispatch(m)
      PROVE  OnlyOutdatedBlocked'
  BY <1>1, <1>4 DEF Dispatch
<1>5. ASSUME NEW w \in Workers, StoreConn(w)
      PROVE  OnlyOutdatedBlocked'
  BY <1>1, <1>5 DEF StoreConn
<1>6. ASSUME NEW w \in Workers, NEW m \in unconnected, HandleRequest1(w, m)
      PROVE  OnlyOutdatedBlocked'
  <2>1. ~Refused(m)
    BY NeverRefused
  <2>2. UNCHANGED blocks \/ (m.addr \in Outdated /\ Block(m.addr))
    BY <1>6, <2>1 DEF HandleRequest1
  <2> QED BY <1>1, <1>2, <2>2 DEF Block
<1>7. ASSUME NEW w \in Workers, NEW m \in unconnected, HandleRequest2(w, m)
      PROVE  OnlyOutdatedBlocked'
  <2>1. ~Refused(m)
    BY NeverRefused
  <2>2. UNCHANGED blocks
    BY <1>7, <2>1 DEF HandleRequest2, Timely
  <2> QED BY <1>1, <2>2
<1>8. CASE WorkerStep
  BY <1>4, <1>5, <1>6, <1>7, <1>8 DEF WorkerStep
<1>9. ASSUME NEW a \in Addrs, NEW c \in DOMAIN conns, ConnStep(a, c)
      PROVE  OnlyOutdatedBlocked'
  BY <1>1, <1>9 DEF ConnStep, ReceiveConnectionRequest, ReceiveNewIncoming
<1>10. ASSUME NEW c \in DOMAIN conns, ConnCloses(c)
       PROVE  OnlyOutdatedBlocked'
  BY <1>1, <1>10 DEF ConnCloses, HandleDisconnect, IdleTimeout
<1>11. ASSUME NEW c \in DOMAIN conns, DeliverAccepted(c) \/ DropAccepted(c)
       PROVE  OnlyOutdatedBlocked'
  BY <1>1, <1>11 DEF DeliverAccepted, DropAccepted
<1>12. CASE UpdaterStep
  BY <1>1, <1>12 DEF UpdaterStep, UpdateConnected, SequenceTimeout, UpdateSend, UpdateDelete,
                     UpdateReturn
<1>13. CASE Accept \/ Housekeeping \/ CloseListener \/ CloseIncoming
  BY <1>1, <1>13 DEF Accept, Housekeeping, RotateSalts, Unblock, CloseListener, CloseIncoming
<1>14. ASSUME NEW m \in toServer, DuplicateRequest(m)
       PROVE  OnlyOutdatedBlocked'
  BY <1>1, <1>14 DEF DuplicateRequest
<1>15. CASE UNCHANGED vars
  BY <1>3, <1>15 DEF vars
<1> QED
  BY <1>3, <1>8, <1>9, <1>10, <1>11, <1>12, <1>13, <1>14, <1>15 DEF Next, LoseMessage

\* A step of a dialer keeps what it knows.
LEMMA KnowsDialer ==
  ASSUME HandshakeInv, DialerKnows, NEW a \in Addrs, DialerStep(a), UNCHANGED conns
  PROVE  DialerKnows'
<1>1. /\ phase \in [Addrs -> Phases]
      /\ unacked \in [Addrs -> SUBSET {"ConnectionRequest", "NewIncoming"}]
      /\ \A m \in toServer : m.addr \in Addrs
  BY MessageAddrs DEF HandshakeInv, TypeOK, DialerTypeOK, Messaging
<1>2. /\ \A m \in toServer : m.type = "Disconnect" => phase[m.addr] = "closed"
      /\ \A b \in Addrs : phase[b] \notin {"connected", "closed"} => fetched[b] = 0
      /\ \A b \in Addrs : phase[b] \notin {"connect", "connected"} => unacked[b] = {}
      /\ \A c \in DOMAIN conns : conns[c].unacked => conns[c].receivedConnectionRequest
  BY DEF DialerKnows
<1>3. UNCHANGED fetched
  BY DEF DialerStep, Dial, Request1, Reply2Timeout, DialTimeout, DialerIdleTimeout,
         ReceiveReply1, ReceiveIncompatible, ReceiveReply2, ReceiveDisconnect, IgnoreMessage,
         dialerVars
<1> DEFINE Kept ==
        /\ \A m \in toServer' : m.type = "Disconnect" => phase'[m.addr] = "closed"
        /\ \A b \in Addrs : phase'[b] \notin {"connected", "closed"} => fetched'[b] = 0
        /\ \A b \in Addrs : phase'[b] \notin {"connect", "connected"} => unacked'[b] = {}
<1>4. SUFFICES Kept
  BY <1>2 DEF DialerKnows
<1>5. CASE \/ Dial(a) \/ Reply2Timeout(a)
  BY <1>1, <1>2, <1>3, <1>5 DEF Dial, Reply2Timeout
<1>6. CASE Request1(a)
  BY <1>1, <1>2, <1>3, <1>6 DEF Request1, Request, Message
<1>7. CASE DialTimeout(a)
  BY <1>1, <1>2, <1>3, <1>7 DEF DialTimeout
<1>8. CASE DialerIdleTimeout(a)
  BY <1>1, <1>2, <1>3, <1>8 DEF DialerIdleTimeout, Message
<1>9. ASSUME NEW m \in toClient, ReceiveReply1(a, m)
      PROVE  Kept
  BY <1>1, <1>2, <1>3, <1>9 DEF ReceiveReply1, Request, Message
<1>10. ASSUME NEW m \in toClient, ReceiveIncompatible(a, m)
       PROVE  Kept
  BY <1>1, <1>2, <1>3, <1>10 DEF ReceiveIncompatible
<1>11. ASSUME NEW m \in toClient, ReceiveReply2(a, m)
       PROVE  Kept
  BY <1>1, <1>2, <1>3, <1>11 DEF ReceiveReply2
<1>12. ASSUME NEW m \in toClient, ReceiveDisconnect(a, m)
       PROVE  Kept
  BY <1>1, <1>2, <1>3, <1>12 DEF ReceiveDisconnect, Message
<1>13. ASSUME NEW m \in toClient, IgnoreMessage(a, m)
       PROVE  Kept
  BY <1>1, <1>2, <1>3, <1>13 DEF IgnoreMessage, dialerVars
<1> QED BY <1>5, <1>6, <1>7, <1>8, <1>9, <1>10, <1>11, <1>12, <1>13 DEF DialerStep

\* A step that sends no connection request accepted, and is none of a dialer.
LEMMA KnowsFrame ==
  ASSUME DialerKnows, UNCHANGED dialerVars, toServer' \subseteq toServer,
         \A c \in DOMAIN conns' :
           \/ ~conns'[c].unacked
           \/ /\ c \in DOMAIN conns /\ conns'[c].unacked = conns[c].unacked
              /\ conns'[c].receivedConnectionRequest = conns[c].receivedConnectionRequest
  PROVE  DialerKnows'
BY DEF DialerKnows, dialerVars

\* Every step keeps what the dialers know.
LEMMA KnowsStep ==
  ASSUME Timely, HandshakeInv, MessagesOK, DialerKnows, [Next]_vars
  PROVE  DialerKnows'
<1>1. ASSUME UNCHANGED dialerVars, toServer' \subseteq toServer, UNCHANGED conns
      PROVE  DialerKnows'
  BY <1>1, KnowsFrame
<1>2. ASSUME NEW a \in Addrs, DialerStep(a), UNCHANGED listenerVars
      PROVE  DialerKnows'
  BY <1>2, KnowsDialer DEF listenerVars, connVars
<1>3. CASE WorkerStep /\ UNCHANGED dialerVars
  <2>1. ASSUME NEW m \in toServer, Dispatch(m)
        PROVE  DialerKnows'
    BY <1>1, <1>3, <2>1 DEF Dispatch, connVars
  <2>2. ASSUME NEW w \in Workers, StoreConn(w)
        PROVE  DialerKnows'
    BY <1>1, <1>3, <2>2 DEF StoreConn
  <2>3. ASSUME NEW w \in Workers, NEW m \in unconnected, HandleRequest1(w, m)
        PROVE  DialerKnows'
    BY <1>1, <1>3, <2>3 DEF HandleRequest1, connVars
  <2>4. ASSUME NEW w \in Workers, NEW m \in unconnected, HandleRequest2(w, m)
        PROVE  DialerKnows'
    <3> DEFINE e == NewConn(m.addr, Smaller(m.mtu, MaxMTU))
    <3>1. (UNCHANGED conns \/ conns' = Append(conns, e)) /\ UNCHANGED toServer
      BY <2>4 DEF HandleRequest2
    <3>2. ~e.unacked
      BY DEF NewConn
    <3>3. conns \in Seq(Conns)
      BY DEF HandshakeInv, TypeOK, ListenerTypeOK
    <3> HIDE DEF e
    <3>4. CASE conns' = Append(conns, e)
      <4>1. \A c \in DOMAIN conns' :
              \/ conns'[c] = e
              \/ c \in DOMAIN conns /\ conns'[c] = conns[c]
        BY <3>3, <3>4, AppendCases
      <4>2. \A c \in DOMAIN conns' :
              \/ ~conns'[c].unacked
              \/ /\ c \in DOMAIN conns /\ conns'[c].unacked = conns[c].unacked
                 /\ conns'[c].receivedConnectionRequest = conns[c].receivedConnectionRequest
        BY <3>2, <4>1
      <4> QED BY <1>3, <3>1, <4>2, KnowsFrame
    <3> QED BY <1>1, <1>3, <3>1, <3>4
  <2> QED BY <1>3, <2>1, <2>2, <2>3, <2>4 DEF WorkerStep
<1>4. ASSUME NEW a \in Addrs, NEW c \in DOMAIN conns, ConnStep(a, c)
      PROVE  DialerKnows'
  <2>1. /\ UNCHANGED <<phase, fetched, toServer>>
        /\ unacked \in [Addrs -> SUBSET {"ConnectionRequest", "NewIncoming"}]
        /\ \A b \in Addrs : unacked'[b] \subseteq unacked[b]
    BY <1>4 DEF ConnStep, ReceiveConnectionRequest, ReceiveNewIncoming, HandshakeInv, TypeOK,
                DialerTypeOK
  <2>2. \A b \in Addrs : phase'[b] \notin {"connect", "connected"} => unacked'[b] = {}
    BY <2>1 DEF DialerKnows
  <2>3. /\ DOMAIN conns' = DOMAIN conns
        /\ \A d \in DOMAIN conns : d # c => conns'[d] = conns[d]
        /\ conns'[c].unacked => conns'[c].receivedConnectionRequest
    <3>1. CASE ReceiveConnectionRequest(a, c)
      BY <3>1, ConnectionRequestEffect DEF MapKept, ConnsPlaced
    <3>2. CASE ReceiveNewIncoming(a, c)
      BY <3>2, NewIncomingEffect DEF MapKept, ConnsPlaced, DialerKnows
    <3> QED BY <1>4, <3>1, <3>2 DEF ConnStep
  <2> QED BY <2>1, <2>2, <2>3 DEF DialerKnows
<1>5. ASSUME NEW c \in DOMAIN conns, ConnCloses(c), UNCHANGED dialerVars
      PROVE  DialerKnows'
  <2>1. toServer' \subseteq toServer /\ (UNCHANGED conns \/ CloseConn(c))
    BY <1>5 DEF ConnCloses, HandleDisconnect, IdleTimeout, connVars
  <2> QED BY <1>1, <1>5, <2>1, CloseConnEffect, KnowsFrame DEF HandshakeInv
<1>6. ASSUME NEW c \in DOMAIN conns, DeliverAccepted(c) \/ DropAccepted(c)
      PROVE  DialerKnows'
  <2>1. /\ DOMAIN conns' = DOMAIN conns /\ ~conns'[c].unacked
        /\ \A d \in DOMAIN conns :
             /\ conns'[d].receivedConnectionRequest = conns[d].receivedConnectionRequest
             /\ d # c => conns'[d].unacked = conns[d].unacked
    BY <1>6, AcceptedEffect DEF MapKept, ConnsPlaced
  <2>2. \A d \in DOMAIN conns' : conns'[d].unacked => conns'[d].receivedConnectionRequest
    BY <2>1 DEF DialerKnows
  <2>3. CASE UNCHANGED dialerVars
    BY <1>6, <2>2, <2>3 DEF DialerKnows, dialerVars, DeliverAccepted, DropAccepted,
                            ReceiveAccepted
  <2>4. CASE DeliverAccepted(c)
    <3>1. PICK a \in Addrs : a = conns[c].addr
      BY ConnFields DEF HandshakeInv
    <3>2. /\ phase \in [Addrs -> Phases] /\ fetched \in [Addrs -> Nat]
          /\ unacked \in [Addrs -> SUBSET {"ConnectionRequest", "NewIncoming"}]
          /\ \A m \in toServer : m.addr \in Addrs
      BY MessageAddrs DEF HandshakeInv, TypeOK, DialerTypeOK, Messaging
    <3>3. /\ phase[a] \in {"connect", "connected"} /\ UNCHANGED toServer
          /\ \/ UNCHANGED <<phase, fetched, unacked>>
             \/ /\ phase' = [phase EXCEPT ![a] = "connected"]
                /\ fetched' = [fetched EXCEPT ![a] = 1]
                /\ unacked' = [unacked EXCEPT ![a] = @ \cup {"NewIncoming"}]
      BY <2>4, <3>1 DEF DeliverAccepted, ReceiveAccepted
    <3>4. \A b \in Addrs : b # a => /\ phase'[b] = phase[b] /\ fetched'[b] = fetched[b]
                                    /\ unacked'[b] = unacked[b]
      BY <3>2, <3>3
    <3>5. phase'[a] \in {"connect", "connected"}
          /\ (phase'[a] # "connected" => fetched'[a] = fetched[a] /\ phase'[a] = phase[a])
      BY <3>2, <3>3
    <3>6. \A m \in toServer : m.type = "Disconnect" => phase'[m.addr] = "closed"
      BY <3>2, <3>3, <3>4 DEF DialerKnows
    <3>7. \A b \in Addrs : phase'[b] \notin {"connected", "closed"} => fetched'[b] = 0
      BY <3>4, <3>5 DEF DialerKnows
    <3>8. \A b \in Addrs : phase'[b] \notin {"connect", "connected"} => unacked'[b] = {}
      BY <3>4, <3>5 DEF DialerKnows
    <3> QED BY <2>2, <3>3, <3>6, <3>7, <3>8 DEF DialerKnows
  <2> QED BY <1>6, <2>3, <2>4 DEF DropAccepted
<1>7. CASE UpdaterStep /\ UNCHANGED dialerVars
  <2>1. UNCHANGED toServer
    BY <1>7 DEF UpdaterStep, UpdateConnected, SequenceTimeout, UpdateSend, UpdateDelete,
                UpdateReturn
  <2>2. ASSUME NEW a \in Addrs, UpdateConnected(a)
        PROVE  DialerKnows'
    <3>1. /\ DOMAIN conns' = DOMAIN conns
          /\ \A d \in DOMAIN conns :
               /\ conns'[d].receivedConnectionRequest = conns[d].receivedConnectionRequest
               /\ conns'[d].unacked = conns[d].unacked
      BY <2>2, UpdateConnectedEffect DEF MapKept, ConnsPlaced
    <3> QED BY <1>7, <2>1, <3>1, KnowsFrame
  <2>3. ASSUME NEW a \in Addrs, SequenceTimeout(a)
        PROVE  DialerKnows'
    <3>1. connections[a] \in DOMAIN conns /\ CloseConn(connections[a])
      BY <2>3 DEF SequenceTimeout, HandshakeInv, HandshakeCore, MapValid
    <3> QED BY <1>7, <2>1, <3>1, CloseConnEffect, KnowsFrame DEF HandshakeInv
  <2>4. CASE UpdateSend \/ UpdateDelete \/ UpdateReturn
    BY <1>1, <1>7, <2>1, <2>4 DEF UpdateSend, UpdateDelete, UpdateReturn, connVars
  <2> QED BY <1>7, <2>2, <2>3, <2>4 DEF UpdaterStep
<1>8. CASE (Accept \/ Housekeeping \/ CloseListener \/ CloseIncoming) /\ UNCHANGED dialerVars
  BY <1>1, <1>8 DEF Accept, Housekeeping, RotateSalts, Unblock, CloseListener, CloseIncoming,
                    connVars
<1>9. ASSUME NEW m \in toServer \cup toClient, LoseMessage(m)
      PROVE  DialerKnows'
  BY <1>1, <1>9 DEF LoseMessage, listenerVars, connVars
<1>10. ASSUME NEW m \in toServer, DuplicateRequest(m)
       PROVE  DialerKnows'
  BY <1>1, <1>10 DEF DuplicateRequest, connVars
<1>11. CASE UNCHANGED vars
  BY <1>1, <1>11 DEF vars, listenerVars, connVars
<1> QED
  BY <1>2, <1>3, <1>4, <1>5, <1>6, <1>7, <1>8, <1>9, <1>10, <1>11 DEF Next
-----------------------------------------------------------------------------
\* A step leaves the Conn c as it is, as far as its dialer is concerned.
ConnKept(c) ==
  /\ c \in DOMAIN conns'
  /\ conns'[c].addr = conns[c].addr /\ conns'[c].closed = conns[c].closed
  /\ conns'[c].mtu = conns[c].mtu /\ conns'[c].connected = conns[c].connected
  /\ conns'[c].receivedConnectionRequest = conns[c].receivedConnectionRequest
  /\ conns'[c].unacked = conns[c].unacked

\* A dialer that does nothing, or gives up, while its Conn and the second
\* reply on its way stay as they are.
LEMMA InStepFrame ==
  ASSUME NEW a \in Addrs, DialInStep(a),
         \/ phase'[a] = phase[a] /\ mtu'[a] = mtu[a] /\ unacked'[a] = unacked[a]
         \/ phase'[a] \notin {"openConnection", "connect", "connected"},
         \A c \in DOMAIN conns : conns[c].addr = a => ConnKept(c),
         \A m \in toClient' : m.type = "Reply2" /\ m.addr = a => m \in toClient
  PROVE  DialInStep(a)'
<1>1. CASE phase'[a] \notin {"openConnection", "connect", "connected"}
  BY <1>1 DEF DialInStep
<1>2. CASE phase'[a] = phase[a] /\ mtu'[a] = mtu[a] /\ unacked'[a] = unacked[a]
  <2>1. ASSUME NEW c \in DOMAIN conns, InStep(a, c)
        PROVE  c \in DOMAIN conns' /\ InStep(a, c)'
    <3>1. conns[c].addr = a
      BY <2>1 DEF InStep
    <3>2. ConnKept(c)
      BY <3>1
    <3> QED BY <1>2, <2>1, <3>2 DEF InStep, ConnKept
  <2>2. phase'[a] \in {"connect", "connected"} => \E c \in DOMAIN conns' : InStep(a, c)'
    BY <1>2, <2>1 DEF DialInStep
  <2>3. ASSUME NEW m \in toClient', m.type = "Reply2", m.addr = a,
               phase'[a] = "openConnection"
        PROVE  \E c \in DOMAIN conns' : /\ InStep(a, c)'
                                        /\ ~conns'[c].receivedConnectionRequest
                                        /\ conns'[c].mtu = m.mtu
    <3>1. PICK c \in DOMAIN conns : /\ InStep(a, c)
                                    /\ ~conns[c].receivedConnectionRequest
                                    /\ conns[c].mtu = m.mtu
      BY <1>2, <2>3 DEF DialInStep
    <3>2. ConnKept(c)
      BY <3>1 DEF InStep
    <3> QED BY <2>1, <3>1, <3>2 DEF ConnKept
  <2> QED BY <2>2, <2>3 DEF DialInStep
<1> QED BY <1>1, <1>2

\* A host is blocked for a dialer of another protocol version, and nobody else
\* has its IP.
LEMMA HostNotBlocked ==
  ASSUME Timely, MessagesOK, OnlyOutdatedBlocked, NEW a \in Addrs,
         phase[a] \in {"connect", "connected"}
  PROVE  HostOf[a] \notin blocks
<1>1. a \notin Outdated
  BY DEF MessagesOK, OutdatedRefused
<1> QED BY <1>1 DEF OnlyOutdatedBlocked, Timely

\* The Conn that a dialer is in step with is the only one of its address.
LEMMA TheConn ==
  ASSUME ServiceOK, listening, NEW a \in Addrs, NEW c \in DOMAIN conns, conns[c].addr = a,
         NEW d \in DOMAIN conns, InStep(a, d)
  PROVE  d = c
BY DEF ServiceOK, OneConn, InStep

\* A dialer stays in step with its Conn when it takes a step.
LEMMA InStepDialer ==
  ASSUME HandshakeInv, MessagesOK, NEW a \in Addrs, DialerStep(a), UNCHANGED conns,
         \A b \in Addrs : DialInStep(b)
  PROVE  \A b \in Addrs : DialInStep(b)'
<1>1. /\ phase \in [Addrs -> Phases] /\ mtu \in [Addrs -> Nat]
      /\ unacked \in [Addrs -> SUBSET {"ConnectionRequest", "NewIncoming"}]
  BY DEF HandshakeInv, TypeOK, DialerTypeOK
<1>2. \A c \in DOMAIN conns : ConnKept(c)
  BY DEF ConnKept
<1>3. toClient' \subseteq toClient
  BY DEF DialerStep, Dial, Request1, Reply2Timeout, DialTimeout, DialerIdleTimeout,
         ReceiveReply1, ReceiveIncompatible, ReceiveReply2, ReceiveDisconnect, IgnoreMessage
<1>4. ASSUME NEW b \in Addrs, b # a
      PROVE  DialInStep(b)'
  <2>1. phase'[b] = phase[b] /\ mtu'[b] = mtu[b] /\ unacked'[b] = unacked[b]
    BY <1>1, <1>4
       DEF DialerStep, Dial, Request1, Reply2Timeout, DialTimeout, DialerIdleTimeout,
           ReceiveReply1, ReceiveIncompatible, ReceiveReply2, ReceiveDisconnect, IgnoreMessage,
           dialerVars
  <2> QED BY <1>2, <1>3, <2>1, InStepFrame
<1>5. SUFFICES DialInStep(a)'
  BY <1>4
<1>6. ASSUME \/ phase'[a] = phase[a] /\ mtu'[a] = mtu[a] /\ unacked'[a] = unacked[a]
             \/ phase'[a] \notin {"openConnection", "connect", "connected"}
      PROVE  DialInStep(a)'
  BY <1>2, <1>3, <1>6, InStepFrame
<1>7. CASE \/ Dial(a) \/ Reply2Timeout(a) \/ DialTimeout(a) \/ DialerIdleTimeout(a)
           \/ \E m \in toClient : ReceiveIncompatible(a, m)
  <2>1. phase'[a] \notin {"openConnection", "connect", "connected"}
    BY <1>1, <1>7 DEF Dial, Reply2Timeout, DialTimeout, DialerIdleTimeout, ReceiveIncompatible
  <2> QED BY <1>6, <2>1
<1>8. CASE Request1(a) \/ \E m \in toClient : IgnoreMessage(a, m)
  <2>1. phase'[a] = phase[a] /\ mtu'[a] = mtu[a] /\ unacked'[a] = unacked[a]
    BY <1>8 DEF Request1, IgnoreMessage, dialerVars
  <2> QED BY <1>6, <2>1
<1>9. ASSUME NEW m \in toClient, ReceiveDisconnect(a, m)
      PROVE  DialInStep(a)'
  <2>1. \/ phase'[a] = phase[a] /\ mtu'[a] = mtu[a] /\ unacked'[a] = unacked[a]
        \/ phase'[a] \notin {"openConnection", "connect", "connected"}
    BY <1>1, <1>9 DEF ReceiveDisconnect
  <2> QED BY <1>6, <2>1
<1>10. ASSUME NEW m \in toClient, m.addr = a, ReceiveReply1(a, m)
       PROVE  DialInStep(a)'
  <2>1. m \in Openings /\ m.type = "Reply1" /\ phase'[a] = "openConnection"
    BY <1>1, <1>10 DEF ReceiveReply1, Openings, Messaging
  <2>2. \A x \in toClient' : ~(x.type = "Reply2" /\ x.addr = a)
    <3> SUFFICES ASSUME NEW x \in toClient', x.type = "Reply2", x.addr = a PROVE FALSE
      OBVIOUS
    <3>1. x \in Openings
      BY <1>3 DEF Openings, Messaging
    <3> QED BY <1>10, <2>1, <3>1 DEF MessagesOK, OneAtATime
  <2> QED BY <2>1, <2>2 DEF DialInStep
<1>11. ASSUME NEW m \in toClient, m.addr = a, ReceiveReply2(a, m)
       PROVE  DialInStep(a)'
  <2>1. /\ m.type = "Reply2" /\ phase[a] = "openConnection" /\ phase'[a] = "connect"
        /\ mtu'[a] = m.mtu /\ "ConnectionRequest" \in unacked'[a]
    BY <1>1, <1>11 DEF ReceiveReply2
  <2>2. PICK c \in DOMAIN conns : /\ InStep(a, c)
                                  /\ ~conns[c].receivedConnectionRequest
                                  /\ conns[c].mtu = m.mtu
    BY <1>11, <2>1 DEF DialInStep
  <2>3. InStep(a, c)'
    BY <2>1, <2>2 DEF InStep
  <2> QED BY <2>1, <2>3 DEF DialInStep
<1> QED BY <1>7, <1>8, <1>9, <1>10, <1>11 DEF DialerStep

\* A worker that answers makes the Conn that the second reply promises.
LEMMA InStepWorker ==
  ASSUME Timely, HandshakeInv, WorkerStep, UNCHANGED dialerVars, listening,
         \A b \in Addrs : DialInStep(b)
  PROVE  \A b \in Addrs : DialInStep(b)'
<1>1. ASSUME NEW b \in Addrs, \A c \in DOMAIN conns : ConnKept(c),
             \A m \in toClient' : m.type = "Reply2" /\ m.addr = b => m \in toClient
      PROVE  DialInStep(b)'
  BY <1>1, InStepFrame DEF dialerVars
<1>2. ASSUME UNCHANGED conns,
             \A m \in toClient' : m.type = "Reply2" => m \in toClient
      PROVE  \A b \in Addrs : DialInStep(b)'
  BY <1>1, <1>2 DEF ConnKept
<1>3. ASSUME NEW m \in toServer, Dispatch(m)
      PROVE  \A b \in Addrs : DialInStep(b)'
  BY <1>2, <1>3 DEF Dispatch, connVars
<1>4. ASSUME NEW w \in Workers, StoreConn(w)
      PROVE  \A b \in Addrs : DialInStep(b)'
  BY <1>2, <1>4 DEF StoreConn
<1>5. ASSUME NEW w \in Workers, NEW m \in unconnected, HandleRequest1(w, m)
      PROVE  \A b \in Addrs : DialInStep(b)'
  <2>1. UNCHANGED conns
    BY <1>5 DEF HandleRequest1, connVars
  <2>2. \A x \in toClient' : x.type = "Reply2" => x \in toClient
    BY <1>5 DEF HandleRequest1, Reply, Message
  <2> QED BY <1>2, <2>1, <2>2
<1>6. ASSUME NEW w \in Workers, NEW m \in unconnected, HandleRequest2(w, m)
      PROVE  \A b \in Addrs : DialInStep(b)'
  <2>1. PICK e, n : /\ e = NewConn(m.addr, Smaller(m.mtu, MaxMTU))
                    /\ n = Message("Reply2", m.addr, Smaller(m.mtu, MaxMTU), 0, m.n)
    OBVIOUS
  <2>2. \/ UNCHANGED <<conns, toClient>>
        \/ conns' = Append(conns, e) /\ toClient' = toClient \cup {n}
    BY <1>6, <2>1 DEF HandleRequest2, Reply, Timely
  <2>3. CASE UNCHANGED <<conns, toClient>>
    BY <1>2, <2>3
  <2>4. CASE conns' = Append(conns, e) /\ toClient' = toClient \cup {n}
    <3>1. /\ n.addr = m.addr /\ n.mtu = e.mtu /\ e.addr = m.addr
          /\ ~e.closed /\ ~e.receivedConnectionRequest
      BY <2>1 DEF NewConn, Message
    <3>2. conns \in Seq(Conns)
      BY DEF HandshakeInv, TypeOK, ListenerTypeOK
    <3>3. /\ \A c \in DOMAIN conns : c \in DOMAIN conns' /\ conns'[c] = conns[c]
          /\ \E c \in DOMAIN conns' : conns'[c] = e
      BY <2>4, <3>2
    <3>4. \A c \in DOMAIN conns : ConnKept(c)
      BY <3>3 DEF ConnKept
    <3>5. ASSUME NEW b \in Addrs, b # m.addr
          PROVE  DialInStep(b)'
      BY <1>1, <2>4, <3>1, <3>4, <3>5
    <3>6. ASSUME NEW b \in Addrs, b = m.addr
          PROVE  DialInStep(b)'
      <4>1. ASSUME NEW c \in DOMAIN conns, InStep(b, c)
            PROVE  InStep(b, c)'
        BY <3>3, <4>1 DEF InStep, dialerVars
      <4>2. phase'[b] \in {"connect", "connected"} => \E c \in DOMAIN conns' : InStep(b, c)'
        BY <3>3, <4>1 DEF DialInStep, dialerVars
      <4>3. ASSUME NEW x \in toClient', x.type = "Reply2", x.addr = b,
                   phase'[b] = "openConnection"
            PROVE  \E c \in DOMAIN conns' : /\ InStep(b, c)'
                                            /\ ~conns'[c].receivedConnectionRequest
                                            /\ conns'[c].mtu = x.mtu
        <5>1. CASE x \in toClient
          <6>1. PICK c \in DOMAIN conns : /\ InStep(b, c)
                                          /\ ~conns[c].receivedConnectionRequest
                                          /\ conns[c].mtu = x.mtu
            BY <4>3, <5>1 DEF DialInStep, dialerVars
          <6> QED BY <3>3, <4>1, <6>1
        <5>2. CASE x = n
          <6>1. PICK c \in DOMAIN conns' : conns'[c] = e
            BY <3>3
          <6>2. InStep(b, c)'
            BY <3>1, <3>6, <4>3, <6>1 DEF InStep
          <6> QED BY <3>1, <5>2, <6>1, <6>2
        <5> QED BY <2>4, <5>1, <5>2
      <4> QED BY <4>2, <4>3 DEF DialInStep
    <3> QED BY <3>5, <3>6
  <2> QED BY <2>2, <2>3, <2>4
<1> QED BY <1>3, <1>4, <1>5, <1>6 DEF WorkerStep

\* Dialers other than the one at a Conn's end do not see what happens to it.
LEMMA InStepOthers ==
  ASSUME HandshakeInv, DOMAIN conns' = DOMAIN conns, NEW a \in Addrs,
         \A c \in DOMAIN conns : conns[c].addr # a => ConnKept(c),
         \A m \in toClient' : m.type = "Reply2" => m \in toClient,
         \A b \in Addrs \ {a} : /\ phase'[b] = phase[b] /\ mtu'[b] = mtu[b]
                                /\ unacked'[b] = unacked[b],
         \A b \in Addrs : DialInStep(b), DialInStep(a)'
  PROVE  \A b \in Addrs : DialInStep(b)'
<1> SUFFICES ASSUME NEW b \in Addrs, b # a PROVE DialInStep(b)'
  OBVIOUS
<1>1. \A c \in DOMAIN conns : conns[c].addr = b => ConnKept(c)
  OBVIOUS
<1> QED BY <1>1, InStepFrame

\* The packets of the dialers reach the Conns they are for.
LEMMA InStepPackets ==
  ASSUME HandshakeInv, ServiceOK, DialerKnows, NEW a \in Addrs, NEW c \in DOMAIN conns,
         ConnStep(a, c), \A b \in Addrs : DialInStep(b)
  PROVE  \A b \in Addrs : DialInStep(b)'
<1>1. /\ unacked \in [Addrs -> SUBSET {"ConnectionRequest", "NewIncoming"}]
      /\ UNCHANGED <<phase, mtu, toClient>> /\ listening /\ unacked[a] # {}
      /\ \A b \in Addrs : b # a => unacked'[b] = unacked[b]
  BY DEF ConnStep, ReceiveConnectionRequest, ReceiveNewIncoming, Reachable, HandshakeInv,
         TypeOK, DialerTypeOK
<1>2. phase[a] \in {"connect", "connected"}
  BY <1>1 DEF DialerKnows
<1>3. PICK d \in DOMAIN conns : InStep(a, d)
  BY <1>2 DEF DialInStep
<1>4. CASE ReceiveConnectionRequest(a, c)
  <2>1. /\ MapKept /\ conns[c].addr = a
        /\ \A x \in DOMAIN conns : x # c => conns'[x] = conns[x]
        /\ conns'[c].mtu = conns[c].mtu /\ conns'[c].connected = conns[c].connected
        /\ conns'[c].receivedConnectionRequest /\ conns'[c].unacked
    BY <1>4, ConnectionRequestEffect
  <2>2. InStep(a, c)
    BY <1>1, <1>3, <2>1, TheConn
  <2>3. \A x \in unacked[a] : x # "ConnectionRequest" => x \in unacked'[a]
    BY <1>1, <1>4 DEF ReceiveConnectionRequest
  <2>4. InStep(a, c)'
    BY <1>1, <2>1, <2>2, <2>3 DEF InStep, MapKept, ConnsPlaced
  <2>5. DialInStep(a)'
    BY <1>1, <1>2, <2>1, <2>4 DEF DialInStep, MapKept, ConnsPlaced
  <2>6. \A x \in DOMAIN conns : conns[x].addr # a => ConnKept(x)
    BY <2>1 DEF ConnKept, MapKept, ConnsPlaced
  <2> QED BY <1>1, <2>1, <2>5, <2>6, InStepOthers DEF MapKept, ConnsPlaced
<1>5. CASE ReceiveNewIncoming(a, c)
  <2>1. /\ MapKept /\ conns[c].addr = a
        /\ \A x \in DOMAIN conns : x # c => conns'[x] = conns[x]
        /\ conns'[c].mtu = conns[c].mtu
        /\ conns'[c].receivedConnectionRequest = conns[c].receivedConnectionRequest
        /\ conns'[c].unacked = conns[c].unacked
        /\ conns[c].receivedConnectionRequest => conns'[c].connected
    BY <1>5, NewIncomingEffect
  <2>2. InStep(a, c)
    BY <1>1, <1>3, <2>1, TheConn
  <2>3. \A x \in unacked[a] : x # "NewIncoming" => x \in unacked'[a]
    BY <1>1, <1>5 DEF ReceiveNewIncoming
  <2>4. InStep(a, c)'
    BY <1>1, <2>1, <2>2, <2>3 DEF InStep, MapKept, ConnsPlaced
  <2>5. DialInStep(a)'
    BY <1>1, <1>2, <2>1, <2>4 DEF DialInStep, MapKept, ConnsPlaced
  <2>6. \A x \in DOMAIN conns : conns[x].addr # a => ConnKept(x)
    BY <2>1 DEF ConnKept, MapKept, ConnsPlaced
  <2> QED BY <1>1, <2>1, <2>5, <2>6, InStepOthers DEF MapKept, ConnsPlaced
<1> QED BY <1>4, <1>5 DEF ConnStep

\* A Conn is closed under a dialer that neither uses it nor will.
LEMMA InStepClosed ==
  ASSUME HandshakeInv, NEW c \in DOMAIN conns, CloseConn(c), UNCHANGED dialerVars,
         \A b \in Addrs : DialInStep(b),
         phase[conns[c].addr] \notin {"connect", "connected"},
         \/ phase[conns[c].addr] # "openConnection"
         \/ \A m \in toClient : m.addr # conns[c].addr
  PROVE  \A b \in Addrs : DialInStep(b)'
<1>1. PICK a \in Addrs : a = conns[c].addr
  BY ConnFields DEF HandshakeInv
<1>2. \A m \in toClient' : m.type = "Reply2" => m \in toClient
  BY CloseConnMessages
<1>3. DialInStep(a)'
  BY <1>1, <1>2 DEF DialInStep, dialerVars
<1>4. DOMAIN conns' = DOMAIN conns /\ \A x \in DOMAIN conns : conns[x].addr # a => ConnKept(x)
  BY <1>1, CloseConnEffect DEF ConnKept, HandshakeInv
<1> QED BY <1>2, <1>3, <1>4, InStepOthers DEF dialerVars

\* A Conn is closed by the notification of its dialer, or when its dialer has
\* gone.
LEMMA InStepCloses ==
  ASSUME Timely, HandshakeInv, ServiceOK, DialerKnows, NEW c \in DOMAIN conns, ConnCloses(c),
         UNCHANGED dialerVars, listening, \A b \in Addrs : DialInStep(b)
  PROVE  \A b \in Addrs : DialInStep(b)'
<1>1. ASSUME NEW a \in Addrs, NEW m \in toServer, HandleDisconnect(a, c, m)
      PROVE  \A b \in Addrs : DialInStep(b)'
  <2>1. phase[a] = "closed" /\ conns[c].addr = a
    BY <1>1 DEF HandleDisconnect, Reachable, DialerKnows, HandshakeInv, HandshakeCore, MapValid
  <2>2. CASE CloseConn(c)
    BY <2>1, <2>2, InStepClosed
  <2>3. CASE UNCHANGED <<conns, toClient>>
    BY <2>3, InStepFrame DEF ConnKept, dialerVars
  <2> QED BY <1>1, <2>2, <2>3 DEF HandleDisconnect, connVars
<1>2. CASE IdleTimeout(c) /\ Silent(c)
  <2>1. PICK a \in Addrs : a = conns[c].addr
    BY ConnFields DEF HandshakeInv
  <2>2. ~conns[c].closed /\ (\A w \in Workers : worker[w] # c) /\ CloseConn(c)
    BY <1>2 DEF IdleTimeout
  <2>3. connections[a] = c
    BY <2>1, <2>2 DEF ServiceOK, OpenPlaced
  <2>4. phase[a] \notin {"connect", "connected"} /\ ~UnderWay(a)
    BY <1>2, <2>1, <2>3 DEF Silent, Timely
  <2>5. \A m \in toClient : m.addr # a
    BY <2>4 DEF UnderWay
  <2> QED BY <2>1, <2>2, <2>4, <2>5, InStepClosed
<1> QED BY <1>1, <1>2 DEF ConnCloses

\* Connection request accepted takes the dialer to the end of the sequence.
LEMMA InStepAccepted ==
  ASSUME HandshakeInv, ServiceOK, DialerKnows, NEW c \in DOMAIN conns,
         DeliverAccepted(c) \/ DropAccepted(c), listening, \A b \in Addrs : DialInStep(b)
  PROVE  \A b \in Addrs : DialInStep(b)'
<1>1. PICK a \in Addrs : a = conns[c].addr
  BY ConnFields DEF HandshakeInv
<1>2. /\ MapKept /\ ~conns'[c].unacked
      /\ \A d \in DOMAIN conns :
           /\ conns'[d].mtu = conns[d].mtu /\ conns'[d].connected = conns[d].connected
           /\ conns'[d].receivedConnectionRequest = conns[d].receivedConnectionRequest
           /\ d # c => conns'[d].unacked = conns[d].unacked
  BY AcceptedEffect
<1>3. /\ DOMAIN conns' = DOMAIN conns
      /\ \A d \in DOMAIN conns : /\ conns'[d].addr = conns[d].addr
                                 /\ conns'[d].closed = conns[d].closed
  BY <1>2 DEF MapKept, ConnsPlaced
<1>4. \A d \in DOMAIN conns : conns[d].addr # a => ConnKept(d)
  BY <1>1, <1>2, <1>3 DEF ConnKept
<1>5. /\ phase \in [Addrs -> Phases] /\ fetched \in [Addrs -> Nat]
      /\ unacked \in [Addrs -> SUBSET {"ConnectionRequest", "NewIncoming"}]
  BY DEF HandshakeInv, TypeOK, DialerTypeOK
<1>6. UNCHANGED <<mtu, toClient>>
  BY DEF DeliverAccepted, DropAccepted, ReceiveAccepted, dialerVars
<1>7. CASE DeliverAccepted(c)
  <2>1. /\ conns[c].unacked /\ phase[a] \in {"connect", "connected"}
        /\ \/ /\ fetched[a] = 0 /\ phase' = [phase EXCEPT ![a] = "connected"]
              /\ unacked' = [unacked EXCEPT ![a] = @ \cup {"NewIncoming"}]
           \/ fetched[a] # 0 /\ UNCHANGED <<phase, unacked>>
    BY <1>1, <1>7 DEF DeliverAccepted, ReceiveAccepted
  <2>2. conns[c].receivedConnectionRequest
    BY <2>1 DEF DialerKnows
  <2>3. PICK d \in DOMAIN conns : InStep(a, d)
    BY <2>1 DEF DialInStep
  <2>4. d = c
    BY <1>1, <2>3, TheConn
  <2>5. InStep(a, c)
    BY <2>3, <2>4
  <2>6. phase'[a] = "connected"
    BY <1>5, <2>1 DEF DialerKnows
  <2>7. conns[c].connected \/ "NewIncoming" \in unacked'[a]
    BY <1>5, <2>1, <2>5 DEF InStep, DialerKnows
  <2>8. InStep(a, c)'
    BY <1>2, <1>3, <1>6, <2>1, <2>2, <2>5, <2>6, <2>7 DEF InStep
  <2>9. DialInStep(a)'
    BY <1>3, <2>6, <2>8 DEF DialInStep
  <2>10. \A b \in Addrs \ {a} : phase'[b] = phase[b] /\ unacked'[b] = unacked[b]
    BY <1>5, <2>1
  <2> QED BY <1>3, <1>4, <1>6, <2>9, <2>10, InStepOthers
<1>8. CASE DropAccepted(c)
  <2>1. /\ UNCHANGED <<phase, mtu, unacked>>
        /\ conns[c].closed \/ phase[a] \notin {"connect", "connected"}
    BY <1>1, <1>8 DEF DropAccepted, dialerVars
  <2>2. phase[a] \notin {"connect", "connected"}
    <3> SUFFICES ASSUME phase[a] \in {"connect", "connected"}, conns[c].closed PROVE FALSE
      BY <2>1
    <3>1. PICK d \in DOMAIN conns : InStep(a, d)
      BY DEF DialInStep
    <3>2. d = c
      BY <1>1, <3>1, TheConn
    <3> QED BY <3>1, <3>2 DEF InStep
  <2>3. ASSUME NEW d \in DOMAIN conns, InStep(a, d)
        PROVE  InStep(a, d)'
    BY <1>2, <1>3, <2>1, <2>2, <2>3 DEF InStep
  <2>4. ASSUME NEW m \in toClient', m.type = "Reply2", m.addr = a,
               phase'[a] = "openConnection"
        PROVE  \E d \in DOMAIN conns' : /\ InStep(a, d)'
                                        /\ ~conns'[d].receivedConnectionRequest
                                        /\ conns'[d].mtu = m.mtu
    <3>1. PICK d \in DOMAIN conns : /\ InStep(a, d)
                                    /\ ~conns[d].receivedConnectionRequest
                                    /\ conns[d].mtu = m.mtu
      BY <1>6, <2>1, <2>4 DEF DialInStep
    <3> QED BY <1>2, <1>3, <2>3, <3>1
  <2>5. DialInStep(a)'
    BY <2>1, <2>2, <2>4 DEF DialInStep
  <2> QED BY <1>3, <1>4, <1>6, <2>1, <2>5, InStepOthers
<1> QED BY <1>7, <1>8

\* updateConnections gives up only on a Conn whose dialer has gone: whatever
\* else it could be waiting for is under way.
LEMMA InStepUpdater ==
  ASSUME Timely, HandshakeInv, MessagesOK, ServiceOK, OnlyOutdatedBlocked, UpdaterStep,
         UNCHANGED dialerVars, listening, \A b \in Addrs : DialInStep(b)
  PROVE  \A b \in Addrs : DialInStep(b)'
<1>1. ASSUME NEW a \in Addrs, UpdateConnected(a)
      PROVE  \A b \in Addrs : DialInStep(b)'
  <2>1. \A c \in DOMAIN conns : ConnKept(c)
    BY <1>1, UpdateConnectedEffect DEF ConnKept, MapKept, ConnsPlaced
  <2>2. UNCHANGED toClient
    BY <1>1 DEF UpdateConnected
  <2> QED BY <2>1, <2>2, InStepFrame DEF dialerVars
<1>2. ASSUME NEW a \in Addrs, SequenceTimeout(a), TimeOut(a)
      PROVE  \A b \in Addrs : DialInStep(b)'
  <2>1. PICK c : c = connections[a]
    OBVIOUS
  <2>2. c # 0 /\ ~conns[c].connected /\ CloseConn(c)
    BY <1>2, <2>1 DEF SequenceTimeout
  <2>3. c \in DOMAIN conns /\ conns[c].addr = a /\ ~conns[c].closed
    BY <2>1, <2>2 DEF HandshakeInv, HandshakeCore, MapValid
  <2>4. /\ \A m \in Messaging : m.addr # a
        /\ ~conns[c].unacked
        /\ unacked[a] # {} => ~Reachable(a, c)
    BY <1>2, <2>3, Quiet
  <2>5. phase[a] \notin {"connect", "connected"}
    <3> SUFFICES ASSUME phase[a] \in {"connect", "connected"} PROVE FALSE
      OBVIOUS
    <3>1. Reachable(a, c)
      BY <2>1, <2>2, <2>3, HostNotBlocked DEF Reachable
    <3>2. PICK d \in DOMAIN conns : InStep(a, d)
      BY DEF DialInStep
    <3>3. d = c
      BY <2>3, <3>2, TheConn
    <3>4. unacked[a] # {}
      BY <2>2, <2>4, <3>2, <3>3 DEF InStep
    <3> QED BY <2>4, <3>1, <3>4
  <2>6. \A m \in toClient : m.addr # a
    BY <2>4 DEF Messaging
  <2> QED BY <2>2, <2>3, <2>5, <2>6, InStepClosed
<1>3. CASE UpdateSend \/ UpdateDelete \/ UpdateReturn
  <2>1. UNCHANGED <<conns, toClient>>
    BY <1>3 DEF UpdateSend, UpdateDelete, UpdateReturn, connVars
  <2> QED BY <2>1, InStepFrame DEF ConnKept, dialerVars
<1> QED BY <1>1, <1>2, <1>3 DEF UpdaterStep

\* Every step: the dialers and their Conns stay in step.
LEMMA InStepStep ==
  ASSUME Timely, HandshakeInv, TimelyInv, [Next]_vars
  PROVE  DialsInStep'
<1>1. MessagesOK /\ ServiceOK /\ DialerKnows /\ OnlyOutdatedBlocked
  BY DEF TimelyInv
<1>2. SUFFICES ASSUME listening' PROVE \A b \in Addrs : DialInStep(b)'
  BY DEF DialsInStep
<1>3. listening
  BY <1>2 DEF Next, vars, listenerVars, WorkerStep, Dispatch, StoreConn, HandleRequest1,
       HandleRequest2, ConnStep, ReceiveConnectionRequest, ReceiveNewIncoming, ConnCloses,
       HandleDisconnect, IdleTimeout, DeliverAccepted, DropAccepted, UpdaterStep,
       UpdateConnected, SequenceTimeout, UpdateSend, UpdateDelete, UpdateReturn, Accept,
       Housekeeping, RotateSalts, Unblock, CloseListener, CloseIncoming, LoseMessage,
       DuplicateRequest
<1>4. \A b \in Addrs : DialInStep(b)
  BY <1>3 DEF TimelyInv, DialsInStep
<1>5. ASSUME UNCHANGED <<dialerVars, conns>>, toClient' \subseteq toClient
      PROVE  \A b \in Addrs : DialInStep(b)'
  BY <1>4, <1>5, InStepFrame DEF ConnKept, dialerVars
<1>6. ASSUME NEW a \in Addrs, DialerStep(a), UNCHANGED listenerVars
      PROVE  \A b \in Addrs : DialInStep(b)'
  BY <1>1, <1>4, <1>6, InStepDialer DEF listenerVars, connVars
<1>7. CASE WorkerStep /\ UNCHANGED dialerVars
  BY <1>3, <1>4, <1>7, InStepWorker
<1>8. ASSUME NEW a \in Addrs, NEW c \in DOMAIN conns, ConnStep(a, c)
      PROVE  \A b \in Addrs : DialInStep(b)'
  BY <1>1, <1>4, <1>8, InStepPackets
<1>9. ASSUME NEW c \in DOMAIN conns, ConnCloses(c), UNCHANGED dialerVars
      PROVE  \A b \in Addrs : DialInStep(b)'
  BY <1>1, <1>3, <1>4, <1>9, InStepCloses
<1>10. ASSUME NEW c \in DOMAIN conns, DeliverAccepted(c) \/ DropAccepted(c)
       PROVE  \A b \in Addrs : DialInStep(b)'
  BY <1>1, <1>3, <1>4, <1>10, InStepAccepted
<1>11. CASE UpdaterStep /\ UNCHANGED dialerVars
  BY <1>1, <1>3, <1>4, <1>11, InStepUpdater
<1>12. CASE (Accept \/ Housekeeping \/ CloseListener \/ CloseIncoming) /\ UNCHANGED dialerVars
  BY <1>5, <1>12 DEF Accept, Housekeeping, RotateSalts, Unblock, CloseListener, CloseIncoming,
                     connVars
<1>13. ASSUME NEW m \in toServer \cup toClient, LoseMessage(m)
       PROVE  \A b \in Addrs : DialInStep(b)'
  BY <1>5, <1>13 DEF LoseMessage, listenerVars, connVars
<1>14. ASSUME NEW m \in toServer, DuplicateRequest(m)
       PROVE  \A b \in Addrs : DialInStep(b)'
  BY <1>5, <1>14 DEF DuplicateRequest, connVars
<1>15. CASE UNCHANGED vars
  BY <1>5, <1>15 DEF vars, listenerVars, connVars
<1> QED
  BY <1>6, <1>7, <1>8, <1>9, <1>10, <1>11, <1>12, <1>13, <1>14, <1>15 DEF Next
-----------------------------------------------------------------------------
\* Nothing has been sent, nobody is served and nobody is blocked at first.
LEMMA TimelyInitial ==
  ASSUME Init
  PROVE  TimelyInv
<1>1. /\ toServer = {} /\ toClient = {} /\ unconnected = {} /\ blocks = {}
      /\ DOMAIN conns = {} /\ updater.op = "idle"
      /\ \A w \in Workers : worker[w] = 0
      /\ \A a \in Addrs : /\ connections[a] = 0 /\ phase[a] = "idle" /\ tries[a] = 0
                          /\ unacked[a] = {} /\ fetched[a] = 0
  BY DEF Init, DialerInit, ListenerInit, Idle
<1>2. Openings = {}
  BY <1>1 DEF Openings, Messaging
<1>3. MessagesOK
  BY <1>1, <1>2, DialerAssumption
     DEF MessagesOK, Directed, SizesTaken, OneAtATime, StartsClean, OutdatedRefused
<1>4. ServiceOK
  BY <1>1 DEF ServiceOK, ServedSettled, DeleteDone, OpenPlaced, WorkerAlone, OneConn, Served,
              HasConn
<1>5. DialerKnows /\ DialsInStep /\ OnlyOutdatedBlocked
  BY <1>1 DEF DialerKnows, DialsInStep, DialInStep, OnlyOutdatedBlocked
<1> QED BY <1>3, <1>4, <1>5 DEF TimelyInv

\* Every step keeps the invariant of a timely network.
LEMMA TimelyStep ==
  ASSUME Timely, HandshakeInv, TimelyInv, [Next]_vars
  PROVE  TimelyInv'
<1>1. MessagesOK /\ ServiceOK /\ DialerKnows /\ OnlyOutdatedBlocked
  BY DEF TimelyInv
<1>2. MessagesOK' /\ SettledKept
  BY <1>1, MessagesStep
<1>3. ServiceOK'
  BY <1>1, <1>2, ServiceStep
<1>4. DialerKnows' /\ DialsInStep' /\ OnlyOutdatedBlocked'
  BY <1>1, KnowsStep, InStepStep, BlocksStep
<1> QED BY <1>2, <1>3, <1>4 DEF TimelyInv

\* A timely network: one message of an address at a time, one open Conn of an
\* address, and every dialer in step with its Conn.
THEOREM TimelyInvariant == Timely => (Spec => []TimelyInv)
<1> SUFFICES ASSUME Timely PROVE Spec => []TimelyInv
  OBVIOUS
<1>1. Init => TimelyInv
  BY TimelyInitial
<1>2. HandshakeInv /\ TimelyInv /\ [Next]_vars => TimelyInv'
  BY TimelyStep
<1> QED BY <1>1, <1>2, HandshakeInvariant, PTL DEF Spec

\* A dialer that has its Conn is in step with one that took its request.
LEMMA TimelyServed ==
  ASSUME HandshakeInv, TimelyInv
  PROVE  ConnectedIsServed
<1> SUFFICES ASSUME NEW a \in Addrs, phase[a] = "connected", listening
             PROVE  /\ connections[a] # 0
                    /\ conns[connections[a]].receivedConnectionRequest
                    /\ conns[connections[a]].mtu = mtu[a]
  BY DEF ConnectedIsServed
<1>1. PICK c \in DOMAIN conns : InStep(a, c)
  BY DEF TimelyInv, DialsInStep, DialInStep
<1>2. /\ conns[c].addr = a /\ ~conns[c].closed /\ conns[c].mtu = mtu[a]
      /\ conns[c].receivedConnectionRequest
  BY <1>1 DEF InStep
<1>3. c # 0
  BY ConnFields DEF HandshakeInv
<1>4. connections[a] = c
  <2>1. \A w \in Workers : worker[w] # c
    BY <1>2, <1>3 DEF TimelyInv, ServiceOK, WorkerAlone
  <2> QED BY <1>2, <2>1 DEF TimelyInv, ServiceOK, OpenPlaced
<1> QED BY <1>2, <1>3, <1>4

\* In a timely network a dialer whose DialContext returned has a Conn at the
\* other end, in the map and of the same MTU, for as long as both are open.
THEOREM ConnectedIsServedHolds == Timely => (Spec => []ConnectedIsServed)
<1> SUFFICES ASSUME Timely PROVE Spec => []ConnectedIsServed
  OBVIOUS
<1>1. HandshakeInv /\ TimelyInv => ConnectedIsServed
  BY TimelyServed
<1>2. Spec => []TimelyInv
  BY TimelyInvariant
<1> QED BY <1>1, <1>2, HandshakeInvariant, PTL
=============================================================================
