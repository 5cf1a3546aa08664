----------------------------- MODULE Handshake -----------------------------
(***************************************************************************)
(* Dialers, a listener and the network between them: the connection        *)
(* sequence from DialContext to Accept.                                    *)
(*                                                                         *)
(* UDP reorders messages, loses them and delivers some twice.  Timeouts    *)
(* are steps: with SlowNetwork they may fire while an answer is on its     *)
(* way, otherwise only once nothing of the address is under way any more.  *)
(***************************************************************************)
EXTENDS Listener

CONSTANTS
  LossyTypes,        \* types of the messages that UDP may lose
  MaxLosses,         \* bound: messages lost
  MaxDuplicates,     \* bound: messages delivered twice
  SlowNetwork,       \* timeouts may fire although an answer is on its way
  MaxPending,        \* bound: messages on their way when a timeout fires
  DialsMayTimeOut,   \* the context of a dial has a deadline
  MayClose           \* the application may close the listener

ASSUME HandshakeAssumption ==
  /\ MaxLosses \in Nat /\ MaxDuplicates \in Nat /\ MaxPending \in Nat
  /\ SlowNetwork \in BOOLEAN
  /\ DialsMayTimeOut \in BOOLEAN
  /\ MayClose \in BOOLEAN

VARIABLES losses, duplicates

faults == <<losses, duplicates>>
vars == <<dialerVars, listenerVars, toServer, toClient, faults>>

TypeOK ==
  /\ DialerTypeOK
  /\ ListenerTypeOK
  /\ toServer \subseteq Messages /\ toClient \subseteq Messages
  /\ losses \in 0..MaxLosses /\ duplicates \in 0..MaxDuplicates

Init ==
  /\ DialerInit
  /\ ListenerInit
  /\ toServer = {} /\ toClient = {}
  /\ losses = 0 /\ duplicates = 0

\* Something of a is on its way, and will be handled.
UnderWay(a) ==
  \/ \E m \in toServer \cup toClient \cup unconnected : m.addr = a
  \/ \E w \in Workers : worker[w] # 0 /\ conns[worker[w]].addr = a
  \/ \E c \in DOMAIN conns : conns[c].addr = a /\ conns[c].unacked
  \/ unacked[a] # {} /\ \E c \in DOMAIN conns : Reachable(a, c)

TimeOut(a) ==
  \/ ~UnderWay(a)
  \/ /\ SlowNetwork
     /\ Cardinality(toServer \cup toClient \cup unconnected) <= MaxPending

\* Nobody answers what the Conn c sends, or asks it anything.
Silent(c) ==
  \/ SlowNetwork \/ ~listening
  \/ connections[conns[c].addr] # c
  \/ /\ phase[conns[c].addr] \notin {"connect", "connected"}
     /\ ~UnderWay(conns[c].addr)
-----------------------------------------------------------------------------
DialerStep(a) ==
  \/ Dial(a)
  \/ Request1(a) /\ ( \/ phase[a] = "discoverMTU" /\ tries[a] = 0
                      \/ TimeOut(a) /\ (phase[a] = "discoverMTU" \/ SlowNetwork))
  \/ Reply2Timeout(a) /\ TimeOut(a)
  \/ DialTimeout(a) /\ DialsMayTimeOut
  \/ DialerIdleTimeout(a) /\ TimeOut(a)
       /\ ~\E c \in DOMAIN conns : Reachable(a, c)
  \/ \E m \in toClient :
       /\ m.addr = a
       /\ \/ ReceiveReply1(a, m) \/ ReceiveIncompatible(a, m)
          \/ ReceiveReply2(a, m) \/ ReceiveDisconnect(a, m)
          \/ IgnoreMessage(a, m)

\* The unconnected messages: the reader of the socket and the workers.
WorkerStep ==
  \/ \E m \in toServer : Dispatch(m)
  \/ \E w \in Workers :
       \/ StoreConn(w)
       \/ \E m \in unconnected : HandleRequest1(w, m) \/ HandleRequest2(w, m)

\* The packets of the Conns.
ConnStep(a, c) ==
  \/ ReceiveConnectionRequest(a, c)
  \/ ReceiveNewIncoming(a, c)

ConnCloses(c) ==
  \/ \E a \in Addrs, m \in toServer : HandleDisconnect(a, c, m)
  \/ IdleTimeout(c) /\ Silent(c)

UpdaterStep ==
  \/ \E a \in Addrs : UpdateConnected(a)
  \/ \E a \in Addrs : SequenceTimeout(a) /\ TimeOut(a)
  \/ UpdateSend \/ UpdateDelete \/ UpdateReturn

Housekeeping ==
  \/ RotateSalts
  \/ \E h \in Hosts : Unblock(h)

\* A message of either direction that UDP loses, or one for a Conn or a
\* listener that is not there.
LoseMessage(m) ==
  /\ \/ /\ m.type \in LossyTypes /\ losses < MaxLosses
        /\ losses' = losses + 1
     \/ /\ m \in toServer
        /\ \/ ~listening
           \/ m.type = "Disconnect" /\ \A c \in DOMAIN conns : ~Reachable(m.addr, c)
        /\ UNCHANGED losses
  /\ toServer' = toServer \ {m}
  /\ toClient' = toClient \ {m}
  /\ UNCHANGED <<dialerVars, listenerVars, duplicates>>

\* UDP delivers a request twice.
DuplicateRequest(m) ==
  /\ duplicates < MaxDuplicates
  /\ listening /\ HostOf[m.addr] \notin blocks
  /\ m.type \in {"Request1", "Request2"}
  /\ duplicates' = duplicates + 1
  /\ unconnected' = unconnected \cup {m}
  /\ UNCHANGED <<dialerVars, listening, worker, connVars, saltVars, blocks,
                 acceptVars, toServer, toClient, losses>>

\* The packet connection request accepted reaches the dialer.
DeliverAccepted(c) ==
  /\ conns[c].unacked
  /\ conns' = [conns EXCEPT ![c].unacked = FALSE]
  /\ ReceiveAccepted(conns[c].addr)
  /\ UNCHANGED <<listening, unconnected, worker, connections, saltVars, blocks,
                 acceptVars, faults>>

\* It is not sent again once either Conn is closed.
DropAccepted(c) ==
  /\ conns[c].unacked
  /\ conns[c].closed \/ phase[conns[c].addr] \notin {"connect", "connected"}
  /\ conns' = [conns EXCEPT ![c].unacked = FALSE]
  /\ UNCHANGED <<dialerVars, listening, unconnected, worker, connections,
                 saltVars, blocks, acceptVars, toServer, toClient, faults>>

\* A panic ends the process of the listener.
Next ==
  \/ \E a \in Addrs : DialerStep(a) /\ UNCHANGED <<listenerVars, faults>>
  \/ ~panicked /\ WorkerStep /\ UNCHANGED <<dialerVars, faults>>
  \/ \E a \in Addrs, c \in DOMAIN conns :
       ~panicked /\ ConnStep(a, c) /\ UNCHANGED faults
  \/ \E c \in DOMAIN conns :
       ~panicked /\ ConnCloses(c) /\ UNCHANGED <<dialerVars, faults>>
  \/ \E c \in DOMAIN conns : DeliverAccepted(c) \/ DropAccepted(c)
  \/ ~panicked /\ UpdaterStep /\ UNCHANGED <<dialerVars, faults>>
  \/ ~panicked /\ Accept /\ UNCHANGED <<dialerVars, faults>>
  \/ ~panicked /\ Housekeeping /\ UNCHANGED <<dialerVars, faults>>
  \/ MayClose /\ CloseListener /\ UNCHANGED <<dialerVars, faults>>
  \/ CloseIncoming /\ UNCHANGED <<dialerVars, faults>>
  \/ \E m \in toServer \cup toClient : LoseMessage(m)
  \/ \E m \in toServer : DuplicateRequest(m)

Spec == Init /\ [][Next]_vars

\* The listener has no use for the Conn c: what comes from its address does
\* not reach it, and no worker will store it.
Lost(c) ==
  /\ c \in DOMAIN conns /\ connections[conns[c].addr] # c
  /\ \A w \in Workers : worker[w] # c

\* What the code's goroutines and the network do again and again: the reader,
\* the workers, the Conns and updateConnections are never stopped, the timers
\* fire, and an application accepts.  The sweep of updateConnections comes
\* round whatever is on its way (TimeOut bounds that only for the model), and
\* a Conn that nothing reaches any more is idle in the end.  UDP neither loses
\* nor delivers for ever, and nobody has to dial, to give up or to close.
Fairness ==
  /\ \A a \in Addrs : WF_vars(/\ DialerStep(a) /\ phase[a] # "idle"
                               /\ UNCHANGED <<listenerVars, faults>>)
  /\ WF_vars(/\ ~panicked /\ UNCHANGED <<dialerVars, faults>>
             /\ \E m \in toServer : Dispatch(m))
  /\ \A w \in Workers :
       WF_vars(/\ ~panicked /\ UNCHANGED <<dialerVars, faults>>
               /\ \/ StoreConn(w)
                  \/ \E m \in unconnected :
                       HandleRequest1(w, m) \/ HandleRequest2(w, m))
  /\ \A a \in Addrs :
       WF_vars(/\ ~panicked /\ UNCHANGED faults
               /\ \E c \in DOMAIN conns : ConnStep(a, c))
  /\ WF_vars(\E c \in DOMAIN conns : DeliverAccepted(c))
  /\ SF_vars(~panicked /\ UpdaterStep /\ UNCHANGED <<dialerVars, faults>>)
  /\ \A c \in 1..MaxConns :
       WF_vars(/\ ~panicked /\ Lost(c) /\ IdleTimeout(c) /\ Silent(c)
               /\ UNCHANGED <<dialerVars, faults>>)
  /\ WF_vars(~panicked /\ Accept /\ UNCHANGED <<dialerVars, faults>>)
  /\ WF_vars(~panicked /\ Housekeeping /\ UNCHANGED <<dialerVars, faults>>)

FairSpec == Spec /\ Fairness
-----------------------------------------------------------------------------
\* The Conns on their way to Accept and through it, in order.
HandedOver ==
  acceptedConns \o incoming
    \o (IF updater.op = "send" THEN <<updater.conn>> ELSE <<>>)

\* No Conn is handed to Accept twice, although updateConnections meets it in
\* the map at every tick (listener.go, updateConnections).
AcceptedOnce ==
  \A i, j \in DOMAIN HandedOver : HandedOver[i] = HandedOver[j] => i = j

\* A Conn handed to Accept is one whose dialer got as far as "connected": it
\* saw the connection request, and the dialer saw its answer (handler.go,
\* handleNewIncomingConnection; listener.go, updateConnections).
AcceptedAreConnected ==
  \A i \in DOMAIN HandedOver :
    LET c == HandedOver[i]
    IN  /\ conns[c].receivedConnectionRequest /\ conns[c].connected
        /\ fetched[conns[c].addr] = 1

\* A Conn in the map is open and indexed by its own address: no path that
\* closes a Conn leaves it behind, where its address would be refused for
\* ever (listenerConnectionHandler.close).
MapHoldsOpenConns ==
  \A a \in Addrs :
    connections[a] # 0 => /\ conns[connections[a]].addr = a
                          /\ ~conns[connections[a]].closed

\* While the network answers in time and nothing comes twice, a dialer whose
\* DialContext returned a Conn has one at the other end, in the map and of the
\* same MTU, although reply 2 leaves before the Conn is stored (dial.go,
\* connect; handler.go, handleOpenConnectionRequest2).  With a late or a
\* repeated request 2 it is false: the Conn of the copy takes the place of the
\* one the dialer uses.
ConnectedIsServed ==
  \A a \in Addrs :
    phase[a] = "connected" /\ listening =>
      LET c == connections[a]
      IN  c # 0 /\ conns[c].receivedConnectionRequest /\ conns[c].mtu = mtu[a]

\* Every dial succeeds although UDP loses requests and first replies, the
\* salts rotate and both are zero at first: DialContext starts again until
\* reply 2 comes (dial.go, DialContext; handler.go, cleanup).
DialsFinish ==
  \A a \in Addrs \ Outdated :
    phase[a] = "discoverMTU" ~> phase[a] = "connected"

\* The other end of every dial that succeeded comes out of Accept, although
\* the channel may be full when updateConnections finds it (listener.go,
\* updateConnections and Accept).
ConnectedIsAccepted ==
  \A a \in Addrs :
    phase[a] = "connected" ~>
      \E i \in DOMAIN acceptedConns : conns[acceptedConns[i]].addr = a

\* Every Conn the listener makes comes out of Accept or is closed, whatever
\* becomes of its dialer: a rival that took its place in the map, one that the
\* filter refused and that was never stored, and one whose entry was deleted
\* by address do not live on (handler.go, handleOpenConnectionRequest2 and
\* close; listener.go, updateConnections; conn.go, tick).
ConnsSettle ==
  \A c \in 1..MaxConns :
    c \in DOMAIN conns ~>
      \/ c \in DOMAIN conns /\ conns[c].closed
      \/ \E i \in DOMAIN acceptedConns : acceptedConns[i] = c
=============================================================================
