------------------------------ MODULE Listener ------------------------------
(***************************************************************************)
(* The listening end of the connection sequence (listener.go, handler.go): *)
(* the goroutine that reads the socket, the workers that answer messages   *)
(* from addresses without a connection, the map of connections, the        *)
(* goroutine of every Conn, updateConnections, which hands finished        *)
(* connections to Accept, the rotation of the cookie salts and the blocks. *)
(*                                                                         *)
(* A Conn is a number, its state a record of conns.  A cookie is the salt  *)
(* it was computed from: the checksum also covers the address, which a     *)
(* dialer does not change.  Time appears as the choice of when a timeout   *)
(* fires, a block ends or the salts rotate.                                *)
(***************************************************************************)
EXTENDS Dialer

CONSTANTS
  HostOf,          \* the IP of an address: blocks are per IP
  Workers,         \* unconnected workers, 4 in the code
  IncomingSize,    \* capacity of listener.incoming, 8 in the code
  MinMTU, MaxMTU,  \* minMTUSize and maxMTUSize
  DisableCookies,  \* of ListenConfig
  Blocking,        \* BlockDuration is not negative
  FilterMayFail,   \* RegisterConnection of the filter may return an error
  MaxConns,        \* bound: connections created
  MaxRotations     \* bound: rotations of the salts

ASSUME ListenerAssumption ==
  /\ DOMAIN HostOf = Addrs
  /\ IncomingSize \in Nat
  /\ MinMTU \in Nat /\ MaxMTU \in Nat /\ MinMTU <= MaxMTU
  /\ DisableCookies \in BOOLEAN /\ Blocking \in BOOLEAN
  /\ FilterMayFail \in BOOLEAN
  /\ MaxConns \in Nat /\ MaxRotations \in Nat

VARIABLES
  listening,          \* FALSE once Close was called
  unconnected,        \* unconnectedDatagrams: messages waiting for a worker
  worker,             \* the Conn a worker is about to store, 0 if it is idle
  connections,        \* address -> Conn, 0 if there is none
  conns,              \* the Conns created so far
  currentCookieSalt, prevCookieSalt,
  blocks,             \* hosts that are blocked
  updater,            \* what updateConnections is doing
  incoming,           \* finished connections waiting for Accept
  incomingClosed,     \* listen has returned and closed the channel
  acceptedConns,      \* history: the connections Accept has returned
  panicked            \* a send on a closed channel

connVars == <<connections, conns>>
saltVars == <<currentCookieSalt, prevCookieSalt>>
acceptVars == <<updater, incoming, incomingClosed, acceptedConns, panicked>>
listenerVars == <<listening, unconnected, worker, connVars, saltVars, blocks,
                  acceptVars>>

Hosts == {HostOf[a] : a \in Addrs}
ConnIDs == 0..MaxConns
Conns == [addr : Addrs, mtu : MinMTU..MaxMTU,
          receivedConnectionRequest : BOOLEAN, connected : BOOLEAN,
          accepted : BOOLEAN, closed : BOOLEAN,
          unacked : BOOLEAN]   \* connection request accepted is on its way

Idle == [op |-> "idle", conn |-> 0]

ListenerTypeOK ==
  /\ listening \in BOOLEAN
  /\ unconnected \subseteq Messages
  /\ worker \in [Workers -> ConnIDs]
  /\ connections \in [Addrs -> ConnIDs]
  /\ conns \in Seq(Conns)
  /\ currentCookieSalt \in Nat /\ prevCookieSalt \in Nat
  /\ blocks \subseteq Hosts
  /\ updater \in [op : {"idle", "send", "delete", "returned"}, conn : ConnIDs]
  /\ incoming \in Seq(ConnIDs)
  /\ incomingClosed \in BOOLEAN
  /\ acceptedConns \in Seq(ConnIDs)
  /\ panicked \in BOOLEAN

ListenerInit ==
  /\ listening = TRUE
  /\ unconnected = {}
  /\ worker = [w \in Workers |-> 0]
  /\ connections = [a \in Addrs |-> 0]
  /\ conns = <<>>
  /\ currentCookieSalt = 0 /\ prevCookieSalt = 0
  /\ blocks = {}
  /\ updater = Idle
  /\ incoming = <<>> /\ incomingClosed = FALSE /\ acceptedConns = <<>>
  /\ panicked = FALSE
-----------------------------------------------------------------------------
\* dispatchDatagram on an unconnected message.
Dispatch(m) ==
  /\ listening
  /\ m \in toServer /\ m.type \in {"Request1", "Request2"}
  /\ unconnected' = IF HostOf[m.addr] \in blocks THEN unconnected
                    ELSE unconnected \cup {m}
  /\ toServer' = toServer \ {m}
  /\ UNCHANGED <<listening, worker, connVars, saltVars, blocks, acceptVars,
                 toClient>>

\* handleUnconnectedDatagram: an error blocks the host of the sender, unless
\* the error is that the socket is closed.
Block(a) == blocks' = IF Blocking THEN blocks \cup {HostOf[a]} ELSE blocks

Reply(m, type, size, salt) ==
  toClient' = IF listening
              THEN toClient \cup {Message(type, m.addr, size, salt, m.n)}
              ELSE toClient

Smaller(x, y) == IF x < y THEN x ELSE y

\* The conditions of both requests that end in an error.
Refused(m) == connections[m.addr] # 0 \/ m.mtu < MinMTU

\* handleOpenConnectionRequest1.
HandleRequest1(w, m) ==
  /\ worker[w] = 0
  /\ m \in unconnected /\ m.type = "Request1"
  /\ unconnected' = unconnected \ {m}
  /\ \/ /\ Refused(m)
        /\ Block(m.addr)
        /\ UNCHANGED toClient
     \/ /\ ~Refused(m) /\ m.addr \in Outdated
        /\ Reply(m, "Incompatible", 0, 0)
        /\ Block(m.addr)
     \/ /\ ~Refused(m) /\ m.addr \notin Outdated
        /\ Reply(m, "Reply1", Smaller(m.mtu, MaxMTU), currentCookieSalt)
        /\ UNCHANGED blocks
  /\ UNCHANGED <<listening, worker, connVars, saltVars, acceptVars, toServer>>

\* Mutants of NewConn: without the 28 bytes of the headers, and with the
\* largest size whatever was agreed.
NewConnLessHeaders(a, size) ==
  [addr |-> a, mtu |-> size - 28, receivedConnectionRequest |-> FALSE,
   connected |-> FALSE, accepted |-> FALSE, closed |-> FALSE,
   unacked |-> FALSE]

NewConnLargest(a, size) ==
  [addr |-> a, mtu |-> MaxMTU, receivedConnectionRequest |-> FALSE,
   connected |-> FALSE, accepted |-> FALSE, closed |-> FALSE,
   unacked |-> FALSE]

NewConn(a, size) ==
  [addr |-> a, mtu |-> size, receivedConnectionRequest |-> FALSE,
   connected |-> FALSE, accepted |-> FALSE, closed |-> FALSE,
   unacked |-> FALSE]

\* The test of the cookie: a cookie that fits both salts is refused too.
CookieOK(salt, current, prev) ==
  DisableCookies \/ (salt = current) # (salt = prev)

Rotate ==
  /\ currentCookieSalt < MaxRotations
  /\ currentCookieSalt' = currentCookieSalt + 1
  /\ prevCookieSalt' = currentCookieSalt

\* handleOpenConnectionRequest2 up to the reply.  The salts are read without
\* a lock: they may rotate between the two reads, and the second one then
\* sees the salt the first one saw.
HandleRequest2(w, m) ==
  /\ worker[w] = 0
  /\ m \in unconnected /\ m.type = "Request2"
  /\ unconnected' = unconnected \ {m}
  /\ \/ /\ Refused(m)
        /\ Block(m.addr)
        /\ UNCHANGED <<worker, conns, saltVars, toClient>>
     \/ /\ ~Refused(m)
        /\ ~CookieOK(m.cookie, currentCookieSalt, prevCookieSalt)
        /\ UNCHANGED <<worker, conns, saltVars, blocks, toClient>>
     \/ /\ ~Refused(m) /\ ~DisableCookies
        /\ Rotate
        /\ ~CookieOK(m.cookie, currentCookieSalt, prevCookieSalt')
        /\ UNCHANGED <<worker, conns, blocks, toClient>>
     \/ /\ ~Refused(m)
        /\ CookieOK(m.cookie, currentCookieSalt, prevCookieSalt)
        /\ Len(conns) < MaxConns
        /\ conns' = Append(conns, NewConn(m.addr, Smaller(m.mtu, MaxMTU)))
        /\ Reply(m, "Reply2", Smaller(m.mtu, MaxMTU), 0)
        /\ worker' = [worker EXCEPT ![w] = IF listening THEN Len(conns) + 1
                                                        ELSE 0]
        /\ UNCHANGED <<saltVars, blocks>>
     \/ /\ ~Refused(m) /\ FilterMayFail
        /\ CookieOK(m.cookie, currentCookieSalt, prevCookieSalt)
        /\ Len(conns) < MaxConns
        /\ conns' = Append(conns, NewConn(m.addr, Smaller(m.mtu, MaxMTU)))
        /\ Block(m.addr)
        /\ UNCHANGED <<worker, saltVars, toClient>>
  /\ UNCHANGED <<listening, connections, acceptVars, toServer>>

\* The end of handleOpenConnectionRequest2, after the reply was sent.
StoreConn(w) ==
  LET c == worker[w]
  IN  /\ c # 0
      /\ connections' = [connections EXCEPT ![conns[c].addr] = c]
      /\ worker' = [worker EXCEPT ![w] = 0]
      /\ UNCHANGED <<listening, unconnected, conns, saltVars, blocks,
                     acceptVars, toServer, toClient>>

RotateSalts ==
  /\ listening
  /\ Rotate
  /\ UNCHANGED <<listening, unconnected, worker, connVars, blocks, acceptVars,
                 toServer, toClient>>

\* gcBlocks, once the block duration is over.
Unblock(h) ==
  /\ listening
  /\ h \in blocks
  /\ blocks' = blocks \ {h}
  /\ UNCHANGED <<listening, unconnected, worker, connVars, saltVars,
                 acceptVars, toServer, toClient>>
-----------------------------------------------------------------------------
Reachable(a, c) ==
  /\ listening /\ HostOf[a] \notin blocks
  /\ connections[a] = c /\ c # 0
  /\ ~conns[c].closed

\* handleConnectionRequest.
ReceiveConnectionRequest(a, c) ==
  /\ Reachable(a, c)
  /\ "ConnectionRequest" \in unacked[a]
  /\ conns' = [conns EXCEPT ![c].receivedConnectionRequest = TRUE,
                            ![c].unacked = TRUE]
  /\ unacked' = [unacked EXCEPT ![a] = @ \ {"ConnectionRequest"}]
  /\ UNCHANGED <<listening, unconnected, worker, connections, saltVars,
                 blocks, acceptVars, phase, tries, mtu, cookie,
                 fetched, toServer, toClient>>

\* Mutant of ReceiveNewIncoming: without the test of
\* receivedConnectionRequest and the order of the packets.
ReceiveNewIncomingUnordered(a, c) ==
  /\ Reachable(a, c)
  /\ "NewIncoming" \in unacked[a]
  /\ conns' = [conns EXCEPT ![c].connected = TRUE]
  /\ unacked' = [unacked EXCEPT ![a] = @ \ {"NewIncoming"}]
  /\ UNCHANGED <<listening, unconnected, worker, connections, saltVars,
                 blocks, acceptVars, phase, tries, mtu, cookie, fetched,
                 toServer, toClient>>

\* handleNewIncomingConnection.  The packet queue of a Conn that did not get
\* the connection request keeps the packet for ever.
ReceiveNewIncoming(a, c) ==
  /\ Reachable(a, c)
  /\ "NewIncoming" \in unacked[a]
  /\ conns' = [conns EXCEPT
                 ![c].connected = conns[c].receivedConnectionRequest]
  /\ unacked' = [unacked EXCEPT ![a] = @ \ {"NewIncoming"}]
  /\ UNCHANGED <<listening, unconnected, worker, connections, saltVars,
                 blocks, acceptVars, phase, tries, mtu, cookie,
                 fetched, toServer, toClient>>

\* The order index of what a Conn sends next: 1 after the packet connection
\* request accepted.
NextOrderIndex(c) == IF conns[c].receivedConnectionRequest THEN 1 ELSE 0

\* Mutant of CloseConn: the handler does not delete the address.
CloseConnKeepingEntry(c) ==
  /\ conns' = [conns EXCEPT ![c].closed = TRUE]
  /\ toClient' =
       IF listening
       THEN toClient \cup
              {Message("Disconnect", conns[c].addr, 0, 0, NextOrderIndex(c))}
       ELSE toClient
  /\ UNCHANGED connections

\* Mutant of CloseConn: only a Conn that is in the map is closed.
CloseConnMapped(c) ==
  IF connections[conns[c].addr] = c
  THEN /\ conns' = [conns EXCEPT ![c].closed = TRUE]
       /\ connections' = [connections EXCEPT ![conns[c].addr] = 0]
       /\ toClient' =
            IF listening
            THEN toClient \cup
                   {Message("Disconnect", conns[c].addr, 0, 0, NextOrderIndex(c))}
            ELSE toClient
  ELSE UNCHANGED <<connVars, toClient>>

\* closeImmediately: the notification takes the next order index, and the
\* handler deletes whatever Conn is stored under the address.
CloseConn(c) ==
  /\ conns' = [conns EXCEPT ![c].closed = TRUE]
  /\ connections' = [connections EXCEPT ![conns[c].addr] = 0]
  /\ toClient' =
       IF listening
       THEN toClient \cup
              {Message("Disconnect", conns[c].addr, 0, 0, NextOrderIndex(c))}
       ELSE toClient

\* The disconnect notification of the dialer, under the order index due.
HandleDisconnect(a, c, m) ==
  /\ Reachable(a, c)
  /\ m \in toServer /\ m.type = "Disconnect" /\ m.addr = a
  /\ toServer' = toServer \ {m}
  /\ IF m.n = IF conns[c].connected THEN 2
              ELSE IF conns[c].receivedConnectionRequest THEN 1 ELSE 0
     THEN CloseConn(c)
     ELSE UNCHANGED <<connVars, toClient>>
  /\ UNCHANGED <<listening, unconnected, worker, saltVars, blocks, acceptVars>>

\* tick: nothing was received from the other end for 15 seconds.
IdleTimeout(c) ==
  /\ c \in DOMAIN conns /\ ~conns[c].closed
  /\ \A w \in Workers : worker[w] # c
  /\ CloseConn(c)
  /\ UNCHANGED <<listening, unconnected, worker, saltVars, blocks, acceptVars,
                 toServer>>
-----------------------------------------------------------------------------
\* Mutant of UpdateConnected: accepted is tested, and not set.
UpdateConnectedAgain(a) ==
  LET c == connections[a]
  IN  /\ updater = Idle
      /\ c # 0 /\ conns[c].connected /\ ~conns[c].accepted
      /\ updater' = [op |-> "send", conn |-> c]
      /\ UNCHANGED <<listening, unconnected, worker, connVars, saltVars,
                     blocks, incoming, incomingClosed, acceptedConns,
                     panicked, toServer, toClient>>

\* updateConnections on a Conn that has finished the connection sequence.  When
\* the listener is closed too, select takes either case.
UpdateConnected(a) ==
  LET c == connections[a]
  IN  /\ updater = Idle
      /\ c # 0 /\ conns[c].connected /\ ~conns[c].accepted
      /\ conns' = [conns EXCEPT ![c].accepted = TRUE]
      /\ updater' = [op |-> "send", conn |-> c]
      /\ UNCHANGED <<listening, unconnected, worker, connections, saltVars,
                     blocks, incoming, incomingClosed, acceptedConns,
                     panicked, toServer, toClient>>

\* Mutant of UpdateSend: a Conn that finds the channel full is dropped.
UpdateSendDropping ==
  /\ updater.op = "send" /\ ~incomingClosed
  /\ incoming' = IF Len(incoming) < IncomingSize
                 THEN Append(incoming, updater.conn) ELSE incoming
  /\ updater' = Idle
  /\ UNCHANGED <<listening, unconnected, worker, connVars, saltVars, blocks,
                 incomingClosed, acceptedConns, panicked, toServer, toClient>>

\* The send on listener.incoming, which waits while the channel is full.
UpdateSend ==
  /\ updater.op = "send"
  /\ \/ /\ incomingClosed
        /\ panicked' = TRUE
        /\ UNCHANGED <<incoming, updater>>
     \/ /\ ~incomingClosed /\ Len(incoming) < IncomingSize
        /\ incoming' = Append(incoming, updater.conn)
        /\ updater' = Idle
        /\ UNCHANGED panicked
  /\ UNCHANGED <<listening, unconnected, worker, connVars, saltVars, blocks,
                 incomingClosed, acceptedConns, toServer, toClient>>

\* updateConnections on a Conn that has not finished it in time.
SequenceTimeout(a) ==
  LET c == connections[a]
  IN  /\ listening /\ updater = Idle
      /\ c # 0 /\ ~conns[c].connected
      /\ CloseConn(c)
      /\ updater' = [op |-> "delete", conn |-> c]
      /\ UNCHANGED <<listening, unconnected, worker, saltVars, blocks,
                     incoming, incomingClosed, acceptedConns, panicked,
                     toServer>>

\* It deletes the address once more, whatever is stored there by now.
UpdateDelete ==
  /\ updater.op = "delete"
  /\ connections' = [connections EXCEPT ![conns[updater.conn].addr] = 0]
  /\ updater' = Idle
  /\ UNCHANGED <<listening, unconnected, worker, conns, saltVars, blocks,
                 incoming, incomingClosed, acceptedConns, panicked, toServer,
                 toClient>>

UpdateReturn ==
  /\ ~listening /\ updater = Idle
  /\ updater' = [op |-> "returned", conn |-> 0]
  /\ UNCHANGED <<listening, unconnected, worker, connVars, saltVars, blocks,
                 incoming, incomingClosed, acceptedConns, panicked, toServer,
                 toClient>>

Accept ==
  /\ incoming # <<>>
  /\ acceptedConns' = Append(acceptedConns, Head(incoming))
  /\ incoming' = Tail(incoming)
  /\ UNCHANGED <<listening, unconnected, worker, connVars, saltVars, blocks,
                 updater, incomingClosed, panicked, toServer, toClient>>

\* Close closes the channel closed and the sockets.
CloseListener ==
  /\ listening
  /\ listening' = FALSE
  /\ UNCHANGED <<unconnected, worker, connVars, saltVars, blocks, acceptVars,
                 toServer, toClient>>

\* listen: the loops on the sockets have returned.
CloseIncoming ==
  /\ ~listening /\ ~incomingClosed
  /\ incomingClosed' = TRUE
  /\ UNCHANGED <<listening, unconnected, worker, connVars, saltVars, blocks,
                 updater, incoming, acceptedConns, panicked, toServer,
                 toClient>>
=============================================================================
