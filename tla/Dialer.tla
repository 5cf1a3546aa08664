------------------------------- MODULE Dialer -------------------------------
(***************************************************************************)
(* The dialing end of the connection sequence (dial.go, handler.go): each  *)
(* address of Addrs is the socket of one DialContext, which it keeps over  *)
(* all its retries.                                                        *)
(*                                                                         *)
(* The messages before the connection (open connection requests and their  *)
(* replies) are bare UDP.  Those after it (connection request, connection  *)
(* request accepted, new incoming connection) go through a Conn, which     *)
(* module Transfer models: here such a packet is in unacked until the      *)
(* other end has taken it, once.                                           *)
(***************************************************************************)
EXTENDS Naturals, Sequences, FiniteSets

CONSTANTS
  Addrs,         \* addresses of the dialers
  MTUSizes,      \* mtuSizes: the sizes tried, in order
  TriesPerSize,  \* requests sent for each size: 3 in the code
  Outdated       \* dialers of another protocol version than the listener

ASSUME DialerAssumption ==
  /\ MTUSizes \in Seq(Nat \ {0})
  /\ TriesPerSize \in Nat
  /\ Outdated \subseteq Addrs

VARIABLES
  phase,      \* where DialContext is
  tries,      \* requests sent by request1 in this call of discoverMTU
  mtu,        \* connState.mtu
  cookie,     \* connState.cookie
  unacked,    \* packets of the Conn that the listener has not taken yet
  fetched,    \* packets the Conn has handed to its handler
  toServer, toClient    \* UDP

dialerVars == <<phase, tries, mtu, cookie, unacked, fetched>>

Phases == {"idle", "discoverMTU", "openConnection", "connect", "connected",
           "failed", "closed"}

Messages == [type : {"Request1", "Reply1", "Incompatible", "Request2",
                     "Reply2", "Disconnect"},
             addr : Addrs, mtu : Nat, cookie : Nat, n : Nat]

DialerTypeOK ==
  /\ phase \in [Addrs -> Phases]
  /\ tries \in [Addrs -> 0..(TriesPerSize * Len(MTUSizes))]
  /\ mtu \in [Addrs -> Nat]
  /\ cookie \in [Addrs -> Nat]
  /\ unacked \in [Addrs -> SUBSET {"ConnectionRequest", "NewIncoming"}]
  /\ fetched \in [Addrs -> Nat]

DialerInit ==
  /\ phase = [a \in Addrs |-> "idle"]
  /\ tries = [a \in Addrs |-> 0]
  /\ mtu = [a \in Addrs |-> 0]
  /\ cookie = [a \in Addrs |-> 0]
  /\ unacked = [a \in Addrs |-> {}]
  /\ fetched = [a \in Addrs |-> 0]

Message(type, a, size, salt, n) ==
  [type |-> type, addr |-> a, mtu |-> size, cookie |-> salt, n |-> n]

\* A request of a goes to the listener; n is the iteration it belongs to.
Request(type, a, size, salt) ==
  toServer' = toServer \cup {Message(type, a, size, salt, tries[a])}
-----------------------------------------------------------------------------
\* DialContext opens the socket and enters discoverMTU.
Dial(a) ==
  /\ phase[a] = "idle"
  /\ phase' = [phase EXCEPT ![a] = "discoverMTU"]
  /\ UNCHANGED <<tries, mtu, cookie, unacked, fetched, toServer,
                 toClient>>

\* request1, an iteration.  It runs beside the loop that reads the replies:
\* when its ticker fires as the reply cancels it, it may send one more.
Request1(a) ==
  /\ phase[a] \in {"discoverMTU", "openConnection"}
  /\ tries[a] < TriesPerSize * Len(MTUSizes)
  /\ tries' = [tries EXCEPT ![a] = @ + 1]
  /\ Request("Request1", a, MTUSizes[tries[a] \div TriesPerSize + 1], 0)
  /\ UNCHANGED <<phase, mtu, cookie, unacked, fetched, toClient>>

\* discoverMTU takes the first reply 1 it reads, and openConnection sends
\* request 2 at once.
ReceiveReply1(a, m) ==
  /\ phase[a] = "discoverMTU" /\ m.type = "Reply1"
  /\ mtu' = [mtu EXCEPT ![a] = m.mtu]
  /\ cookie' = [cookie EXCEPT ![a] = m.cookie]
  /\ phase' = [phase EXCEPT ![a] = "openConnection"]
  /\ Request("Request2", a, m.mtu, m.cookie)
  /\ toClient' = toClient \ {m}
  /\ UNCHANGED <<tries, unacked, fetched>>

ReceiveIncompatible(a, m) ==
  /\ phase[a] = "discoverMTU" /\ m.type = "Incompatible"
  /\ phase' = [phase EXCEPT ![a] = "failed"]
  /\ toClient' = toClient \ {m}
  /\ UNCHANGED <<tries, mtu, cookie, unacked, fetched, toServer>>

\* Mutant of Reply2Timeout: the dial fails at the first timeout.
Reply2TimeoutFails(a) ==
  /\ phase[a] = "openConnection"
  /\ phase' = [phase EXCEPT ![a] = "failed"]
  /\ UNCHANGED <<tries, mtu, cookie, unacked, fetched, toServer, toClient>>

\* No reply 2 for 500ms: DialContext starts again with discoverMTU.
Reply2Timeout(a) ==
  /\ phase[a] = "openConnection"
  /\ phase' = [phase EXCEPT ![a] = "discoverMTU"]
  /\ tries' = [tries EXCEPT ![a] = 0]
  /\ UNCHANGED <<mtu, cookie, unacked, fetched, toServer, toClient>>

\* openConnection returns and connect sends the connection request.
ReceiveReply2(a, m) ==
  /\ phase[a] = "openConnection" /\ m.type = "Reply2"
  /\ mtu' = [mtu EXCEPT ![a] = m.mtu]
  /\ phase' = [phase EXCEPT ![a] = "connect"]
  /\ unacked' = [unacked EXCEPT ![a] = {"ConnectionRequest"}]
  /\ toClient' = toClient \ {m}
  /\ UNCHANGED <<tries, cookie, fetched, toServer>>

Takes(a, type) ==
  \/ phase[a] = "discoverMTU" /\ type \in {"Reply1", "Incompatible"}
  \/ phase[a] = "openConnection" /\ type = "Reply2"
  \/ phase[a] \in {"connect", "connected"} /\ type = "Disconnect"

\* Whoever reads the socket drops a message it does not wait for.
IgnoreMessage(a, m) ==
  /\ ~Takes(a, m.type)
  /\ toClient' = toClient \ {m}
  /\ UNCHANGED <<dialerVars, toServer>>

\* handleConnectionRequestAccepted, on the first packet of the other end's
\* Conn; a packet under an order index that was fetched before is dropped.
ReceiveAccepted(a) ==
  /\ phase[a] \in {"connect", "connected"}
  /\ IF fetched[a] = 0
     THEN /\ fetched' = [fetched EXCEPT ![a] = 1]
          /\ phase' = [phase EXCEPT ![a] = "connected"]
          /\ unacked' = [unacked EXCEPT ![a] = @ \cup {"NewIncoming"}]
     ELSE UNCHANGED <<fetched, phase, unacked>>
  /\ UNCHANGED <<tries, mtu, cookie, toServer, toClient>>

\* A disconnect notification whose order index is due: closeImmediately,
\* which notifies the other end in turn and closes the socket.
ReceiveDisconnect(a, m) ==
  /\ phase[a] \in {"connect", "connected"} /\ m.type = "Disconnect"
  /\ m.n <= fetched[a]
  /\ toClient' = toClient \ {m}
  /\ IF m.n = fetched[a]
     THEN /\ phase' = [phase EXCEPT ![a] = "closed"]
          /\ unacked' = [unacked EXCEPT ![a] = {}]
          /\ toServer' = toServer \cup
               {Message("Disconnect", a, 0, 0, fetched[a] + 1)}
     ELSE UNCHANGED <<phase, unacked, toServer>>
  /\ UNCHANGED <<tries, mtu, cookie, fetched>>

\* tick: nothing was received from the other end for 15 seconds.
DialerIdleTimeout(a) ==
  /\ phase[a] \in {"connect", "connected"}
  /\ phase' = [phase EXCEPT ![a] = "closed"]
  /\ unacked' = [unacked EXCEPT ![a] = {}]
  /\ toServer' = toServer \cup {Message("Disconnect", a, 0, 0, fetched[a] + 1)}
  /\ UNCHANGED <<tries, mtu, cookie, fetched, toClient>>

\* The deadline of the context: the socket is closed.
DialTimeout(a) ==
  /\ phase[a] \in {"discoverMTU", "openConnection", "connect"}
  /\ phase' = [phase EXCEPT ![a] = "failed"]
  /\ unacked' = [unacked EXCEPT ![a] = {}]
  /\ UNCHANGED <<tries, mtu, cookie, fetched, toServer, toClient>>
=============================================================================
