------------------------------ MODULE Closing ------------------------------
(***************************************************************************)
(* The end of a Conn: Close and the grace it gives, the idle timeout, the  *)
(* disconnect notification of the other end, and closeImmediately, which   *)
(* several goroutines may run into at once.  Close only stores the time:   *)
(* the ticking goroutine, fed by the ticker that all connections share,    *)
(* does the rest.                                                          *)
(*                                                                         *)
(* A critical section of conn.mu is one step, and so is one of             *)
(* activeConnectionsMu.  Every packet takes one unit of the budget.        *)
(* retransmission is the set of packets that are recorded, whatever their  *)
(* numbers, so that a resend changes nothing; a recorded packet that has   *)
(* left the socket may be acknowledged at any time.                        *)
(***************************************************************************)
EXTENDS Integers, Sequences, FiniteSets, Functions

CONSTANTS
  Sides,       \* who owns the Conn: "dialer", "listener"
  Budgets,     \* what the controller may grant for a tick
  MaxWrites    \* bound: writes of the application

ASSUME ClosingAssumption ==
  /\ Sides \subseteq {"dialer", "listener"}
  /\ Budgets \subseteq Nat /\ MaxWrites \in Nat

VARIABLES
  side,
  socketOpen,       \* conn.conn: the dialer's own, or the listener's shared one
  mapped,           \* the Conn is in listener.connections
  closing,          \* conn.closing is set
  idle,             \* lastActivity is more than 15 seconds ago
  acksLeft,
  ccPending, sendBudget, unacknowledged,
  registered,       \* in activeConnections
  ticker,           \* ticks in the channel, which has room for one
  tickerClosed,
  ticking,          \* the ticking goroutine, and whether its tick is the zero time
  reader,           \* the goroutine that receives: runIncomingDatagramLoop, clientListen
  write, written,   \* an application in Write, past its test; its writes
  once, step,       \* conn.once, and where its function is
  calls,            \* goroutines in closeImmediately, and how they close
  ctxDone,
  sent,             \* history: packets that left the socket
  pool,             \* history: packets that were returned to the pool
  owed              \* history: in flight when Close was called, not acknowledged

sendVars == <<ccPending, sendBudget, unacknowledged, sent>>
channelVars == <<registered, ticker, tickerClosed>>
onceVars == <<once, step, ctxDone>>
worldVars == <<side, socketOpen, mapped, closing, idle>>
vars == <<worldVars, sendVars, channelVars, acksLeft, ticking, reader,
          write, written, onceVars, calls, pool, owed>>

Ages == {"fresh", "second", "five"}   \* seconds since Close, as tests tell them apart
Bye == 0                        \* the disconnect notification
Packets == 0..MaxWrites
Goroutines == {"ticking", "reader", "other"}   \* that call closeImmediately

Init ==
  /\ side \in Sides
  /\ socketOpen = TRUE /\ mapped = (side = "listener")
  /\ closing = FALSE /\ idle = FALSE /\ acksLeft = 0
  /\ ccPending = <<>> /\ sendBudget \in Budgets
  /\ unacknowledged = {} /\ sent = {}
  /\ registered = TRUE /\ ticker = 0 /\ tickerClosed = FALSE
  /\ ticking = [at |-> "waiting", zero |-> FALSE]
  /\ reader = "waiting"
  /\ write = "out" /\ written = 0
  /\ once = "free" /\ step = "none" /\ ctxDone = FALSE
  /\ calls = [g \in Goroutines |-> "no"]
  /\ pool = {} /\ owed = {}

\* A goroutine that is in closeImmediately does nothing else.
Runs(g) == calls[g] = "no"

\* closeImmediately: the first goroutine runs the function of once, others
\* wait until it is done, and for one that comes later there is nothing to do.
CloseImmediately(g, how) ==
  /\ calls' = IF once = "done" THEN calls ELSE [calls EXCEPT ![g] = how]
  /\ once' = IF once = "free" THEN g ELSE once
  /\ step' = IF once = "free" THEN "write" ELSE step
  /\ UNCHANGED ctxDone
-----------------------------------------------------------------------------
\* flushSendQueueLocked with the budget b, on the records that are left: on a
\* closed socket the first packet is recorded and pushed back.
Flush(b, records) ==
  LET n == IF b < Len(ccPending) THEN b ELSE Len(ccPending)
      out == Range(SubSeq(ccPending, 1, n))
  IN  \/ /\ socketOpen
         /\ ccPending' = SubSeq(ccPending, n + 1, Len(ccPending))
         /\ sendBudget' = b - n
         /\ unacknowledged' = records \cup out
         /\ sent' = sent \cup out
      \/ /\ ~socketOpen
         /\ sendBudget' = b
         /\ unacknowledged' = records \cup (IF n > 0 THEN {Head(ccPending)} ELSE {})
         /\ UNCHANGED <<ccPending, sent>>

QueueOrSend(p) ==
  \/ /\ sendBudget > 0
     /\ unacknowledged' = unacknowledged \cup {p}
     /\ sendBudget' = IF socketOpen THEN sendBudget - 1 ELSE sendBudget
     /\ sent' = IF socketOpen THEN sent \cup {p} ELSE sent
     /\ UNCHANGED ccPending
  \/ /\ sendBudget = 0
     /\ ccPending' = Append(ccPending, p)
     /\ UNCHANGED <<sendBudget, unacknowledged, sent>>
-----------------------------------------------------------------------------
\* When closeImmediately is done, what still runs is the goroutines: the
\* clock, Listener.Close and a further Close are left out.
Lives == once # "done"

\* Close, by the application: only the first call stores its time.
Close ==
  /\ Lives
  /\ ~closing
  /\ closing' = TRUE
  /\ owed' = unacknowledged
  /\ UNCHANGED <<side, socketOpen, mapped, idle, sendVars, channelVars, acksLeft, ticking,
                 reader, write, written, onceVars, calls, pool>>

\* Nothing was received for 15 seconds.
Silence ==
  /\ Lives
  /\ ~idle
  /\ idle' = TRUE
  /\ UNCHANGED <<side, socketOpen, mapped, closing, sendVars, channelVars, acksLeft, ticking,
                 reader, write, written, onceVars, calls, pool, owed>>

\* Listener.Close closes the socket of all its connections.
CloseListener ==
  /\ Lives
  /\ side = "listener" /\ socketOpen
  /\ socketOpen' = FALSE
  /\ UNCHANGED <<side, mapped, closing, idle, sendVars, channelVars, acksLeft, ticking,
                 reader, write, written, onceVars, calls, pool, owed>>

\* Write tests the context before it waits for conn.mu ...
WriteCheck ==
  /\ write = "out" /\ written < MaxWrites /\ ~ctxDone
  /\ write' = "checked" /\ written' = written + 1
  /\ UNCHANGED <<worldVars, sendVars, channelVars, acksLeft, ticking, reader,
                 onceVars, calls, pool, owed>>

\* ... and writes when it has it, whatever happened in between.
Write ==
  /\ write = "checked" /\ write' = "out"
  /\ QueueOrSend(written)
  /\ UNCHANGED <<worldVars, channelVars, acksLeft, ticking, reader, written,
                 onceVars, calls, pool, owed>>
-----------------------------------------------------------------------------
\* tickConnections for this Conn.  (It unregisters connections whose context
\* is done, but those have left the map by then.)
Scan ==
  /\ registered /\ ~ctxDone /\ ticker = 0
  /\ ticker' = 1
  /\ UNCHANGED <<worldVars, sendVars, registered, tickerClosed, acksLeft, ticking, reader,
                 write, written, onceVars, calls, pool, owed>>

\* startTicking takes a tick, the zero time from a channel that is closed and
\* empty; tick renews the budget and flushes the queue.
Tick(budget) ==
  /\ Runs("ticking") /\ ticking.at = "waiting"
  /\ ticker = 1 \/ tickerClosed
  /\ ticker' = 0
  /\ ticking' = [at |-> "flushed", zero |-> ticker = 0]
  /\ Flush(budget, unacknowledged)
  /\ UNCHANGED <<worldVars, registered, tickerClosed, acksLeft, reader, write,
                 written, onceVars, calls, pool, owed>>

\* Mutant of InFlight: the packets that wait for budget are looked at instead.
InFlightPending == Len(ccPending)

\* len(conn.retransmission.unacknowledged)
InFlight == Cardinality(unacknowledged)

\* All that was in flight has been acknowledged, or there was nothing and a
\* second has passed.
GraceOver(since) ==
  closing /\ InFlight = 0 /\ (acksLeft # 0 \/ since # "fresh")

\* Mutant of TimeOver: only a connection that is closing is looked at.
TimeOverClosing(since, fiftieth) ==
  closing /\ (since = "five" \/ (fiftieth /\ idle /\ ~ticking.zero))

\* Five seconds have passed, or nothing was received for too long, which every
\* 50th tick looks at.
TimeOver(since, fiftieth) ==
  \/ closing /\ since = "five"
  \/ fiftieth /\ idle /\ ~ticking.zero

\* The end of tick.  The time since Close need not be kept: a tick that finds
\* it over closes the connection, and as it is stored in whole seconds it may
\* look a second long at once.  The zero time is before everything.  (A ping
\* that goes out instead of the idle timeout is not recorded.)
TickEnd(since, fiftieth) ==
  /\ Runs("ticking") /\ ticking.at = "flushed"
  /\ ticking.zero => since = "fresh"
  /\ acksLeft' = IF closing THEN InFlight ELSE acksLeft
  /\ ticking' = [at |-> "waiting", zero |-> FALSE]
  /\ \/ GraceOver(since) /\ CloseImmediately("ticking", "graceful")
     \/ /\ ~GraceOver(since) /\ TimeOver(since, fiftieth)
        /\ CloseImmediately("ticking", "abrupt")
     \/ /\ ~GraceOver(since) /\ ~TimeOver(since, fiftieth)
        /\ UNCHANGED <<onceVars, calls>>
  /\ UNCHANGED <<worldVars, sendVars, channelVars, reader, write, written, pool,
                 owed>>

TickStop ==
  /\ Runs("ticking") /\ ticking.at = "waiting" /\ ctxDone
  /\ ticking' = [ticking EXCEPT !.at = "stopped"]
  /\ UNCHANGED <<worldVars, sendVars, channelVars, acksLeft, reader, write, written,
                 onceVars, calls, pool, owed>>
-----------------------------------------------------------------------------
\* A datagram is read: the dialer's socket must be open, a listener's Conn
\* may have some left in its channel.
Receive ==
  /\ Runs("reader") /\ reader = "waiting"
  /\ socketOpen \/ side = "listener"
  /\ reader' = "received"
  /\ idle' = FALSE
  /\ UNCHANGED <<side, socketOpen, mapped, closing, sendVars, channelVars, acksLeft, ticking,
                 write, written, onceVars, calls, pool, owed>>

\* handleACK: the packets go to the pool, and if there were any the queue is
\* flushed with what is left of the budget.
HandleACK(acked) ==
  /\ reader = "received" /\ reader' = "waiting"
  /\ acked \subseteq unacknowledged \cap sent
  /\ \/ acked # {} /\ Flush(sendBudget, unacknowledged \ acked)
     \/ acked = {} /\ UNCHANGED sendVars
  /\ pool' = pool \cup acked
  /\ owed' = owed \ acked
  /\ UNCHANGED <<worldVars, channelVars, acksLeft, ticking, write, written,
                 onceVars, calls>>

\* handlePacket with a packet for the application: dropped if the connection
\* is closing, else the reader waits for room in conn.packets.
HandleContent ==
  /\ reader = "received"
  /\ reader' = IF closing THEN "waiting" ELSE "blocked"
  /\ UNCHANGED <<worldVars, sendVars, channelVars, acksLeft, ticking, write, written,
                 onceVars, calls, pool, owed>>

\* There is room, at once or when the application has called Read.
PassContent ==
  /\ reader = "blocked" /\ reader' = "waiting"
  /\ UNCHANGED <<worldVars, sendVars, channelVars, acksLeft, ticking, write, written,
                 onceVars, calls, pool, owed>>

\* Mutant of DropContent: the reader waits for room whatever happens.
DropContentNever == reader = "room" /\ UNCHANGED vars

\* The context is done before there is room.
DropContent ==
  /\ reader = "blocked" /\ ctxDone
  /\ reader' = "waiting"
  /\ UNCHANGED <<worldVars, sendVars, channelVars, acksLeft, ticking, write, written,
                 onceVars, calls, pool, owed>>

\* handle with a disconnect notification, which is ignored while the
\* connection is closing, or an error of receive, after which only a
\* listener's connection closes.
HandleEnd ==
  /\ reader = "received" /\ reader' = "waiting"
  /\ ~closing \/ side = "listener"
  /\ CloseImmediately("reader", "abrupt")
  /\ UNCHANGED <<worldVars, sendVars, channelVars, acksLeft, ticking, write, written,
                 pool, owed>>

ReaderStop ==
  /\ Runs("reader") /\ reader = "waiting"
  /\ IF side = "dialer" THEN ~socketOpen ELSE ctxDone
  /\ reader' = "stopped"
  /\ UNCHANGED <<worldVars, sendVars, channelVars, acksLeft, ticking, write, written,
                 onceVars, calls, pool, owed>>

\* updateConnections, which finds the Conn in the map, and the goroutine of
\* handleNewIncomingConnection.  If they come second, they only wait.
OtherCloses ==
  /\ side = "listener" /\ mapped /\ once = "free"
  /\ CloseImmediately("other", "abrupt")
  /\ UNCHANGED <<worldVars, sendVars, channelVars, acksLeft, ticking, reader, write,
                 written, pool, owed>>
-----------------------------------------------------------------------------
\* The function of once.  The disconnect notification takes the way of every
\* other write.
WriteDisconnect ==
  /\ step = "write" /\ step' = "close"
  /\ QueueOrSend(Bye)
  /\ UNCHANGED <<worldVars, channelVars, acksLeft, ticking, reader, write, written,
                 once, ctxDone, calls, pool, owed>>

\* handler.close: the dialer closes its socket, the listener forgets the Conn.
CloseHandler ==
  /\ step = "close" /\ step' = "unregister"
  /\ socketOpen' = (socketOpen /\ side = "listener")
  /\ mapped' = FALSE
  /\ UNCHANGED <<side, closing, idle, sendVars, channelVars, acksLeft, ticking, reader,
                 write, written, once, ctxDone, calls, pool, owed>>

\* Mutant of Unregister: the Conn stays in activeConnections.
UnregisterNothing ==
  /\ step = "unregister" /\ step' = "cancel"
  /\ tickerClosed' = TRUE
  /\ UNCHANGED <<worldVars, sendVars, registered, ticker, acksLeft, ticking, reader,
                 write, written, once, ctxDone, calls, pool, owed>>

\* unregisterTickedConnection
Unregister ==
  /\ step = "unregister" /\ step' = "cancel"
  /\ registered' = FALSE
  /\ tickerClosed' = (tickerClosed \/ registered)
  /\ UNCHANGED <<worldVars, sendVars, ticker, acksLeft, ticking, reader, write,
                 written, once, ctxDone, calls, pool, owed>>

Cancel ==
  /\ step = "cancel" /\ step' = "return"
  /\ ctxDone' = TRUE
  /\ UNCHANGED <<worldVars, sendVars, channelVars, acksLeft, ticking, reader, write,
                 written, once, calls, pool, owed>>

\* Mutant of ReturnPackets: the records stay.
ReturnPacketsOnly ==
  /\ step = "return" /\ step' = "none"
  /\ pool' = pool \cup unacknowledged
  /\ once' = "done" /\ calls' = [g \in Goroutines |-> "no"]
  /\ UNCHANGED <<worldVars, sendVars, channelVars, acksLeft, ticking, reader, write,
                 written, ctxDone, owed>>

\* The packets in flight go to the pool, and everyone leaves once.  What waits
\* in ccPending is left there.
ReturnPackets ==
  /\ step = "return" /\ step' = "none"
  /\ pool' = pool \cup unacknowledged
  /\ unacknowledged' = {}
  /\ once' = "done" /\ calls' = [g \in Goroutines |-> "no"]
  /\ UNCHANGED <<worldVars, ccPending, sendBudget, sent, channelVars, acksLeft, ticking,
                 reader, write, written, ctxDone, owed>>

OnceStep == WriteDisconnect \/ CloseHandler \/ Unregister \/ Cancel \/ ReturnPackets

TickStep ==
  \/ \E b \in Budgets : Tick(b)
  \/ \E since \in Ages, fiftieth \in BOOLEAN : TickEnd(since, fiftieth)

ReaderStep ==
  \/ \E acked \in SUBSET unacknowledged : HandleACK(acked)
  \/ HandleContent \/ HandleEnd

Next ==
  \/ Close \/ Silence \/ CloseListener
  \/ WriteCheck \/ Write
  \/ Scan \/ TickStep \/ TickStop
  \/ Receive \/ ReaderStep \/ PassContent \/ DropContent \/ ReaderStop
  \/ OtherCloses \/ OnceStep

Spec == Init /\ [][Next]_vars

\* The shared ticker ticks and every goroutine that can go on does.  Ticks
\* bring the fiftieth one and five seconds round.  A select picks among its
\* cases at random: one that is ready again and again is taken in the end.
\* Neither the application nor the other end need do anything.
Fairness ==
  /\ WF_vars(Scan) /\ WF_vars(TickStep)
  /\ SF_vars(TickEnd("five", TRUE)) /\ SF_vars(TickStop)
  /\ WF_vars(ReaderStep) /\ WF_vars(DropContent) /\ SF_vars(ReaderStop)
  /\ WF_vars(OnceStep)

FairSpec == Spec /\ Fairness
-----------------------------------------------------------------------------
\* (registered = ~tickerClosed: the shared ticker never sends on, and no one
\* closes, a channel that is closed.)
TypeOK ==
  /\ side \in Sides /\ socketOpen \in BOOLEAN /\ mapped \in BOOLEAN
  /\ closing \in BOOLEAN /\ idle \in BOOLEAN
  /\ acksLeft \in 0..(MaxWrites + 1) /\ sendBudget \in Nat
  /\ ccPending \in Seq(Packets)
  /\ unacknowledged \subseteq Packets /\ sent \subseteq Packets
  /\ ticker \in 0..1 /\ registered = ~tickerClosed
  /\ ticking \in [at : {"waiting", "flushed", "stopped"}, zero : BOOLEAN]
  /\ reader \in {"waiting", "received", "blocked", "stopped"}
  /\ write \in {"out", "checked"} /\ written \in 0..MaxWrites
  /\ once \in {"free", "done"} \cup Goroutines
  /\ calls \in [Goroutines -> {"no", "graceful", "abrupt"}]

\* A connection that Close ends within its grace abandons nothing that was in
\* flight when it was called, although ticks, acknowledgements, late writes
\* and other closers run in between (tick, closeImmediately).
GraceKept == once = "ticking" /\ calls["ticking"] = "graceful" => owed = {}

\* As long as the socket is open, a packet in the pool is no longer used by
\* this connection: neither the acknowledgement that the reader still handles
\* nor a tick finds a record that closeImmediately returned.
PoolUnused == socketOpen => pool \cap (unacknowledged \cup Range(ccPending)) = {}

\* The connection and its goroutines have gone.
Over ==
  /\ ctxDone /\ once = "done" /\ ~mapped /\ ~registered
  /\ ticking.at = "stopped" /\ reader = "stopped"
  /\ \A g \in Goroutines : Runs(g)

\* Close ends the connection whatever the other end does, and everyone who
\* works for it: the ticking goroutine stops, a reader that waits for room is
\* released, closers that met do not wait for each other.
CloseEnds == closing ~> Over

\* A connection whose other end has fallen silent for good is closed.
SilenceEnds == <>[]idle => <>Over
=============================================================================
