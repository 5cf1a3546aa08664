# go-raknet: a verification project

TLA+ modules for [go-raknet](../src), an implementation of the RakNet protocol
over UDP: models of its components, TLC runs that check them on small
instances, and TLAPS proofs of the most important properties for every value of
the constants. All paths below are relative to `src/`.

## The system

| Component | State | Operations | Source |
|---|---|---|---|
| Sender: the sending half of a `Conn` | next indices, `ccPending`, `retransmission`, `ccNackQueue` / `ccNackSet`, send, resend and NACK budgets | `Write`, `WriteWithReliability`, `WriteWithACK`, `tick`, `checkResend`, `handleACK`, `handleNACK` | `conn.go`, `resend_map.go` |
| Receiver: the receiving half of a `Conn` | `win`, `ackSlice`, `packetQueue`, `receivedMessageIndices`, `splits`, highest sequence indices | `receive`, `flushACKs` | `conn.go` |
| Datagram window, packet queue | a range of indices and the ones present | `add`, `shift`, `missing`; `put`, `fetch` | `datagram_window.go`, `packet_queue.go` |
| Packet | none | encoding by reliability, `split` | `packet.go`, `binary.go` |
| Acknowledgements | none (codec), `acknowledgements` (callbacks) | ranges of numbers, groups of `WriteWithACK` | `acknowledge.go`, `conn.go` |
| Congestion control | window or rate, RTT, congestion block | budgets of a tick, `OnAck`, `OnNAK`, `OnResend` | `congestion/` |
| Lifecycle of a `Conn` | `closing`, `once`, `ctx`, the shared ticker, the packet pool | `Close`, `closeImmediately`, idle timeout, end of tick and reader goroutines | `conn.go`, `conn_ticker.go` |
| Listener | `connections`, `incoming`, cookie salts, blocked hosts, worker queue | the two open connection requests, connection request, `Accept`, `updateConnections`, `Close` | `listener.go`, `handler.go` |
| Dialer | MTU, cookie, phase | `discoverMTU`, `openConnection`, `connect` | `dial.go`, `handler.go` |

A `Conn` is used by the goroutine of its reader (`clientListen` or
`runIncomingDatagramLoop`), by its tick goroutine and by the goroutines of the
application that write. `conn.mu` guards the sending half, `ackMu` the slice of
acknowledgements; the receiving half belongs to the reader. The two ends share
nothing but UDP. The listener adds a goroutine per socket, four workers for
unconnected messages, a goroutine that moves finished connections to `Accept`,
and one that rotates the cookie salts.

What is hard about it: datagrams and acknowledgements are lost, repeated and
reordered; a packet that is resent gets a new sequence number, so that late
ACKs and NACKs name numbers that mean nothing any more; the receiver gives up
numbers it has NACKed; resends are paced through a bounded queue; budgets run
out in the middle of a write; indices are 24 bits on the wire and 32 in memory.
In the connection sequence a retry meets what the first attempt left behind,
four workers test and set one map, and everything that closes a connection
deletes by address. A connection is closed by whoever comes first of the tick
goroutine, the reader and the listener, while writes and acknowledgements are
under way, and packets go back to a pool that all connections share. The hazards, each at its line, are in `PROJECT.json`.

What makes the parts correct:

- a connection hands over ordered contents whole, once and in order, reliable
  ones once, sequenced ones never backwards, and everything reliable in the end;
- the sender forgets a packet only after the other end has handled it, keeps it
  in one place only, and never marks a number as queued that nothing resends;
- the receiver acknowledges only what arrived, and keeps to the limits the code
  sets on what a peer makes it hold: the window of datagrams, the ordered queue
  and the splits (the window of message indices has no limit in the code);
- the controllers keep the window of slow start and never starve a connection;
- a connection that is closed, or whose peer has fallen silent, ends with all
  its goroutines, and gives up neither what its grace covers nor a packet that
  is still used;
- a dial ends in a connection that the listener has too, with the same MTU, and
  that comes out of `Accept` once; the map holds open connections only, and
  every connection the listener makes is accepted or closed in the end.

## The modules

### One direction of a connection

| Module | Models | Remarks |
|---|---|---|
| `Indices` | `uint24`, `isNewerSequenceIndex`, first gap of a set | `OnWire` is the encoding modulo 2^24 (`IndexSpace`) |
| `DatagramWindow` | `datagram_window.go` | a record `lowest`, `highest`, `queue`; arrival times are an argument: the set of indices older than 1.5 RTT |
| `PacketQueue` | `packet_queue.go` | a record with the packets by order index |
| `Packet` | `packet.go` | fields by reliability, sizes, `split`; the content of a fragment is its write and its number |
| `Sender` | `conn.go`, `resend_map.go` | every critical section of `conn.mu`, step by step, since the socket may close in between |
| `Receiver` | `conn.go` | a datagram is handled in one step by the reader goroutine |
| `Transfer` | both, and UDP | `datagrams` and `replies` keep every message until it is lost: it may arrive late, in any order, more than once or never |
| `Channel` | | the abstract specification: ordered contents come out whole and in order |
| `TransferInv` | | the inductive invariants |
| `Claims` | | comments of the repository that the code contradicts |

The variables of `Sender` and `Receiver` have the names of the fields of
`Conn`, the actions those of the functions: `BeginWrite`, `WriteReliable`,
`WriteUnreliable` and `EndWrite` are `writeWithReliability`; `TickLock` to
`TickUnlock` with the loops `FlushSend` and `Resend` are `tick`;
`CheckResend`, `HandleACK`, `HandleNACK`, `EnqueueResend` their namesakes;
`ReceiveDatagram` is `receiveDatagram` down to `handlePacket`; `FlushACKs` is
`flushACKs`. `log` and `delivered` are history: what was written, and what
`conn.packets` was given.

Abstractions:

- Bytes are names of fragments, and a budget counts datagrams of one packet. A
  controller is any choice of budgets in a tick.
- Time is a choice: which records are older than the RTO, which holes of the
  window are older than 1.5 RTT. With `SpuriousTimeouts` the RTO may be too
  short, without it a record times out only when nothing is in transit.
- The numbers of a NACK enter the resend queue in any order (Go iterates over
  them in order), which the properties do not depend on.
- The socket of the sender may be closed by the listener at any step
  (`ListenerMayClose`); the one of the receiver does not fail.
- Datagrams dropped because the buffer of a connection is full are lost
  datagrams. Pings are unreliable writes.
- Not here: the bytes and the controllers, the callbacks of `WriteWithACK`
  (`Pacing`), `Close` and what follows it (`Closing`), the loss metrics.

*The refinement.* `Transfer!ImplementsChannel` is `Channel!Spec` with `written`
the ordered writes of `log` by order index and `handed` what
`conn.packets` was given. Every step of the two halves and the network is then a
write, the hand-over of the contents that have become due (one datagram may
complete several), or invisible. Like the proofs it is about
behaviours in which no index outgrows its field, to which the bounds keep the
run.

### Bytes, controllers and callbacks

| Module | Models | Remarks |
|---|---|---|
| `UDT` | `congestion/udt.go` | operators from a controller to the one a method leaves; the window in bytes |
| `SlidingWindow` | `congestion/sliding_window.go` | the same for the other controller |
| `Acknowledgement` | `acknowledge.go`, `sendAcknowledgement` | numbers to records and packets, and back; `IsReadable` is the reader's limit |
| `Pacing` | the sending half of `conn.go`, `resend_map.go` | budgets in bytes, the count of bytes in flight, groups of `WriteWithACK` |

`Sender` takes a controller to be any choice of budgets, which is what the
proofs are about. `Pacing` is the other side: what the controllers really grant.
A critical section of `conn.mu` is one step (the socket stays open), a packet is
the length of its datagram and the order index of its write, and the other end
acknowledges or misses any numbers that were sent, at any time and as often as
it likes, which covers every loss and delay. Times are whole units: a change of
UDT's rate by one or two percent is a change of the time per byte by one, and
its floor and cap are those of the code scaled down. The packet that `handleACK`
has put back into the pool before it looks for its group is read, as the data
race allows, with order index 0 or with what another `Conn` wrote there
(`ReusedIndices`; the instance lets it happen to one datagram, `RacedNumbers`);
the two reads may differ. The callback does nothing.

### The end of a connection

| Module | Models | Remarks |
|---|---|---|
| `Closing` | `Close`, `tick`, `closeImmediately`, the reader's loop of `conn.go`; `conn_ticker.go`; `close` of `handler.go` | one `Conn` of a dialer or of a listener, and the goroutines around it |

`closeImmediately` is `once` and the steps of its function (`WriteDisconnect`,
`CloseHandler`, `Unregister`, `Cancel`, `ReturnPackets`), between which ticks,
acknowledgements and writes that passed the test of the context go on.
`retransmission` is a set of packets: resends change nothing here. The time
since `Close` is a parameter of the end of a tick, in the classes the tests tell
apart; a tick taken from the closed channel has the zero time. `idle` stands for
15 seconds without a datagram. `closeImmediateSilent`, which nothing calls, is
the same without the notification.

### The connection sequence

| Module | Models | Remarks |
|---|---|---|
| `Dialer` | `dial.go`, `dialerConnectionHandler` | one address per `DialContext`, which keeps its socket over all retries; `phase` says in which function it is |
| `Listener` | `listener.go`, `listenerConnectionHandler` | reader, workers, `updateConnections`, `Accept`, `Close`, salts and blocks; the worker's answer and its `Store` are two steps |
| `Handshake` | both, and UDP | losses, repeated requests, timeouts |

A `Conn` is a number and a record of what the sequence knows of it. A cookie is
the salt it was made from. The packets of a `Conn` (connection request,
accepted, new incoming connection) go through the transfer modelled above:
`unacked` holds them until the other end takes them, once; the order indices
decide what a `Conn` that was put in place of another does with them. (So a copy
of a connection request that is resent after one `Conn` has taken it and reaches
the `Conn` in its place is left out.) UDP
messages are sets, so they are reordered; a request that arrives twice is
`DuplicateRequest`. A timeout fires when nothing of its address is under way,
or, with `SlowNetwork`, also while something is. The queue of the workers is
unbounded: what the code drops when 4096 wait is a lost message. Datagrams
queued at a `Conn` are handled as they are dispatched. The XDP filter is the
choice between success and an error. Not here: pings and pongs without a
connection, which change no state.

## The runs

`tlc -config <cfg> <module>` with `MCTransfer`, `MCPacing`, `MCClosing` or
`MCHandshake`. No run checks for deadlock: the bounds on writes, sequence
numbers and connections stop every behaviour, and a closed connection is meant
to stop.

| Run | Instance | Shows |
|---|---|---|
| `transfer_ordered` | 3 ordered writes of 1 or 2 fragments, 3 datagrams, budgets 0 or 1, resend queue of 2, spurious timeouts, a window and a packet queue of 2 | `OrderedDelivery`, `NothingForgotten`, `SingleOwner`, `NackQueueConsistent`, `NoOvertaking`, `AcksWereReceived`, `LimitsRespected`, `TypeInv`, `WindowsAdvance` as a property of every step, and the refinement `ImplementsChannel` |
| `transfer_mixed` | 2 writes of the four reliabilities that are not ordered, of 1 or 2 fragments, 3 datagrams, a window of 2, no entry of `splits` beyond the first, spurious timeouts, socket closed at any step | `ReliableOnce`, `SequencedInOrder`, `LimitsRespected`, `NothingForgotten` |
| `transfer_live` | 2 writes, 6 datagrams, 1 loss, resend queue of one | `EventuallyDelivered`, `EventuallyAcknowledged` |
| `paced` | both controllers, 2 writes of one datagram or of two, 4 datagrams, a window of 24 bytes, a resend queue of one, two tick lengths and two round trips | `InFlightExact`, `SlowStartWindowKept`, `NeverStarved`, `BlocksFollowSeq`, `AcknowledgementIntact`, `CalledOnce`, `TypeOK` |
| `closing` | a dialer's and a listener's connection, one write and the notification, budgets 0 or 1 | `GraceKept`, `PoolUnused`, `TypeOK`; `CloseEnds` and `SilenceEnds` under fairness |
| `handshake_slow` | 1 dial, 2 workers, 2 connections, a repeated request, early timeouts, failing filter, no cookies | `AcceptedOnce`, `AcceptedAreConnected`, `MapHoldsOpenConns`, and `ConnsSettle`: whatever the races leave behind, a connection is accepted or closed in the end |
| `handshake_timely` | 2 dials, one outdated, 1 loss, aborted dials, `Close` | `ConnectedIsServed`, and `TypeOK` |
| `handshake_live` | 2 dials, 1 loss, 2 rotations of the salts, room for one connection in `incoming` | `DialsFinish`, `ConnectedIsAccepted` |
| `claim_reliable_split` | a split `Reliable` write | it is handed over twice (`packet.go:39`) |
| `claim_wraparound` | an index space of a few numbers | sequenced packets are dropped after the wrap (`conn.go:243`) |
| `claim_mixed_order` | sequenced and ordered writes | an ordered write is never handed over (`packet.go:42`) |
| `claim_ack_group` | 2 writes with a callback, UDT | the callback of a write runs before it is acknowledged, or never (`conn.go:444`) |

The bounds are the smallest at which the cases of interest happen. Three
sequence numbers are a datagram, its resend and the resend of that; two writes
of two fragments can be interleaved and overtake each other; a budget of one
runs out in the middle of a write. Two connections are one and its rival for
the address. `EffectiveMTU` is 40 so that 30 bytes make two fragments. In
`transfer_ordered` a datagram that is missing makes the window longer than 2;
and once its number is given up, the third write finds two writes waiting in the
queue of 2, which closes the connection. `transfer_mixed` overruns `splits`: the
test comes before the entry is added and refuses the fragments of the first
entry too, so that with a limit of 0 no write is reassembled; in
`transfer_ordered`, with a limit of 1, one is. In
`handshake_slow` the one size tried is 1200 with two requests, and timeouts
fire with at most one message on its way (`MaxPending`): each round of a retry
may leave one behind. The losses of `handshake_timely` and `handshake_live`
leave out reply 2: the listener has the connection by then and takes the retry
for an offence, see the divergences below. Only with `SlowNetwork` is a request 1
resent by a dialer that is in `openConnection` already (`dial.go:379`): the reply
to the first one must then have taken as long as the ticker. `handshake_slow` has it,
and does without cookies, which `handshake_timely` and `handshake_live` rotate.

In `paced` the MTU is 12 bytes and a window two of them, so that two datagrams
of 11 fill it to the last byte and a third overshoots; four datagrams are two
sent, one of them resent, and one written after the loss. Two numbers with a gap
do not fit in one acknowledgement of 11 bytes together with a third, so a flush
takes several packets; one of four numbers is at the reader's limit. The tick
lengths are one at the cap of the rate and one beyond the cap of idle ticks; a
round trip that doubles is what the slope test looks at. In `closing` one write
and the notification are enough for a packet that waits while another is in
flight, and every closer may meet every other.

### Fairness

*Transfer.* The holder of `conn.mu` runs on (weak fairness). The goroutines
that wait for it get it: a `sync.Mutex` hands itself to a waiter that has waited
for a millisecond, so taking the lock for a tick, for `checkResend` and for an
ACK is strongly fair. Resends get a budget of at least one datagram in a tick,
and so do new packets when nothing is in flight, which UDT's windows and rates
grant. Datagrams that are not lost arrive, and `flushACKs` runs in every tick.
NACKs, spurious timeouts and losses are never required. The budget
is `Pacing!NeverStarved`, which `paced` checks and `BudgetsReturn` proves for
both controllers after any history.

*Closing.* The shared ticker ticks, and a goroutine that can go on does (weak
fairness). A `select` picks among its ready cases at random, so a case that is
ready again and again is taken: the end of the tick goroutine and of the reader
is strongly fair, as is the tick that is a fiftieth one and five seconds after
`Close`. The application and the other end are never required to do anything.

*Handshake.* The reader, each worker, the `Conn`s, the tickers of the salts and
of the blocks and the timers of a dial run on, and the application calls `Accept`
again and again (weak fairness each). The sweep of `updateConnections` comes round
whatever is on its way; that the model's timeouts wait for `MaxPending` is a
bound, so the sweep is strongly fair. A `Conn` that is not in the map, and that
no worker holds, is reached by no datagram: it becomes idle after 15 seconds and
closes. Dialing, the
deadline of a context, `Close` and losses are never required. Salts rotate
`MaxRotations` times: in the code a dial may in principle be unlucky with every
rotation.

## The proofs

TLAPS proves these for every MTU, set of lengths, limit, queue size, budget and
number of writes, dialers, workers and connections, and, except for the last
line, for every behaviour of the network:

| Theorem | Property |
|---|---|
| `TypeProofs!TypeCorrect` | `TypeInv` |
| `SenderProofs!SingleOwnerHolds`, `NackQueueHolds`, `NoOvertakingHolds` | `SingleOwner`, `NackQueueConsistent`, `NoOvertaking` |
| `ContentProofs!OrderedDeliveryHolds` | `OrderedDelivery` |
| `ContentProofs!NothingForgottenHolds`, `AcksWereReceivedHolds`, `WindowsAdvanceHolds` | `NothingForgotten`, `AcksWereReceived`, `WindowsAdvance` |
| `DeliveryProofs!LimitsRespectedHolds`, `ReliableOnceHolds`, `SequencedInOrderHolds` | `LimitsRespected`, `ReliableOnce`, `SequencedInOrder` |
| `DeliveryProofs!ChannelImplemented` | `ImplementsChannel`: the refinement of `Channel`, while `NoWrap` holds |
| `ClosingProofs!ClosingTypes`, `ClosingGrace`, `ClosingPool` | `TypeOK`, `GraceKept`, `PoolUnused` of `Closing` |
| `PacingProofs!PacingTypeCorrect`, `FlightCounted`, `WindowKept`, `BudgetsReturn`, `BlocksCounted` | `TypeOK` of `Pacing`, `InFlightExact`, `SlowStartWindowKept`, `NeverStarved`, `BlocksFollowSeq` |
| `AcknowledgementProofs!CallbackOnce` | `CalledOnce`, while fewer datagrams are sent than a `uint32` counts (`MaxSeq < UintMax`) |
| `AcknowledgementProofs!AcknowledgementsArrive` | `AcknowledgementIntact`, while no sequence number wraps (`MaxSeq <= IndexSpace`) |
| `HandshakeProofs!HandshakeTypes`, `AcceptedOnceHolds`, `AcceptedAreConnectedHolds`, `MapHoldsOpenConnsHolds` | `TypeOK` of `Handshake`, `AcceptedOnce`, `AcceptedAreConnected`, `MapHoldsOpenConns` |
| `HandshakeProofs!ConnectedIsServedHolds` | `ConnectedIsServed`, in a network that answers in time (`Timely`) |

*One direction of a connection.* `TypeProofs` starts with the facts about windows
and queues: `Shift` keeps the entries between the bounds, what `Add` and `GiveUp`
leave seen, what `fetch` returns. The arguments are a chain, each invariant
(`TransferInv`) proved inductive with the ones before it:

1. `TypeInv`, with the bounds of each window. The bounds are part of it because
   `shift` is a function of the set only if its entries are above `lowest`.
2. `SenderInv`: no packet is in two places of the sender, no number twice in
   the resend queue, the set of queued numbers and the queue agree except for
   numbers that were acknowledged. `SingleOwner` alone is not inductive: a
   packet in the middle of a loop has to be accounted for.
3. `ContentInv`: each packet in flight, waiting, in `splits` or in the queue
   carries the write and fragment that its indices say (`Genuine`), and the
   indices of the log are distinct. So what reassembly puts together under a
   split ID is one write, and what the queue hands over at index *i* is the
   write with order index *i*. It is stated for behaviours in which no index has
   outgrown its field on the wire (`NoWrap`), and so are the properties.
4. `AckInv`: an ACK names numbers the receiver's window has seen *and handled*,
   as opposed to given up, and the packet that the sender drops for it is the one
   that was sent under that number.
5. The refinement, from `ContentInv`: `EndWrite` adds the one index to
   `written` that is above all others; a datagram that completes what the queue
   waits for appends to `handed` what `written` has at the next indices, and
   every other step leaves both alone. `NoWrap` is a hypothesis: with an index
   that wraps, the write the queue hands over is another one
   (`claim_wraparound`).
6. `LimitsRespected` needs only that `splits` is finite: each datagram opens at
   most one entry, after the test, and a window or a queue that has grown past
   its limit closes the connection. It says nothing of
   `receivedMessageIndices`, for which the code has no limit.
7. `ReliableInv`: however often a packet is sent, its copies agree on their
   message index (`CopiesAgree`), and once one of them was handed over that
   index is seen by the window of message indices for ever
   (`HandedRemembered`). It needs no `NoWrap`: a wrapped index makes the window
   refuse, never accept twice.
8. `SequenceInv`: sequence indices follow the order of the writes, and a packet
   that the test against the highest index lets pass belongs to a later write
   than all that was handed over. `SequencedInOrder` is about `NoWrap` too: after
   a wrap the order of the indices is not that of the writes.

*Bytes and controllers.* `PacingProofs!PacingInv` is inductive for both
controllers and every MTU, window, rate, set of writes and bound:

- the types, and `InFlightExact` itself. The total of the records is that of a
  sequence with one place for every number that was sent, 0 where there is no
  record any more (`Flight`). `add` appends places to it (`RecordOK`); `remove`
  of some numbers takes off what they cost, in whatever order they come
  (`TotalSelected`, `DropOK`), so that a tick that resends a record under a new
  number leaves the total as it was;
- `IsQueue`: the resend queue has no number twice, each number of its set is in
  it, and a queued number that still has a record is in the set. Without it a
  tick could resend a record twice and take its length off the count twice;
- `ControllerOK`: the controller has counted as many datagrams as the
  connection, the time per byte of UDT is at most `SndCap` and the other
  controller's window at least one datagram, from which `NeverStarved` follows,
  and in slow start UDT's window is what was acknowledged so far;
- `BudgetOK`: in slow start a budget that is not zero fits, with what is in
  flight, under the window. `SlowStartWindowKept` alone is not inductive: the
  budget is computed by a tick and spent by later writes and by the flush after
  an acknowledgement, and the datagram that exhausts it may be longer than what
  is left of it (`PaidOK`, `SpentOK`).

The models' recursive functions (`Totals`, `AfterSending`, `CountedDown`,
`Taken`, `PacketsFor`) are given a value by an argument of their own: a function
that satisfies such an equation exists (`Recursion`, `DownRecursion`), and what
it computes is shown by induction on an interval (`IntervalInduction`), which is
the least counterexample of a property stated as a set: `WFMin` and
`NatLessThanWellFounded` give a nonempty set of naturals its least element
(`Least`).

*Callbacks.* `handleACK` looks a group up under the order index of a packet that
is back in the pool, so a group may be counted down by any packet and deleted
under any index (`GroupsSeen`). The callback still runs once: a group that was
called for and not deleted has `remaining` 0, is next counted down to the largest
`uint32`, and is then as many counts away from being called again
(`CallsOK`). Every count is a record that an acknowledgement removes, and a
number without a record never gets one again (`Gone`), so there are fewer counts
than datagrams. Hence the hypothesis `MaxSeq < UintMax`: it takes 2^32
acknowledged datagrams to break it.

*Acknowledgements.* `HasTaken` says what `write` has after each number: records
and a range at hand that read back as the numbers taken so far, and stand for as
many. So a packet reads back as a prefix of the sorted numbers, never empty
(`WritePacketOK`, which needs room for one record, `AckMTU >= 11`); the packets
of `sendAcknowledgement` then follow one another without a gap or an overlap
(`PacketsForOK`), and `read` counts no more than the numbers that were flushed
(`ReadableOK`). `MaxSeq <= IndexSpace` is needed: a range over the wrap is
written with an end before its start.

*The end of a connection.* `ClosingProofs!Inv` adds to the properties who
executes the function of `once` and at which step it is (`OnceInv`), that what
`Close` found in flight stays recorded until that function returns it
(`GraceInv`), that no packet is used before it is written (`FreshInv`), and that
it is in one place, once, while the socket is open (`ApartInv`). `PoolUnused`
alone is not inductive: a packet that waits twice would be used after the first
of them was acknowledged and returned.

*The connection sequence.* `HandshakeProofs!HandshakeInv` holds whether or not
the network answers in time. A worker holds an open `Conn` that no other worker
and no entry of the map has (`WorkersHold`), so that storing it never brings a
closed one back and closing one never leaves it in a worker's hands; a `Conn` is
in the map under its own address only (`MapValid`), so that a deletion by address
takes it out; a dialer sends new incoming connection only after the answer
(`AnswerSeen`), which is what `connected` then stands for (`InSequence`); and
whatever is on its way to `Accept` is marked as accepted (`HandedAreMarked`),
which is why the next one is another.

*A network that answers in time.* `ConnectedIsServed` is false when a retry or a
repeated request meets what the first attempt left behind (see *Not modelled* for what the
code then does), so its theorem has a
hypothesis about the constants, `Timely`: a timeout of a dialer fires only
when nothing of its address is under way, request 2 does not come twice and
reply 2 is not lost, the filter does not fail, every size that is tried is at
least `MinMTU`, and nobody shares the host of an outdated dialer. It is what the
constants of `handshake_timely` say, losses of other messages included.
`TimelyInv` is inductive with `HandshakeInv`:

- `MessagesOK`: an address has one opening message under way at a time, of a
  size the listener takes, and a dialer that starts again has none;
- `ServiceOK`: an open `Conn` has a place, the map or one worker, or was made
  while the listener closed, and there is one for an address; an address that is
  served asks for nothing any more (`Settled`), which is why the deletion by
  address in `updateConnections` never takes another `Conn` out of the map;
- `DialerKnows` and `DialsInStep`: a dialer past reply 2 is in step with an open
  `Conn`, and what it waits for is under way;
- `OnlyOutdatedBlocked`: of the requests that a worker answers with a block,
  only those of an outdated dialer come, since an address that is served, which
  would be blocked for asking again, is settled.

`ConnectedIsServed` is not inductive alone: each step of a dial rests on the one
before it, on both sides.

TLC checks each of these invariants on the instances of the runs before the
proof. The assumptions are the named `ASSUME`s of the modules, which TLC
evaluates in every run: constants are natural numbers or Booleans, lengths are
positive, the MTU has room for a header and a byte, the limits of the listener
are in order (`MinMTU <= MaxMTU`, 576 and 1200 in the code).

Only model-checked: liveness, which needs fairness and ENABLED, out of the
prover's reach: `EventuallyDelivered`, `EventuallyAcknowledged`, `DialsFinish`,
`ConnectedIsAccepted`, `ConnsSettle`, `CloseEnds`, `SilenceEnds`. Every
invariant and action property of the passing runs has a theorem.

## Not modelled

- `ShouldSendACKs` and `GetRTOForRetransmission` of the controllers: no code
  calls them. The estimator of the round trip in `resend_map.go`: floating-point
  numbers; which records are older than the RTO is a choice.
- Byte layouts of messages, loss metrics, socket options, batched reads:
  encodings and I/O without protocol state.
- `Ping`, and pongs without a connection, which keep nothing.
- A callback of `OnACK` that writes to its connection: it waits for the
  `conn.mu` that its caller holds.

Behaviours that comments speak against and that the models contain without a
run of their own:

- a NACK may overspend its budget (`conn.go:39`);
- a resent fragment opens an entry in `splits` that nothing completes
  (`conn.go:1083`);
- an unreliable write just under the MTU is split (`conn.go:503`);
- `Close` of a listener can make `updateConnections` panic in a send on the
  closed channel (`listener.go:270`, `listener.go:311`);
- an ordered packet takes a message index that never enters
  `receivedMessageIndices`, so the window keeps a hole there and, without a
  limit, everything seen above it (`conn.go:964`);
- when reply 2 is lost or late, the dialer starts again as `dial.go:236` means it
  to, and the listener, which has the connection already, blocks its host
  (`handler.go:100`); `ConnsSettle` says that the connection left behind ends;
- request 2 that arrives twice makes two connections, and the second takes the
  first, which the dialer is using, out of the map (`handler.go:184`) of
  active connections (`listener.go:74`);
- the disconnect notification takes the way of every write (`conn.go:715`):
  without budget it stays in `ccPending` and the other end is not told
  (`conn.go:711`), until its own idle timeout (`SilenceEnds`);
- on a dialer's socket that is closed already (`conn.go:716`), the last ticks
  record the first waiting packet anew each time and return it to the pool more
  than once.

## Plan

1. Done: one direction of a connection with its invariants, proofs and the
   abstract channel it implements; controllers, acknowledgements and callbacks;
   the end of a connection and the connection sequence, with their proofs.
2. Done: the proofs about `Pacing`: bytes in flight, the slow start window,
   budgets, callbacks and the encoding of acknowledgements.
3. Open: that `Pacing` implements `Sender` with budgets in bytes, which would
   put the theorems about delivery and those about bytes in one chain.
