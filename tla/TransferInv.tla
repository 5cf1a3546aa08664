----------------------------- MODULE TransferInv -----------------------------
(***************************************************************************)
(* The inductive invariants behind the theorems of the proof modules.  TLC *)
(* checks them as invariants of the runs before they are proved.           *)
(***************************************************************************)
EXTENDS Transfer

WindowOK(w) ==
  /\ w \in DatagramWindows
  /\ w.lowest <= w.highest
  /\ \A i \in w.queue : w.lowest <= i /\ i < w.highest

QueueOK(q) ==
  /\ q.lowest <= q.highest
  /\ \A i \in DOMAIN q.queue : q.lowest <= i /\ i < q.highest

\* The types, with the bounds of the windows they rest on.
TypeInv ==
  /\ TypeOK
  /\ WindowOK(win) /\ WindowOK(receivedMessageIndices)
  /\ QueueOK(packetQueue)
  /\ IsFiniteSet(DOMAIN unacknowledged)
-----------------------------------------------------------------------------
(* The sender's bookkeeping. *)

Tracked(pk) == IsReliable(pk.reliability) /\ pk.messageIndex < messageIndex

SenderBookkeeping ==
  /\ \A s \in DOMAIN unacknowledged : s < seq /\ Tracked(unacknowledged[s])
  /\ \A k \in DOMAIN ccPending : Tracked(ccPending[k])
  /\ \A k \in DOMAIN ccNackQueue : ccNackQueue[k] < seq
  /\ toEnqueue \subseteq DOMAIN unacknowledged \ ccNackSet
  /\ toEnqueue # {} => mu = "enqueue"

\* A sequence number left in ccNackQueue after its ACK is not tracked any
\* more, so it cannot be enqueued a second time.
NackedAreTracked ==
  \A k \in DOMAIN ccNackQueue :
    ccNackQueue[k] \in DOMAIN unacknowledged => ccNackQueue[k] \in ccNackSet

\* NoOvertaking, for every state of the lock outside of flushSendQueueLocked.
BudgetSpent ==
  socket = "open" /\ mu \notin {"tickSend", "ackSend"} /\ ccPending # <<>>
    => sendBudget = 0

SenderInv ==
  /\ SenderBookkeeping
  /\ NackedAreTracked
  /\ NackQueueConsistent
  /\ SingleOwner
  /\ BudgetSpent
-----------------------------------------------------------------------------
(* The content of packets, wherever they are. *)

\* The indices of the log are those the counters have passed, each once.
LogOK ==
  \A w \in DOMAIN log :
    /\ IsSequencedOrOrdered(log[w].reliability) =>
         /\ log[w].orderIndex < orderIndex
         /\ \A v \in DOMAIN log :
              /\ IsSequencedOrOrdered(log[v].reliability)
              /\ log[v].orderIndex = log[w].orderIndex
              => v = w
    /\ log[w].count > 1 =>
         /\ log[w].splitID < splitID
         /\ \A v \in DOMAIN log :
              log[v].count > 1 /\ log[v].splitID = log[w].splitID => v = w

\* pk carries one fragment of a write of the log, and says which.
Genuine(pk) ==
  LET f == pk.fragment
  IN  /\ f.w \in DOMAIN log
      /\ f.i < log[f.w].count
      /\ pk.reliability = log[f.w].reliability
      /\ IsSplit(pk) <=> log[f.w].count > 1
      /\ IsSplit(pk) =>
                     /\ pk.splitCount = log[f.w].count
                     /\ pk.splitIndex = f.i
                     /\ pk.splitID = log[f.w].splitID % SplitSpace

OrderIndexIs(pk, index) ==
  IsSequencedOrOrdered(pk.reliability) => pk.orderIndex = index

LogIndex(pk) == log[pk.fragment.w].orderIndex

\* A packet of the sender, and the same packet as the other end reads it.
SentOK(pk) == Genuine(pk) /\ OrderIndexIs(pk, LogIndex(pk))
ArrivedOK(pk) == Genuine(pk) /\ OrderIndexIs(pk, OnWire(LogIndex(pk)))

PacketsGenuine ==
  /\ \A k \in DOMAIN toWrite : SentOK(toWrite[k])
  /\ \A k \in DOMAIN ccPending : SentOK(ccPending[k])
  /\ \A s \in DOMAIN unacknowledged : SentOK(unacknowledged[s])
  /\ \A d \in datagrams : ArrivedOK(d.pk)

\* Reassembly never mixes two writes.
SplitOK(id) ==
  \E w \in DOMAIN log :
    /\ log[w].count > 1
    /\ log[w].splitID = id
    /\ Len(splits[id]) = log[w].count
    /\ \A k \in DOMAIN splits[id] :
         splits[id][k] \in {NoFragment, [w |-> w, i |-> k - 1]}

ReassemblyOK ==
  NoWrap => /\ \A id \in DOMAIN splits : SplitOK(id)
            /\ \A i \in DOMAIN packetQueue.queue :
                 IsOrderedWrite(i + 1, packetQueue.queue[i])

DeliveredUpToLowest ==
  Len(delivered["ReliableOrdered"]) = packetQueue.lowest

ContentInv ==
  /\ LogOK
  /\ PacketsGenuine
  /\ ReassemblyOK
  /\ DeliveredUpToLowest
  /\ OrderedDelivery
-----------------------------------------------------------------------------
(* Acknowledgements and what they stand for. *)

\* A datagram in the network under a number that is still tracked carries the
\* packet that is tracked.
DatagramsMatch ==
  NoWrap =>
    \A d \in datagrams :
      /\ d.seq < seq
      /\ d.seq \in DOMAIN unacknowledged =>
           /\ IsReliable(d.pk.reliability)
           /\ d.pk.messageIndex = unacknowledged[d.seq].messageIndex

Handled(s) ==
  /\ s < seq
  /\ s \in DOMAIN unacknowledged =>
       unacknowledged[s].messageIndex \in received

AcksHandled ==
  NoWrap =>
    /\ \A s \in ackSlice : Handled(s)
    /\ \A r \in replies : r.type = "ACK" => \A s \in r.packets : Handled(s)

AckInv ==
  /\ DatagramsMatch
  /\ AcksHandled
  /\ NothingForgotten
-----------------------------------------------------------------------------
(* What is kept for the peer. *)

SplitsFinite == IsFiniteSet(DOMAIN splits)
-----------------------------------------------------------------------------
(* Copies of a packet, and what was handed over of them. *)

\* The packets that may still arrive, as the other end reads them.
Copies ==
  {OnWirePacket(ccPending[k]) : k \in DOMAIN ccPending}
    \cup {OnWirePacket(unacknowledged[s]) : s \in DOMAIN unacknowledged}
    \cup {d.pk : d \in datagrams}

\* However often a fragment is sent, it keeps its indices; one that is still
\* to be written has not been sent.
CopiesAgree ==
  /\ \A p, q \in Copies : p.fragment = q.fragment => p = q
  /\ \A p \in Copies, k \in DOMAIN toWrite : p.fragment # toWrite[k].fragment
  /\ \A j, k \in DOMAIN toWrite :
       toWrite[j].fragment = toWrite[k].fragment => j = k

SplitsLong == \A id \in DOMAIN splits : Len(splits[id]) > 1

\* The message index of what was handed over is remembered for ever.
HandedRemembered ==
  \A j \in DOMAIN delivered["Reliable"] :
    LET c == delivered["Reliable"][j]
    IN  Len(c) = 1 =>
          /\ c[1].w \in DOMAIN log
          /\ \A k \in DOMAIN toWrite : toWrite[k].fragment # c[1]
          /\ \A p \in Copies :
               p.fragment = c[1] => Seen(receivedMessageIndices, p.messageIndex)

ReliableInv == CopiesAgree /\ SplitsLong /\ HandedRemembered /\ ReliableOnce

HighestSeqIndex(r) ==
  IF r = "UnreliableSequenced" THEN highestUnreliableSeqIndex
                               ELSE highestReliableSeqIndex

SequencedKinds == {"UnreliableSequenced", "ReliableSequenced"}

\* The packets that may still arrive and those that are still to be sent.
Underway == Copies \cup {toWrite[k] : k \in DOMAIN toWrite}

SequencedUnderway == {p \in Underway : IsSequenced(p.reliability)}

\* Sequence indices follow the order of the writes, and a packet that is not
\* stale belongs to a later write than everything handed over.
SequenceOK ==
  /\ \A p \in SequencedUnderway :
       /\ p.sequenceIndex < sequenceIndex
       /\ \A q \in SequencedUnderway :
            p.sequenceIndex < q.sequenceIndex => p.fragment.w < q.fragment.w
       /\ HighestSeqIndex(p.reliability) <= p.sequenceIndex =>
            \A k \in DOMAIN delivered[p.reliability] :
              delivered[p.reliability][k][1].w < p.fragment.w
  /\ \A r \in SequencedKinds :
       /\ HighestSeqIndex(r) <= IndexSpace
       /\ \A k \in DOMAIN delivered[r] : delivered[r][k][1].w \in DOMAIN log

SequenceInv ==
  /\ sequenceIndex <= orderIndex
  /\ NoWrap => SequenceOK
  /\ SequencedInOrder
=============================================================================
