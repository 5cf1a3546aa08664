------------------------------- MODULE Sender -------------------------------
(***************************************************************************)
(* The sending half of a Conn (conn.go, resend_map.go): the write paths,   *)
(* the packets that wait for the congestion controller (ccPending), the    *)
(* datagrams that wait for an acknowledgement (retransmission), the paced  *)
(* resends (ccNackQueue, ccNackSet), and the handling of ACKs and NACKs.   *)
(*                                                                         *)
(* Everything here runs under conn.mu.  A critical section that loops is   *)
(* modelled one iteration per step, and mu names the loop its holder is    *)
(* in: the network and the other end run between two iterations, nothing   *)
(* else of the sender does.                                                *)
(*                                                                         *)
(* Byte budgets are counted in datagrams: sendBudget is the number of      *)
(* datagrams the loop "while budget > 0" still starts.  Time appears as    *)
(* the choices it makes: which records are older than the RTO, whether the *)
(* NACK window of one second is over, whether a tick is one that calls     *)
(* checkResend.                                                            *)
(***************************************************************************)
EXTENDS Packet, FiniteSets

CONSTANTS
  EffectiveMTU,          \* mtu minus the IP and UDP headers
  Lengths,               \* lengths of the buffers that may be written
  WriteKinds,            \* reliabilities used by the application
  MaxNackQueueSize,      \* maxNackQueueSize, 256 in the code
  NackBudgetPerSecond,   \* nackBudgetPerSecond, 512 in the code
  ListenerMayClose,      \* FALSE: the listener is not closed meanwhile
  MaxBudget,             \* bound: datagrams the controller allows in a tick
  MaxWrites,             \* bound: writes of one behaviour
  MaxSeq                 \* bound: datagrams sent in one behaviour

ASSUME SenderAssumption ==
  /\ EffectiveMTU \in Nat
  /\ EffectiveMTU > PacketAdditionalSize + SplitAdditionalSize
  /\ Lengths \subseteq Nat \ {0}
  /\ WriteKinds \subseteq Reliabilities
  /\ MaxNackQueueSize \in Nat
  /\ NackBudgetPerSecond \in Nat
  /\ ListenerMayClose \in BOOLEAN
  /\ MaxBudget \in Nat
  /\ MaxWrites \in Nat
  /\ MaxSeq \in Nat

VARIABLES
  seq, orderIndex, messageIndex, sequenceIndex, splitID,  \* next indices
  ccPending,        \* packets waiting for the send budget
  unacknowledged,   \* retransmission: sequence number -> its packet
  ccNackQueue,      \* sequence numbers to resend, in order
  ccNackSet,        \* the ones of them that still need it
  sendBudget, resendBudget, nackBudget,
  mu,               \* the holder of conn.mu: see MuStates
  toWrite,          \* fragments the holder of mu still has to write
  toEnqueue,        \* sequence numbers it still has to put in ccNackQueue
  tickPhase,        \* where the tick goroutine is between two locks
  socket,           \* "closed" once WriteTo returns net.ErrClosed
  datagrams,        \* datagrams in the network, towards the other end
  log               \* history: every write accepted, in order

indices == <<seq, orderIndex, messageIndex, sequenceIndex, splitID>>
budgets == <<sendBudget, resendBudget, nackBudget>>
nackVars == <<ccNackQueue, ccNackSet>>
loopVars == <<mu, toWrite, toEnqueue, tickPhase>>
senderVars == <<indices, ccPending, unacknowledged, nackVars, budgets,
                loopVars, socket, datagrams, log>>

MuStates == {"free",
             "write",         \* writeWithReliability, its loop on fragments
             "tickSend",      \* tick, in flushSendQueueLocked
             "tickResend",    \* tick, in flushResendQueueLocked
             "ackSend",       \* handleACK, in flushSendQueueLocked
             "enqueue"}       \* enqueueResendsLocked

WriteRecords == [reliability : Reliabilities, count : Nat \ {0},
                 orderIndex : Nat, splitID : Nat]

Datagrams == [seq : Nat, pk : Packets]

SenderTypeOK ==
  /\ seq \in Nat /\ orderIndex \in Nat /\ messageIndex \in Nat
  /\ sequenceIndex \in Nat /\ splitID \in Nat
  /\ ccPending \in Seq(Packets)
  /\ DOMAIN unacknowledged \subseteq Nat
  /\ unacknowledged \in [DOMAIN unacknowledged -> Packets]
  /\ ccNackQueue \in Seq(Nat)
  /\ ccNackSet \subseteq Nat
  /\ sendBudget \in Nat /\ resendBudget \in Nat /\ nackBudget \in Int
  /\ mu \in MuStates
  /\ toWrite \in Seq(Packets)
  /\ toEnqueue \subseteq Nat
  /\ tickPhase \in {"idle", "locked", "checkResend"}
  /\ socket \in {"open", "closed"}
  /\ datagrams \subseteq Datagrams
  /\ log \in Seq(WriteRecords)

SenderInit ==
  /\ seq = 0 /\ orderIndex = 0 /\ messageIndex = 0
  /\ sequenceIndex = 0 /\ splitID = 0
  /\ ccPending = <<>>
  /\ unacknowledged = <<>>
  /\ ccNackQueue = <<>> /\ ccNackSet = {}
  /\ sendBudget \in 0..MaxBudget
  /\ resendBudget \in 0..MaxBudget
  /\ nackBudget = NackBudgetPerSecond
  /\ mu = "free" /\ toWrite = <<>> /\ toEnqueue = {} /\ tickPhase = "idle"
  /\ socket = "open"
  /\ datagrams = {}
  /\ log = <<>>
-----------------------------------------------------------------------------
\* sendUnreliableDatagram: a new sequence number, nothing to resend.
Transmit(pk) ==
  /\ seq < MaxSeq
  /\ seq' = seq + 1
  /\ datagrams' = IF socket = "open"
                  THEN datagrams \cup {[seq |-> OnWire(seq),
                                        pk |-> OnWirePacket(pk)]}
                  ELSE datagrams

\* Mutant of SendDatagram: the record is added once the socket took the
\* datagram.
SendBeforeRecord(pk, records) ==
  /\ Transmit(pk)
  /\ unacknowledged' = [s \in DOMAIN records
                                \cup (IF socket = "open" THEN {seq} ELSE {}) |->
                          IF s = seq THEN pk ELSE records[s]]

\* sendDatagram on a map of records that may have lost the one being resent:
\* the record is added before the socket is tried.
SendDatagram(pk, records) ==
  /\ Transmit(pk)
  /\ unacknowledged' = [s \in DOMAIN records \cup {seq} |->
                          IF s = seq THEN pk ELSE records[s]]

\* The fragments of a write; the message index is assigned in the loop.
FragmentPackets(r, count) ==
  [k \in 1..count |->
     [reliability |-> r,
      messageIndex |-> 0,
      sequenceIndex |-> IF IsSequenced(r) THEN sequenceIndex ELSE 0,
      orderIndex |-> IF IsSequencedOrOrdered(r) THEN orderIndex ELSE 0,
      splitCount |-> IF count > 1 THEN count ELSE 0,
      splitIndex |-> IF count > 1 THEN k - 1 ELSE 0,
      splitID |-> IF count > 1 THEN splitID % SplitSpace ELSE 0,
      fragment |-> [w |-> Len(log) + 1, i |-> k - 1]]]

\* Mutant of BeginWrite: a write that is split does not use up its order index.
BeginWriteSplitKeepsIndex(r, length) ==
  LET count == FragmentCount(length, EffectiveMTU)
  IN  /\ mu = "free"
      /\ Len(log) < MaxWrites
      /\ IsReliable(r) \/ length <= EffectiveMTU
      /\ mu' = "write"
      /\ toWrite' = FragmentPackets(r, count)
      /\ orderIndex' = IF IsSequencedOrOrdered(r) /\ count = 1
                       THEN orderIndex + 1 ELSE orderIndex
      /\ sequenceIndex' = IF IsSequenced(r) THEN sequenceIndex + 1
                                            ELSE sequenceIndex
      /\ splitID' = IF count > 1 THEN splitID + 1 ELSE splitID
      /\ log' = Append(log, [reliability |-> r, count |-> count,
                             orderIndex |-> orderIndex,
                             splitID |-> splitID])
      /\ UNCHANGED <<seq, messageIndex, ccPending, unacknowledged, nackVars,
                     budgets, toEnqueue, tickPhase, socket, datagrams>>

\* Write, WriteWithReliability and WriteWithACK without a callback: take the
\* lock, split the buffer and assign the indices of the write.  An unreliable
\* buffer longer than the MTU is refused.
BeginWrite(r, length) ==
  LET count == FragmentCount(length, EffectiveMTU)
  IN  /\ mu = "free"
      /\ Len(log) < MaxWrites
      /\ IsReliable(r) \/ length <= EffectiveMTU
      /\ mu' = "write"
      /\ toWrite' = FragmentPackets(r, count)
      /\ orderIndex' = IF IsSequencedOrOrdered(r) THEN orderIndex + 1
                                                  ELSE orderIndex
      /\ sequenceIndex' = IF IsSequenced(r) THEN sequenceIndex + 1
                                            ELSE sequenceIndex
      /\ splitID' = IF count > 1 THEN splitID + 1 ELSE splitID
      /\ log' = Append(log, [reliability |-> r, count |-> count,
                             orderIndex |-> orderIndex,
                             splitID |-> splitID])
      /\ UNCHANGED <<seq, messageIndex, ccPending, unacknowledged, nackVars,
                     budgets, toEnqueue, tickPhase, socket, datagrams>>

\* One fragment of an unreliable write: sent at once, budget or not.
WriteUnreliable ==
  /\ mu = "write" /\ toWrite # <<>>
  /\ ~IsReliable(Head(toWrite).reliability)
  /\ Transmit(Head(toWrite))
  /\ toWrite' = IF socket = "open" THEN Tail(toWrite) ELSE <<>>
  /\ UNCHANGED <<orderIndex, messageIndex, sequenceIndex, splitID, ccPending,
                 unacknowledged, nackVars, budgets, mu, toEnqueue, tickPhase,
                 socket, log>>

\* One fragment of a reliable write, queueOrSend: sent if the budget allows
\* it, queued otherwise.  A send that fails abandons the other fragments.
WriteReliable ==
  /\ mu = "write" /\ toWrite # <<>>
  /\ IsReliable(Head(toWrite).reliability)
  /\ LET pk == [Head(toWrite) EXCEPT !.messageIndex = messageIndex]
     IN  \/ /\ sendBudget > 0
            /\ SendDatagram(pk, unacknowledged)
            /\ sendBudget' = IF socket = "open" THEN sendBudget - 1 ELSE sendBudget
            /\ toWrite' = IF socket = "open" THEN Tail(toWrite) ELSE <<>>
            /\ UNCHANGED ccPending
         \/ /\ sendBudget = 0
            /\ ccPending' = Append(ccPending, pk)
            /\ toWrite' = Tail(toWrite)
            /\ UNCHANGED <<seq, unacknowledged, datagrams, sendBudget>>
  /\ messageIndex' = messageIndex + 1
  /\ UNCHANGED <<orderIndex, sequenceIndex, splitID, nackVars, resendBudget,
                 nackBudget, mu, toEnqueue, tickPhase, socket, log>>

EndWrite ==
  /\ mu = "write" /\ toWrite = <<>>
  /\ mu' = "free"
  /\ UNCHANGED <<indices, ccPending, unacknowledged, nackVars, budgets,
                 toWrite, toEnqueue, tickPhase, socket, datagrams, log>>
-----------------------------------------------------------------------------
\* tick takes the lock and refills the budgets from the controller.
TickLock(sb, rb) ==
  /\ tickPhase = "idle" /\ mu = "free"
  /\ sendBudget' = sb
  /\ resendBudget' = rb
  /\ mu' = "tickSend" /\ tickPhase' = "locked"
  /\ UNCHANGED <<indices, ccPending, unacknowledged, nackVars, nackBudget,
                 toWrite, toEnqueue, socket, datagrams, log>>

\* Mutant of CanFlush: the last datagram of the budget is not used.
CanFlushBelowBudget == ccPending # <<>> /\ sendBudget > 1

CanFlush == ccPending # <<>> /\ sendBudget > 0

\* flushSendQueueLocked, an iteration of the loop; on an error the packet is
\* put back and the loop is left.
FlushSend ==
  /\ mu \in {"tickSend", "ackSend"} /\ CanFlush
  /\ SendDatagram(Head(ccPending), unacknowledged)
  /\ IF socket = "open"
     THEN /\ ccPending' = Tail(ccPending)
          /\ sendBudget' = sendBudget - 1
          /\ UNCHANGED mu
     ELSE /\ mu' = IF mu = "tickSend" THEN "tickResend" ELSE "free"
          /\ UNCHANGED <<ccPending, sendBudget>>
  /\ UNCHANGED <<orderIndex, messageIndex, sequenceIndex, splitID, nackVars,
                 resendBudget, nackBudget, toWrite, toEnqueue, tickPhase,
                 socket, log>>

FlushSendDone ==
  /\ mu \in {"tickSend", "ackSend"} /\ ~CanFlush
  /\ mu' = IF mu = "tickSend" THEN "tickResend" ELSE "free"
  /\ UNCHANGED <<indices, ccPending, unacknowledged, nackVars, budgets,
                 toWrite, toEnqueue, tickPhase, socket, datagrams, log>>

\* Mutant of Without: the old record stays.
WithoutNothing(records, s) == records

Without(records, s) == [t \in DOMAIN records \ {s} |-> records[t]]

CanResend == resendBudget > 0 /\ ccNackQueue # <<>>

\* tick releases the lock; every 30th tick goes on with checkResend.
TickUnlock(next) ==
  /\ mu' = "free"
  /\ tickPhase' = next

\* flushResendQueueLocked, an iteration on a sequence number that was
\* acknowledged since it was queued: skipped, without spending any budget.
SkipResend ==
  LET s == Head(ccNackQueue)
  IN  /\ mu = "tickResend" /\ CanResend
      /\ s \notin ccNackSet \/ s \notin DOMAIN unacknowledged
      /\ ccNackQueue' = Tail(ccNackQueue)
      /\ ccNackSet' = ccNackSet \ {s}
      /\ UNCHANGED <<indices, ccPending, unacknowledged, budgets, loopVars,
                     socket, datagrams, log>>

\* flushResendQueueLocked, an iteration that resends: the record leaves its
\* old sequence number and gets a new one.  On an error the old number is
\* put back at the front of the queue and the loop is left.
Resend(next) ==
  LET s == Head(ccNackQueue)
  IN  /\ mu = "tickResend" /\ CanResend
      /\ s \in ccNackSet /\ s \in DOMAIN unacknowledged
      /\ SendDatagram(unacknowledged[s], Without(unacknowledged, s))
      /\ IF socket = "open"
         THEN /\ ccNackQueue' = Tail(ccNackQueue)
              /\ ccNackSet' = ccNackSet \ {s}
              /\ resendBudget' = resendBudget - 1
              /\ UNCHANGED <<mu, tickPhase>>
         ELSE /\ TickUnlock(next)
              /\ UNCHANGED <<nackVars, resendBudget>>
      /\ UNCHANGED <<orderIndex, messageIndex, sequenceIndex, splitID,
                     ccPending, sendBudget, nackBudget, toWrite, toEnqueue,
                     socket, log>>

FlushResendDone(next) ==
  /\ mu = "tickResend" /\ ~CanResend
  /\ TickUnlock(next)
  /\ UNCHANGED <<indices, ccPending, unacknowledged, nackVars, budgets,
                 toWrite, toEnqueue, socket, datagrams, log>>
-----------------------------------------------------------------------------
\* Mutant of BeginEnqueue: numbers that are queued already are not skipped.
BeginEnqueueAll(numbers) ==
  /\ mu' = "enqueue"
  /\ toEnqueue' = numbers

\* enqueueResendsLocked takes numbers in any order of a set: checkResend
\* ranges over a Go map.
BeginEnqueue(numbers) ==
  /\ mu' = "enqueue"
  /\ toEnqueue' = numbers \ ccNackSet

\* Mutant of EnqueueResend: the set is updated before the limit is looked at.
EnqueueMarkFirst(s) ==
  /\ mu = "enqueue" /\ s \in toEnqueue
  /\ ccNackSet' = ccNackSet \cup {s}
  /\ IF Len(ccNackQueue) >= MaxNackQueueSize
     THEN toEnqueue' = {} /\ UNCHANGED ccNackQueue
     ELSE /\ toEnqueue' = toEnqueue \ {s}
          /\ ccNackQueue' = Append(ccNackQueue, s)
  /\ UNCHANGED <<indices, ccPending, unacknowledged, budgets, mu, toWrite,
                 tickPhase, socket, datagrams, log>>

EnqueueResend(s) ==
  /\ mu = "enqueue" /\ s \in toEnqueue
  /\ IF Len(ccNackQueue) >= MaxNackQueueSize
     THEN toEnqueue' = {} /\ UNCHANGED nackVars
     ELSE /\ toEnqueue' = toEnqueue \ {s}
          /\ ccNackSet' = ccNackSet \cup {s}
          /\ ccNackQueue' = Append(ccNackQueue, s)
  /\ UNCHANGED <<indices, ccPending, unacknowledged, budgets, mu, toWrite,
                 tickPhase, socket, datagrams, log>>

EndEnqueue ==
  /\ mu = "enqueue" /\ toEnqueue = {}
  /\ mu' = "free"
  /\ UNCHANGED <<indices, ccPending, unacknowledged, nackVars, budgets,
                 toWrite, toEnqueue, tickPhase, socket, datagrams, log>>

\* checkResend: old is the set of records older than the RTO.
CheckResend(old) ==
  /\ tickPhase = "checkResend" /\ mu = "free"
  /\ old \subseteq DOMAIN unacknowledged
  /\ BeginEnqueue(old)
  /\ tickPhase' = "idle"
  /\ UNCHANGED <<indices, ccPending, unacknowledged, nackVars, budgets,
                 toWrite, socket, datagrams, log>>

\* handleACK: the records are dropped, their packets go back to the pool.
\* The pending queue is flushed only if the ACK was news.
HandleACK(acked) ==
  /\ mu = "free"
  /\ ccNackSet' = ccNackSet \ acked
  /\ unacknowledged' = [s \in DOMAIN unacknowledged \ acked |->
                          unacknowledged[s]]
  /\ mu' = IF acked \cap DOMAIN unacknowledged = {} THEN "free" ELSE "ackSend"
  /\ UNCHANGED <<indices, ccPending, ccNackQueue, budgets, toWrite, toEnqueue,
                 tickPhase, socket, datagrams, log>>

\* handleNACK: over tells whether a second has passed since the window began.
\* The budget is tested before the valid numbers are counted against it.
HandleNACK(missing, over) ==
  LET budget == IF over THEN NackBudgetPerSecond ELSE nackBudget
      valid == missing \cap DOMAIN unacknowledged
  IN  /\ mu = "free"
      /\ IF budget <= 0 \/ valid = {}
         THEN /\ nackBudget' = budget
              /\ UNCHANGED <<mu, toEnqueue>>
         ELSE /\ nackBudget' = budget - Cardinality(valid)
              /\ BeginEnqueue(valid)
      /\ UNCHANGED <<indices, ccPending, unacknowledged, nackVars, sendBudget,
                     resendBudget, toWrite, tickPhase, socket, datagrams,
                     log>>

\* Listener.Close closes the socket that all its connections share; they
\* keep ticking until they time out.
CloseSocket ==
  /\ ListenerMayClose
  /\ socket = "open"
  /\ socket' = "closed"
  /\ UNCHANGED <<indices, ccPending, unacknowledged, nackVars, budgets,
                 loopVars, datagrams, log>>
=============================================================================
