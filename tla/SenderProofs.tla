---------------------------- MODULE SenderProofs ----------------------------
(***************************************************************************)
(* The bookkeeping of the sender: who owns a packet, what the resend queue *)
(* holds, and when packets wait for the budget.                            *)
(***************************************************************************)
EXTENDS TypeProofs

\* A new connection has empty queues.
LEMMA InitSender == Init => SenderInv
BY DEF Init, SenderInit, SenderInv, SenderBookkeeping, NackedAreTracked,
       NackQueueConsistent, SingleOwner, BudgetSpent

\* What the types say of the sender's packets.
LEMMA SenderTypes ==
  ASSUME TypeInv
  PROVE  /\ messageIndex \in Nat /\ seq \in Nat /\ sendBudget \in Nat
         /\ ccPending \in Seq(Packets) /\ ccNackQueue \in Seq(Nat)
         /\ \A k \in DOMAIN ccPending :
              ccPending[k] \in Packets /\ ccPending[k].messageIndex \in Nat
         /\ \A s \in DOMAIN unacknowledged :
              /\ s \in Nat /\ unacknowledged[s] \in Packets
              /\ unacknowledged[s].messageIndex \in Nat
         /\ \A k \in DOMAIN ccNackQueue : ccNackQueue[k] \in Nat
<1>1. SenderTypeOK
  BY DEF TypeInv, TypeOK
<1>2. \A k \in DOMAIN ccPending : ccPending[k] \in Packets
  BY <1>1 DEF SenderTypeOK
<1>3. \A s \in DOMAIN unacknowledged : s \in Nat /\ unacknowledged[s] \in Packets
  BY <1>1 DEF SenderTypeOK
<1>4. \A k \in DOMAIN ccNackQueue : ccNackQueue[k] \in Nat
  BY <1>1 DEF SenderTypeOK
<1>5. \A pk \in Packets : pk.messageIndex \in Nat
  BY DEF Packets
<1> QED BY <1>1, <1>2, <1>3, <1>4, <1>5 DEF SenderTypeOK

\* A step that touches neither the packets nor the resend queue.
LEMMA QuietStep ==
  ASSUME TypeInv, SenderInv,
         seq' \in Nat, seq <= seq',
         UNCHANGED <<messageIndex, ccPending, unacknowledged, ccNackQueue,
                     ccNackSet>>,
         socket' = "open" => socket = "open",
         toEnqueue' \subseteq DOMAIN unacknowledged \ ccNackSet,
         toEnqueue' # {} => mu' = "enqueue",
         BudgetSpent'
  PROVE  SenderInv'
<1>1. SenderBookkeeping'
  <2>1. seq \in Nat /\ \A s \in DOMAIN unacknowledged : s \in Nat
    BY SenderTypes
  <2>2. \A k \in DOMAIN ccNackQueue : ccNackQueue[k] \in Nat
    BY SenderTypes
  <2>3. \A s \in DOMAIN unacknowledged' :
          s < seq' /\ Tracked(unacknowledged[s])'
    BY <2>1 DEF SenderInv, SenderBookkeeping, Tracked
  <2>4. \A k \in DOMAIN ccPending' : Tracked(ccPending[k])'
    BY DEF SenderInv, SenderBookkeeping, Tracked
  <2>5. \A k \in DOMAIN ccNackQueue' : ccNackQueue'[k] < seq'
    BY <2>1, <2>2 DEF SenderInv, SenderBookkeeping
  <2> QED BY <2>3, <2>4, <2>5 DEF SenderBookkeeping
<1>2. NackedAreTracked' /\ NackQueueConsistent'
  BY DEF SenderInv, NackedAreTracked, NackQueueConsistent
<1>3. SingleOwner'
  BY DEF SenderInv, SingleOwner
<1> QED BY <1>1, <1>2, <1>3 DEF SenderInv

\* The steps of the sender that move no packet.
LEMMA QuietSenderStep ==
  ASSUME TypeInv, TypeInv', SenderInv,
         \/ \E r \in WriteKinds, length \in Lengths : BeginWrite(r, length)
         \/ WriteUnreliable
         \/ EndWrite
         \/ \E sb, rb \in 0..MaxBudget : TickLock(sb, rb)
         \/ FlushSendDone
         \/ \E next \in {"idle", "checkResend"} : FlushResendDone(next)
         \/ \E old \in SUBSET MayTimeOut : CheckResend(old)
         \/ EndEnqueue
         \/ CloseSocket
         \/ \E missing \in SUBSET Nat, over \in BOOLEAN :
              HandleNACK(missing, over)
  PROVE  SenderInv'
<1> USE DEF indices, nackVars, budgets, loopVars
<1>1. seq \in Nat /\ seq' \in Nat /\ sendBudget \in Nat
  BY DEF TypeInv, TypeOK, SenderTypeOK
<1>2. /\ toEnqueue \subseteq DOMAIN unacknowledged \ ccNackSet
      /\ toEnqueue # {} => mu = "enqueue"
      /\ BudgetSpent
  BY DEF SenderInv, SenderBookkeeping
<1>3. CASE \E r \in WriteKinds, length \in Lengths : BeginWrite(r, length)
  <2>1. BudgetSpent'
    BY <1>2, <1>3 DEF BeginWrite, BudgetSpent
  <2> QED BY <1>1, <1>2, <1>3, <2>1, QuietStep DEF BeginWrite
<1>4. CASE WriteUnreliable
  <2>1. BudgetSpent'
    BY <1>2, <1>4 DEF WriteUnreliable, BudgetSpent
  <2>2. seq' = seq + 1
    BY <1>4 DEF WriteUnreliable, Transmit
  <2> QED BY <1>1, <1>2, <1>4, <2>1, <2>2, QuietStep DEF WriteUnreliable
<1>5. CASE EndWrite
  <2>1. BudgetSpent'
    BY <1>2, <1>5 DEF EndWrite, BudgetSpent
  <2> QED BY <1>1, <1>2, <1>5, <2>1, QuietStep DEF EndWrite
<1>6. CASE \E sb, rb \in 0..MaxBudget : TickLock(sb, rb)
  <2>1. BudgetSpent'
    BY <1>6 DEF TickLock, BudgetSpent
  <2> QED BY <1>1, <1>2, <1>6, <2>1, QuietStep DEF TickLock
<1>7. CASE FlushSendDone
  <2>1. BudgetSpent'
    BY <1>1, <1>7 DEF FlushSendDone, CanFlush, BudgetSpent
  <2> QED BY <1>1, <1>2, <1>7, <2>1, QuietStep DEF FlushSendDone
<1>8. CASE \E next \in {"idle", "checkResend"} : FlushResendDone(next)
  <2>1. BudgetSpent'
    BY <1>2, <1>8 DEF FlushResendDone, TickUnlock, BudgetSpent
  <2> QED BY <1>1, <1>2, <1>8, <2>1, QuietStep DEF FlushResendDone, TickUnlock
<1>9. CASE \E old \in SUBSET MayTimeOut : CheckResend(old)
  <2>1. BudgetSpent'
    BY <1>2, <1>9 DEF CheckResend, BeginEnqueue, BudgetSpent
  <2>2. /\ toEnqueue' \subseteq DOMAIN unacknowledged \ ccNackSet
        /\ mu' = "enqueue"
    BY <1>9 DEF CheckResend, BeginEnqueue
  <2> QED BY <1>1, <1>9, <2>1, <2>2, QuietStep DEF CheckResend
<1>10. CASE EndEnqueue
  <2>1. BudgetSpent'
    BY <1>2, <1>10 DEF EndEnqueue, BudgetSpent
  <2> QED BY <1>1, <1>10, <2>1, QuietStep DEF EndEnqueue
<1>11. CASE CloseSocket
  <2>1. BudgetSpent'
    BY <1>11 DEF CloseSocket, BudgetSpent
  <2> QED BY <1>1, <1>2, <1>11, <2>1, QuietStep DEF CloseSocket
<1>12. CASE \E missing \in SUBSET Nat, over \in BOOLEAN :
              HandleNACK(missing, over)
  <2>1. BudgetSpent'
    BY <1>2, <1>12 DEF HandleNACK, BeginEnqueue, BudgetSpent
  <2>2. /\ toEnqueue' \subseteq DOMAIN unacknowledged \ ccNackSet
        /\ toEnqueue' # {} => mu' = "enqueue"
    BY <1>2, <1>12 DEF HandleNACK, BeginEnqueue
  <2> QED BY <1>1, <1>12, <2>1, <2>2, QuietStep DEF HandleNACK
<1> QED
  BY <1>3, <1>4, <1>5, <1>6, <1>7, <1>8, <1>9, <1>10, <1>11, <1>12

\* A packet gets a fresh sequence number: the records that were there, maybe
\* without one of them, and the new one.
LEMMA SendStep ==
  ASSUME TypeInv, SenderInv, NEW pk, NEW records,
         DOMAIN records \subseteq DOMAIN unacknowledged,
         \A s \in DOMAIN records : records[s] = unacknowledged[s],
         SendDatagram(pk, records)
  PROVE  /\ seq' = seq + 1
         /\ DOMAIN unacknowledged' = DOMAIN records \cup {seq}
         /\ unacknowledged'[seq] = pk
         /\ seq \notin DOMAIN unacknowledged
         /\ \A s \in DOMAIN records : unacknowledged'[s] = unacknowledged[s]
<1>1. seq \notin DOMAIN unacknowledged
  BY DEF TypeInv, TypeOK, SenderTypeOK, SenderInv, SenderBookkeeping
<1> QED BY <1>1 DEF SendDatagram, Transmit

\* queueOrSend keeps the bookkeeping.
LEMMA WriteReliableSender ==
  ASSUME TypeInv, SenderInv, WriteReliable
  PROVE  SenderInv'
<1> DEFINE pk == [Head(toWrite) EXCEPT !.messageIndex = messageIndex]
<1>1. /\ messageIndex \in Nat /\ seq \in Nat /\ sendBudget \in Nat
      /\ ccPending \in Seq(Packets)
      /\ \A k \in DOMAIN ccPending : ccPending[k].messageIndex \in Nat
      /\ \A s \in DOMAIN unacknowledged :
           s \in Nat /\ unacknowledged[s].messageIndex \in Nat
      /\ \A k \in DOMAIN ccNackQueue : ccNackQueue[k] \in Nat
  BY SenderTypes
<1>2. /\ messageIndex' = messageIndex + 1
      /\ UNCHANGED <<ccNackQueue, ccNackSet, mu, toEnqueue, socket>>
      /\ mu = "write" /\ toEnqueue = {}
  BY DEF WriteReliable, nackVars, SenderInv, SenderBookkeeping
<1>3. pk.messageIndex = messageIndex /\ IsReliable(pk.reliability)
  <2>1. Head(toWrite) \in Packets
    BY DEF WriteReliable, TypeInv, TypeOK, SenderTypeOK
  <2> QED BY <2>1 DEF WriteReliable, Packets
<1>4. /\ \A k \in DOMAIN ccPending : Tracked(ccPending[k])
      /\ \A s \in DOMAIN unacknowledged : s < seq /\ Tracked(unacknowledged[s])
      /\ \A k \in DOMAIN ccNackQueue : ccNackQueue[k] < seq
  BY DEF SenderInv, SenderBookkeeping
<1> HIDE DEF pk
<1>5. CASE /\ sendBudget > 0
           /\ SendDatagram(pk, unacknowledged)
           /\ ccPending' = ccPending
  <2>1. /\ seq' = seq + 1
        /\ DOMAIN unacknowledged' = DOMAIN unacknowledged \cup {seq}
        /\ unacknowledged'[seq] = pk
        /\ seq \notin DOMAIN unacknowledged
        /\ \A s \in DOMAIN unacknowledged :
             unacknowledged'[s] = unacknowledged[s]
    BY <1>5, SendStep
  <2>2. SenderBookkeeping'
    BY <1>1, <1>2, <1>3, <1>4, <1>5, <2>1 DEF SenderBookkeeping, Tracked
  <2>3. NackedAreTracked' /\ NackQueueConsistent'
    BY <1>1, <1>2, <1>4, <2>1
    DEF SenderInv, NackedAreTracked, NackQueueConsistent
  <2>4. SingleOwner'
    BY <1>1, <1>2, <1>3, <1>4, <1>5, <2>1
    DEF SenderInv, SingleOwner, Tracked
  <2>5. BudgetSpent'
    BY <1>2, <1>5 DEF SenderInv, BudgetSpent
  <2> QED BY <2>2, <2>3, <2>4, <2>5 DEF SenderInv
<1>6. CASE /\ sendBudget = 0
           /\ ccPending' = Append(ccPending, pk)
           /\ UNCHANGED <<seq, unacknowledged, sendBudget>>
  <2>1. /\ DOMAIN ccPending' = DOMAIN ccPending \cup {Len(ccPending) + 1}
        /\ ccPending'[Len(ccPending) + 1] = pk
        /\ \A k \in DOMAIN ccPending : ccPending'[k] = ccPending[k]
    BY <1>1, <1>6
  <2>2. SenderBookkeeping'
    BY <1>1, <1>2, <1>3, <1>4, <1>6, <2>1 DEF SenderBookkeeping, Tracked
  <2>3. NackedAreTracked' /\ NackQueueConsistent'
    BY <1>2, <1>6 DEF SenderInv, NackedAreTracked, NackQueueConsistent
  <2>4. SingleOwner'
    BY <1>1, <1>2, <1>3, <1>4, <1>6, <2>1
    DEF SenderInv, SingleOwner, Tracked
  <2>5. BudgetSpent'
    BY <1>6 DEF BudgetSpent
  <2> QED BY <2>2, <2>3, <2>4, <2>5 DEF SenderInv
<1> QED BY <1>5, <1>6 DEF WriteReliable, pk

\* flushSendQueueLocked keeps the bookkeeping, on an error too.
LEMMA FlushSendSender ==
  ASSUME TypeInv, SenderInv, FlushSend
  PROVE  SenderInv'
<1> DEFINE pk == Head(ccPending)
<1>1. /\ messageIndex \in Nat /\ seq \in Nat
      /\ ccPending \in Seq(Packets) /\ ccPending # <<>>
      /\ \A s \in DOMAIN unacknowledged : s \in Nat
      /\ \A k \in DOMAIN ccNackQueue : ccNackQueue[k] \in Nat
  BY SenderTypes DEF FlushSend, CanFlush
<1>2. /\ UNCHANGED <<messageIndex, ccNackQueue, ccNackSet, toEnqueue, socket>>
      /\ mu \in {"tickSend", "ackSend"} /\ toEnqueue = {}
  BY DEF FlushSend, nackVars, SenderInv, SenderBookkeeping
<1>3. /\ \A k \in DOMAIN ccPending : Tracked(ccPending[k])
      /\ \A s \in DOMAIN unacknowledged : s < seq /\ Tracked(unacknowledged[s])
      /\ \A k \in DOMAIN ccNackQueue : ccNackQueue[k] < seq
  BY DEF SenderInv, SenderBookkeeping
<1>4. 1 \in DOMAIN ccPending /\ pk = ccPending[1]
  BY <1>1
<1>5. /\ seq' = seq + 1
      /\ DOMAIN unacknowledged' = DOMAIN unacknowledged \cup {seq}
      /\ unacknowledged'[seq] = pk
      /\ seq \notin DOMAIN unacknowledged
      /\ \A s \in DOMAIN unacknowledged :
           unacknowledged'[s] = unacknowledged[s]
  BY SendStep DEF FlushSend
<1>6. \/ socket = "closed" /\ UNCHANGED ccPending
      \/ /\ socket = "open" /\ mu' = mu
         /\ ccPending' = Tail(ccPending)
  BY DEF FlushSend, TypeInv, TypeOK, SenderTypeOK
<1>7. /\ Len(ccPending) \in Nat
      /\ DOMAIN Tail(ccPending) = 1..(Len(ccPending) - 1)
      /\ \A k \in DOMAIN Tail(ccPending) :
           k + 1 \in DOMAIN ccPending /\ k + 1 # 1
           /\ Tail(ccPending)[k] = ccPending[k + 1]
  BY <1>1
<1> HIDE DEF pk
<1>8. SenderBookkeeping'
  <2>1. \A k \in DOMAIN ccPending' : Tracked(ccPending[k])'
    BY <1>2, <1>3, <1>6, <1>7 DEF Tracked
  <2>2. \A s \in DOMAIN unacknowledged' :
          s < seq' /\ Tracked(unacknowledged[s])'
    BY <1>1, <1>2, <1>3, <1>4, <1>5 DEF Tracked
  <2> QED BY <1>1, <1>2, <1>3, <1>5, <2>1, <2>2 DEF SenderBookkeeping
<1>9. NackedAreTracked' /\ NackQueueConsistent'
  BY <1>1, <1>2, <1>3, <1>5
  DEF SenderInv, NackedAreTracked, NackQueueConsistent
<1>10. SingleOwner'
  <2>1. CASE socket = "closed"
    BY <1>2, <2>1 DEF SingleOwner
  <2>2. CASE socket = "open" /\ ccPending' = Tail(ccPending)
    <3>1. /\ \A j, k \in DOMAIN ccPending :
               ccPending[j].messageIndex = ccPending[k].messageIndex => j = k
          /\ \A s, t \in DOMAIN unacknowledged :
               unacknowledged[s].messageIndex = unacknowledged[t].messageIndex
                 => s = t
          /\ \A k \in DOMAIN ccPending, s \in DOMAIN unacknowledged :
               ccPending[k].messageIndex # unacknowledged[s].messageIndex
      BY <2>2 DEF SenderInv, SingleOwner
    <3>2. \A j, k \in DOMAIN ccPending' :
            ccPending'[j].messageIndex = ccPending'[k].messageIndex => j = k
      <4> SUFFICES ASSUME NEW j \in DOMAIN ccPending',
                          NEW k \in DOMAIN ccPending',
                          ccPending'[j].messageIndex = ccPending'[k].messageIndex
                   PROVE  j = k
        OBVIOUS
      <4>1. j + 1 = k + 1
        BY <1>7, <2>2, <3>1
      <4> QED BY <1>7, <2>2, <4>1
    <3>3. \A s, t \in DOMAIN unacknowledged' :
            unacknowledged'[s].messageIndex = unacknowledged'[t].messageIndex
              => s = t
      BY <1>4, <1>5, <3>1
    <3>4. \A k \in DOMAIN ccPending', s \in DOMAIN unacknowledged' :
            ccPending'[k].messageIndex # unacknowledged'[s].messageIndex
      BY <1>4, <1>5, <1>7, <2>2, <3>1
    <3> QED BY <3>2, <3>3, <3>4 DEF SingleOwner
  <2> QED BY <1>6, <2>1, <2>2
<1>11. BudgetSpent'
  BY <1>2, <1>6 DEF BudgetSpent
<1> QED BY <1>8, <1>9, <1>10, <1>11 DEF SenderInv

\* NackQueueConsistent, of any queue and set.
Holds(q, S) ==
  /\ \A j, k \in DOMAIN q : q[j] = q[k] => j = k
  /\ \A t \in S : \E k \in DOMAIN q : q[k] = t

\* The queue without its head, and the set without that number.
LEMMA PopHolds ==
  ASSUME NEW q \in Seq(Nat), q # <<>>, NEW S, Holds(q, S)
  PROVE  Holds(Tail(q), S \ {Head(q)})
<1> DEFINE p == Tail(q)
           n == Len(q)
<1>1. /\ n \in Nat /\ DOMAIN p = 1..(n - 1) /\ DOMAIN q = 1..n
      /\ \A k \in DOMAIN p : p[k] = q[k + 1]
      /\ Head(q) = q[1]
  OBVIOUS
<1> HIDE DEF p, n
<1>2. ASSUME NEW j \in DOMAIN p, NEW k \in DOMAIN p, p[j] = p[k]
      PROVE  j = k
  <2>1. j + 1 \in DOMAIN q /\ k + 1 \in DOMAIN q /\ q[j + 1] = q[k + 1]
    BY <1>1, <1>2
  <2>2. j + 1 = k + 1
    BY <2>1 DEF Holds
  <2> QED BY <1>1, <2>2
<1>3. ASSUME NEW t \in S \ {q[1]} PROVE \E k \in DOMAIN p : p[k] = t
  <2>1. PICK k \in DOMAIN q : q[k] = t
    BY DEF Holds
  <2>2. k \in 2..n
    BY <1>1, <2>1
  <2>3. k - 1 \in DOMAIN p /\ p[k - 1] = q[(k - 1) + 1] /\ (k - 1) + 1 = k
    BY <1>1, <2>2
  <2> QED BY <2>1, <2>3
<1> QED BY <1>1, <1>2, <1>3 DEF Holds, p

\* A number that was acknowledged leaves the resend queue.
LEMMA SkipResendSender ==
  ASSUME TypeInv, SenderInv, SkipResend
  PROVE  SenderInv'
<1> DEFINE q == ccNackQueue
           s == Head(q)
<1>1. q \in Seq(Nat) /\ q # <<>>
  BY SenderTypes DEF SkipResend, CanResend
<1>2. 1 \in DOMAIN q /\ s = q[1]
  BY <1>1
<1>3. /\ DOMAIN q = 1..Len(q) /\ Len(q) \in Nat
      /\ DOMAIN Tail(q) = 1..(Len(q) - 1)
      /\ \A k \in DOMAIN Tail(q) :
           k + 1 \in DOMAIN q /\ k + 1 # 1 /\ Tail(q)[k] = q[k + 1]
  BY <1>1
<1>4. /\ ccNackQueue' = Tail(q) /\ ccNackSet' = ccNackSet \ {s}
      /\ UNCHANGED <<seq, messageIndex, ccPending, unacknowledged, sendBudget,
                     mu, toEnqueue, socket>>
      /\ mu = "tickResend"
  BY DEF SkipResend, indices, budgets, loopVars
<1>5. /\ \A j, k \in DOMAIN q : q[j] = q[k] => j = k
      /\ \A t \in ccNackSet : \E k \in DOMAIN q : q[k] = t
  BY DEF SenderInv, NackQueueConsistent
<1> HIDE DEF q, s
<1>6. SenderBookkeeping'
  <2>1. \A k \in DOMAIN ccNackQueue' : ccNackQueue'[k] < seq'
    BY <1>3, <1>4 DEF SenderInv, SenderBookkeeping, q
  <2> QED BY <1>4, <2>1 DEF SenderInv, SenderBookkeeping, Tracked
<1>7. NackedAreTracked'
  BY <1>2, <1>3, <1>4, <1>5 DEF SenderInv, NackedAreTracked, q
<1>8. NackQueueConsistent'
  <2>1. Holds(q, ccNackSet)
    BY <1>5 DEF Holds
  <2>2. Holds(Tail(q), ccNackSet \ {s})
    BY <1>1, <2>1, PopHolds DEF s
  <2> QED BY <1>4, <2>2 DEF NackQueueConsistent, Holds
<1>9. SingleOwner' /\ BudgetSpent'
  BY <1>4 DEF SenderInv, SingleOwner, BudgetSpent
<1> QED BY <1>6, <1>7, <1>8, <1>9 DEF SenderInv

\* flushResendQueueLocked keeps the bookkeeping, on an error too.
LEMMA ResendSender ==
  ASSUME TypeInv, SenderInv, NEW next, Resend(next)
  PROVE  SenderInv'
<1> DEFINE q == ccNackQueue
           s == Head(q)
           rest == Without(unacknowledged, s)
<1>1. /\ q \in Seq(Nat) /\ q # <<>>
      /\ seq \in Nat /\ messageIndex \in Nat
      /\ \A t \in DOMAIN unacknowledged : t \in Nat
      /\ \A k \in DOMAIN q : q[k] \in Nat
  BY SenderTypes DEF Resend, CanResend
<1>2. 1 \in DOMAIN q /\ s = q[1]
  BY <1>1
<1>3. /\ DOMAIN q = 1..Len(q) /\ Len(q) \in Nat
      /\ DOMAIN Tail(q) = 1..(Len(q) - 1)
      /\ \A k \in DOMAIN Tail(q) :
           k + 1 \in DOMAIN q /\ k + 1 # 1 /\ Tail(q)[k] = q[k + 1]
  BY <1>1
<1>4. /\ \/ ccNackQueue' = Tail(q) /\ ccNackSet' = ccNackSet \ {s}
         \/ UNCHANGED <<ccNackQueue, ccNackSet>>
      /\ mu' \in {mu, "free"}
      /\ UNCHANGED <<messageIndex, ccPending, sendBudget, toEnqueue, socket>>
      /\ mu = "tickResend"
      /\ s \in DOMAIN unacknowledged
  BY DEF Resend, TickUnlock, nackVars
<1>5. /\ seq' = seq + 1
      /\ DOMAIN unacknowledged' = (DOMAIN unacknowledged \ {s}) \cup {seq}
      /\ unacknowledged'[seq] = unacknowledged[s]
      /\ seq \notin DOMAIN unacknowledged
      /\ \A t \in DOMAIN unacknowledged \ {s} :
           unacknowledged'[t] = unacknowledged[t]
  <2>1. SendDatagram(unacknowledged[s], rest)
    BY DEF Resend
  <2>2. /\ DOMAIN rest = DOMAIN unacknowledged \ {s}
        /\ \A t \in DOMAIN rest : rest[t] = unacknowledged[t]
    BY DEF Without
  <2> HIDE DEF rest
  <2> QED BY <2>1, <2>2, SendStep
<1>6. /\ \A j, k \in DOMAIN q : q[j] = q[k] => j = k
      /\ \A t \in ccNackSet : \E k \in DOMAIN q : q[k] = t
  BY DEF SenderInv, NackQueueConsistent
<1>7. /\ \A t \in DOMAIN unacknowledged : t < seq /\ Tracked(unacknowledged[t])
      /\ \A k \in DOMAIN ccPending : Tracked(ccPending[k])
      /\ \A k \in DOMAIN q : q[k] < seq
      /\ toEnqueue = {}
  BY <1>4 DEF SenderInv, SenderBookkeeping
<1> HIDE DEF q, s, rest
<1>8. SenderBookkeeping'
  <2>1. \A k \in DOMAIN ccNackQueue' : ccNackQueue'[k] < seq'
    <3>1. CASE ccNackQueue' = Tail(q)
      BY <1>1, <1>3, <1>5, <1>7, <3>1
    <3>2. CASE ccNackQueue' = q
      BY <1>1, <1>5, <1>7, <3>2
    <3> QED BY <1>4, <3>1, <3>2 DEF q
  <2>2. \A t \in DOMAIN unacknowledged' :
          t < seq' /\ Tracked(unacknowledged[t])'
    BY <1>1, <1>4, <1>5, <1>7 DEF Tracked
  <2> QED BY <1>4, <1>7, <2>1, <2>2 DEF SenderBookkeeping, Tracked
<1>9. NackedAreTracked'
  <2>1. \A k \in DOMAIN q : q[k] \in DOMAIN unacknowledged' =>
          q[k] \in ccNackSet /\ q[k] # s
    BY <1>1, <1>5, <1>7 DEF SenderInv, NackedAreTracked, q
  <2>2. CASE ccNackQueue' = Tail(q) /\ ccNackSet' = ccNackSet \ {s}
    BY <1>3, <2>1, <2>2 DEF NackedAreTracked
  <2>3. CASE UNCHANGED <<ccNackQueue, ccNackSet>>
    BY <2>1, <2>3 DEF NackedAreTracked, q
  <2> QED BY <1>4, <2>2, <2>3
<1>10. NackQueueConsistent'
  <2>1. CASE ccNackQueue' = Tail(q) /\ ccNackSet' = ccNackSet \ {s}
    <3>1. Holds(q, ccNackSet)
      BY <1>6 DEF Holds
    <3>2. Holds(Tail(q), ccNackSet \ {s})
      BY <1>1, <3>1, PopHolds DEF s
    <3> QED BY <2>1, <3>2 DEF NackQueueConsistent, Holds
  <2>2. CASE UNCHANGED <<ccNackQueue, ccNackSet>>
    BY <2>2 DEF SenderInv, NackQueueConsistent
  <2> QED BY <1>4, <2>1, <2>2
<1>11. SingleOwner'
  BY <1>4, <1>5 DEF SenderInv, SingleOwner
<1>12. BudgetSpent'
  BY <1>4 DEF SenderInv, BudgetSpent
<1> QED BY <1>8, <1>9, <1>10, <1>11, <1>12 DEF SenderInv

\* enqueueResendsLocked queues a number that was not queued.
LEMMA EnqueueResendSender ==
  ASSUME TypeInv, SenderInv, NEW s \in toEnqueue, EnqueueResend(s)
  PROVE  SenderInv'
<1>1. /\ UNCHANGED <<seq, messageIndex, ccPending, unacknowledged, sendBudget,
                     mu, socket>>
      /\ mu = "enqueue"
  BY DEF EnqueueResend, indices, budgets
<1>2. SingleOwner' /\ BudgetSpent'
  BY <1>1 DEF SenderInv, SingleOwner, BudgetSpent
<1>3. CASE toEnqueue' = {} /\ UNCHANGED nackVars
  BY <1>1, <1>2, <1>3
  DEF nackVars, SenderInv, SenderBookkeeping, Tracked, NackedAreTracked,
      NackQueueConsistent
<1>4. CASE /\ toEnqueue' = toEnqueue \ {s}
           /\ ccNackSet' = ccNackSet \cup {s}
           /\ ccNackQueue' = Append(ccNackQueue, s)
  <2>1. s \in DOMAIN unacknowledged /\ s \notin ccNackSet /\ s < seq
    BY DEF SenderInv, SenderBookkeeping
  <2>2. \A k \in DOMAIN ccNackQueue : ccNackQueue[k] # s
    BY <2>1 DEF SenderInv, NackedAreTracked
  <2>3. /\ DOMAIN ccNackQueue' = DOMAIN ccNackQueue \cup {Len(ccNackQueue) + 1}
        /\ ccNackQueue'[Len(ccNackQueue) + 1] = s
        /\ \A k \in DOMAIN ccNackQueue : ccNackQueue'[k] = ccNackQueue[k]
    BY <1>4, SenderTypes
  <2>4. SenderBookkeeping'
    BY <1>1, <1>4, <2>1, <2>3 DEF SenderInv, SenderBookkeeping, Tracked
  <2>5. NackedAreTracked'
    BY <1>1, <1>4, <2>3 DEF SenderInv, NackedAreTracked
  <2>6. NackQueueConsistent'
    BY <1>4, <2>2, <2>3 DEF SenderInv, NackQueueConsistent
  <2> QED BY <1>2, <2>4, <2>5, <2>6 DEF SenderInv
<1> QED BY <1>3, <1>4 DEF EnqueueResend

\* handleACK keeps the bookkeeping.
LEMMA HandleACKSender ==
  ASSUME TypeInv, SenderInv, NEW acked, HandleACK(acked)
  PROVE  SenderInv'
<1>1. /\ UNCHANGED <<seq, messageIndex, ccPending, ccNackQueue, sendBudget,
                     toEnqueue, socket>>
      /\ mu = "free" /\ mu' \in {"free", "ackSend"}
      /\ ccNackSet' = ccNackSet \ acked
      /\ DOMAIN unacknowledged' = DOMAIN unacknowledged \ acked
      /\ \A s \in DOMAIN unacknowledged' :
           unacknowledged'[s] = unacknowledged[s]
  BY DEF HandleACK, indices, budgets
<1>2. SenderBookkeeping'
  BY <1>1 DEF SenderInv, SenderBookkeeping, Tracked
<1>3. NackedAreTracked' /\ NackQueueConsistent'
  BY <1>1 DEF SenderInv, NackedAreTracked, NackQueueConsistent
<1>4. SingleOwner'
  BY <1>1 DEF SenderInv, SingleOwner
<1>5. BudgetSpent'
  BY <1>1 DEF SenderInv, BudgetSpent
<1> QED BY <1>2, <1>3, <1>4, <1>5 DEF SenderInv

\* Every step keeps the bookkeeping of the sender.
LEMMA NextSender ==
  ASSUME TypeInv, TypeInv', SenderInv, [Next]_vars
  PROVE  SenderInv'
<1>1. CASE SenderStep
  BY <1>1, QuietSenderStep, WriteReliableSender, FlushSendSender,
     SkipResendSender, ResendSender, EnqueueResendSender
  DEF SenderStep
<1>2. CASE ReceiveReply
  <2>1. PICK r \in replies :
          \/ HandleACK(r.packets)
          \/ \E over \in BOOLEAN : HandleNACK(r.packets, over)
    BY <1>2 DEF ReceiveReply
  <2>2. r.packets \in SUBSET Nat
    BY DEF TypeInv, TypeOK, ReceiverTypeOK, Replies
  <2>3. CASE HandleACK(r.packets)
    BY <2>3, HandleACKSender
  <2>4. CASE \E over \in BOOLEAN : HandleNACK(r.packets, over)
    BY <2>2, <2>4, QuietSenderStep
  <2> QED BY <2>1, <2>3, <2>4
<1>3. CASE UNCHANGED <<indices, ccPending, unacknowledged, nackVars, budgets,
                       loopVars, socket>>
  BY <1>3
  DEF indices, nackVars, budgets, loopVars, SenderInv, SenderBookkeeping,
      Tracked, NackedAreTracked, NackQueueConsistent, SingleOwner, BudgetSpent
<1> QED
  BY <1>1, <1>2, <1>3
  DEF Next, vars, senderVars, LoseDatagram, LoseReply

\* The bookkeeping of the sender is right at every instant.
THEOREM SenderCorrect == Spec => []SenderInv
<1>1. Init => SenderInv
  BY InitSender
<1>2. TypeInv /\ TypeInv' /\ SenderInv /\ [Next]_vars => SenderInv'
  BY NextSender
<1> QED BY <1>1, <1>2, TypeCorrect, PTL DEF Spec

\* While the socket is open no packet is both in ccPending and in the
\* retransmission map, or twice in one of them: handleACK and
\* closeImmediately return each packet to the pool once, for any budgets and
\* whatever is acknowledged, lost or resent.
THEOREM SingleOwnerHolds == Spec => []SingleOwner
<1>1. SenderInv => SingleOwner
  BY DEF SenderInv
<1> QED BY <1>1, SenderCorrect, PTL

\* The queue of paced resends has no duplicates and holds all of ccNackSet:
\* a number that enqueueResendsLocked skips is one that will be popped.
THEOREM NackQueueHolds == Spec => []NackQueueConsistent
<1>1. SenderInv => NackQueueConsistent
  BY DEF SenderInv
<1> QED BY <1>1, SenderCorrect, PTL

\* No write overtakes the packets that wait for the congestion controller.
THEOREM NoOvertakingHolds == Spec => []NoOvertaking
<1>1. SenderInv => NoOvertaking
  BY DEF SenderInv, BudgetSpent, NoOvertaking
<1> QED BY <1>1, SenderCorrect, PTL
=============================================================================
