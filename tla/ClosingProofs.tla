---------------------------- MODULE ClosingProofs ----------------------------
(***************************************************************************)
(* Proofs about Closing: its type invariant and the two safety properties  *)
(* of the end of a connection, for any budget and any number of writes.    *)
(***************************************************************************)
EXTENDS Closing, SequenceTheorems, FiniteSetTheorems, TLAPS

Steps == {"none", "write", "close", "unregister", "cancel", "return"}

\* The function of once has written the disconnect notification.
ByeWritten == once = "done" \/ step \in {"close", "unregister", "cancel", "return"}

\* The packets this connection has to do with.
Used == unacknowledged \cup pool \cup Range(ccPending)

Injective(s) == \A i, j \in 1..Len(s) : s[i] = s[j] => i = j

\* The function of once runs exactly while a goroutine holds it, and that
\* goroutine is in closeImmediately.
OnceInv ==
  /\ step \in Steps
  /\ step = "none" <=> once \in {"free", "done"}
  /\ once \in Goroutines => calls[once] # "no"

\* What Close found in flight stays recorded until it is acknowledged or
\* returned by closeImmediately.
GraceInv ==
  /\ calls["ticking"] = "graceful" => closing
  /\ once # "done" => owed \subseteq unacknowledged
  /\ GraceKept

\* A packet is used from the moment it is written, not before.
FreshInv ==
  /\ Used \subseteq Packets
  /\ \A p \in Used : p <= written /\ (write = "checked" => p < written)
  /\ write = "checked" => written > 0
  /\ Bye \in Used => ByeWritten

\* While the socket is open a packet is in one place, once.
ApartInv ==
  socketOpen =>
    /\ PoolUnused
    /\ unacknowledged \cap Range(ccPending) = {}
    /\ Injective(ccPending)

Inv == TypeOK /\ OnceInv /\ GraceInv /\ FreshInv /\ ApartInv
-----------------------------------------------------------------------------
\* What the first n of a queue are, and what is left of it.
LEMMA QueueSplit ==
  ASSUME NEW S, NEW s \in Seq(S), NEW n \in 0..Len(s)
  PROVE  /\ Range(SubSeq(s, 1, n)) = {s[i] : i \in 1..n}
         /\ SubSeq(s, n + 1, Len(s)) \in Seq(S)
         /\ Range(SubSeq(s, n + 1, Len(s))) = {s[i] : i \in (n + 1)..Len(s)}
         /\ Injective(s) => Injective(SubSeq(s, n + 1, Len(s)))
<1> DEFINE front == SubSeq(s, 1, n)
           back == SubSeq(s, n + 1, Len(s))
<1>1. /\ Len(s) \in Nat /\ DOMAIN s = 1..Len(s) /\ n \in Nat /\ n <= Len(s)
      /\ \A i \in 1..Len(s) : s[i] \in S
  OBVIOUS
<1>2. /\ front \in Seq(S) /\ Len(front) = n
      /\ \A i \in 1..n : front[i] = s[i]
  BY <1>1
<1>3. /\ back \in Seq(S) /\ Len(back) = Len(s) - n
      /\ \A i \in 1..(Len(s) - n) : back[i] = s[n + i]
  <2>1. back \in Seq(S) /\ Len(back) = Len(s) - n
    <3>1. \A i \in (n + 1)..Len(s) : s[i] \in S
      BY <1>1
    <3>2. n + 1 \in Int /\ Len(s) \in Int
      BY <1>1
    <3>3. /\ back \in Seq(S)
          /\ Len(back) = IF n + 1 <= Len(s) THEN Len(s) - (n + 1) + 1 ELSE 0
      BY <3>1, <3>2, SubSeqProperties
    <3>4. ASSUME NEW m \in Nat, NEW k \in Nat, k <= m
          PROVE  (IF k + 1 <= m THEN m - (k + 1) + 1 ELSE 0) = m - k
      BY <3>4
    <3>5. (IF n + 1 <= Len(s) THEN Len(s) - (n + 1) + 1 ELSE 0) = Len(s) - n
      BY <1>1, <3>4
    <3> QED BY <3>3, <3>5
  <2>2. ASSUME NEW i \in 1..(Len(s) - n) PROVE back[i] = s[n + i]
    BY <1>1
  <2> QED BY <2>1, <2>2
<1> HIDE DEF front, back
<1>4. Range(front) = {s[i] : i \in 1..n}
  <2>1. DOMAIN front = 1..n
    BY <1>2
  <2> QED BY <1>2, <2>1 DEF Range
<1>5. Range(back) = {s[i] : i \in (n + 1)..Len(s)}
  <2>1. DOMAIN back = 1..(Len(s) - n)
    BY <1>3
  <2>2. ASSUME NEW i \in 1..(Len(s) - n)
        PROVE  back[i] \in {s[j] : j \in (n + 1)..Len(s)}
    BY <1>1, <1>3
  <2>3. ASSUME NEW j \in (n + 1)..Len(s)
        PROVE  s[j] \in {back[i] : i \in 1..(Len(s) - n)}
    <3>1. j - n \in 1..(Len(s) - n) /\ back[j - n] = s[j]
      BY <1>1, <1>3
    <3> QED BY <3>1
  <2> QED BY <2>1, <2>2, <2>3 DEF Range
<1>6. Injective(s) => Injective(back)
  <2>1. SUFFICES ASSUME Injective(s), NEW i \in 1..Len(back), NEW j \in 1..Len(back),
                        back[i] = back[j]
                 PROVE  i = j
    BY DEF Injective
  <2>2. /\ n + i \in 1..Len(s) /\ n + j \in 1..Len(s)
        /\ s[n + i] = s[n + j]
    BY <1>1, <1>3, <2>1
  <2>3. n + i = n + j
    BY <2>1, <2>2 DEF Injective
  <2> QED BY <1>1, <1>3, <2>3
<1> QED BY <1>3, <1>4, <1>5, <1>6 DEF front, back

\* flushSendQueueLocked: packets only move on, from the queue to the records,
\* and on an open socket they leave the queue for it.
LEMMA FlushOK ==
  ASSUME TypeOK, NEW b \in Nat, NEW records \in SUBSET Packets, Flush(b, records)
  PROVE  /\ ccPending' \in Seq(Packets) /\ sendBudget' \in Nat
         /\ unacknowledged' \subseteq Packets /\ sent' \subseteq Packets
         /\ records \subseteq unacknowledged'
         /\ unacknowledged' \subseteq records \cup Range(ccPending)
         /\ Range(ccPending') \subseteq Range(ccPending)
         /\ sent \subseteq sent' /\ Range(ccPending) \subseteq sent' \cup Range(ccPending')
         /\ socketOpen /\ Injective(ccPending) =>
              /\ Injective(ccPending')
              /\ (unacknowledged' \ records) \cap Range(ccPending') = {}
              /\ unacknowledged' \cap Range(ccPending') \subseteq records
<1> DEFINE n == IF b < Len(ccPending) THEN b ELSE Len(ccPending)
           out == Range(SubSeq(ccPending, 1, n))
           rest == SubSeq(ccPending, n + 1, Len(ccPending))
<1>1. /\ ccPending \in Seq(Packets) /\ Len(ccPending) \in Nat
      /\ sendBudget \in Nat /\ sent \subseteq Packets
      /\ DOMAIN ccPending = 1..Len(ccPending)
      /\ \A i \in 1..Len(ccPending) : ccPending[i] \in Packets
  BY DEF TypeOK
<1>2. n \in 0..Len(ccPending) /\ b - n \in Nat
  BY <1>1
<1>3. Range(ccPending) = {ccPending[i] : i \in 1..Len(ccPending)}
  BY <1>1 DEF Range
<1>4. /\ out = {ccPending[i] : i \in 1..n}
      /\ rest \in Seq(Packets)
      /\ Range(rest) = {ccPending[i] : i \in (n + 1)..Len(ccPending)}
      /\ Injective(ccPending) => Injective(rest)
  BY <1>1, <1>2, QueueSplit
<1>5. \/ /\ socketOpen /\ ccPending' = rest /\ sendBudget' = b - n
         /\ unacknowledged' = records \cup out /\ sent' = sent \cup out
      \/ /\ ~socketOpen /\ sendBudget' = b
         /\ unacknowledged' = records \cup (IF n > 0 THEN {Head(ccPending)} ELSE {})
         /\ UNCHANGED <<ccPending, sent>>
  BY DEF Flush
<1> HIDE DEF n, out, rest
<1>6. /\ out \subseteq Range(ccPending) /\ Range(rest) \subseteq Range(ccPending)
      /\ Range(ccPending) \subseteq out \cup Range(rest)
      /\ Range(ccPending) \subseteq Packets
      /\ Injective(ccPending) => out \cap Range(rest) = {}
  <2>1. ASSUME Injective(ccPending) PROVE out \cap Range(rest) = {}
    BY <1>1, <1>2, <1>4, <2>1 DEF Injective
  <2>2. ASSUME NEW i \in 1..Len(ccPending)
        PROVE  i \in 1..n \/ i \in (n + 1)..Len(ccPending)
    BY <1>1, <1>2
  <2>3. out \subseteq Range(ccPending) /\ Range(rest) \subseteq Range(ccPending)
    BY <1>1, <1>2, <1>3, <1>4
  <2>4. Range(ccPending) \subseteq out \cup Range(rest)
    BY <1>3, <1>4, <2>2
  <2> QED BY <1>1, <1>3, <2>1, <2>3, <2>4
<1>7. CASE socketOpen
  BY <1>1, <1>2, <1>4, <1>5, <1>6, <1>7
<1>8. CASE ~socketOpen
  <2>1. n > 0 => Head(ccPending) \in Range(ccPending)
    BY <1>1, <1>2, <1>3
  <2> QED BY <1>1, <1>5, <1>6, <1>8, <2>1
<1> QED BY <1>7, <1>8

\* A packet that is written is recorded or waits, and nothing else changes its
\* place.
LEMMA QueueOrSendOK ==
  ASSUME TypeOK, NEW p \in Packets, QueueOrSend(p)
  PROVE  /\ ccPending' \in Seq(Packets) /\ sendBudget' \in Nat
         /\ unacknowledged' \subseteq Packets /\ sent' \subseteq Packets
         /\ unacknowledged \subseteq unacknowledged' /\ sent \subseteq sent'
         /\ Range(ccPending) \subseteq Range(ccPending')
         /\ unacknowledged' \cup Range(ccPending') =
              unacknowledged \cup Range(ccPending) \cup {p}
         /\ socketOpen => p \in sent' \cup Range(ccPending')
         /\ /\ p \notin unacknowledged \cup Range(ccPending)
            /\ unacknowledged \cap Range(ccPending) = {} /\ Injective(ccPending)
            => /\ unacknowledged' \cap Range(ccPending') = {}
               /\ Injective(ccPending')
<1>1. /\ ccPending \in Seq(Packets) /\ sendBudget \in Nat
      /\ unacknowledged \subseteq Packets /\ sent \subseteq Packets
  BY DEF TypeOK
<1>2. CASE sendBudget > 0
  BY <1>1, <1>2 DEF QueueOrSend
<1>3. CASE sendBudget = 0
  <2> DEFINE s == Append(ccPending, p)
  <2>1. /\ ccPending' = s /\ UNCHANGED <<sendBudget, unacknowledged, sent>>
    BY <1>1, <1>3 DEF QueueOrSend
  <2>2. /\ s \in Seq(Packets) /\ Len(s) = Len(ccPending) + 1 /\ Len(ccPending) \in Nat
        /\ s[Len(ccPending) + 1] = p
        /\ \A i \in 1..Len(ccPending) : s[i] = ccPending[i]
        /\ DOMAIN s = 1..(Len(ccPending) + 1) /\ DOMAIN ccPending = 1..Len(ccPending)
    BY <1>1
  <2> HIDE DEF s
  <2>3. Range(s) = Range(ccPending) \cup {p}
    <3>1. ASSUME NEW i \in 1..(Len(ccPending) + 1)
          PROVE  i \in 1..Len(ccPending) \/ i = Len(ccPending) + 1
      BY <2>2
    <3>2. Len(ccPending) + 1 \in 1..(Len(ccPending) + 1)
          /\ \A i \in 1..Len(ccPending) : i \in 1..(Len(ccPending) + 1)
      BY <2>2
    <3> QED BY <2>2, <3>1, <3>2 DEF Range
  <2>4. ASSUME p \notin Range(ccPending), Injective(ccPending) PROVE Injective(s)
    <3>1. \A i \in 1..Len(ccPending) : ccPending[i] # p
      BY <2>2, <2>4 DEF Range
    <3> QED BY <2>2, <2>4, <3>1 DEF Injective
  <2> QED BY <1>1, <2>1, <2>2, <2>3, <2>4
<1> QED BY <1>1, <1>2, <1>3

\* The records are finitely many, no more than the packets there can be.
LEMMA RecordsFinite ==
  ASSUME TypeOK
  PROVE  InFlight \in 0..(MaxWrites + 1) /\ (InFlight = 0 => unacknowledged = {})
<1>1. MaxWrites \in Nat /\ unacknowledged \in SUBSET Packets
  BY ClosingAssumption DEF TypeOK
<1>2. IsFiniteSet(Packets) /\ Cardinality(Packets) = MaxWrites + 1
  BY <1>1, FS_Interval DEF Packets
<1>3. IsFiniteSet(unacknowledged) /\ Cardinality(unacknowledged) <= MaxWrites + 1
  BY <1>1, <1>2, FS_Subset
<1>4. Cardinality(unacknowledged) \in Nat
  BY <1>3, FS_CardinalityType
<1> QED BY <1>1, <1>3, <1>4, FS_EmptySet DEF InFlight

\* closeImmediately enters at most one goroutine into the function of once.
LEMMA CloseImmediatelyOK ==
  ASSUME TypeOK, NEW g \in Goroutines, NEW how \in {"graceful", "abrupt"},
         CloseImmediately(g, how)
  PROVE  /\ once' \in {"free", "done"} \cup Goroutines
         /\ calls' \in [Goroutines -> {"no", "graceful", "abrupt"}]
BY DEF TypeOK, CloseImmediately

\* The step forms of Next, one by one.
LEMMA NextCases ==
  ASSUME Next
  PROVE  \/ Close \/ Silence \/ CloseListener \/ WriteCheck \/ Write \/ Scan
         \/ (\E b \in Budgets : Tick(b))
         \/ (\E since \in Ages, fiftieth \in BOOLEAN : TickEnd(since, fiftieth))
         \/ TickStop \/ Receive
         \/ (\E acked \in SUBSET unacknowledged : HandleACK(acked))
         \/ HandleContent \/ HandleEnd \/ PassContent \/ DropContent \/ ReaderStop
         \/ OtherCloses \/ WriteDisconnect \/ CloseHandler \/ Unregister \/ Cancel
         \/ ReturnPackets
BY DEF Next, TickStep, ReaderStep, OnceStep

\* The initial states have the types.
LEMMA TypeOKInit == Init => TypeOK
<1> SUFFICES ASSUME Init PROVE TypeOK
  OBVIOUS
<1>1. registered = ~tickerClosed /\ mapped \in BOOLEAN
  BY Zenon DEF Init
<1>2. sendBudget \in Nat /\ 0 \in 0..MaxWrites /\ 0 \in 0..(MaxWrites + 1) /\ 0 \in 0..1
  BY ClosingAssumption DEF Init
<1>3. calls \in [Goroutines -> {"no", "graceful", "abrupt"}]
  BY DEF Init
<1>4. /\ side \in Sides /\ socketOpen \in BOOLEAN /\ closing \in BOOLEAN /\ idle \in BOOLEAN
      /\ acksLeft \in 0..(MaxWrites + 1) /\ written \in 0..MaxWrites /\ ticker \in 0..1
  BY <1>2, Zenon DEF Init
<1>5. /\ ccPending \in Seq(Packets) /\ unacknowledged \subseteq Packets /\ sent \subseteq Packets
      /\ ticking \in [at : {"waiting", "flushed", "stopped"}, zero : BOOLEAN]
      /\ reader = "waiting" /\ write = "out" /\ once = "free"
  BY DEF Init
<1> QED BY <1>1, <1>2, <1>3, <1>4, <1>5 DEF TypeOK

\* Every step keeps the types.
LEMMA TypeOKStep == TypeOK /\ [Next]_vars => TypeOK'
<1> SUFFICES ASSUME TypeOK, [Next]_vars PROVE TypeOK'
  OBVIOUS
<1> USE ClosingAssumption
<1>0. CASE UNCHANGED vars
  BY <1>0 DEF TypeOK, vars, worldVars, sendVars, channelVars, onceVars
<1>1. CASE Close
  BY <1>1 DEF Close, TypeOK, worldVars, sendVars, channelVars, onceVars
<1>2. CASE Silence
  BY <1>2 DEF Silence, TypeOK, worldVars, sendVars, channelVars, onceVars
<1>3. CASE CloseListener
  BY <1>3, ZenonT(60) DEF CloseListener, TypeOK, worldVars, sendVars, channelVars, onceVars
<1>4. CASE WriteCheck
  BY <1>4 DEF WriteCheck, TypeOK, worldVars, sendVars, channelVars, onceVars
<1>5. CASE Scan
  <2>1. UNCHANGED <<worldVars, sendVars, registered, tickerClosed, acksLeft, ticking, reader,
                    write, written, once, calls>> /\ ticker' \in 0..1
    BY <1>5 DEF Scan, onceVars
  <2>2. (registered = ~tickerClosed)'
    BY <2>1, Zenon DEF TypeOK
  <2> QED BY <2>1, <2>2 DEF TypeOK, worldVars, sendVars
<1>6. CASE TickStop
  BY <1>6 DEF TickStop, TypeOK, worldVars, sendVars, channelVars, onceVars
<1>7. CASE Receive
  BY <1>7 DEF Receive, TypeOK, worldVars, sendVars, channelVars, onceVars
<1>8. CASE HandleContent
  BY <1>8 DEF HandleContent, TypeOK, worldVars, sendVars, channelVars, onceVars
<1>9. CASE PassContent
  BY <1>9 DEF PassContent, TypeOK, worldVars, sendVars, channelVars, onceVars
<1>10. CASE DropContent
  BY <1>10 DEF DropContent, TypeOK, worldVars, sendVars, channelVars, onceVars
<1>11. CASE ReaderStop
  BY <1>11 DEF ReaderStop, TypeOK, worldVars, sendVars, channelVars, onceVars
<1>12. CASE CloseHandler
  BY <1>12 DEF CloseHandler, TypeOK, worldVars, sendVars, channelVars, onceVars
<1>13. CASE Unregister
  BY <1>13, ZenonT(60) DEF Unregister, TypeOK, worldVars, sendVars, channelVars, onceVars
<1>14. CASE Cancel
  BY <1>14 DEF Cancel, TypeOK, worldVars, sendVars, channelVars, onceVars
<1>15. CASE ReturnPackets
  BY <1>15 DEF ReturnPackets, TypeOK, worldVars, sendVars, channelVars, onceVars, Goroutines
<1>16. CASE Write
  <2>1. written \in Packets
    BY DEF TypeOK, Packets
  <2>2. /\ ccPending' \in Seq(Packets) /\ sendBudget' \in Nat
        /\ unacknowledged' \subseteq Packets /\ sent' \subseteq Packets
    BY <1>16, <2>1, QueueOrSendOK DEF Write
  <2> QED BY <1>16, <2>2 DEF Write, TypeOK, worldVars, channelVars, onceVars
<1>17. CASE WriteDisconnect
  <2>1. Bye \in Packets
    BY DEF Bye, Packets
  <2>2. /\ ccPending' \in Seq(Packets) /\ sendBudget' \in Nat
        /\ unacknowledged' \subseteq Packets /\ sent' \subseteq Packets
    BY <1>17, <2>1, QueueOrSendOK DEF WriteDisconnect
  <2> QED BY <1>17, <2>2 DEF WriteDisconnect, TypeOK, worldVars, channelVars
<1>18. CASE \E b \in Budgets : Tick(b)
  <2>1. PICK b \in Budgets : Tick(b)
    BY <1>18
  <2>2. b \in Nat /\ unacknowledged \subseteq Packets
    BY DEF TypeOK
  <2>3. /\ ccPending' \in Seq(Packets) /\ sendBudget' \in Nat
        /\ unacknowledged' \subseteq Packets /\ sent' \subseteq Packets
    BY <2>1, <2>2, FlushOK DEF Tick
  <2> QED BY <2>1, <2>3 DEF Tick, TypeOK, worldVars, onceVars
<1>19. CASE \E since \in Ages, fiftieth \in BOOLEAN : TickEnd(since, fiftieth)
  <2>1. PICK since \in Ages, fiftieth \in BOOLEAN : TickEnd(since, fiftieth)
    BY <1>19
  <2>2. acksLeft' \in 0..(MaxWrites + 1)
    BY <2>1, RecordsFinite DEF TickEnd, TypeOK
  <2>3. /\ once' \in {"free", "done"} \cup Goroutines
        /\ calls' \in [Goroutines -> {"no", "graceful", "abrupt"}]
    <3>1. "ticking" \in Goroutines
      BY DEF Goroutines
    <3>2. \/ CloseImmediately("ticking", "graceful")
          \/ CloseImmediately("ticking", "abrupt")
          \/ UNCHANGED <<once, calls>>
      BY <2>1 DEF TickEnd, onceVars
    <3> QED BY <3>1, <3>2, CloseImmediatelyOK DEF TypeOK
  <2> QED BY <2>1, <2>2, <2>3 DEF TickEnd, TypeOK, worldVars, sendVars, channelVars
<1>20. CASE \E acked \in SUBSET unacknowledged : HandleACK(acked)
  <2>1. PICK acked \in SUBSET unacknowledged : HandleACK(acked)
    BY <1>20
  <2>2. sendBudget \in Nat /\ unacknowledged \ acked \subseteq Packets
    BY DEF TypeOK
  <2>3. /\ ccPending' \in Seq(Packets) /\ sendBudget' \in Nat
        /\ unacknowledged' \subseteq Packets /\ sent' \subseteq Packets
    <3>1. CASE Flush(sendBudget, unacknowledged \ acked)
      BY <2>2, <3>1, FlushOK
    <3>2. CASE UNCHANGED sendVars
      BY <3>2 DEF TypeOK, sendVars
    <3> QED BY <2>1, <3>1, <3>2 DEF HandleACK
  <2> QED BY <2>1, <2>3 DEF HandleACK, TypeOK, worldVars, channelVars, onceVars
<1>21. CASE HandleEnd
  <2>1. /\ once' \in {"free", "done"} \cup Goroutines
        /\ calls' \in [Goroutines -> {"no", "graceful", "abrupt"}]
    <3>1. "reader" \in Goroutines
      BY DEF Goroutines
    <3> QED BY <1>21, <3>1, CloseImmediatelyOK DEF HandleEnd
  <2> QED BY <1>21, <2>1 DEF HandleEnd, TypeOK, worldVars, sendVars, channelVars
<1>22. CASE OtherCloses
  <2>1. /\ once' \in {"free", "done"} \cup Goroutines
        /\ calls' \in [Goroutines -> {"no", "graceful", "abrupt"}]
    <3>1. "other" \in Goroutines
      BY DEF Goroutines
    <3> QED BY <1>22, <3>1, CloseImmediatelyOK DEF OtherCloses
  <2> QED BY <1>22, <2>1 DEF OtherCloses, TypeOK, worldVars, sendVars, channelVars
<1> QED BY <1>0, <1>1, <1>2, <1>3, <1>4, <1>5, <1>6, <1>7, <1>8, <1>9, <1>10, <1>11, <1>12, <1>13, <1>14, <1>15, <1>16, <1>17, <1>18, <1>19, <1>20, <1>21, <1>22, NextCases

\* The types of the state that closing keeps hold in every reachable state; in
\* particular the shared ticker never sends on, and no one closes, a channel
\* that is closed (tickConnections, unregisterTickedConnection).
THEOREM ClosingTypes == Spec => []TypeOK
BY TypeOKInit, TypeOKStep, PTL DEF Spec
-----------------------------------------------------------------------------
\* Who changes the state of once: a goroutine that enters, and its function.
LEMMA OnceChanges ==
  ASSUME Next
  PROVE  \/ UNCHANGED <<once, step, calls>>
         \/ \E g \in Goroutines, how \in {"graceful", "abrupt"} : CloseImmediately(g, how)
         \/ OnceStep
<1> DEFINE Enters == \E g \in Goroutines, how \in {"graceful", "abrupt"} :
                       CloseImmediately(g, how)
<1>1. CASE Close \/ Silence \/ CloseListener \/ WriteCheck \/ Write \/ Scan
  BY <1>1 DEF Close, Silence, CloseListener, WriteCheck, Write, Scan, onceVars
<1>2. CASE TickStop \/ Receive \/ HandleContent \/ PassContent \/ DropContent \/ ReaderStop
  BY <1>2 DEF TickStop, Receive, HandleContent, PassContent, DropContent, ReaderStop,
              onceVars
<1>3. CASE \E b \in Budgets : Tick(b)
  BY <1>3 DEF Tick, onceVars
<1>4. CASE \E acked \in SUBSET unacknowledged : HandleACK(acked)
  BY <1>4 DEF HandleACK, onceVars
<1>5. CASE \E since \in Ages, fiftieth \in BOOLEAN : TickEnd(since, fiftieth)
  <2>1. \/ CloseImmediately("ticking", "graceful")
        \/ CloseImmediately("ticking", "abrupt")
        \/ UNCHANGED <<once, step, calls>>
    BY <1>5 DEF TickEnd, onceVars
  <2> QED BY <2>1 DEF Goroutines
<1>6. CASE HandleEnd \/ OtherCloses
  BY <1>6 DEF HandleEnd, OtherCloses, Goroutines
<1>7. CASE OnceStep
  BY <1>7
<1> QED BY <1>1, <1>2, <1>3, <1>4, <1>5, <1>6, <1>7, NextCases DEF OnceStep

\* Every step keeps the function of once with the goroutine that entered first.
LEMMA OnceInvStep == TypeOK /\ OnceInv /\ Next => OnceInv'
<1> SUFFICES ASSUME TypeOK, OnceInv, Next PROVE OnceInv'
  OBVIOUS
<1>1. CASE UNCHANGED <<once, step, calls>>
  BY <1>1 DEF OnceInv
<1>2. ASSUME NEW g \in Goroutines, NEW how \in {"graceful", "abrupt"},
             CloseImmediately(g, how)
      PROVE  OnceInv'
  BY <1>2 DEF OnceInv, CloseImmediately, TypeOK, Goroutines, Steps
<1>3. CASE WriteDisconnect
  BY <1>3 DEF OnceInv, WriteDisconnect, Steps
<1>4. CASE CloseHandler
  BY <1>4 DEF OnceInv, CloseHandler, Steps
<1>5. CASE Unregister
  BY <1>5 DEF OnceInv, Unregister, Steps
<1>6. CASE Cancel
  BY <1>6 DEF OnceInv, Cancel, Steps
<1>7. CASE ReturnPackets
  BY <1>7 DEF OnceInv, ReturnPackets, Steps, Goroutines
<1> QED BY <1>1, <1>2, <1>3, <1>4, <1>5, <1>6, <1>7, OnceChanges DEF OnceStep

\* A step that may only add to the records, or drops one that is acknowledged,
\* keeps what is owed among them.
LEMMA GraceInvQuiet ==
  ASSUME GraceInv, UNCHANGED <<calls, closing, once>>, owed' \subseteq owed,
         once # "done" => owed' \subseteq unacknowledged'
  PROVE  GraceInv'
BY DEF GraceInv, GraceKept

\* Every step keeps the grace: the tick that closes gracefully has seen that
\* nothing is recorded, and what is owed would be.
LEMMA GraceInvStep == TypeOK /\ OnceInv /\ GraceInv /\ Next => GraceInv'
<1> SUFFICES ASSUME TypeOK, OnceInv, GraceInv, Next PROVE GraceInv'
  OBVIOUS
<1>1. CASE Close
  BY <1>1 DEF Close, GraceInv, GraceKept, sendVars, onceVars
<1>2. CASE Silence \/ CloseListener \/ WriteCheck \/ Scan \/ TickStop \/ Receive
  <2>1. UNCHANGED <<calls, closing, once, owed, unacknowledged>>
    BY <1>2 DEF Silence, CloseListener, WriteCheck, Scan, TickStop, Receive,
                worldVars, sendVars, onceVars
  <2> QED BY <2>1, GraceInvQuiet DEF GraceInv
<1>3. CASE HandleContent \/ PassContent \/ DropContent \/ ReaderStop
  <2>1. UNCHANGED <<calls, closing, once, owed, unacknowledged>>
    BY <1>3 DEF HandleContent, PassContent, DropContent, ReaderStop,
                worldVars, sendVars, onceVars
  <2> QED BY <2>1, GraceInvQuiet DEF GraceInv
<1>4. CASE CloseHandler \/ Unregister \/ Cancel
  <2>1. UNCHANGED <<calls, closing, once, owed, unacknowledged>>
    BY <1>4 DEF CloseHandler, Unregister, Cancel, worldVars, sendVars
  <2> QED BY <2>1, GraceInvQuiet DEF GraceInv
<1>5. CASE Write
  <2>1. unacknowledged \subseteq unacknowledged'
    <3>1. written \in Packets
      BY DEF TypeOK, Packets
    <3> QED BY <1>5, <3>1, QueueOrSendOK DEF Write
  <2>2. UNCHANGED <<calls, closing, once, owed>>
    BY <1>5 DEF Write, worldVars, onceVars
  <2> QED BY <2>1, <2>2, GraceInvQuiet DEF GraceInv
<1>6. CASE WriteDisconnect
  <2>1. unacknowledged \subseteq unacknowledged'
    <3>1. Bye \in Packets
      BY ClosingAssumption DEF Bye, Packets
    <3> QED BY <1>6, <3>1, QueueOrSendOK DEF WriteDisconnect
  <2>2. UNCHANGED <<calls, closing, once, owed>>
    BY <1>6 DEF WriteDisconnect, worldVars
  <2> QED BY <2>1, <2>2, GraceInvQuiet DEF GraceInv
<1>7. CASE \E b \in Budgets : Tick(b)
  <2>1. PICK b \in Budgets : Tick(b)
    BY <1>7
  <2>2. unacknowledged \subseteq unacknowledged'
    <3>1. b \in Nat /\ unacknowledged \subseteq Packets
      BY ClosingAssumption DEF TypeOK
    <3> QED BY <2>1, <3>1, FlushOK DEF Tick
  <2>3. UNCHANGED <<calls, closing, once, owed>>
    BY <2>1 DEF Tick, worldVars, onceVars
  <2> QED BY <2>2, <2>3, GraceInvQuiet DEF GraceInv
<1>8. CASE \E acked \in SUBSET unacknowledged : HandleACK(acked)
  <2>1. PICK acked \in SUBSET unacknowledged : HandleACK(acked)
    BY <1>8
  <2>2. unacknowledged \ acked \subseteq unacknowledged'
    <3>1. sendBudget \in Nat /\ unacknowledged \ acked \subseteq Packets
      BY DEF TypeOK
    <3>2. CASE Flush(sendBudget, unacknowledged \ acked)
      BY <3>1, <3>2, FlushOK
    <3>3. CASE UNCHANGED sendVars
      BY <3>3 DEF sendVars
    <3> QED BY <2>1, <3>2, <3>3 DEF HandleACK
  <2>3. UNCHANGED <<calls, closing, once>> /\ owed' = owed \ acked
    BY <2>1 DEF HandleACK, worldVars, onceVars
  <2> QED BY <2>2, <2>3, GraceInvQuiet DEF GraceInv
<1>9. CASE \E since \in Ages, fiftieth \in BOOLEAN : TickEnd(since, fiftieth)
  <2>1. PICK since \in Ages, fiftieth \in BOOLEAN : TickEnd(since, fiftieth)
    BY <1>9
  <2>2. UNCHANGED <<closing, owed, unacknowledged>> /\ calls["ticking"] = "no"
    BY <2>1 DEF TickEnd, worldVars, sendVars, Runs
  <2>3. once # "ticking"
    BY <2>2 DEF OnceInv, Goroutines
  <2>4. CASE GraceOver(since) /\ CloseImmediately("ticking", "graceful")
    <3>1. closing /\ unacknowledged = {}
      BY <2>4, RecordsFinite DEF GraceOver
    <3>2. once' # "done" => once # "done"
      BY <2>4 DEF CloseImmediately
    <3>3. once # "done" => owed = {}
      BY <3>1 DEF GraceInv
    <3>4. once = "done" => once' = "done"
      BY <2>4 DEF CloseImmediately
    <3> QED BY <2>2, <3>1, <3>2, <3>3, <3>4 DEF GraceInv, GraceKept
  <2>5. CASE CloseImmediately("ticking", "abrupt")
    BY <2>2, <2>5 DEF CloseImmediately, GraceInv, GraceKept, TypeOK, Goroutines
  <2>6. CASE UNCHANGED <<onceVars, calls>>
    BY <2>2, <2>6, GraceInvQuiet DEF GraceInv, onceVars
  <2> QED BY <2>1, <2>4, <2>5, <2>6 DEF TickEnd
<1>10. CASE HandleEnd \/ OtherCloses
  <2>1. UNCHANGED <<closing, owed, unacknowledged>>
    BY <1>10 DEF HandleEnd, OtherCloses, worldVars, sendVars
  <2>2. PICK g \in {"reader", "other"} : CloseImmediately(g, "abrupt")
    BY <1>10 DEF HandleEnd, OtherCloses
  <2>3. calls'["ticking"] = calls["ticking"] /\ (once' = once \/ once' = g)
    BY <2>2 DEF CloseImmediately, TypeOK, Goroutines
  <2>4. once = "done" <=> once' = "done"
    BY <2>2 DEF CloseImmediately
  <2> QED BY <2>1, <2>3, <2>4 DEF GraceInv, GraceKept
<1>11. CASE ReturnPackets
  BY <1>11 DEF ReturnPackets, GraceInv, GraceKept, Goroutines
<1> QED BY <1>1, <1>2, <1>3, <1>4, <1>5, <1>6, <1>7, <1>8, <1>9, <1>10, <1>11, NextCases

\* Who moves packets.
LEMMA PacketSteps ==
  ASSUME Next
  PROVE  \/ UNCHANGED <<unacknowledged, pool, ccPending, sent>>
         \/ Write \/ WriteDisconnect \/ ReturnPackets
         \/ (\E b \in Budgets : Tick(b))
         \/ (\E acked \in SUBSET unacknowledged : HandleACK(acked))
<1>1. CASE Close \/ Silence \/ CloseListener \/ WriteCheck \/ Scan \/ TickStop \/ Receive
  BY <1>1 DEF Close, Silence, CloseListener, WriteCheck, Scan, TickStop, Receive, sendVars
<1>2. CASE HandleContent \/ HandleEnd \/ PassContent \/ DropContent \/ ReaderStop
  BY <1>2 DEF HandleContent, HandleEnd, PassContent, DropContent, ReaderStop, sendVars
<1>3. CASE OtherCloses \/ CloseHandler \/ Unregister \/ Cancel
  BY <1>3 DEF OtherCloses, CloseHandler, Unregister, Cancel, sendVars
<1>4. CASE \E since \in Ages, fiftieth \in BOOLEAN : TickEnd(since, fiftieth)
  BY <1>4 DEF TickEnd, sendVars
<1> QED BY <1>1, <1>2, <1>3, <1>4, NextCases

\* Who opens the socket (no one) and who closes it; the side is fixed.
LEMMA WorldSteps ==
  ASSUME TypeOK, Next
  PROVE  /\ side' = side
         /\ socketOpen' => socketOpen
         /\ socketOpen /\ ~socketOpen' => side = "listener" \/ step' = "unregister"
<1>1. CASE Close \/ Silence \/ WriteCheck \/ Write \/ Scan \/ TickStop \/ Receive
  BY <1>1 DEF Close, Silence, WriteCheck, Write, Scan, TickStop, Receive, worldVars
<1>2. CASE HandleContent \/ HandleEnd \/ PassContent \/ DropContent \/ ReaderStop
  BY <1>2 DEF HandleContent, HandleEnd, PassContent, DropContent, ReaderStop, worldVars
<1>3. CASE OtherCloses \/ WriteDisconnect \/ Unregister \/ Cancel \/ ReturnPackets
  BY <1>3 DEF OtherCloses, WriteDisconnect, Unregister, Cancel, ReturnPackets, worldVars
<1>4. CASE \/ \E b \in Budgets : Tick(b)
           \/ \E since \in Ages, fiftieth \in BOOLEAN : TickEnd(since, fiftieth)
           \/ \E acked \in SUBSET unacknowledged : HandleACK(acked)
  <2>1. UNCHANGED worldVars
    BY <1>4, Zenon DEF Tick, TickEnd, HandleACK
  <2> QED BY <2>1 DEF worldVars
<1>5. CASE CloseListener
  BY <1>5 DEF CloseListener
<1>6. CASE CloseHandler
  <2>1. side' = side /\ step' = "unregister"
    BY <1>6 DEF CloseHandler
  <2>2. socketOpen' = (socketOpen /\ side = "listener")
    BY <1>6 DEF CloseHandler
  <2>3. socketOpen' => socketOpen
    BY <2>2, Zenon
  <2> QED BY <2>1, <2>3
<1> QED BY <1>1, <1>2, <1>3, <1>4, <1>5, <1>6, NextCases

\* The notification is written once, by WriteDisconnect.
LEMMA ByeSteps ==
  ASSUME TypeOK, OnceInv, Next
  PROVE  /\ ByeWritten => ByeWritten'
         /\ ByeWritten' => ByeWritten \/ WriteDisconnect
<1>1. CASE UNCHANGED <<once, step, calls>>
  BY <1>1 DEF ByeWritten
<1>2. ASSUME NEW g \in Goroutines, NEW how \in {"graceful", "abrupt"},
             CloseImmediately(g, how)
      PROVE  ByeWritten <=> ByeWritten'
  BY <1>2 DEF OnceInv, CloseImmediately, ByeWritten, TypeOK, Goroutines, Steps
<1>3. CASE WriteDisconnect
  BY <1>3 DEF ByeWritten, WriteDisconnect
<1>4. CASE CloseHandler
  BY <1>4 DEF ByeWritten, CloseHandler
<1>5. CASE Unregister
  BY <1>5 DEF ByeWritten, Unregister
<1>6. CASE Cancel
  BY <1>6 DEF ByeWritten, Cancel
<1>7. CASE ReturnPackets
  BY <1>7 DEF ByeWritten, ReturnPackets
<1> QED BY <1>1, <1>2, <1>3, <1>4, <1>5, <1>6, <1>7, OnceChanges DEF OnceStep

\* What each kind of step does with the packets: one that is written was not
\* used, and one that moves on leaves its place.
LEMMA PacketMoves ==
  ASSUME TypeOK, OnceInv, FreshInv, ApartInv, Next
  PROVE  /\ Write => Used' = Used \cup {written}
         /\ WriteDisconnect => Used' = Used \cup {Bye}
         /\ ~Write /\ ~WriteDisconnect => Used' \subseteq Used
         /\ sent \cup Range(ccPending) \subseteq sent' \cup Range(ccPending')
         /\ ApartInv'
<1> DEFINE Goal == /\ sent \cup Range(ccPending) \subseteq sent' \cup Range(ccPending')
                   /\ ApartInv'
<1>0. socketOpen' => socketOpen
  BY WorldSteps
<1>1. ASSUME UNCHANGED <<unacknowledged, pool, ccPending, sent>>
      PROVE  Used' = Used /\ Goal
  BY <1>0, <1>1 DEF ApartInv, PoolUnused, Used
<1>2. ASSUME NEW p \in Packets, p \notin Used, QueueOrSend(p), pool' = pool
      PROVE  Used' = Used \cup {p} /\ Goal
  <2>1. /\ unacknowledged \subseteq unacknowledged' /\ sent \subseteq sent'
        /\ Range(ccPending) \subseteq Range(ccPending')
        /\ unacknowledged' \cup Range(ccPending') =
             unacknowledged \cup Range(ccPending) \cup {p}
        /\ /\ p \notin unacknowledged \cup Range(ccPending)
           /\ unacknowledged \cap Range(ccPending) = {} /\ Injective(ccPending)
           => /\ unacknowledged' \cap Range(ccPending') = {}
              /\ Injective(ccPending')
    BY <1>2, QueueOrSendOK
  <2>2. Used' = Used \cup {p}
    BY <1>2, <2>1 DEF Used
  <2>3. ApartInv'
    BY <1>0, <1>2, <2>1 DEF ApartInv, PoolUnused, Used
  <2> QED BY <2>1, <2>2, <2>3
<1>3. CASE Write
  <2>1. written \in Packets /\ written \notin Used
    BY <1>3 DEF TypeOK, Packets, FreshInv, Write
  <2>2. Bye # written
    BY <1>3 DEF FreshInv, Write, Bye
  <2>3. ~WriteDisconnect
    BY <1>3, <2>1 DEF Write, WriteDisconnect, TypeOK
  <2> QED BY <1>2, <1>3, <2>1, <2>3 DEF Write
<1>4. CASE WriteDisconnect
  <2>1. Bye \in Packets /\ Bye \notin Used
    <3>1. ~ByeWritten
      BY <1>4 DEF ByeWritten, WriteDisconnect, OnceInv
    <3> QED BY <3>1, ClosingAssumption DEF Bye, Packets, FreshInv
  <2>2. ~Write
    BY <1>4 DEF Write, WriteDisconnect, TypeOK
  <2> QED BY <1>2, <1>4, <2>1, <2>2 DEF WriteDisconnect
<1>5. ASSUME NEW b \in Nat, NEW acked \in SUBSET unacknowledged,
             Flush(b, unacknowledged \ acked), pool' = pool \cup acked
      PROVE  Used' \subseteq Used /\ Goal
  <2> DEFINE records == unacknowledged \ acked
  <2>1. records \in SUBSET Packets
    BY DEF TypeOK
  <2>2. /\ unacknowledged' \subseteq records \cup Range(ccPending)
        /\ Range(ccPending') \subseteq Range(ccPending)
        /\ sent \subseteq sent' /\ Range(ccPending) \subseteq sent' \cup Range(ccPending')
        /\ socketOpen /\ Injective(ccPending) =>
              /\ Injective(ccPending')
              /\ unacknowledged' \cap Range(ccPending') \subseteq records
    BY <1>5, <2>1, FlushOK
  <2>3. Used' \subseteq Used
    BY <1>5, <2>2 DEF Used
  <2>4. ApartInv'
    BY <1>0, <1>5, <2>2 DEF ApartInv, PoolUnused
  <2> QED BY <2>2, <2>3, <2>4
<1>6. CASE \E b \in Budgets : Tick(b)
  <2>1. PICK b \in Budgets : Tick(b)
    BY <1>6
  <2>2. b \in Nat /\ {} \in SUBSET unacknowledged /\ unacknowledged = unacknowledged \ {}
    BY ClosingAssumption
  <2>3. Flush(b, unacknowledged) /\ pool' = pool \cup {} /\ write' = write /\ step' = step
    BY <2>1 DEF Tick, onceVars
  <2>4. ~Write /\ ~WriteDisconnect
    BY <2>3 DEF Write, WriteDisconnect
  <2> QED BY <1>5, <2>2, <2>3, <2>4
<1>7. CASE \E acked \in SUBSET unacknowledged : HandleACK(acked)
  <2>1. PICK acked \in SUBSET unacknowledged : HandleACK(acked)
    BY <1>7
  <2>2. sendBudget \in Nat
    BY DEF TypeOK
  <2>3. pool' = pool \cup acked /\ write' = write /\ step' = step
    BY <2>1 DEF HandleACK, onceVars
  <2>4. ~Write /\ ~WriteDisconnect
    BY <2>3 DEF Write, WriteDisconnect
  <2>5. CASE Flush(sendBudget, unacknowledged \ acked)
    BY <1>5, <2>2, <2>3, <2>4, <2>5
  <2>6. CASE acked = {} /\ UNCHANGED sendVars
    BY <1>1, <2>3, <2>4, <2>6 DEF sendVars
  <2> QED BY <2>1, <2>5, <2>6 DEF HandleACK
<1>8. CASE ReturnPackets
  <2>1. /\ pool' = pool \cup unacknowledged /\ unacknowledged' = {}
        /\ UNCHANGED <<ccPending, sent, write>> /\ step' = "none"
    BY <1>8 DEF ReturnPackets
  <2>2. ~Write /\ ~WriteDisconnect
    BY <2>1 DEF Write, WriteDisconnect
  <2> QED BY <1>0, <2>1, <2>2 DEF ApartInv, PoolUnused, Used
<1>9. CASE ~Write /\ ~WriteDisconnect /\ UNCHANGED <<unacknowledged, pool, ccPending, sent>>
  BY <1>1, <1>9
<1> QED BY <1>3, <1>4, <1>6, <1>7, <1>8, <1>9, PacketSteps

\* Every step keeps packets that are not written yet unused.
LEMMA FreshInvStep == TypeOK /\ OnceInv /\ FreshInv /\ ApartInv /\ Next => FreshInv'
<1> SUFFICES ASSUME TypeOK, OnceInv, FreshInv, ApartInv, Next PROVE FreshInv'
  OBVIOUS
<1>1. Used \subseteq Packets /\ written \in 0..MaxWrites /\ Packets \subseteq Int
  BY ClosingAssumption DEF FreshInv, TypeOK, Packets
<1>2. ByeWritten => ByeWritten'
  BY ByeSteps
<1>3. CASE Write
  <2>1. Used' = Used \cup {written}
    BY <1>3, PacketMoves
  <2>2. write = "checked" /\ write' = "out" /\ written' = written
    BY <1>3 DEF Write
  <2>3. written \in Packets /\ written # Bye
    BY <1>1, <2>2 DEF FreshInv, Bye, Packets
  <2> QED BY <1>1, <1>2, <2>1, <2>2, <2>3 DEF FreshInv
<1>4. CASE WriteDisconnect
  <2>1. Used' = Used \cup {Bye}
    BY <1>4, PacketMoves
  <2>2. UNCHANGED <<write, written>>
    BY <1>4 DEF WriteDisconnect
  <2>3. ByeWritten'
    BY <1>4 DEF WriteDisconnect, ByeWritten
  <2>4. Bye \in Packets /\ Bye = 0
    BY ClosingAssumption DEF Bye, Packets
  <2> QED BY <1>1, <2>1, <2>2, <2>3, <2>4 DEF FreshInv
<1>5. CASE WriteCheck
  <2>1. UNCHANGED <<unacknowledged, pool, ccPending>>
    BY <1>5 DEF WriteCheck, sendVars
  <2>2. Used' = Used
    BY <2>1 DEF Used
  <2>3. write' = "checked" /\ written' = written + 1
    BY <1>5 DEF WriteCheck
  <2> QED BY <1>1, <1>2, <2>2, <2>3 DEF FreshInv
<1>6. CASE ~Write /\ ~WriteDisconnect /\ ~WriteCheck
  <2>1. Used' \subseteq Used
    BY <1>6, PacketMoves
  <2>2. UNCHANGED <<write, written>>
    <3>1. CASE Close \/ Silence \/ CloseListener \/ Scan \/ TickStop \/ Receive
      BY <3>1 DEF Close, Silence, CloseListener, Scan, TickStop, Receive
    <3>2. CASE HandleContent \/ HandleEnd \/ PassContent \/ DropContent \/ ReaderStop
      BY <3>2 DEF HandleContent, HandleEnd, PassContent, DropContent, ReaderStop
    <3>3. CASE OtherCloses \/ CloseHandler \/ Unregister \/ Cancel \/ ReturnPackets
      BY <3>3 DEF OtherCloses, CloseHandler, Unregister, Cancel, ReturnPackets
    <3>4. CASE \/ \E b \in Budgets : Tick(b)
               \/ \E since \in Ages, fiftieth \in BOOLEAN : TickEnd(since, fiftieth)
               \/ \E acked \in SUBSET unacknowledged : HandleACK(acked)
      BY <3>4 DEF Tick, TickEnd, HandleACK
    <3> QED BY <1>6, <3>1, <3>2, <3>3, <3>4, NextCases
  <2> QED BY <1>1, <1>2, <2>1, <2>2 DEF FreshInv
<1> QED BY <1>3, <1>4, <1>5, <1>6

\* The inductive invariant holds at first.
LEMMA InvInit == Init => Inv
<1> SUFFICES ASSUME Init PROVE Inv
  OBVIOUS
<1>1. TypeOK
  BY TypeOKInit
<1>2. /\ socketOpen /\ unacknowledged = {} /\ pool = {} /\ owed = {}
      /\ ccPending = <<>> /\ Range(ccPending) = {}
      /\ once = "free" /\ step = "none" /\ write = "out"
      /\ calls = [g \in Goroutines |-> "no"]
  BY DEF Init, Range
<1>3. OnceInv
  BY <1>2 DEF OnceInv, Steps, Goroutines
<1>4. GraceInv
  BY <1>2 DEF GraceInv, GraceKept, Goroutines
<1>5. FreshInv
  BY <1>2 DEF FreshInv, Used
<1>6. ApartInv
  BY <1>2 DEF ApartInv, PoolUnused, Injective
<1> QED BY <1>1, <1>3, <1>4, <1>5, <1>6 DEF Inv

\* The inductive invariant is kept by every step.
LEMMA InvStep == Inv /\ [Next]_vars => Inv'
<1> SUFFICES ASSUME Inv, [Next]_vars PROVE Inv'
  OBVIOUS
<1>1. TypeOK'
  BY TypeOKStep DEF Inv
<1>2. CASE Next
  <2>1. ApartInv'
    BY <1>2, PacketMoves DEF Inv
  <2> QED BY <1>1, <1>2, <2>1, OnceInvStep, GraceInvStep, FreshInvStep DEF Inv
<1>3. CASE UNCHANGED vars
  <2>1. UNCHANGED <<socketOpen, closing, side, unacknowledged, pool, owed, ccPending, sent,
                    once, step, write, written, calls>>
    BY <1>3 DEF vars, worldVars, sendVars, onceVars
  <2>2. OnceInv' /\ GraceInv' /\ FreshInv' /\ ApartInv'
    BY <2>1 DEF Inv, OnceInv, GraceInv, GraceKept, FreshInv, Used, ApartInv, PoolUnused,
                ByeWritten
  <2> QED BY <1>1, <2>2 DEF Inv
<1> QED BY <1>2, <1>3

\* The inductive invariant holds in every reachable state.
THEOREM ClosingInvariant == Spec => []Inv
BY InvInit, InvStep, PTL DEF Spec

\* A connection that Close ends within its grace abandons nothing that was in
\* flight when it was called (tick, closeImmediately).
THEOREM ClosingGrace == Spec => []GraceKept
<1>1. Inv => GraceKept
  BY DEF Inv, GraceInv
<1> QED BY <1>1, ClosingInvariant, PTL

\* A packet that handleACK or closeImmediately returned to the pool is used no
\* more while the socket is open.
THEOREM ClosingPool == Spec => []PoolUnused
<1>1. Inv => PoolUnused
  BY DEF Inv, ApartInv, PoolUnused
<1> QED BY <1>1, ClosingInvariant, PTL
=============================================================================
