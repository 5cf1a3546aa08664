-------------------------------- MODULE UDT --------------------------------
(***************************************************************************)
(* congestion/udt.go: the controller that newConn gives every connection.  *)
(* In slow start the bytes in flight are limited by a window; the first    *)
(* loss, or a window of cwndMaxThreshold, ends it for good, and from then  *)
(* on the controller grants the bytes that the time since the last tick is *)
(* worth at a rate.                                                        *)
(*                                                                         *)
(* An operator maps a controller cc to the one the method leaves.  The     *)
(* window is cwndDatagrams * mtuBytes, in bytes.  Times are in units small *)
(* enough that snd, the time per byte, is a whole number of them: MinSnd   *)
(* stands for the floor of decreaseTimeBetweenSends, and a change of the   *)
(* rate by one or two percent is a change of snd by one.  A budget of      *)
(* bytesCanSendThisTick that is left over is never read again              *)
(* (GetTransmissionBandwidth resets it first), so OnSendBytes has nothing  *)
(* to keep; neither have the fields that only ShouldSendACKs and           *)
(* GetRTOForRetransmission read, which no code calls.                      *)
(***************************************************************************)
EXTENDS Indices, Sequences

CONSTANTS
  MTU,              \* mtuBytes
  CwndMin,          \* 2 datagrams
  CwndMaxThreshold, \* 512 datagrams
  CwndOffset,       \* the 16 of the formula for the arrival rate
  Syn,              \* synMicros
  DefaultRtt,       \* 50ms, before the first sample
  DefaultSnd,       \* 1 / 0.0036
  SndCap,           \* 500
  IntervalSize,     \* pingsLastIntervalTargetCount, 33
  IdleCap           \* 100ms

MinSnd == 1

Controllers(times) ==
  [kind : {"UDT"}, isInSlowStart : BOOLEAN, window : Nat, snd : Nat \ {0},
   lastRtt : Nat, nextCongestionControlBlock : Nat,
   nextDatagramSequenceNumber : Nat, hadPacketlossThisBlock : BOOLEAN,
   pingsLastInterval : Seq(times)]

NewUDT ==
  [kind |-> "UDT",
   isInSlowStart |-> TRUE,
   window |-> CwndMin * MTU,
   snd |-> DefaultSnd,
   lastRtt |-> 0,
   nextCongestionControlBlock |-> 0,
   nextDatagramSequenceNumber |-> 0,
   hadPacketlossThisBlock |-> FALSE,
   pingsLastInterval |-> <<>>]
-----------------------------------------------------------------------------
Lower(a, b) == IF a < b THEN a ELSE b
Higher(a, b) == IF a > b THEN a ELSE b

\* Mutant of GetTransmissionBandwidth: the bytes in flight are not counted.
TransmissionIgnoringFlight(cc, elapsed, unacked, continuous) ==
  IF cc.isInSlowStart
  THEN cc.window
  ELSE LET dt == IF continuous THEN elapsed ELSE Lower(elapsed, IdleCap)
       IN  IF dt > 0 THEN dt \div cc.snd ELSE 0

\* Bytes of new data that may be sent now.  What a tick overspends is not
\* held against the next one.
GetTransmissionBandwidth(cc, elapsed, unacked, continuous) ==
  IF cc.isInSlowStart
  THEN Higher(cc.window - unacked, 0)
  ELSE LET dt == IF continuous THEN elapsed ELSE Lower(elapsed, IdleCap)
       IN  IF dt > 0 THEN dt \div cc.snd ELSE 0

\* Bytes that may be resent now: a full window does not hold resends back.
GetRetransmissionBandwidth(cc, elapsed, unacked, continuous) ==
  IF cc.isInSlowStart
  THEN cc.window
  ELSE GetTransmissionBandwidth(cc, elapsed, unacked, continuous)

\* Mutant of OnDatagramSent: the controller does not count.
OnDatagramSentIdle(cc) == cc

OnDatagramSent(cc) == [cc EXCEPT !.nextDatagramSequenceNumber = @ + 1]
-----------------------------------------------------------------------------
\* Mutant of CapMinSnd: the rate may become as slow as it likes.
CapNothing(snd) == snd

CapMinSnd(snd) == Lower(snd, SndCap)

IncreaseTimeBetweenSends(cc) == [cc EXCEPT !.snd = CapMinSnd(@ + 1)]

DecreaseTimeBetweenSends(cc) == [cc EXCEPT !.snd = Higher(@ - 1, MinSnd)]

\* endSlowStartWithEstimatedAS: the rate is estimated from the part of the
\* window above the offset, and is the default one if there is none.
EndSlowStart(cc) ==
  LET surplus == cc.window - CwndOffset * MTU
      total == (IF cc.lastRtt > 0 THEN cc.lastRtt ELSE DefaultRtt) + Syn
      snd == IF surplus > 0 THEN Higher(total \div surplus, MinSnd) ELSE DefaultSnd
  IN  [cc EXCEPT !.isInSlowStart = FALSE, !.snd = CapMinSnd(snd)]

\* OnNAK and OnResend: the first loss ends slow start, a later one slows the
\* sender down, once until the next decision.
OnLoss(cc) ==
  CASE cc.isInSlowStart -> EndSlowStart(cc)
    [] ~cc.isInSlowStart /\ ~cc.hadPacketlossThisBlock ->
         [IncreaseTimeBetweenSends(cc) EXCEPT !.hadPacketlossThisBlock = TRUE]
    [] OTHER -> cc

\* The window follows the bytes acknowledged; it is stored after slow start
\* has ended with the one before.
OnAckInSlowStart(cc, rtt, totalAcked) ==
  LET window == Higher(totalAcked, CwndMin * MTU)
      full == window >= CwndMaxThreshold * MTU
      heard == [cc EXCEPT !.lastRtt = rtt,
                  !.nextCongestionControlBlock = cc.nextDatagramSequenceNumber]
  IN  [(IF full THEN EndSlowStart(heard) ELSE heard)
         EXCEPT !.window = IF full THEN CwndMaxThreshold * MTU ELSE window]

\* greaterThan: the difference in a uint32, compared with half of 2^24.
GreaterThan(a, b) ==
  a # b /\ (b - a) % (256 * IndexSpace) > (IndexSpace - 1) \div 2

\* The slope of the round trips is the difference of the last and the first;
\* it is compared with a tenth of their average.
SlopeDecision(cc, pings) ==
  LET n == Len(pings)
      sums[k \in 0..n] == IF k = 0 THEN 0 ELSE sums[k - 1] + pings[k]
      slope == 10 * n * (pings[n] - pings[1])
  IN  CASE cc.hadPacketlossThisBlock -> cc
        [] ~cc.hadPacketlossThisBlock /\ slope < -sums[n] -> cc
        [] ~cc.hadPacketlossThisBlock /\ slope > sums[n] -> IncreaseTimeBetweenSends(cc)
        [] OTHER -> DecreaseTimeBetweenSends(cc)

\* updateWindowSizeAndAckOnAckPerSyn: a decision needs IntervalSize samples
\* and as many datagrams since the last one, all while packets wait.  (After
\* slow start nothing reads lastRtt any more.)
OnAckPerSyn(cc, rtt, continuous, s) ==
  LET block == cc.nextDatagramSequenceNumber
      all == Append(cc.pingsLastInterval, rtt)
      pings == IF Len(all) > IntervalSize THEN Tail(all) ELSE all
      due == /\ GreaterThan(s, cc.nextCongestionControlBlock)
             /\ (s - cc.nextCongestionControlBlock) % (256 * IndexSpace)
                  >= IntervalSize
             /\ Len(pings) = IntervalSize
  IN  CASE ~continuous ->
             [cc EXCEPT !.nextCongestionControlBlock = block,
                        !.pingsLastInterval = <<>>]
        [] continuous /\ ~due ->
             [cc EXCEPT !.pingsLastInterval = pings]
        [] continuous /\ due ->
             [SlopeDecision(cc, pings) EXCEPT
                !.nextCongestionControlBlock = block,
                !.pingsLastInterval = <<>>, !.hadPacketlossThisBlock = FALSE]

\* s is the highest number of the acknowledgement.
OnAck(cc, rtt, continuous, totalAcked, s) ==
  IF cc.isInSlowStart THEN OnAckInSlowStart(cc, rtt, totalAcked)
                      ELSE OnAckPerSyn(cc, rtt, continuous, s)
=============================================================================
