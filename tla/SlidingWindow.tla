--------------------------- MODULE SlidingWindow ---------------------------
(***************************************************************************)
(* congestion/sliding_window.go: the other controller, which newConn uses  *)
(* if a comment is swapped with the line after it.  It is a window only:   *)
(* slow start up to ssThresh, congestion avoidance above it.               *)
(*                                                                         *)
(* An operator maps a controller cc to the one the method leaves; cwnd and *)
(* ssThresh are bytes, rounded down.  The fields for round trips are read  *)
(* only by ShouldSendACKs and GetRTOForRetransmission, which no code       *)
(* calls, and speedUpThisBlock and expectedNextSequenceNumber by nothing.  *)
(***************************************************************************)
EXTENDS Indices

CONSTANT MTU

Controllers ==
  [kind : {"SlidingWindow"}, cwnd : Nat, ssThresh : Nat,
   nextCongestionControlBlock : Nat, nextDatagramSequenceNumber : Nat,
   backoffThisBlock : BOOLEAN, isContinuousSend : BOOLEAN]

NewSlidingWindow ==
  [kind |-> "SlidingWindow",
   cwnd |-> MTU,
   ssThresh |-> 0,
   nextCongestionControlBlock |-> 0,
   nextDatagramSequenceNumber |-> 0,
   backoffThisBlock |-> FALSE,
   isContinuousSend |-> FALSE]

IsInSlowStart(cc) == cc.cwnd <= cc.ssThresh \/ cc.ssThresh = 0

GetTransmissionBandwidth(cc, unacked) ==
  IF unacked <= cc.cwnd THEN cc.cwnd - unacked ELSE 0

\* GetTransmissionBandwidth also remembers whether packets are waiting.
Remember(cc, continuous) == [cc EXCEPT !.isContinuousSend = continuous]

GetRetransmissionBandwidth(unacked) == unacked

OnDatagramSent(cc) == [cc EXCEPT !.nextDatagramSequenceNumber = @ + 1]

GreaterThan(a, b) ==
  a # b /\ (b - a) % (256 * IndexSpace) > (IndexSpace - 1) \div 2

\* The window after an acknowledgement; new tells whether it begins a period.
Grown(cc, new) ==
  LET grown == cc.cwnd + MTU
  IN  CASE IsInSlowStart(cc) /\ (cc.ssThresh = 0 \/ grown <= cc.ssThresh) -> grown
        [] IsInSlowStart(cc) /\ cc.ssThresh # 0 /\ grown > cc.ssThresh ->
             cc.ssThresh + (MTU * MTU) \div grown
        [] ~IsInSlowStart(cc) /\ new -> cc.cwnd + (MTU * MTU) \div cc.cwnd
        [] OTHER -> cc.cwnd

\* s is the highest number of the acknowledgement.
OnAck(cc, continuous, s) ==
  LET new == GreaterThan(s, cc.nextCongestionControlBlock)
  IN  IF ~continuous THEN Remember(cc, FALSE)
      ELSE [Remember(cc, TRUE) EXCEPT
              !.cwnd = Grown(cc, new),
              !.backoffThisBlock = @ /\ ~new,
              !.nextCongestionControlBlock =
                 IF new THEN cc.nextDatagramSequenceNumber ELSE @]

OnNAK(cc) ==
  IF cc.isContinuousSend /\ ~cc.backoffThisBlock
  THEN [cc EXCEPT !.ssThresh = cc.cwnd \div 2]
  ELSE cc

OnResend(cc) ==
  IF cc.isContinuousSend /\ ~cc.backoffThisBlock /\ cc.cwnd > 2 * MTU
  THEN [cc EXCEPT
          !.ssThresh = IF cc.cwnd \div 2 < MTU THEN MTU ELSE cc.cwnd \div 2,
          !.cwnd = MTU,
          !.nextCongestionControlBlock = cc.nextDatagramSequenceNumber,
          !.backoffThisBlock = TRUE]
  ELSE cc
=============================================================================
