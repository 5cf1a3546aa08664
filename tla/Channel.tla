------------------------------ MODULE Channel ------------------------------
(***************************************************************************)
(* What one direction of a connection promises for ordered packets, with   *)
(* no datagrams, windows, fragments or retransmissions in sight: a channel *)
(* that hands over what was written, whole, in the order it was written.   *)
(*                                                                         *)
(* A write takes an index above all those taken before.  The indices it    *)
(* skips are never handed over, and neither is anything after them: this   *)
(* is what the code does with the order indices of sequenced writes.       *)
(***************************************************************************)
EXTENDS Integers, Sequences

CONSTANT Values      \* what may be written

VARIABLES
  written,           \* index -> the value written under it
  handed             \* the values handed over, in order

Init ==
  /\ written = <<>>
  /\ handed = <<>>

Write ==
  /\ UNCHANGED handed
  /\ \E i \in DOMAIN written' \ DOMAIN written :
       /\ \A j \in DOMAIN written : j < i
       /\ DOMAIN written' = DOMAIN written \cup {i}
       /\ written'[i] \in Values
  /\ \A j \in DOMAIN written : written'[j] = written[j]

\* The n-th value handed over is the one written under index n - 1.
HandOver ==
  /\ UNCHANGED written
  /\ Len(handed') > Len(handed)
  /\ SubSeq(handed', 1, Len(handed)) = handed
  /\ \A n \in (Len(handed) + 1)..Len(handed') :
       n - 1 \in DOMAIN written /\ handed'[n] = written[n - 1]

Next == Write \/ HandOver

Spec == Init /\ [][Next]_<<written, handed>>
=============================================================================
