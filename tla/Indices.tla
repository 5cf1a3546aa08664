------------------------------ MODULE Indices ------------------------------
(***************************************************************************)
(* The index arithmetic of binary.go and the loop that datagramWindow and  *)
(* packetQueue share.                                                      *)
(*                                                                         *)
(* A uint24 of the code is a uint32 in memory: Inc (binary.go) never wraps *)
(* at 24 bits, but writeUint24 puts only three bytes on the wire.  The     *)
(* size of the 24-bit space is the constant IndexSpace (2^24 in the code), *)
(* so that the wrap can be reached by a small instance.                    *)
(***************************************************************************)
EXTENDS Integers

CONSTANT IndexSpace

ASSUME IndexSpaceAssumption == IndexSpace \in Nat \ {0}

\* writeUint24 followed by loadUint24: the index the other end reads.
OnWire(index) == index % IndexSpace

\* Mutant of IsNewerSequenceIndex: any other index is newer.
AnyOtherIsNewer(incoming, current) == incoming # current

\* isNewerSequenceIndex: the difference is computed in a uint32, whose space
\* is 256 times the one of the wire, and compared with half of the wire's.
IsNewerSequenceIndex(incoming, current) ==
  /\ incoming # current
  /\ (incoming - current) % (256 * IndexSpace) < IndexSpace \div 2

\* The index at which "for index = lowest; index < highest; index++" stops
\* when it breaks at the first index that is not in present.
IsFirstGap(index, lowest, highest, present) ==
  /\ index \in lowest..highest
  /\ \A i \in lowest..(index - 1) : i \in present
  /\ index = highest \/ index \notin present

FirstGap(lowest, highest, present) ==
  CHOOSE index \in lowest..highest :
    IsFirstGap(index, lowest, highest, present)
=============================================================================
