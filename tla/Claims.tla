------------------------------- MODULE Claims -------------------------------
(***************************************************************************)
(* What comments and tests of the repository say of one direction of a     *)
(* connection and the code does not do: each of these is refuted by a run. *)
(***************************************************************************)
EXTENDS Transfer

\* packet.go:39-41: a reliable packet "is not duplicated".  (A split one is:
\* receivePacket records the message index of the last fragment to arrive
\* only, so that fragments resent in another order are put together again.)
ReliableNotDuplicated ==
  \A j, k \in DOMAIN delivered["Reliable"] :
    delivered["Reliable"][j] = delivered["Reliable"][k] => j = k

\* conn.go:242-245: isNewerSequenceIndex handles "uint24 wraparound by
\* treating the sequence space as circular": the packet written after the
\* newest one that was handed over is newer than it.
SequenceSpaceIsCircular ==
  \A highest \in {highestUnreliableSeqIndex, highestReliableSeqIndex} :
    sequenceIndex > 0 /\ highest = OnWire(sequenceIndex - 1) + 1
      => ~IsStale(OnWire(sequenceIndex), highest)
=============================================================================
