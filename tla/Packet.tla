------------------------------- MODULE Packet -------------------------------
(***************************************************************************)
(* packet.go: the reliabilities, the encapsulation around every write, and *)
(* the arithmetic that splits a write in fragments.                        *)
(*                                                                         *)
(* Content is a sequence of fragments.  A fragment is named by the write   *)
(* it belongs to (the position w of the write in the sender's log) and its *)
(* index i in that write: what its bytes are does not matter to any        *)
(* property, only whose they are and where they belong.                    *)
(***************************************************************************)
EXTENDS Indices, Sequences

CONSTANT
  SplitSpace    \* number of split IDs: 2^16 in the code (a uint16)

ASSUME SplitSpaceAssumption == SplitSpace \in Nat \ {0}

Reliabilities == {"Unreliable", "UnreliableSequenced", "Reliable",
                  "ReliableOrdered", "ReliableSequenced"}

IsReliable(r) == r \in {"Reliable", "ReliableOrdered", "ReliableSequenced"}
IsSequenced(r) == r \in {"UnreliableSequenced", "ReliableSequenced"}
IsSequencedOrOrdered(r) == IsSequenced(r) \/ r = "ReliableOrdered"

Fragments == [w : Nat, i : Nat]
Contents == Seq(Fragments)

\* The empty slice that marks a fragment that has not arrived.
NoFragment == [w |-> 0, i |-> 0]

Content(w, count) == [k \in 1..count |-> [w |-> w, i |-> k - 1]]

Packets == [reliability : Reliabilities,
            messageIndex : Nat, sequenceIndex : Nat, orderIndex : Nat,
            splitCount : Nat, splitIndex : Nat, splitID : Nat,
            fragment : Fragments]

\* The field split of the code: a packet that is not split has count 0.
IsSplit(pk) == pk.splitCount > 0

\* write followed by read: a field is on the wire only if the reliability
\* needs it (the reader never looks at the others), truncated to its width.
OnWirePacket(pk) ==
  [pk EXCEPT
     !.messageIndex = IF IsReliable(pk.reliability) THEN OnWire(@) ELSE 0,
     !.sequenceIndex = IF IsSequenced(pk.reliability) THEN OnWire(@) ELSE 0,
     !.orderIndex =
        IF IsSequencedOrOrdered(pk.reliability) THEN OnWire(@) ELSE 0]
-----------------------------------------------------------------------------
PacketAdditionalSize == 1 + 3 + 1 + 2 + 3 + 3 + 1
SplitAdditionalSize == 4 + 2 + 4

\* The room a fragment of a write of n bytes has in a datagram.
MaxFragmentSize(n, mtu) ==
  IF n > mtu - PacketAdditionalSize
  THEN mtu - PacketAdditionalSize - SplitAdditionalSize
  ELSE mtu - PacketAdditionalSize

\* split: the number of fragments of a write of n bytes.
FragmentCount(n, mtu) ==
  LET maxSize == MaxFragmentSize(n, mtu)
  IN  n \div maxSize + (IF n % maxSize = 0 THEN 0 ELSE 1)
=============================================================================
