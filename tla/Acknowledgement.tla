-------------------------- MODULE Acknowledgement --------------------------
(***************************************************************************)
(* acknowledge.go and sendAcknowledgement: a set of sequence numbers is    *)
(* sorted and written as records, a single number or a range, in as many   *)
(* packets as the MTU makes necessary.                                     *)
(***************************************************************************)
EXTENDS Indices, Sequences, FiniteSets

CONSTANTS
  AckMTU,                     \* effectiveMTU
  MaxAcknowledgementPackets   \* maxAcknowledgementPackets, 8192 in the code

HeaderSize == 1 + 2           \* the flags and the number of records
SingleSize == 1 + 3
RangeSize == 1 + 3 + 3

RecordSize(record) == IF record.first = record.last THEN SingleSize ELSE RangeSize

\* write, the loop: numbers are taken in order while there is room for a
\* record; the range at hand is written when a number does not continue it.
TakeNumber(w, number) ==
  CASE w.full \/ w.size >= AckMTU - 7 -> [w EXCEPT !.full = TRUE]
    [] ~w.full /\ w.size < AckMTU - 7 /\ w.n = 0 ->
         [w EXCEPT !.n = 1, !.range = [first |-> number, last |-> number]]
    [] ~w.full /\ w.size < AckMTU - 7 /\ w.n > 0 /\ number = w.range.last + 1 ->
         [w EXCEPT !.n = @ + 1, !.range.last = number]
    [] OTHER ->
         [w EXCEPT !.n = @ + 1,
                   !.records = Append(@, w.range),
                   !.size = @ + RecordSize(w.range),
                   !.range = [first |-> number, last |-> number]]

Untaken == [size |-> HeaderSize, n |-> 0, full |-> FALSE,
            range |-> [first |-> 0, last |-> 0], records |-> <<>>]

\* write on a sorted sequence of numbers that is not empty.
Taken(numbers) ==
  LET w[k \in 0..Len(numbers)] ==
        IF k = 0 THEN Untaken ELSE TakeNumber(w[k - 1], numbers[k])
  IN  w[Len(numbers)]

\* Mutant of WritePacket: the range at hand when the loop ends is dropped.
WritePacketWithoutLast(numbers) ==
  [records |-> Taken(numbers).records, n |-> Taken(numbers).n]

\* The records of a packet, the last range included, and how many numbers
\* they stand for.
WritePacket(numbers) ==
  LET w == Taken(numbers)
  IN  [records |-> Append(w.records, w.range), n |-> w.n]

\* sendAcknowledgement: packets are written until no number is left.
PacketsFor(numbers) ==
  LET From[k \in 1..(Len(numbers) + 1)] ==
        IF k > Len(numbers) THEN <<>>
        ELSE LET p == WritePacket(SubSeq(numbers, k, Len(numbers)))
             IN  <<p.records>> \o From[k + p.n]
  IN  From[1]

\* slices.Sort: the k-th number is the one that k - 1 others are below.
Ascending(numbers) ==
  [k \in 1..Cardinality(numbers) |->
     CHOOSE s \in numbers : Cardinality({t \in numbers : t < s}) = k - 1]

SendAcknowledgement(numbers) == PacketsFor(Ascending(numbers))
-----------------------------------------------------------------------------
\* The numbers of the records of a packet up to the k-th.
NumbersUpTo(records, k) ==
  UNION {OnWire(records[i].first)..OnWire(records[i].last) : i \in 1..k}

RangeWidth(record) == OnWire(record.last) - OnWire(record.first)

CountUpTo(records, k) ==
  LET n[i \in 0..k] == IF i = 0 THEN 0 ELSE n[i - 1] + RangeWidth(records[i]) + 1
  IN  n[k]

\* read refuses a packet in which one record leads over the limit: a range
\* counts as one less than the numbers in it, and one whose end was
\* truncated to less than its start as a number near 2^32.
IsReadable(records) ==
  \A k \in DOMAIN records :
    LET before == CountUpTo(records, k - 1)
    IN  IF RangeWidth(records[k]) = 0
        THEN before + 1 <= MaxAcknowledgementPackets
        ELSE before + RangeWidth(records[k]) \in 0..MaxAcknowledgementPackets

ReadPacket(records) == NumbersUpTo(records, Len(records))
=============================================================================
