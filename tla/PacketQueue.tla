---------------------------- MODULE PacketQueue ----------------------------
(***************************************************************************)
(* packet_queue.go: the queue that holds reliable ordered packets back     *)
(* until every packet with a lower order index has been handed over.       *)
(***************************************************************************)
EXTENDS Indices, Sequences

NewPacketQueue == [lowest |-> 0, highest |-> 0, queue |-> <<>>]

\* put returns FALSE on an index that was handed over or is occupied.
Occupied(q, index) == index < q.lowest \/ index \in DOMAIN q.queue

\* Mutant of Put: the bound excludes the index that was put.
PutBelowHighest(q, index, content) ==
  [lowest |-> q.lowest,
   highest |-> IF index < q.highest THEN q.highest ELSE index,
   queue |-> [i \in DOMAIN q.queue \cup {index} |->
                IF i = index THEN content ELSE q.queue[i]]]

\* The effect of put on an index that is not occupied.
Put(q, index, content) ==
  [lowest |-> q.lowest,
   highest |-> IF index < q.highest THEN q.highest ELSE index + 1,
   queue |-> [i \in DOMAIN q.queue \cup {index} |->
                IF i = index THEN content ELSE q.queue[i]]]

FetchEnd(q) == FirstGap(q.lowest, q.highest, DOMAIN q.queue)

\* fetch: the contents handed over, in order, and the queue it leaves.
Fetched(q) == [i \in 1..(FetchEnd(q) - q.lowest) |-> q.queue[q.lowest + i - 1]]

AfterFetch(q) ==
  [lowest |-> FetchEnd(q),
   highest |-> q.highest,
   queue |-> [i \in {j \in DOMAIN q.queue : j >= FetchEnd(q)} |-> q.queue[i]]]

QueueWindowSize(q) == q.highest - q.lowest
=============================================================================
