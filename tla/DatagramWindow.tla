--------------------------- MODULE DatagramWindow ---------------------------
(***************************************************************************)
(* datagram_window.go: the window of indices seen by a receiver.  It is    *)
(* used for the sequence numbers of datagrams (Conn.win) and for the       *)
(* message indices of reliable packets (Conn.receivedMessageIndices).      *)
(*                                                                         *)
(* The map queue (index -> time of arrival) is its set of keys.  The times *)
(* are read in one place only, by missing, which looks for the highest     *)
(* index that arrived at least 1.5 RTT ago; Missing takes the set of       *)
(* indices that are that old as an argument.                               *)
(***************************************************************************)
EXTENDS Indices

DatagramWindows == [lowest : Nat, highest : Nat, queue : SUBSET Nat]

NewDatagramWindow == [lowest |-> 0, highest |-> 0, queue |-> {}]

Seen(win, index) == index < win.lowest \/ index \in win.queue

\* Mutant of Add: the index is not recorded.
AddUnrecorded(win, index) ==
  [win EXCEPT !.highest = IF index < @ THEN @ ELSE index + 1]

\* The effect of add on an index that was not seen.
Add(win, index) ==
  [lowest |-> win.lowest,
   highest |-> IF index < win.highest THEN win.highest ELSE index + 1,
   queue |-> win.queue \cup {index}]

Shift(win) ==
  LET gap == FirstGap(win.lowest, win.highest, win.queue)
  IN  [win EXCEPT !.lowest = gap, !.queue = {i \in @ : i >= gap}]

\* The holes below an index that has been in the window for too long.
Missing(win, old) ==
  {i \in win.lowest..(win.highest - 1) :
     i \notin win.queue /\ \E t \in old : i < t}

\* Mutant of GiveUp: the holes, if there are any, replace what was there.
GiveUpForgetting(win, old) ==
  LET missing == Missing(win, old)
  IN  Shift([win EXCEPT !.queue = IF missing = {} THEN @ ELSE missing])

\* missing also marks the holes it returns as seen, and shifts the window:
\* a datagram that arrives after it was NACKed is dropped, and its content
\* comes back under another sequence number.
GiveUp(win, old) == Shift([win EXCEPT !.queue = @ \cup Missing(win, old)])

WindowSize(win) == win.highest - win.lowest
=============================================================================
