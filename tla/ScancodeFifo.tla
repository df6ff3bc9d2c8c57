---------------------------- MODULE ScancodeFifo ----------------------------
(***************************************************************************)
(* What the keyboard buffer promises: scancodes come out in the order they  *)
(* went in, each once, and one is dropped only when CAPACITY of them wait.  *)
(***************************************************************************)
EXTENDS Integers, Sequences

CONSTANTS Codes, CAPACITY

VARIABLES
  queue,           \* the scancodes waiting
  last,            \* the last one taken
  offered          \* how many have been offered so far

Init == queue = <<>> /\ last = 0 /\ offered = 0

Offer(c) ==
  /\ queue' = IF Len(queue) < CAPACITY THEN Append(queue, c) ELSE queue
  /\ offered' = offered + 1
  /\ UNCHANGED last

Take ==
  /\ queue # <<>>
  /\ last' = Head(queue) /\ queue' = Tail(queue)
  /\ UNCHANGED offered

Next == Take \/ \E c \in Codes : Offer(c)

Spec == Init /\ [][Next]_<<queue, last, offered>>
=============================================================================
