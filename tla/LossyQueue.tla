------------------------------ MODULE LossyQueue ------------------------------
(* A queue of serial numbers: what is taken comes from the front, and what   *)
(* is put at the back may push older ones out.                               *)
EXTENDS Integers, Sequences

VARIABLES queue, written, taken
vars == <<queue, written, taken>>

Init == queue = <<>> /\ written = 0 /\ taken = 0

\* The n numbers from first on
Run(first, n) == [i \in 1 .. n |-> first + i - 1]

Put ==
  /\ written' > written
  /\ \E lost \in 0 .. Len(queue) + written' - written :
       LET all == queue \o Run(written, written' - written) IN
       queue' = SubSeq(all, lost + 1, Len(all))
  /\ UNCHANGED taken

Get ==
  /\ \E n \in 1 .. Len(queue) :
       /\ taken' = queue[n] + 1
       /\ queue' = SubSeq(queue, n + 1, Len(queue))
  /\ UNCHANGED written

Next == Put \/ Get
Spec == Init /\ [][Next]_vars
===============================================================================
