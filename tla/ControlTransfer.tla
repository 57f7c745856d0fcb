---------------------------- MODULE ControlTransfer ----------------------------
(***************************************************************************)
(* What the default control pipe promises: one request at a time, its data *)
(* in order and none of any other request, and one execution, of the whole *)
(* of it.                                                                  *)
(***************************************************************************)
EXTENDS Naturals, Sequences

CONSTANT Requests

\* A byte is known by its request's number and its place in the data stage.
Data(n, len) == [i \in 1 .. len |-> <<n, i>>]

VARIABLES
  no,         \* requests so far
  request,    \* the last of them
  moved,      \* bytes of it that have been moved, once it was accepted
  executed    \* numbers of the requests whose effect has taken place, in order

vars == <<no, request, moved, executed>>

Init ==
  /\ no = 0 /\ request \in Requests /\ moved = <<>> /\ executed = <<>>

Latest == no' \notin {executed[i] : i \in 1 .. Len(executed)}

\* A new request, whatever has become of the one before.  One that reads is
\* executed here, if it is accepted; one that is refused moves and executes
\* nothing.
Begin ==
  /\ no' = no + 1 /\ request' \in Requests /\ moved' = <<>>
  /\ \/ UNCHANGED executed
     \/ request'.dir = "in" /\ executed' = Append(executed, no') /\ Latest

\* Some bytes more, each after the one before; none is read before the request
\* is executed.
Move ==
  /\ \E len \in Len(moved) + 1 .. request.len : moved' = Data(no, len)
  /\ request.dir = "in" => no \in {executed[i] : i \in 1 .. Len(executed)}
  /\ UNCHANGED <<no, request, executed>>

\* A request that writes is executed once, when all its data has come.
Execute ==
  /\ no > 0 /\ request.dir = "out" /\ moved = Data(no, request.len)
  /\ executed' = Append(executed, no) /\ Latest
  /\ UNCHANGED <<no, request, moved>>

Next == Begin \/ Move \/ Execute

Spec == Init /\ [][Next]_vars
===============================================================================
