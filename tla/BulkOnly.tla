------------------------------- MODULE BulkOnly -------------------------------
(***************************************************************************)
(* What a bulk-only device promises its driver, whatever it stores: the    *)
(* three phases in order, one status report for each command, and a report *)
(* that tells the truth about the bytes moved.                             *)
(***************************************************************************)
EXTENDS Integers

CONSTANTS Tags, Lens, NoReport

VARIABLES
  phase,   \* "command", "data" or "status"
  tag,     \* the command being executed
  ok,      \* it has not failed so far
  asked,   \* bytes the data stage is to move
  moved,   \* bytes it has moved
  left,    \* bytes it has not accounted for
  report   \* the status in the last answer, if it was one

vars == <<phase, tag, ok, asked, moved, left, report>>

Init ==
  /\ phase = "command" /\ tag = 0 /\ ok = TRUE
  /\ asked = 0 /\ moved = 0 /\ left = 0 /\ report = NoReport

Command ==
  /\ phase = "command" /\ phase' \in {"data", "status"}
  /\ tag' \in Tags /\ ok' \in BOOLEAN
  /\ asked' \in Lens /\ moved' = 0 /\ left' = asked'
  /\ report' = NoReport

Transfer ==
  /\ phase = "data"
  /\ left' \in 0 .. left /\ moved' = moved + (left - left')
  /\ phase' = IF left' = 0 THEN "status" ELSE "data"
  /\ report' = NoReport
  /\ UNCHANGED <<tag, ok, asked>>

\* The data stage fails; the device may still account for bytes it lost.
Fail ==
  /\ phase = "data" /\ ok' = FALSE
  /\ \/ UNCHANGED <<left, phase>>
     \/ /\ left' \in 0 .. left - 1
        /\ phase' = IF left' = 0 THEN "status" ELSE "data"
  /\ report' = NoReport
  /\ UNCHANGED <<tag, asked, moved>>

Status ==
  /\ phase = "status" /\ phase' = "command"
  /\ report' = [sig |-> TRUE, tag |-> tag, residue |-> left,
                status |-> IF ok THEN "COMMAND_PASSED" ELSE "COMMAND_FAILED"]
  /\ UNCHANGED <<tag, ok, asked, moved, left>>

Refuse == report' = NoReport /\ UNCHANGED <<phase, tag, ok, asked, moved, left>>

Reset ==
  /\ phase' = "command" /\ report' \in {report, NoReport}
  /\ UNCHANGED <<tag, ok, asked, moved, left>>

Next == Command \/ Transfer \/ Fail \/ Status \/ Refuse \/ Reset

Spec == Init /\ [][Next]_vars
===============================================================================
