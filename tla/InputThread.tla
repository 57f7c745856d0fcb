------------------------------ MODULE InputThread ------------------------------
(***************************************************************************)
(* The thread that reads a host device for an emulated one, between Open   *)
(* and Close (usb-hid/evdev/evdev.cpp; the threads of usb-pad-raw.cpp and  *)
(* of the pad's evdev.cpp are started and ended in the same way).  The     *)
(* emulator's thread only tells it to end, by the handle, and judges by a  *)
(* flag that the thread itself sets whether it has to start one.           *)
(*                                                                         *)
(* Prompt says whether a thread has come to its end before the emulator's  *)
(* thread opens the device again; nothing in the code waits for that.      *)
(***************************************************************************)
EXTENDS Integers, FiniteSets

CONSTANTS Opens,    \* bound: how often the device is opened
          Prompt

InputThreadAssumption == Opens \in Nat /\ Prompt \in BOOLEAN

VARIABLES
  handle,    \* mHandle: 0 for -1, else the number of the open
  running,   \* mReaderThreadIsRunning
  joinable,  \* the thread mReaderThread stands for, 0 for none
  threads,   \* where each thread is
  main,      \* where the emulator's thread is in Open
  opens,     \* how often the device was opened
  told       \* Open has returned 0, and Close was not called since

vars == <<handle, running, joinable, threads, main, opens, told>>

Ids == 1 .. Opens

Init ==
  /\ handle = 0 /\ running = FALSE /\ joinable = 0
  /\ threads = [t \in Ids |-> "none"]
  /\ main = "idle" /\ opens = 0 /\ told = FALSE

-------------------------------------------------------------------------------
(* The emulator's thread                                                   *)

Settled == ~Prompt \/ \A t \in Ids : threads[t] \in {"none", "ended"}

\* Open forgets the handle it had
OpenBegin ==
  /\ main = "idle" /\ ~told /\ opens < Opens /\ Settled
  /\ handle' = 0 /\ main' = "open"
  /\ UNCHANGED <<running, joinable, threads, opens, told>>

\* No setting, no such file or no permission
OpenFails ==
  /\ main = "open"
  /\ main' = "idle"
  /\ UNCHANGED <<handle, running, joinable, threads, opens, told>>

OpenHandle ==
  /\ main = "open"
  /\ opens' = opens + 1 /\ handle' = opens'
  /\ main' = "check"
  /\ UNCHANGED <<running, joinable, threads, told>>

Return0 == main' = "idle" /\ told' = TRUE

CheckRunning ==
  /\ main = "check"
  /\ IF running THEN Return0
     ELSE main' = (IF joinable # 0 THEN "join" ELSE "spawn") /\ UNCHANGED told
  /\ UNCHANGED <<handle, running, joinable, threads, opens>>

Join ==
  /\ main = "join" /\ threads[joinable] = "ended"
  /\ joinable' = 0 /\ main' = "spawn"
  /\ UNCHANGED <<handle, running, threads, opens, told>>

Spawn ==
  /\ main = "spawn"
  /\ threads' = [threads EXCEPT ![opens] = "new"] /\ joinable' = opens
  /\ Return0
  /\ UNCHANGED <<handle, running, opens>>

Close ==
  /\ main = "idle" /\ told
  /\ handle' = 0 /\ told' = FALSE
  /\ UNCHANGED <<running, joinable, threads, main, opens>>

-------------------------------------------------------------------------------
(* The reading thread                                                      *)

Start(t) ==
  /\ threads[t] = "new"
  /\ running' = TRUE
  /\ threads' = [threads EXCEPT ![t] = "loop"]
  /\ UNCHANGED <<handle, joinable, main, opens, told>>

\* The test of the loop: out of it when the handle is gone
Leave(t) ==
  /\ threads[t] = "loop" /\ handle = 0
  /\ threads' = [threads EXCEPT ![t] = "left"]
  /\ UNCHANGED <<handle, running, joinable, main, opens, told>>

End(t) ==
  /\ threads[t] = "left"
  /\ running' = FALSE
  /\ threads' = [threads EXCEPT ![t] = "ended"]
  /\ UNCHANGED <<handle, joinable, main, opens, told>>

-------------------------------------------------------------------------------
Thread(t) == Start(t) \/ Leave(t) \/ End(t)
Main == OpenFails \/ OpenHandle \/ CheckRunning \/ Join \/ Spawn

Next == OpenBegin \/ Main \/ Close \/ \E t \in Ids : Thread(t)

\* Both threads go on; whether and when the device is opened and closed is
\* the user's.
Spec == Init /\ [][Next]_vars /\ WF_vars(Main) /\ \A t \in Ids : WF_vars(Thread(t))

-------------------------------------------------------------------------------
Alive(t) == threads[t] \in {"new", "loop", "left"}

\* The variables stay in their types.
TypeOK ==
  /\ handle \in 0 .. Opens /\ joinable \in 0 .. Opens /\ opens \in 0 .. Opens
  /\ threads \in [Ids -> {"none", "new", "loop", "left", "ended"}]
  /\ main \in {"idle", "open", "check", "join", "spawn"}
  /\ running \in BOOLEAN /\ told \in BOOLEAN

\* However the two threads interleave, a device has one reading thread at
\* most: two of them would take events from each other and write the same
\* queue.
OneReader == Cardinality({t \in Ids : Alive(t)}) <= 1

\* A thread that was started is joined before its object is used again, and
\* the object stands for the thread that is alive.
ObjectStandsForThread ==
  /\ main = "spawn" => \A t \in Ids : ~Alive(t)
  /\ \A t \in Ids : Alive(t) => joinable = t

\* When threads are prompt, a device that stays open has a thread that reads
\* it, on the handle of the last Open, ...
OpenIsRead == [](told => <>(~told \/ \E t \in Ids : threads[t] = "loop"))

\* ... and no Open waits forever for a thread to end.
OpenReturns == (main # "idle") ~> (main = "idle")

\* A thread whose device is closed for good comes to its end.
EndsAfterClose == <>[](handle = 0) => <>[](\A t \in Ids : ~Alive(t))
===============================================================================
