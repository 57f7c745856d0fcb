------------------------------ MODULE PulseDevice ------------------------------
(***************************************************************************)
(* The life of a PulseAudioDevice (audiodev-pulse.cpp, audiodev-pulse.h):  *)
(* the emulator's thread makes it, starts and stops it, takes or gives     *)
(* frames and deletes it; libpulse's thread tells it of the connection and *)
(* of the stream and brings or asks for frames.  Two locks: the one of the *)
(* main loop, which libpulse's thread holds whenever it calls back, and    *)
(* mMutex, for the buffers.                                                *)
(*                                                                         *)
(* The frames themselves are in PulseSource; the library is in             *)
(* PulseLibrary.                                                           *)
(***************************************************************************)
EXTENDS Naturals, TLAPS

CONSTANTS
  Dir,         \* mAudioDir: "source" or "sink"
  Asserts,     \* assertions are compiled in
  MaxLosses    \* bound: how often the server goes away

PulseDeviceConstants ==
  /\ Dir \in {"source", "sink"} /\ Asserts \in BOOLEAN /\ MaxLosses \in Nat

VARIABLES
  main,        \* where the emulator's thread is
  loop,        \* where libpulse's thread is; "none" or "ended" when there is none
  lock, mutex, \* who holds the main loop's lock, and mMutex
  server,      \* the server runs
  context, stream, corked,
  mPAready, mQuit, mPaused,
  wanted,      \* history: started and not stopped
  losses

locks == <<lock, mutex>>
pulse == <<context, stream, corked>>
world == <<server, losses>>
flags == <<mPAready, mQuit, mPaused>>
vars == <<main, loop, locks, world, pulse, flags, wanted>>

Init ==
  /\ main = "none" /\ loop = "none" /\ lock = "free" /\ mutex = "free"
  /\ server \in BOOLEAN /\ losses = 0
  /\ context = "none" /\ stream = "none" /\ corked = TRUE
  /\ mPAready = 0 /\ mQuit = FALSE /\ mPaused = TRUE /\ wanted = FALSE

Goes(to) == main' = to

-----------------------------------------------------------------------------
(* Init(), which waits twice, and Uninit().                                *)

NewLoop ==
  /\ main = "none" /\ Goes("connect")
  /\ loop' = "idle" /\ lock' = "main" /\ context' = "unconnected"
  /\ UNCHANGED <<mutex, world, stream, corked, flags, wanted>>
Connect ==
  /\ main = "connect"
  /\ \/ context' = "connecting" /\ Goes("context")
     \/ UNCHANGED context /\ Goes("fail")
  /\ UNCHANGED <<loop, locks, world, stream, corked, flags, wanted>>

\* A wait lets go of the lock, and takes it again after a signal.
Sleeps(as) == lock' = "free" /\ Goes(as)
AwaitContext ==
  /\ main = "context"
  /\ CASE mPAready = 1 -> Goes("stream") /\ UNCHANGED lock
       [] mPAready = 2 -> Goes("fail") /\ UNCHANGED lock
       [] OTHER -> Sleeps("context sleeps")
  /\ UNCHANGED <<loop, mutex, world, pulse, flags, wanted>>
Woken(as, to) == /\ main = as /\ lock = "free" /\ lock' = "main" /\ Goes(to)
                 /\ UNCHANGED <<loop, mutex, world, pulse, flags, wanted>>
Wake == Woken("context wakes", "context") \/ Woken("made wakes", "made")

NewStream ==
  /\ main = "stream"
  /\ \/ stream' = "creating" /\ Goes("made")
     \/ stream' \in {"none", "creating"} /\ Goes("fail")
  /\ UNCHANGED <<loop, locks, world, context, corked, flags, wanted>>
\* assert(PA_STREAM_IS_GOOD(stream_state)) comes before the test for FAILED.
\* The resampler may fail as well.
AwaitStream ==
  /\ main = "made"
  /\ CASE stream = "ready" -> /\ corked' = FALSE /\ lock' = "free"
                              /\ \E to \in {"idle", "uninit"} : Goes(to)
       [] stream = "failed" -> /\ Goes(IF Asserts THEN "aborted" ELSE "fail")
                               /\ UNCHANGED <<corked, lock>>
       [] OTHER -> Sleeps("made sleeps") /\ UNCHANGED corked
  /\ UNCHANGED <<loop, mutex, world, context, stream, flags, wanted>>
Fail ==
  /\ main = "fail" /\ lock' = "free" /\ Goes("uninit")
  /\ UNCHANGED <<loop, mutex, world, pulse, flags, wanted>>

Disconnect ==
  /\ main = "uninit" /\ Goes("halt")
  /\ stream # "none" => lock = "free"
  /\ stream' = "none"
  /\ UNCHANGED <<loop, locks, world, context, corked, flags, wanted>>
Halt ==
  /\ main = "halt" /\ loop = "idle" /\ loop' = "ended" /\ Goes("free")
  /\ UNCHANGED <<locks, world, pulse, flags, wanted>>
Free ==
  /\ main = "free" /\ Goes("gone") /\ context' = "none"
  /\ mutex' = IF mQuit THEN "free" ELSE mutex
  /\ UNCHANGED <<loop, lock, world, stream, corked, flags, wanted>>

-----------------------------------------------------------------------------
(* The rest of the emulator's thread.                                      *)

\* Start: ResetBuffers takes the mutex, then the stream is let run.
Start ==
  /\ main = "idle" /\ mutex = "free" /\ mPaused' = FALSE /\ wanted' = TRUE /\ Goes("uncork")
  /\ UNCHANGED <<loop, locks, world, pulse, mPAready, mQuit>>
Cork(from, to) ==
  /\ main = from /\ lock = "free" /\ Goes("idle")
  /\ corked' = IF stream = "ready" THEN to ELSE corked
  /\ UNCHANGED <<loop, locks, world, context, stream, flags, wanted>>
Stop ==
  /\ main = "idle" /\ mPaused' = TRUE /\ wanted' = FALSE /\ Goes("cork")
  /\ UNCHANGED <<loop, locks, world, pulse, mPAready, mQuit>>

\* GetBuffer, SetBuffer, GetFrames, SetResampling: all hold the mutex for a
\* moment.  The first two connect again when mPAready is 3; a context that was
\* connected once refuses.
Transfer ==
  /\ main = "idle" /\ mutex = "free"
  /\ context' = IF mPAready = 3 /\ context = "unconnected" THEN "connecting" ELSE context
  /\ mutex' = "main" /\ Goes("transfer")
  /\ UNCHANGED <<loop, lock, world, stream, corked, flags, wanted>>
Transferred ==
  /\ main = "transfer" /\ mutex' = "free" /\ Goes("idle")
  /\ UNCHANGED <<loop, lock, world, pulse, flags, wanted>>

\* ~PulseAudioDevice(): the mutex is held to the end.
Destroy ==
  /\ main = "idle" /\ mQuit' = TRUE /\ Goes("destroy")
  /\ UNCHANGED <<loop, locks, world, pulse, mPAready, mPaused, wanted>>
HoldMutex ==
  /\ main = "destroy" /\ mutex = "free" /\ mutex' = "main" /\ Goes("uninit")
  /\ UNCHANGED <<loop, lock, world, pulse, flags, wanted>>

-----------------------------------------------------------------------------
(* The server and libpulse's thread.                                       *)

ServerGoes == /\ server /\ losses < MaxLosses /\ losses' = losses + 1 /\ server' = FALSE
              /\ UNCHANGED <<main, loop, locks, pulse, flags, wanted>>
ServerComes == /\ ~server /\ server' = TRUE
               /\ UNCHANGED <<main, loop, locks, losses, pulse, flags, wanted>>

Dispatch == loop = "idle" /\ lock = "free"
Signal == Goes(CASE main = "context sleeps" -> "context wakes"
                 [] main = "made sleeps" -> "made wakes"
                 [] OTHER -> main)

\* context_state_cb.  A connection that ends fails, and the stream with it.
Ready(state) == CASE state = "ready" -> 1
                  [] state = "failed" -> 2
                  [] state = "unconnected" -> 3
                  [] OTHER -> mPAready
ContextEvent ==
  /\ Dispatch
  /\ \/ context = "connecting" /\ context' = IF server THEN "ready" ELSE "failed"
     \/ context = "ready" /\ ~server /\ context' = "failed"
  /\ stream' = IF context' = "failed" /\ stream # "none" THEN "failed" ELSE stream
  /\ mPAready' = Ready(context') /\ Signal
  /\ UNCHANGED <<loop, locks, world, corked, mQuit, mPaused, wanted>>
\* stream_state_cb.  There may be no device of that name.
StreamEvent ==
  /\ Dispatch /\ context = "ready" /\ stream = "creating" /\ stream' \in {"ready", "failed"} /\ Signal
  /\ UNCHANGED <<loop, locks, world, context, corked, flags, wanted>>

\* stream_read_cb and stream_write_cb.
Data ==
  /\ Dispatch /\ stream = "ready" /\ ~corked /\ server /\ lock' = "loop"
  /\ loop' = IF mQuit \/ (Dir = "source" /\ mPaused) THEN "leave" ELSE "wait"
  /\ UNCHANGED <<main, mutex, world, pulse, flags, wanted>>
Convert ==
  /\ loop = "wait" /\ mutex = "free" /\ mutex' = "loop" /\ loop' = "convert"
  /\ UNCHANGED <<main, lock, world, pulse, flags, wanted>>
Converted ==
  /\ loop = "convert" /\ mutex' = "free" /\ loop' = IF Dir = "source" THEN "leave" ELSE "write"
  /\ UNCHANGED <<main, lock, world, pulse, flags, wanted>>
Write ==
  /\ loop = "write" /\ loop' = "leave"
  /\ UNCHANGED <<main, locks, world, pulse, flags, wanted>>
Leave ==
  /\ loop = "leave" /\ lock' = "free" /\ loop' = "idle"
  /\ UNCHANGED <<main, mutex, world, pulse, flags, wanted>>

-----------------------------------------------------------------------------
Making == NewLoop \/ Connect \/ AwaitContext \/ Wake \/ NewStream \/ AwaitStream \/ Fail
Ending == Destroy \/ HoldMutex \/ Disconnect \/ Halt \/ Free
Use == Start \/ Cork("uncork", FALSE) \/ Stop \/ Cork("cork", TRUE) \/ Transfer \/ Transferred
Events == ContextEvent \/ StreamEvent
Callback == Data \/ Convert \/ Converted \/ Write \/ Leave
Next == Making \/ Ending \/ Use \/ ServerGoes \/ ServerComes \/ Events \/ Callback
Spec == Init /\ [][Next]_vars

\* The threads run, and get the locks they wait for; libpulse answers; frames
\* are asked for again and again.
FairSpec ==
  /\ Spec /\ WF_vars(Making) /\ SF_vars(Wake) /\ SF_vars(Disconnect) /\ SF_vars(Halt) /\ WF_vars(Free)
  /\ WF_vars(Transferred) /\ WF_vars(Cork("uncork", FALSE)) /\ WF_vars(Cork("cork", TRUE))
  /\ SF_vars(Events) /\ WF_vars(Callback) /\ SF_vars(Transfer)

-----------------------------------------------------------------------------
(* Properties.                                                             *)

\* Type invariant.
TypeOK ==
  /\ lock \in {"free", "main", "loop"} /\ mutex \in {"free", "main", "loop"}
  /\ context \in {"none", "unconnected", "connecting", "ready", "failed"}
  /\ stream \in {"none", "creating", "ready", "failed"} /\ corked \in BOOLEAN
  /\ mPAready \in 0..3 /\ losses \in 0..MaxLosses
  /\ loop \in {"none", "ended", "idle", "wait", "convert", "write", "leave"}

\* While a callback runs its thread has the lock, and the stream it writes to
\* is still there.
CallbackHasStream ==
  /\ loop \in {"wait", "convert", "write", "leave"} <=> lock = "loop"
  /\ loop \in {"convert", "write"} => stream # "none"

\* A device that is gone, or that failed to be made, leaves nothing behind: no
\* thread that calls back, no connection and no lock.
NothingLeft ==
  main = "gone" => /\ loop = "ended" /\ lock = "free" /\ mutex = "free"
                   /\ stream = "none" /\ context = "none"

\* The two threads can wait for each other in one place only: the destructor
\* holds the mutex while it waits for the main loop.
MainWaitsForLoop == \/ main = "uninit" /\ stream # "none" /\ lock = "loop"
                    \/ main = "halt" /\ loop # "idle"
                    \/ main \in {"cork", "uncork"} /\ lock = "loop"
OnlyDestructorStands ==
  mutex = "main" /\ loop = "wait" /\ MainWaitsForLoop => mQuit /\ main \in {"uninit", "halt"}

\* Between calls, a device that was started and has a stream runs, and frames
\* that come are kept; one that was stopped keeps none.
StartedRuns ==
  main = "idle" /\ stream = "ready" => IF wanted THEN ~corked /\ ~mPaused ELSE mPaused

\* The constructor ends, whatever the server does: no signal is missed.
Made == main \in {"idle", "gone", "aborted"}
InitEnds == (main = "connect") ~> Made

-----------------------------------------------------------------------------
(* Proofs, for any number of losses, with and without assertions.          *)

\* Where the threads are when, and which locks they have there.  The stream is
\* made once and never becomes ready again.
Constructing == {"connect", "context", "stream", "made", "fail"}
Calls == {"wait", "convert", "write", "leave"}
Places ==
  /\ main \in Constructing \cup {"none", "context sleeps", "context wakes", "made sleeps", "made wakes", "uninit",
                "halt", "free", "gone", "aborted", "idle", "uncork", "cork", "transfer", "destroy"}
  /\ main = "none" <=> loop = "none"
  /\ main \in {"free", "gone"} <=> loop = "ended"
  /\ main \in {"none", "connect", "context", "context sleeps", "context wakes", "stream",
              "halt", "free", "gone"} => stream = "none"
  /\ main \in {"idle", "uncork", "cork", "transfer", "destroy"} => stream \in {"ready", "failed"}
  /\ main = "gone" => context = "none"
Locks ==
  /\ lock = "main" <=> main \in Constructing \cup {"aborted"}
  /\ lock = "loop" <=> loop \in Calls
  /\ mutex = "loop" <=> loop = "convert"
  /\ mutex = "main" <=> main = "transfer" \/ (mQuit /\ main \in {"uninit", "halt", "free"})
  /\ main = "destroy" => mQuit
  /\ mQuit => main \in {"destroy", "uninit", "halt", "free", "gone"}
  /\ loop \in {"wait", "convert", "write"} => stream # "none"
Wants ==
  /\ wanted <=> ~mPaused
  /\ main = "cork" => ~wanted
  /\ main \in {"idle", "transfer", "destroy"} /\ wanted /\ stream = "ready" => ~corked
  /\ main \in Constructing \cup {"none", "context sleeps", "context wakes", "made sleeps", "made wakes"} => ~wanted
IInv == TypeOK /\ Places /\ Locks /\ Wants

LEMMA Losses == ASSUME PulseDeviceConstants, losses \in 0..MaxLosses, ServerGoes PROVE losses' \in 0..MaxLosses
BY DEF PulseDeviceConstants, ServerGoes, world
LEMMA Readies == ASSUME mPAready \in 0..3, NEW state PROVE Ready(state) \in 0..3
BY DEF Ready

\* No step of either thread breaks the invariant, ...
LEMMA DeviceStep == ASSUME PulseDeviceConstants, IInv, [Next]_vars PROVE IInv'
<1> USE DEF IInv, TypeOK, Places, Locks, Wants, Constructing, Calls, locks, pulse, world, flags, Goes
<1>0. CASE UNCHANGED vars
  <2>1. TypeOK'
    BY <1>0, ZenonT(40) DEF vars
  <2>2. Places'
    BY <1>0 DEF vars
  <2>3. Locks'
    BY <1>0 DEF vars
  <2>4. Wants'
    BY <1>0 DEF vars
  <2> QED BY <2>1, <2>2, <2>3, <2>4
<1>1. CASE NewLoop
  <2>1. TypeOK'
    BY <1>1 DEF NewLoop
  <2>2. Places'
    BY <1>1 DEF NewLoop
  <2>3. Locks'
    BY <1>1 DEF NewLoop
  <2>4. Wants'
    BY <1>1 DEF NewLoop
  <2> QED BY <2>1, <2>2, <2>3, <2>4
<1>2. CASE Connect
  BY <1>2 DEF Connect
<1>3. CASE AwaitContext
  BY <1>3 DEF AwaitContext, Sleeps
<1>4. CASE Wake
  <2>1. CASE Woken("context wakes", "context")
    BY <2>1 DEF Woken
  <2>2. CASE Woken("made wakes", "made")
    BY <2>2 DEF Woken
  <2> QED BY <1>4, <2>1, <2>2 DEF Wake
<1>5. CASE NewStream
  BY <1>5 DEF NewStream
<1>6. CASE AwaitStream
  BY <1>6 DEF AwaitStream, Sleeps
<1>7. CASE Fail
  BY <1>7 DEF Fail
<1>8. CASE Disconnect
  BY <1>8 DEF Disconnect
<1>9. CASE Halt
  BY <1>9 DEF Halt
<1>10. CASE Free
  BY <1>10 DEF Free
<1>11. CASE Start
  BY <1>11 DEF Start
<1>12. CASE Cork("uncork", FALSE)
  BY <1>12 DEF Cork
<1>13. CASE Cork("cork", TRUE)
  BY <1>13 DEF Cork
<1>14. CASE Stop
  BY <1>14 DEF Stop
<1>15. CASE Transfer
  BY <1>15 DEF Transfer
<1>16. CASE Transferred
  BY <1>16 DEF Transferred
<1>17. CASE Destroy
  BY <1>17 DEF Destroy
<1>18. CASE HoldMutex
  <2>1. TypeOK'
    BY <1>18 DEF HoldMutex
  <2>2. Places'
    BY <1>18 DEF HoldMutex
  <2>3. Locks'
    BY <1>18 DEF HoldMutex
  <2>4. Wants'
    BY <1>18 DEF HoldMutex
  <2> QED BY <2>1, <2>2, <2>3, <2>4
<1>19. CASE ServerGoes
  <2>1. TypeOK'
    BY <1>19, Losses, ZenonT(40) DEF ServerGoes
  <2>2. Places'
    BY <1>19 DEF ServerGoes
  <2>3. Locks'
    BY <1>19 DEF ServerGoes
  <2>4. Wants'
    BY <1>19 DEF ServerGoes
  <2> QED BY <2>1, <2>2, <2>3, <2>4
<1>20. CASE ServerComes
  <2>1. TypeOK'
    BY <1>20, ZenonT(40) DEF ServerComes
  <2>2. Places'
    BY <1>20 DEF ServerComes
  <2>3. Locks'
    BY <1>20 DEF ServerComes
  <2>4. Wants'
    BY <1>20 DEF ServerComes
  <2> QED BY <2>1, <2>2, <2>3, <2>4
<1>21. CASE ContextEvent
  <2>1. TypeOK'
    BY <1>21, Readies DEF ContextEvent, Dispatch
  <2>2. Places'
    BY <1>21 DEF ContextEvent, Dispatch, Signal, Ready
  <2>3. Locks'
    BY <1>21 DEF ContextEvent, Dispatch, Signal, Ready
  <2>4. Wants'
    BY <1>21 DEF ContextEvent, Dispatch, Signal, Ready
  <2> QED BY <2>1, <2>2, <2>3, <2>4
<1>22. CASE StreamEvent
  BY <1>22 DEF StreamEvent, Dispatch, Signal
<1>23. CASE Data
  BY <1>23 DEF Data, Dispatch
<1>24. CASE Convert
  <2>1. TypeOK'
    BY <1>24 DEF Convert
  <2>2. Places'
    BY <1>24 DEF Convert
  <2>3. Locks'
    BY <1>24 DEF Convert
  <2>4. Wants'
    BY <1>24 DEF Convert
  <2> QED BY <2>1, <2>2, <2>3, <2>4
<1>25. CASE Converted
  <2>1. TypeOK'
    BY <1>25 DEF Converted
  <2>2. Places'
    BY <1>25 DEF Converted
  <2>3. Locks'
    BY <1>25 DEF Converted
  <2>4. Wants'
    BY <1>25 DEF Converted
  <2> QED BY <2>1, <2>2, <2>3, <2>4
<1>26. CASE Write
  <2>1. TypeOK'
    BY <1>26 DEF Write
  <2>2. Places'
    BY <1>26 DEF Write
  <2>3. Locks'
    BY <1>26 DEF Write
  <2>4. Wants'
    BY <1>26 DEF Write
  <2> QED BY <2>1, <2>2, <2>3, <2>4
<1>27. CASE Leave
  <2>1. TypeOK'
    BY <1>27 DEF Leave
  <2>2. Places'
    BY <1>27 DEF Leave
  <2>3. Locks'
    BY <1>27 DEF Leave
  <2>4. Wants'
    BY <1>27 DEF Leave
  <2> QED BY <2>1, <2>2, <2>3, <2>4
<1> QED BY <1>0, <1>1, <1>2, <1>3, <1>4, <1>5, <1>6, <1>7, <1>8, <1>9, <1>10, <1>11, <1>12, <1>13, <1>14, <1>15, <1>16, <1>17, <1>18, <1>19, <1>20, <1>21, <1>22, <1>23, <1>24, <1>25, <1>26, <1>27
    DEF Next, Making, Ending, Use, Events, Callback

\* ... with which a device begins, ...
LEMMA DeviceBegins == ASSUME PulseDeviceConstants, Init PROVE IInv
BY DEF PulseDeviceConstants, Init, IInv, TypeOK, Places, Locks, Wants, Constructing, Calls

\* ... and of which the properties follow.
LEMMA DeviceKeeps ==
  ASSUME IInv
  PROVE  TypeOK /\ CallbackHasStream /\ NothingLeft /\ OnlyDestructorStands /\ StartedRuns
BY DEF IInv, TypeOK, Places, Locks, Wants, Constructing, Calls, CallbackHasStream, NothingLeft,
   OnlyDestructorStands, MainWaitsForLoop, StartedRuns
=============================================================================
