----------------------------- MODULE WasapiDevice -----------------------------
(***************************************************************************)
(* A sound device of Windows (audiodev-wasapi.cpp): the emulator's thread  *)
(* makes it, starts and stops it, takes or gives frames and deletes it;    *)
(* its own thread moves the frames from or to the system, and finds the    *)
(* device lost and back again.  The mutex has a name, so that all devices  *)
(* share one, and every wait for it may time out.                          *)
(*                                                                         *)
(* Frames are counted, not told apart: the ring buffers are in RingBuffer. *)
(* Rates are in kHz.  That a call goes to a pointer that the other thread  *)
(* releases between the test and the call is left out.                     *)
(***************************************************************************)
EXTENDS Naturals, TLAPS

CONSTANTS
  Dir,         \* mAudioDir: "source" or "sink"
  Shared,      \* whether there are other devices
  Rates,       \* rates that the guest sets
  DeviceRates, \* rates that the system's device may have
  Room,        \* frames in a buffer
  MaxLosses    \* bound: how often the system's device goes

WasapiConstants ==
  /\ Dir \in {"source", "sink"} /\ Shared \in BOOLEAN
  /\ Rates \subseteq Nat \ {0} /\ DeviceRates \subseteq Nat \ {0} /\ 48 \in DeviceRates
  /\ Room \in Nat \ {0} /\ MaxLosses \in Nat

VARIABLES
  object,      \* "none", "made", "deleted"
  main, audio, \* where the two threads are
  mutex,       \* its owner: "free", "audio" or "other"; the emulator's thread
               \* holds it for one step only; "abandoned" when its owner was killed
  system,      \* the device: there, valid (what we hold of it works), rate
  com,         \* the interfaces held
  running,     \* mmClient was started
  mDeviceLost, mPaused, mQuit,
  rates,       \* mDeviceSamplesPerSec, mSamplesPerSec, mResampleRatio as out : in
  soon,        \* Reinitialize was tried in the last second
  frames,      \* in the shared buffer
  fetched,     \* frames in the buffer of the source's thread
  wanted,      \* history: the emulator's thread started it, the rate it set, and
               \* whether the device was made or started anew since
  losses, leaked

thread == <<main, audio, mutex>>
flags == <<mDeviceLost, mPaused, mQuit>>
sound == <<frames, fetched>>
past == <<wanted, losses, leaked>>
vars == <<object, thread, system, com, running, flags, rates, soon, sound, past>>

\* The interfaces, in the order in which Reinitialize gets them.
Interfaces == <<"mmDevice", "mmClient", "service", "mmClock">>
First(k) == {Interfaces[i] : i \in 1..k}
All == First(4)
Smaller(a, b) == IF a < b THEN a ELSE b

Init ==
  /\ object = "none" /\ main = "idle" /\ audio = "none" /\ mutex = "free"
  /\ system = [there |-> TRUE, valid |-> FALSE, rate |-> 48]
  /\ com = {} /\ running = FALSE
  /\ mDeviceLost = FALSE /\ mPaused = TRUE /\ mQuit = FALSE
  /\ rates = [device |-> 48, samples |-> 48, ratio |-> <<1, 1>>]
  /\ soon = FALSE /\ frames = 0 /\ fetched = 0
  /\ wanted = [on |-> FALSE, rate |-> 48, renewed |-> FALSE] /\ losses = 0 /\ leaked = FALSE

-----------------------------------------------------------------------------
(* The system, the clock and the other devices.                            *)

Others == <<object, main, audio, com, running, flags, rates, sound>>
Lose == /\ system.valid /\ losses < MaxLosses /\ losses' = losses + 1
        /\ \E there \in BOOLEAN : system' = [system EXCEPT !.valid = FALSE, !.there = there]
        /\ UNCHANGED <<Others, mutex, soon, wanted, leaked>>
Return == /\ ~system.there
          /\ \E rate \in DeviceRates : system' = [system EXCEPT !.there = TRUE, !.rate = rate]
          /\ UNCHANGED <<Others, mutex, soon, past>>
Second == /\ soon /\ soon' = FALSE /\ UNCHANGED <<Others, mutex, system, past>>

OtherTakes == /\ Shared /\ mutex = "free" /\ mutex' = "other"
              /\ UNCHANGED <<Others, system, soon, past>>
OtherReleases == /\ mutex = "other" /\ mutex' = "free"
                 /\ UNCHANGED <<Others, system, soon, past>>

-----------------------------------------------------------------------------
(* The emulator's thread.                                                  *)

\* MMAudioDevice(): the first Reinitialize; when it fails there is no object.
Make ==
  /\ object = "none" /\ main = "idle" /\ system.there
  /\ object' = "made" /\ com' = All /\ system' = [system EXCEPT !.valid = TRUE]
  /\ rates' = [rates EXCEPT !.device = system.rate] /\ soon' = TRUE
  /\ UNCHANGED <<thread, running, flags, sound, past>>

Idle == object = "made" /\ main = "idle"
Alive == audio \notin {"none", "dead", "killed"}

Start ==
  /\ Idle /\ main' = "start" /\ running' = ("mmClient" \in com \/ running)
  /\ wanted' = [wanted EXCEPT !.on = TRUE, !.renewed = FALSE]
  /\ UNCHANGED <<object, audio, mutex, system, com, flags, rates, soon, sound, losses, leaked>>
Started ==
  /\ main = "start" /\ main' = "idle" /\ mPaused' = FALSE
  /\ UNCHANGED <<object, audio, mutex, system, com, running, mDeviceLost, mQuit, rates, soon, sound, past>>
Stop ==
  /\ Idle /\ main' = "stop" /\ mPaused' = TRUE
  /\ wanted' = [wanted EXCEPT !.on = FALSE, !.renewed = FALSE]
  /\ UNCHANGED <<object, audio, mutex, system, com, running, mDeviceLost, mQuit, rates, soon, sound,
                 losses, leaked>>
Stopped ==
  /\ main = "stop" /\ main' = "idle" /\ running' = (running /\ "mmClient" \notin com)
  /\ UNCHANGED <<object, audio, mutex, system, com, flags, rates, soon, sound, past>>

\* GetBuffer and SetBuffer begin the thread, again if it ended.
Begin == audio' = IF Alive \/ mQuit THEN audio ELSE "top"
Transfer ==
  /\ Idle /\ main' = "transfer" /\ Begin
  /\ UNCHANGED <<object, mutex, system, com, running, flags, rates, soon, sound, past>>
\* The wait times out only while another holds the mutex.
Transferred ==
  /\ main = "transfer" /\ main' = "idle"
  /\ IF mutex # "free" THEN UNCHANGED frames
     ELSE IF Dir = "source" THEN frames' = 0 ELSE frames' = Smaller(frames + 1, Room)
  /\ UNCHANGED <<object, audio, mutex, system, com, running, flags, rates, soon, fetched, past>>

\* SetResampling, which first looks whether the device has that rate.
Ratio(samples, device) == IF Dir = "source" THEN <<samples, device>> ELSE <<device, samples>>
SetResampling(r) ==
  /\ Idle /\ wanted' = [wanted EXCEPT !.rate = r]
  /\ IF rates.device = r THEN UNCHANGED <<main, rates>>
     ELSE main' = "resize" /\ rates' = [rates EXCEPT !.samples = r, !.ratio = Ratio(r, rates.device)]
  /\ UNCHANGED <<object, audio, mutex, system, com, running, flags, soon, sound, losses, leaked>>
\* ResetBuffers, which changes nothing when the wait times out.
Resized ==
  /\ main = "resize" /\ main' = "idle"
  /\ UNCHANGED <<object, audio, mutex, system, com, running, flags, rates, soon, sound, past>>

\* ~MMAudioDevice(): the thread is asked to end, and waited for.
Delete ==
  /\ Idle /\ main' = "join" /\ mQuit' = TRUE
  /\ UNCHANGED <<object, audio, mutex, system, com, running, mDeviceLost, mPaused, rates, soon, sound, past>>
Released ==
  /\ main = "join" /\ object' = "deleted" /\ main' = "idle" /\ com' = {} /\ running' = FALSE
  /\ UNCHANGED <<system, flags, rates, soon, sound, past>>
Join == ~Alive /\ Released /\ UNCHANGED <<audio, mutex>>
\* TerminateThread after 30 seconds, wherever a wait or a call of the system
\* keeps the thread.  What the other devices then make of the mutex is left out.
JoinTimesOut ==
  /\ Alive /\ Released /\ audio' = "killed"
  /\ mutex' = IF mutex = "audio" THEN "abandoned" ELSE mutex

-----------------------------------------------------------------------------
(* The device's thread: both directions.                                   *)

Work == IF Dir = "source" THEN "fetch" ELSE IF mDeviceLost THEN "init" ELSE "lock"
Goes(to) == audio' = to
Top ==
  /\ audio = "top" /\ Goes(IF mQuit THEN "dead" ELSE IF mPaused THEN "paused" ELSE Work)
  /\ UNCHANGED <<object, main, mutex, system, com, running, flags, rates, soon, sound, past>>
\* Mutant of Paused: asleep, it does not look whether to quit.
PausedOnly ==
  /\ audio = "paused" /\ ~mPaused /\ Goes(Work)
  /\ UNCHANGED <<object, main, mutex, system, com, running, flags, rates, soon, sound, past>>
Paused ==
  /\ audio = "paused" /\ (mQuit \/ ~mPaused) /\ Goes(IF mQuit THEN "dead" ELSE Work)
  /\ UNCHANGED <<object, main, mutex, system, com, running, flags, rates, soon, sound, past>>

\* Reinitialize: within a second of the last try it gives up; it overwrites
\* what is held.  Only the source lets go of everything first.
\* Mutant of GiveUp: it goes on as if it had worked.
GiveUpNot == IF Dir = "source" THEN "packet" ELSE "lock"
GiveUp == IF Dir = "source" THEN "convert" ELSE "top"
Overwritten(got) == com \cap got
Reinitialize(got) ==
  /\ com' = com \cup got /\ leaked' = (leaked \/ Overwritten(got) # {})
  /\ soon' = TRUE /\ running' = (running /\ "mmClient" \notin got)
  /\ wanted' = [wanted EXCEPT !.renewed = TRUE]
InitFails ==
  /\ audio = "init" /\ (soon \/ ~system.there) /\ Goes(GiveUp)
  /\ IF soon THEN UNCHANGED <<com, running, soon, wanted, leaked>> ELSE \E k \in 0..3 : Reinitialize(First(k))
  /\ UNCHANGED <<object, main, mutex, system, flags, rates, sound, losses>>
InitWorks ==
  /\ audio = "init" /\ ~soon /\ system.there /\ Goes("reset") /\ Reinitialize(All)
  /\ system' = [system EXCEPT !.valid = TRUE]
  /\ rates' = [rates EXCEPT !.device = system.rate]
  /\ UNCHANGED <<object, main, mutex, flags, sound, losses>>
\* ResetBuffers, or its time-out; then only the source is started again.
InitDone ==
  /\ audio = "reset" /\ mDeviceLost' = FALSE
  /\ Goes(IF Dir = "source" THEN "restart" ELSE "lock")
  /\ UNCHANGED <<object, main, mutex, system, com, running, mPaused, mQuit, rates, soon, sound, past>>

(* CaptureThread and GetMMBuffer.                                          *)

FreeData == com' = {} /\ running' = FALSE
Fetch ==
  /\ audio = "fetch" /\ Goes(IF mDeviceLost THEN "init" ELSE "packet")
  /\ IF mDeviceLost THEN FreeData ELSE UNCHANGED <<com, running>>
  /\ UNCHANGED <<object, main, mutex, system, flags, rates, soon, sound, past>>
Restart ==
  /\ audio = "restart" /\ Goes("packet") /\ running' = TRUE /\ mPaused' = FALSE
  /\ wanted' = [wanted EXCEPT !.renewed = TRUE]
  /\ UNCHANGED <<object, main, mutex, system, com, mDeviceLost, mQuit, rates, soon, sound, losses, leaked>>
Packet ==
  /\ audio = "packet" /\ Goes("convert")
  /\ IF ~system.valid THEN FreeData /\ mDeviceLost' = TRUE /\ UNCHANGED fetched
     ELSE /\ UNCHANGED <<com, running, mDeviceLost>>
          /\ fetched' \in IF running THEN {fetched, 1} ELSE {fetched}
  /\ UNCHANGED <<object, main, mutex, system, mPaused, mQuit, rates, soon, frames, past>>
\* What was fetched is converted; a wait for the mutex that times out ends the
\* thread, and what was fetched is gone.
Convert ==
  /\ audio = "convert"
  /\ IF fetched = 0 THEN Goes("top") /\ UNCHANGED <<mutex, fetched>>
     ELSE IF mutex = "free" THEN Goes("store") /\ mutex' = "audio" /\ UNCHANGED fetched
     ELSE Goes("dead") /\ fetched' = 0 /\ UNCHANGED mutex
  /\ UNCHANGED <<object, main, system, com, running, flags, rates, soon, frames, past>>
\* It is put where GetBuffer finds it.
Store ==
  /\ audio = "store" /\ Goes("top") /\ mutex' = "free"
  /\ fetched' = 0 /\ frames' = Smaller(frames + fetched, Room)
  /\ UNCHANGED <<object, main, system, com, running, flags, rates, soon, past>>

(* RenderThread.                                                           *)

Lock ==
  /\ audio = "lock"
  /\ IF mutex = "free" THEN mutex' = "audio" /\ Goes("play") ELSE mutex' = mutex /\ Goes("dead")
  /\ UNCHANGED <<object, main, system, com, running, flags, rates, soon, sound, past>>
\* Some of the frames are played; or the call fails, and only the loss of the
\* device lets the thread live.
Play ==
  /\ audio = "play"
  /\ \/ system.valid /\ (\E n \in 0..frames : frames' = n) /\ Goes("played")
     \/ ~system.valid /\ frames' = frames /\ Goes("lost")
     \/ frames' = frames /\ Goes("failed")
  /\ UNCHANGED <<object, main, mutex, system, com, running, flags, rates, soon, fetched, past>>
Unlock ==
  /\ audio \in {"played", "lost", "failed"} /\ mutex' = "free"
  /\ mDeviceLost' = (mDeviceLost \/ audio = "lost") /\ Goes(IF audio = "failed" THEN "dead" ELSE "top")
  /\ UNCHANGED <<object, main, system, com, running, mPaused, mQuit, rates, soon, sound, past>>

-----------------------------------------------------------------------------
World == Lose \/ Return \/ Second \/ OtherTakes \/ OtherReleases
Main == Make \/ Start \/ Started \/ Stop \/ Stopped \/ Transfer \/ Transferred
        \/ (\E r \in Rates : SetResampling(r)) \/ Resized \/ Delete \/ Join \/ JoinTimesOut
Both == Top \/ Paused \/ InitFails \/ InitWorks \/ InitDone
Source == Fetch \/ Restart \/ Packet \/ Convert \/ Store
Sink == Lock \/ Play \/ Unlock
Audio == Both \/ Source \/ Sink
Next == World \/ Main \/ Audio
Spec == Init /\ [][Next]_vars

\* Threads run, seconds pass, and nobody keeps the mutex.
FairSpec == Spec /\ WF_vars(Audio) /\ WF_vars(Second) /\ WF_vars(OtherReleases) /\ WF_vars(Join)

-----------------------------------------------------------------------------
(* Properties.                                                             *)

\* Type invariant.
TypeOK ==
  /\ object \in {"none", "made", "deleted"} /\ mutex \in {"free", "audio", "other", "abandoned"}
  /\ main \in {"idle", "start", "stop", "transfer", "resize", "join"}
  /\ com \subseteq All /\ running \in BOOLEAN /\ frames \in 0..Room /\ fetched \in 0..1
  /\ rates.device \in DeviceRates /\ leaked \in BOOLEAN /\ losses \in Nat
  /\ audio \in {"none", "dead", "killed", "top", "paused", "fetch", "init", "reset", "restart", "packet",
                "convert", "store", "lock", "play", "played", "lost", "failed"}

\* A thread that ended by itself, for whatever reason, does not own the mutex
\* that all devices wait for; only one that ~MMAudioDevice kills may leave it.
EndedOwnsNothing ==
  /\ mutex = "audio" => Alive
  /\ mutex = "abandoned" => audio = "killed" /\ object = "deleted"

\* Nothing runs on a deleted object.
DeletedIsQuiet == object = "deleted" => ~Alive /\ com = {}

\* Whoever uses the interfaces has all of them: the thread asks the device for
\* a packet or a buffer only when Reinitialize got everything.
UsesWhatItHas == audio \in {"packet", "play"} => com = All

\* A source that is lost again and again leaks nothing; a sink leaks what it held
\* when the device was lost, as RenderThread frees nothing before it tries anew.
LeaksOnlyTheLost == leaked => Dir = "sink" /\ losses > 0

\* Once the emulator started the device, it runs whenever it is not lost; a sink
\* until it is made anew, which starts only a source again.
RunsWhenWanted ==
  object = "made" /\ wanted.on /\ main = "idle" /\ audio \in {"top", "fetch", "lock"}
  /\ ~mDeviceLost /\ (Dir = "sink" => ~wanted.renewed) => running /\ ~mPaused

\* Once the emulator stopped the device, it does not start by itself; but for a
\* source that is lost at that moment, which GetMMBuffer starts when it is back.
StopsWhenWanted ==
  object = "made" /\ ~wanted.on /\ main = "idle" /\ (Dir = "source" => ~wanted.renewed) =>
    mPaused /\ ~running

\* A thread that is told to quit ends by itself, paused, lost or not.
Ends == mQuit ~> ~Alive

\* A device that is lost and back is found again, while it is used.
IsFoundAgain ==
  (mDeviceLost /\ Alive /\ system.there) ~> (~mDeviceLost \/ mPaused \/ mQuit \/ ~Alive \/ ~system.there)

-----------------------------------------------------------------------------
(* Proofs, for all rates, rooms and bounds.                                *)

\* Where the thread may be, and what it has there: a device that is not known
\* to be lost has all its interfaces, Reinitialize gets them again, and whoever
\* plays owns the mutex.
Playing == {"play", "played", "lost", "failed"}
SourceOnly == {"fetch", "restart", "packet", "convert", "store"}
SinkOnly == {"lock"} \cup Playing
Places ==
  /\ object = "none" => ~Alive
  /\ audio \in IF Dir = "source" THEN {"none", "dead", "killed", "top", "paused", "init", "reset"} \cup SourceOnly
                                 ELSE {"none", "dead", "killed", "top", "paused", "init", "reset"} \cup SinkOnly
  /\ mutex = "audio" <=> audio \in Playing \cup {"store"}
  /\ mutex = "abandoned" \/ audio = "killed" => object = "deleted"
  /\ mutex = "abandoned" => audio = "killed"
  /\ audio \in {"init", "reset"} => mDeviceLost
  /\ system.rate \in DeviceRates /\ DOMAIN system = {"there", "valid", "rate"}
  /\ DOMAIN rates = {"device", "samples", "ratio"} /\ DOMAIN wanted = {"on", "rate", "renewed"}
  /\ wanted.on \in BOOLEAN /\ wanted.renewed \in BOOLEAN /\ mPaused \in BOOLEAN
Held ==
  object = "made" =>
    IF Dir = "source"
    THEN /\ ~mDeviceLost \/ audio \in {"reset", "restart", "packet"} => com = All
         /\ audio = "init" => com = {}
    ELSE com = All
\* What the emulator wants is so once its call has returned, or for the source
\* when the thread has restarted it, as long as the device is the one it meant.
Wants ==
  /\ object = "none" => ~wanted.on /\ ~running
  /\ running => "mmClient" \in com
  /\ main = "start" => wanted.on
  /\ main = "stop" => ~wanted.on
  /\ wanted.on /\ main # "start" => ~mPaused
  /\ Dir = "source" /\ object = "made" /\ wanted.on /\ ~mDeviceLost /\ audio # "restart" => running
  /\ Dir = "sink" /\ object = "made" /\ wanted.on /\ ~wanted.renewed => running
  /\ ~wanted.on /\ (Dir = "source" => ~wanted.renewed) => mPaused
  /\ object = "made" /\ ~wanted.on /\ (Dir = "source" => ~wanted.renewed) /\ main # "stop" => ~running
\* Only what was lost is made again.
Leaks == LeaksOnlyTheLost /\ (mDeviceLost => losses > 0) /\ (audio = "lost" => losses > 0)
         /\ (object = "made" /\ ~system.valid => losses > 0)
IInv ==
  /\ TypeOK /\ Places /\ Held /\ Wants /\ DeletedIsQuiet /\ Leaks

\* The interfaces are four.
LEMMA AllInterfaces ==
  /\ All = {"mmDevice", "mmClient", "service", "mmClock"}
  /\ \A k \in 0..3 : First(k) \subseteq All
<1>1. All = {"mmDevice", "mmClient", "service", "mmClock"}
  BY DEF All, First, Interfaces
<1>2. \A k \in 0..3 : First(k) \subseteq All
  BY DEF All, First
<1> QED BY <1>1, <1>2

\* What is overwritten leaks, and is nothing for a source, which let go before.
LEMMA Reinitialized ==
  ASSUME WasapiConstants, IInv, NEW got \in SUBSET All, Reinitialize(got)
  PROVE  /\ com' \subseteq All /\ com' = com \cup got /\ leaked' \in BOOLEAN
         /\ com = {} /\ ~leaked => ~leaked'
         /\ DOMAIN wanted' = {"on", "rate", "renewed"} /\ wanted'.on = wanted.on /\ wanted'.renewed = TRUE
         /\ running' = (running /\ "mmClient" \notin got) /\ running' \in BOOLEAN /\ soon' = TRUE
<1>1. leaked' = (leaked \/ Overwritten(got) # {}) /\ com' = com \cup got
  BY DEF Reinitialize
<1>2. com = {} => Overwritten(got) = {}
  BY DEF Overwritten
<1>3. leaked' \in BOOLEAN
  BY <1>1
<1>4. com = {} /\ ~leaked => ~leaked'
  BY <1>1, <1>2
<1>5. DOMAIN wanted' = {"on", "rate", "renewed"} /\ wanted'.on = wanted.on /\ wanted'.renewed = TRUE
  BY DEF Reinitialize, IInv, Places
<1>6. com' \subseteq All /\ running' \in BOOLEAN
  BY <1>1 DEF Reinitialize, IInv, TypeOK
<1> QED BY <1>1, <1>3, <1>4, <1>5, <1>6 DEF Reinitialize

\* No step of either thread breaks the invariant, ...
LEMMA DeviceStep == ASSUME WasapiConstants, IInv, [Next]_vars PROVE IInv'
<1> USE DEF IInv, TypeOK, Places, Held, Wants, DeletedIsQuiet, Leaks, LeaksOnlyTheLost, Playing, SourceOnly, SinkOnly, Alive
<1>0. CASE UNCHANGED vars
  BY <1>0 DEF vars, thread, flags, sound, past
<1>1. CASE Lose
  BY <1>1 DEF Lose, Others, thread, flags, sound, past, WasapiConstants
<1>2. CASE Return
  BY <1>2 DEF Return, Others, thread, flags, sound, past, WasapiConstants
<1>3. CASE Second
  BY <1>3 DEF Second, Others, thread, flags, sound, past
<1>4. CASE OtherTakes
  BY <1>4 DEF OtherTakes, Others, thread, flags, sound, past
<1>5. CASE OtherReleases
  BY <1>5 DEF OtherReleases, Others, thread, flags, sound, past
<1>6. CASE Make
  BY <1>6, AllInterfaces DEF Make, thread, flags, sound, past, WasapiConstants
<1>7. CASE Start
  BY <1>7, AllInterfaces DEF Start, Idle, thread, flags, sound, past
<1>8. CASE Started
  BY <1>8, ZenonT(40) DEF Started, thread, flags, sound, past
<1>9. CASE Stop
  BY <1>9 DEF Stop, Idle, thread, flags, sound, past
<1>10. CASE Stopped
  BY <1>10, AllInterfaces, ZenonT(40) DEF Stopped, thread, flags, sound, past
<1>11. CASE Transfer
  BY <1>11 DEF Transfer, Idle, thread, flags, sound, past, Begin
<1>12. CASE Transferred
  BY <1>12 DEF Transferred, thread, flags, sound, past, Smaller, WasapiConstants
<1>13. CASE Resized
  BY <1>13 DEF Resized, thread, flags, sound, past
<1>14. CASE Delete
  BY <1>14 DEF Delete, Idle, thread, flags, sound, past
<1>15. CASE Join
  BY <1>15, AllInterfaces DEF Join, Released, thread, flags, sound, past
<1>29. CASE JoinTimesOut
  BY <1>29, AllInterfaces DEF JoinTimesOut, Released, flags, sound, past
<1>16. CASE Top
  BY <1>16 DEF Top, thread, flags, sound, past, Goes, Work
<1>17. CASE Paused
  BY <1>17 DEF Paused, thread, flags, sound, past, Goes, Work
<1>18. CASE InitDone
  BY <1>18 DEF InitDone, thread, flags, sound, past, Goes
<1>19. CASE Fetch
  BY <1>19, AllInterfaces DEF Fetch, thread, flags, sound, past, Goes, FreeData
<1>20. CASE Restart
  <2>1. DOMAIN wanted' = {"on", "rate", "renewed"} /\ wanted'.on = wanted.on /\ wanted'.renewed = TRUE
    BY <1>20 DEF Restart
  <2>2. TypeOK' /\ Places' /\ Held'
    BY <1>20, <2>1 DEF Restart, Goes, sound
  <2>3. object = "made" /\ Dir = "source" /\ com = All /\ "mmClient" \in All
    BY <1>20, AllInterfaces DEF Restart
  <2>4. DeletedIsQuiet' /\ Leaks'
    BY <1>20, <2>1 DEF Restart, Goes
  <2>5. Wants'
    BY <1>20, <2>1, <2>3 DEF Restart, Goes
  <2> QED BY <2>2, <2>4, <2>5
<1>21. CASE Packet
  <2>1. CASE system.valid
    BY <1>21, <2>1 DEF Packet, thread, flags, sound, past, Goes
  <2>2. CASE ~system.valid
    BY <1>21, <2>2 DEF Packet, thread, flags, sound, past, Goes, FreeData
  <2> QED BY <2>1, <2>2
<1>22. CASE Convert
  BY <1>22 DEF Convert, thread, flags, sound, past, Goes, Smaller, WasapiConstants
<1>30. CASE Store
  BY <1>30 DEF Store, thread, flags, sound, past, Goes, Smaller, WasapiConstants
<1>23. CASE Lock
  BY <1>23 DEF Lock, thread, flags, sound, past, Goes
<1>24. CASE Play
  BY <1>24 DEF Play, thread, flags, sound, past, Goes, WasapiConstants
<1>25. CASE Unlock
  BY <1>25 DEF Unlock, thread, flags, sound, past, Goes
<1>26. ASSUME NEW r \in Rates, SetResampling(r) PROVE IInv'
  BY <1>26, ZenonT(40) DEF SetResampling, Idle, thread, flags, sound, past
<1>31. audio = "init" => object = "made" /\ losses > 0 /\ (Dir = "source" => com = {} /\ ~leaked)
  OBVIOUS
<1>27. CASE InitWorks
  <2>1. /\ com' = All /\ leaked' \in BOOLEAN /\ (com = {} /\ ~leaked => ~leaked')
        /\ running' \in BOOLEAN /\ ~running' /\ soon'
        /\ DOMAIN wanted' = {"on", "rate", "renewed"} /\ wanted'.on = wanted.on /\ wanted'.renewed = TRUE
    <3>1. Reinitialize(All) /\ com \subseteq All /\ "mmClient" \in All
      BY <1>27, AllInterfaces DEF InitWorks
    <3> HIDE DEF IInv, TypeOK, Places, Held, Wants, DeletedIsQuiet, Leaks
    <3> QED BY <3>1, Reinitialized
  <2>2. TypeOK'
    BY <1>27, <2>1 DEF InitWorks, Goes, flags, sound
  <2>3. Places'
    BY <1>27, <2>1 DEF InitWorks, Goes, flags
  <2>4. Held'
    BY <1>27, <2>1 DEF InitWorks, Goes
  <2>5. Wants'
    <3>1. /\ wanted'.on = wanted.on /\ wanted'.renewed = TRUE /\ running' = FALSE /\ mDeviceLost'
          /\ object' = object /\ main' = main /\ mPaused' = mPaused
      BY <1>27, <2>1 DEF InitWorks, flags
    <3> HIDE DEF IInv, TypeOK, Places, Held, DeletedIsQuiet, Leaks
    <3>2. Wants
      BY DEF IInv
    <3> QED BY <3>1, <3>2
  <2>6. DeletedIsQuiet' /\ Leaks'
    <3>1. /\ object' = "made" /\ losses' > 0 /\ audio' = "reset" /\ (Dir = "source" => ~leaked')
      BY <1>27, <1>31, <2>1 DEF InitWorks, Goes
    <3> QED BY <3>1, WasapiConstants DEF WasapiConstants
  <2> QED BY <2>2, <2>3, <2>4, <2>5, <2>6
<1>28. CASE InitFails
  <2>1. CASE soon
    BY <1>28, <2>1 DEF InitFails, GiveUp, Goes, flags, sound
  <2>2. ASSUME NEW k \in 0..3, Reinitialize(First(k)) PROVE IInv'
    <3>1. /\ com' \subseteq All /\ com' = com \cup First(k) /\ leaked' \in BOOLEAN
          /\ (com = {} /\ ~leaked => ~leaked')
          /\ running' = (running /\ "mmClient" \notin First(k)) /\ running' \in BOOLEAN
          /\ DOMAIN wanted' = {"on", "rate", "renewed"} /\ wanted'.on = wanted.on /\ wanted'.renewed = TRUE
      BY <2>2, Reinitialized, AllInterfaces
    <3>2. TypeOK'
      BY <1>28, <3>1 DEF InitFails, GiveUp, Goes, sound
    <3>3. Places'
      BY <1>28, <3>1 DEF InitFails, GiveUp, Goes, flags
    <3>4. Wants'
      <4>1. /\ wanted'.on = wanted.on /\ wanted'.renewed = TRUE /\ mDeviceLost'
            /\ com' = com \cup First(k) /\ running' = (running /\ "mmClient" \notin First(k))
            /\ object' = object /\ main' = main /\ mPaused' = mPaused
        BY <1>28, <3>1 DEF InitFails, flags
      <4> HIDE DEF IInv, TypeOK, Places, Held, DeletedIsQuiet, Leaks
      <4>2. Wants
        BY DEF IInv
      <4> QED BY <4>1, <4>2
    <3>5. Held'
      BY <1>28, <3>1 DEF InitFails, GiveUp, Goes, flags
    <3>6. DeletedIsQuiet' /\ Leaks'
      <4>1. /\ object' = "made" /\ losses' > 0 /\ audio' \in {"convert", "top"} /\ (Dir = "source" => ~leaked')
        BY <1>28, <1>31, <3>1 DEF InitFails, GiveUp, Goes
      <4> QED BY <4>1, WasapiConstants DEF WasapiConstants
    <3> QED BY <3>2, <3>3, <3>4, <3>5, <3>6
  <2> QED BY <1>28, <2>1, <2>2 DEF InitFails
<1> QED BY <1>0, <1>1, <1>2, <1>3, <1>4, <1>5, <1>6, <1>7, <1>8, <1>9, <1>10, <1>11, <1>12, <1>13, <1>14, <1>15, <1>16, <1>17, <1>18, <1>19, <1>20, <1>21, <1>22, <1>23, <1>24, <1>25, <1>26, <1>27, <1>28,
    <1>29, <1>30 DEF Next, World, Main, Audio, Both, Source, Sink

\* ... with which a device begins, ...
LEMMA DeviceBegins == ASSUME WasapiConstants, Init PROVE IInv
<1>1. TypeOK
  <2>1. Room \in Nat /\ 48 \in DeviceRates
    BY DEF WasapiConstants
  <2>2. rates.device = 48
    BY DEF Init
  <2>3. running \in BOOLEAN
    BY DEF Init
  <2>4. com \subseteq All /\ object = "none" /\ mutex = "free" /\ main = "idle" /\ audio = "none"
        /\ frames = 0 /\ fetched = 0 /\ leaked \in BOOLEAN /\ losses = 0
    BY DEF Init
  <2> QED BY <2>1, <2>2, <2>3, <2>4 DEF TypeOK
<1>2. Places
  BY DEF WasapiConstants, Init, Places, Playing, Alive
<1>3. Held /\ Wants /\ DeletedIsQuiet /\ Leaks
  BY DEF Init, Held, Wants, DeletedIsQuiet, Leaks, LeaksOnlyTheLost
<1> QED BY <1>1, <1>2, <1>3 DEF IInv

\* ... and of which the properties follow.
LEMMA DeviceKeeps ==
  ASSUME WasapiConstants, IInv
  PROVE  /\ TypeOK /\ EndedOwnsNothing /\ DeletedIsQuiet /\ UsesWhatItHas /\ LeaksOnlyTheLost
         /\ RunsWhenWanted /\ StopsWhenWanted
BY DEF Leaks,  WasapiConstants, IInv, TypeOK, Places, Held, Wants, DeletedIsQuiet, Playing, SourceOnly, SinkOnly, Alive,
   EndedOwnsNothing, UsesWhatItHas, RunsWhenWanted, StopsWhenWanted
=============================================================================
