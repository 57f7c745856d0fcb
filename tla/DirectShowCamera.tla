---------------------------- MODULE DirectShowCamera ----------------------------
(***************************************************************************)
(* The camera of Windows (cam-windows.cpp): opening it builds a graph of   *)
(* filters out of COM objects, any step of which may fail; while the graph *)
(* runs, its thread calls back with pictures.  Closing it stops the graph, *)
(* releases the objects and empties the picture.                           *)
(*                                                                         *)
(* A picture is its number, for each half of a copy, as in V4l2Camera.     *)
(* Left out: the formats of pictures, and a camera that is not there by    *)
(* its name, which is as none.                                             *)
(***************************************************************************)
EXTENDS Integers, SequencesExt

CONSTANTS
  MaxFrames,   \* bound: pictures that are captured
  MayFail      \* whether the calls of the system may fail
DirectShowConstants == MaxFrames \in Nat /\ MayFail \in BOOLEAN

VARIABLES
  main,          \* where the emulator's thread is
  callback,      \* where the graph's thread is
  pointers,      \* those that are not NULL
  live,          \* those whose object exists
  runs,          \* the filters run
  mpeg_buffer, mpeg_mutex, frame, image, frames,
  bad,           \* "none", or what went wrong: a call to no object, an exception
  failed,        \* history: a call of the system failed since the camera was last closed
  lost           \* history: an object was lost without being released
vars == <<main, callback, pointers, live, runs, mpeg_buffer, mpeg_mutex, frame, image, frames,
          bad, failed, lost>>

Blank == -1
Dummy == 0
Picture(f) == <<f, f>>

\* The objects, in the order in which InitializeDevice gets them.
Graph == <<"pGraphBuilder", "pGraph", "pControl">>
Filters == <<"samplegrabberfilter", "samplegrabber", "nullrenderer">>
Started == {"sourcefilter", "samplegrabberfilter", "nullrenderer"}
Released == ToSet(Graph) \cup ToSet(Filters) \cup {"sourcefilter", "pSourceConfig"}

Init ==
  /\ main = "idle" /\ callback = "idle" /\ pointers = {} /\ live = {} /\ runs = FALSE
  /\ mpeg_buffer = Picture(Blank) /\ mpeg_mutex = "none" /\ frame = Blank
  /\ image = Picture(Blank) /\ frames = 0 /\ bad = "none" /\ failed = FALSE /\ lost = FALSE

-----------------------------------------------------------------------------
(* InitializeDevice.                                                       *)

\* The first k of some objects are got, anew; the next is NULL, if there is one.
Got(objects, k) ==
  LET new == {objects[i] : i \in 1..k}
      none == IF k < Len(objects) THEN {objects[k + 1]} ELSE {}
  IN /\ pointers' = (pointers \cup new) \ none
     /\ live' = (live \cup new) \ none
     /\ lost' = (lost \/ live \cap (new \cup none) # {})

initKeeps == UNCHANGED <<callback, runs, mpeg_buffer, mpeg_mutex, frame, image, frames, bad>>

\* A new dummy picture; Open after Open without Close comes here as well.
OpenBegins ==
  /\ main = "idle" /\ mpeg_mutex = "none" /\ main' = "graph"
  /\ mpeg_buffer' = Picture(Dummy) /\ failed' = (failed /\ "sourcefilter" \in pointers)
  /\ UNCHANGED <<callback, pointers, live, runs, mpeg_mutex, frame, image, frames, bad, lost>>
\* The graph; when something of it fails Open has failed.
MakeGraph ==
  /\ main = "graph"
  /\ \E k \in 0..3 :
       /\ k < 3 => MayFail
       /\ Got(Graph, k) /\ failed' = (failed \/ k < 3)
       /\ main' = IF k = 3 THEN "source" ELSE "idle"
  /\ initKeeps
\* The cameras: none, or one, unless there is a source of before.
FindSource ==
  /\ main = "source"
  /\ \/ "sourcefilter" \in pointers /\ main' = "opened" /\ UNCHANGED <<pointers, live, lost, failed>>
     \/ /\ "sourcefilter" \notin pointers /\ main' = "idle" /\ failed' = TRUE
        /\ UNCHANGED <<pointers, live, lost>>
     \/ /\ "sourcefilter" \notin pointers /\ main' = "config"
        /\ Got(<<"sourcefilter">>, 1) /\ UNCHANGED failed
  /\ initKeeps
\* What a camera can be set to, which may not be found.
FindConfig ==
  /\ main = "config" /\ main' = "filters"
  /\ \E k \in 0..1 : /\ k = 0 => MayFail
                     /\ Got(<<"pSourceConfig">>, k) /\ failed' = (failed \/ k = 0)
  /\ initKeeps
\* The filters and their connection; when something fails it is tried no
\* further, and the device is as good as initialized.
MakeFilters ==
  /\ main = "filters" /\ main' = "opened"
  /\ \/ Got(Filters, 3) /\ UNCHANGED failed
     \/ MayFail /\ (\E k \in 0..3 : Got(Filters, k)) /\ failed' = TRUE
  /\ initKeeps

-----------------------------------------------------------------------------
(* Calls to objects.                                                       *)

\* None of these may be missing; and none may answer with an error.
Call(objects, next) ==
  IF objects \subseteq live
  THEN \/ bad' = bad /\ main' = next /\ UNCHANGED failed
       \/ MayFail /\ bad' = "thrown" /\ failed' = TRUE /\ UNCHANGED main
  ELSE bad' = "no object" /\ UNCHANGED <<main, failed>>
callKeeps == UNCHANGED <<pointers, live, mpeg_buffer, mpeg_mutex, frame, image, frames, lost>>

\* pControl->Run(), Stop(), Start().  Stopping waits for the callback.
OpenStops ==
  /\ main = "opened" /\ callback = "idle" /\ Call(Started, "start")
  /\ runs' = (runs /\ bad' # "none") /\ callKeeps /\ UNCHANGED callback
OpenStarts ==
  /\ main = "start" /\ Call(Started, "idle") /\ runs' = (bad' = "none" \/ runs)
  /\ callKeeps /\ UNCHANGED callback

\* Close, of a camera with a source; the pointers stay, but for the source's.
CloseBegins == main = "idle" /\ "sourcefilter" \in pointers /\ main' = "stop" /\ UNCHANGED mpeg_mutex
Close ==
  /\ CloseBegins
  /\ UNCHANGED <<callback, pointers, live, runs, mpeg_buffer, frame, image, frames, bad, failed, lost>>
StopsFor == callback = "idle" /\ Call(Started, "release") /\ runs' = (runs /\ bad' # "none")
CloseStops == main = "stop" /\ StopsFor /\ callKeeps /\ UNCHANGED callback
Releases == live' = live \ Released
Forgets == pointers' = pointers \ {"sourcefilter"}
CloseReleases ==
  /\ main = "release"
  /\ IF Released \subseteq live
     THEN /\ Releases /\ Forgets /\ main' = "empty" /\ UNCHANGED bad
     ELSE bad' = "no object" /\ UNCHANGED <<live, pointers, main>>
  /\ UNCHANGED <<callback, runs, mpeg_buffer, mpeg_mutex, frame, image, frames, failed, lost>>
CloseEmpties ==
  /\ main = "empty" /\ mpeg_mutex = "none" /\ UNCHANGED mpeg_mutex
  /\ mpeg_buffer' = Picture(Blank) /\ main' = "idle"
  /\ UNCHANGED <<callback, pointers, live, runs, frame, image, frames, bad, failed, lost>>

\* GetImage.
GetImage ==
  /\ \/ /\ main = "idle" /\ mpeg_mutex = "none" /\ mpeg_mutex' = "main" /\ main' = "get1"
        /\ UNCHANGED image
     \/ /\ main = "get1" /\ main' = "get2" /\ UNCHANGED mpeg_mutex
        /\ image' = [image EXCEPT ![1] = mpeg_buffer[1]]
     \/ /\ main = "get2" /\ main' = "idle" /\ mpeg_mutex' = "none"
        /\ image' = [image EXCEPT ![2] = mpeg_buffer[2]]
  /\ UNCHANGED <<callback, pointers, live, runs, mpeg_buffer, frame, frames, bad, failed, lost>>

-----------------------------------------------------------------------------
(* SampleCB and store_mpeg_frame, on the graph's thread.                   *)

StoreTo(half, next) == mpeg_buffer' = [mpeg_buffer EXCEPT ![half] = frame] /\ callback' = next
TakeMutex == mpeg_mutex = "none" /\ mpeg_mutex' = "callback"
Capture == frame' = frames + 1 /\ frames' = frames + 1
SampleCB ==
  /\ \/ /\ callback = "idle" /\ runs /\ frames < MaxFrames /\ callback' = "lock"
        /\ Capture /\ UNCHANGED <<mpeg_buffer, mpeg_mutex>>
     \/ callback = "lock" /\ TakeMutex /\ callback' = "first" /\ UNCHANGED <<mpeg_buffer, frame, frames>>
     \/ callback = "first" /\ StoreTo(1, "second") /\ UNCHANGED <<mpeg_mutex, frame, frames>>
     \/ callback = "second" /\ StoreTo(2, "unlock") /\ UNCHANGED <<mpeg_mutex, frame, frames>>
     \/ /\ callback = "unlock" /\ callback' = "idle"
        /\ mpeg_mutex' = IF mpeg_mutex = "callback" THEN "none" ELSE mpeg_mutex
        /\ UNCHANGED <<mpeg_buffer, frame, frames>>
  /\ UNCHANGED <<main, pointers, live, runs, image, bad, failed, lost>>

Opening == OpenBegins \/ MakeGraph \/ FindSource \/ FindConfig \/ MakeFilters \/ OpenStops \/ OpenStarts
Closing == CloseStops \/ CloseReleases \/ CloseEmpties
\* The program has ended.
Over == bad # "none" /\ UNCHANGED vars
Next == (bad = "none" /\ (Opening \/ Close \/ Closing \/ GetImage \/ SampleCB)) \/ Over
Spec == Init /\ [][Next]_vars
FairSpec == Spec /\ WF_vars(bad = "none" /\ SampleCB) /\ WF_vars(bad = "none" /\ main # "idle" /\ GetImage)
                 /\ SF_vars(bad = "none" /\ (Closing \/ (main # "idle" /\ Opening)))
                 /\ SF_vars(bad = "none" /\ callback = "lock" /\ SampleCB)

-----------------------------------------------------------------------------
(* Properties.                                                             *)

\* Type invariant.
TypeOK ==
  /\ live \subseteq pointers /\ pointers \subseteq Released
  /\ mpeg_mutex = "callback" <=> callback \in {"first", "second", "unlock"}
  /\ mpeg_mutex = "main" <=> main \in {"get1", "get2"}
  /\ bad \in {"none", "thrown", "no object"}

\* GetImage gives one picture.
WholeImage == main \notin {"get1", "get2"} => image[1] = image[2]

\* Only when the system failed is a call made to an object that is not there,
\* or an exception left to the emulator.
BadOnlyAfterFailure == bad # "none" => failed

\* Nothing is left after Close: no object, no running filter, no picture.
ClosedHasNothing ==
  main = "idle" /\ bad = "none" /\ ~failed /\ ~lost /\ "sourcefilter" \notin pointers =>
    live = {} /\ ~runs /\ callback = "idle" /\ mpeg_buffer = Picture(Blank)

\* Close comes to its end while the graph's thread is at work.
CloseEnds == (main = "stop") ~> (main = "idle" \/ bad # "none")

\* It is a source of pictures.
Abstract == INSTANCE FrameSource WITH latest <- mpeg_buffer[1], got <- image[1],
  newest <- IF frame = Blank THEN Dummy ELSE IF callback \in {"lock", "first"} THEN frame - 1 ELSE frame
ImplementsSource == Abstract!Source
=============================================================================
