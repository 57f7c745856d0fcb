------------------------------ MODULE FrameSource ------------------------------
(***************************************************************************)
(* What a camera promises to the EyeToy (videodev.h): GetImage gives the   *)
(* newest picture, which only gets newer, until the camera is opened or    *)
(* closed again.  Pictures are numbered as they are captured; opening      *)
(* leaves a picture of its own, Dummy, or none at all, Blank.              *)
(***************************************************************************)
EXTENDS Integers

CONSTANT MaxFrames   \* bound: pictures that are captured
FrameSourceConstants == MaxFrames \in Nat

Blank == -1
Dummy == 0
Frames == Blank..MaxFrames

VARIABLES
  latest, got,   \* the picture that is there; what GetImage gave last
  newest         \* number of the last picture that was captured
source == <<latest, got, newest>>

SourceInit == latest = Blank /\ got = Blank /\ newest = Dummy
\* A picture may be lost while the camera is opened.
Store ==
  /\ newest' \in newest + 1 .. MaxFrames /\ latest' \in {newest', latest} /\ UNCHANGED got
Restart == latest' \in {Blank, Dummy} /\ UNCHANGED <<got, newest>>
GetImage == got' = latest /\ UNCHANGED <<latest, newest>>

SourceNext == Store \/ Restart \/ GetImage
Source == SourceInit /\ [][SourceNext]_source
=============================================================================
