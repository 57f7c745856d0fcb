----------------------------- MODULE PulseLibrary -----------------------------
(***************************************************************************)
(* libpulse, loaded when it is first used and counted (dynlink/pulse.cpp), *)
(* and who uses it: each microphone or headset from its creation to its    *)
(* destruction, each PulseAudioDevice of it, and the dialog.               *)
(*                                                                         *)
(* A library is known by how many of the functions it has: All of them, or *)
(* fewer when it is older; 0 is none at all.                               *)
(***************************************************************************)
EXTENDS Naturals, FiniteSets

CONSTANTS
  Devices,     \* devices in the ports
  Objects,     \* PulseAudioDevices that each of them makes
  All,         \* functions, of which the last is pa_mainloop_free
  Libraries,   \* what may be installed: how many of them it has
  MaxCount     \* bound on refCntPulse

PulseLibraryConstants ==
  /\ IsFiniteSet(Devices) /\ Objects \in Nat \ {0} /\ All \in Nat \ {0, 1}
  /\ Libraries \subseteq 0..All /\ MaxCount \in Nat

VARIABLES
  installed,
  pulse_handle, \* whether it is set
  loaded,       \* function pointers that are set: the first so many
  refCntPulse,
  stage,        \* of each device: "none", "init", "objects", "destroy"
  made,         \* of each device: objects that it tried to make
  alive,        \* objects that there are: of which device, and its how-manieth
  dialog,       \* "closed", "open"
  used          \* what the last use of a function gave: the function, or the
                \* answer for a library that is not there

vars == <<installed, pulse_handle, loaded, refCntPulse, stage, made, alive, dialog, used>>

Init ==
  /\ installed \in Libraries
  /\ pulse_handle = FALSE /\ loaded = 0 /\ refCntPulse = 0
  /\ stage = [d \in Devices |-> "none"]
  /\ made = [d \in Devices |-> 0] /\ alive = {}
  /\ dialog = "closed" /\ used = "nothing"

-----------------------------------------------------------------------------
(* The library, as a record: handle, loaded, count; ok is what a load says. *)

Library == [handle |-> pulse_handle, loaded |-> loaded, count |-> refCntPulse, ok |-> TRUE]
Become(l) == pulse_handle' = l.handle /\ loaded' = l.loaded /\ refCntPulse' = l.count

\* Unless nothing at all is loaded, the count goes down, and the last one
\* clears every pointer.
DynUnloadPulse(l) ==
  IF ~l.handle /\ l.loaded < All THEN l
  ELSE IF l.count = 0 THEN l
  ELSE IF l.count > 1 THEN [l EXCEPT !.count = @ - 1]
  ELSE [l EXCEPT !.count = 0, !.handle = FALSE, !.loaded = 0]

\* The count goes up first; a library that cannot be opened leaves it there, a
\* function that is missing takes it back.
DynLoadPulse(l) ==
  LET counted == [l EXCEPT !.count = @ + 1, !.ok = TRUE]
      opened  == [counted EXCEPT !.handle = TRUE, !.loaded = installed]
  IN IF l.handle /\ l.loaded = All THEN counted
     ELSE IF installed = 0 THEN [counted EXCEPT !.handle = FALSE, !.ok = FALSE]
     ELSE IF installed = All THEN opened
     ELSE [DynUnloadPulse(opened) EXCEPT !.ok = FALSE]

\* Every function of libpulse that the program calls.
Call == IF loaded = All THEN "function" ELSE "not implemented"

-----------------------------------------------------------------------------
(* The users.                                                              *)

Counted == refCntPulse < MaxCount
Of(d) == {o \in alive : o[1] = d}

\* CreateDevice, which does not look at what AudioInit says.
CreateDevice(d) ==
  /\ stage[d] = "none" /\ Counted
  /\ stage' = [stage EXCEPT ![d] = "init"] /\ made' = [made EXCEPT ![d] = 0]
  /\ Become(DynLoadPulse(Library))
  /\ UNCHANGED <<installed, alive, dialog, used>>
\* PulseAudioDevice(): without settings, not even the library is loaded; an
\* Init that fails does not unload it.
NewObject(d) ==
  /\ stage[d] = "init" /\ made[d] < Objects /\ Counted
  /\ made' = [made EXCEPT ![d] = @ + 1]
  /\ LET l == DynLoadPulse(Library) IN
     \/ UNCHANGED <<pulse_handle, loaded, refCntPulse, alive>>
     \/ Become(l) /\ UNCHANGED alive
     \/ l.ok /\ Become(l) /\ alive' = alive \cup {<<d, made'[d]>>}
  /\ UNCHANGED <<installed, stage, dialog, used>>
\* A device without any object fails: it is destroyed at once.
Created(d) ==
  /\ stage[d] = "init" /\ made[d] = Objects
  /\ stage' = [stage EXCEPT ![d] = IF Of(d) = {} THEN "destroy" ELSE "objects"]
  /\ UNCHANGED <<installed, pulse_handle, loaded, refCntPulse, made, alive, dialog, used>>
Use(d) ==
  /\ stage[d] = "objects" /\ Of(d) # {} /\ used' = Call
  /\ UNCHANGED <<installed, pulse_handle, loaded, refCntPulse, stage, made, alive, dialog>>
Destroy(d) ==
  /\ stage[d] = "objects" /\ stage' = [stage EXCEPT ![d] = "destroy"]
  /\ UNCHANGED <<installed, pulse_handle, loaded, refCntPulse, made, alive, dialog, used>>
\* ~PulseAudioDevice() uses the library, and then unloads it.
DeleteObject(d) ==
  /\ stage[d] = "destroy" /\ (\E o \in Of(d) : alive' = alive \ {o})
  /\ used' = Call /\ Become(DynUnloadPulse(Library))
  /\ UNCHANGED <<installed, stage, made, dialog>>
Deinit(d) ==
  /\ stage[d] = "destroy" /\ Of(d) = {} /\ stage' = [stage EXCEPT ![d] = "none"]
  /\ Become(DynUnloadPulse(Library))
  /\ UNCHANGED <<installed, made, alive, dialog, used>>

\* Configure holds the library for as long as the dialog is open.
OpenDialog ==
  /\ dialog = "closed" /\ Counted
  /\ LET l == DynLoadPulse(Library) IN Become(l) /\ dialog' = IF l.ok THEN "open" ELSE "closed"
  /\ UNCHANGED <<installed, stage, made, alive, used>>
CloseDialog ==
  /\ dialog = "open" /\ dialog' = "closed" /\ used' = Call /\ Become(DynUnloadPulse(Library))
  /\ UNCHANGED <<installed, stage, made, alive>>

Device(d) == CreateDevice(d) \/ NewObject(d) \/ Created(d) \/ Use(d)
             \/ Destroy(d) \/ DeleteObject(d) \/ Deinit(d)
Next == (\E d \in Devices : Device(d)) \/ OpenDialog \/ CloseDialog
Spec == Init /\ [][Next]_vars

-----------------------------------------------------------------------------
(* Properties.                                                             *)

\* Type invariant.
TypeOK ==
  /\ installed \in Libraries /\ pulse_handle \in BOOLEAN /\ loaded \in 0..All
  /\ stage \in [Devices -> {"none", "init", "objects", "destroy"}] /\ dialog \in {"closed", "open"}
  /\ refCntPulse \in 0 .. MaxCount + 1 /\ used \in {"nothing", "function", "not implemented"}
  /\ alive \subseteq Devices \X (1..Objects) /\ made \in [Devices -> 0..Objects]

\* No object, and no dialog, uses a function after the last unload.
Users == Cardinality(alive) + (IF dialog = "open" THEN 1 ELSE 0)
UsedIsLoaded == used # "not implemented"

\* The count covers whoever holds the library.
CountCovers == refCntPulse >= Users

\* Pointers are set only while the library is open, and all of them.
WholeOrNothing == loaded \in {0, All} /\ (loaded = All => pulse_handle /\ refCntPulse > 0)
=============================================================================
