------------------------------ MODULE AudioDialog ------------------------------
(***************************************************************************)
(* The dialogs that pick the sound devices of a microphone or headset: the *)
(* one of PulseAudio (audiodev-pulse.cpp, GTK) and the one of WASAPI       *)
(* (audiodev-wasapi.cpp).  Each asks the system for its devices, shows the *)
(* ones that are set, and saves what is shown when the user accepts.       *)
(***************************************************************************)
EXTENDS Integers, Sequences, FiniteSets, Functions

CONSTANTS
  Builds,      \* "gtk", "windows"
  Sources, Sinks, \* devices that may be there
  MaxLength,   \* milliseconds in the longest buffer
  Lengths      \* lengths that the file may hold or the user may type

Missing == ""
AudioDialogConstants ==
  /\ Builds \subseteq {"gtk", "windows"} /\ Sources \cap Sinks = {}
  /\ IsFiniteSet(Sources) /\ IsFiniteSet(Sinks) /\ Missing \notin Sources \cup Sinks
  /\ MaxLength \in Nat \ {0} /\ Lengths \subseteq Nat

VARIABLES
  build,       \* which of the two dialogs; it never changes
  system,      \* the devices that are there
  file,        \* the settings: a device or "" of each slot, a length or Unset of
               \* each direction
  dialog,      \* "closed", "sources" and "sinks" while it asks, "open"
  listed,      \* the devices of each direction, as the dialog got them
  active,      \* the entry on show of each slot; 0 is "None"
  slider, text, \* of each direction; only Windows has the text
  touched      \* history: slots that the user changed

vars == <<build, system, file, dialog, listed, active, slider, text, touched>>

Slots == {"source0", "source1", "sink0"}
Directions == {"source", "sink"}
Of(slot) == IF slot = "sink0" THEN "sink" ELSE "source"
All(dir) == IF dir = "sink" THEN Sinks ELSE Sources
Unset == -1

\* A dialog that is closed shows nothing.
NoLists == [d \in Directions |-> <<>>]
NoneActive == [s \in Slots |-> 0]
Shortest == [d \in Directions |-> 1]
Close == /\ dialog' = "closed" /\ listed' = NoLists /\ active' = NoneActive
         /\ slider' = Shortest /\ text' = Shortest /\ touched' = {}

\* The order of the list is the system's; here every list is sorted alike.
Order(S) == CHOOSE list \in [1..Cardinality(S) -> S] : Range(list) = S

Init ==
  /\ build \in Builds
  /\ system \in SUBSET (Sources \cup Sinks)
  /\ file = [device |-> [s \in Slots |-> Missing], length |-> [d \in Directions |-> Unset]]
  /\ dialog = "closed" /\ listed = NoLists /\ active = NoneActive
  /\ slider = Shortest /\ text = Shortest /\ touched = {}

-----------------------------------------------------------------------------
(* The lists.                                                              *)

Plug(d) == /\ system' = IF d \in system THEN system \ {d} ELSE system \cup {d}
           /\ UNCHANGED <<file, dialog, listed, active, slider, text, touched>>

Ask(dir) == Order(system \cap All(dir))
\* "None", then the devices, of which the one that is set is made active.
Populate(devName, devs) ==
  IF \E i \in 1..Len(devs) : devs[i] = devName THEN CHOOSE i \in 1..Len(devs) : devs[i] = devName ELSE 0

Ranged(n) == IF n < 1 THEN 1 ELSE IF n > MaxLength THEN MaxLength ELSE n
Loaded(dir) == IF file.length[dir] = Unset THEN 50 ELSE file.length[dir]
Show(lists) ==
  /\ listed' = lists /\ dialog' = "open"
  /\ active' = [s \in Slots |-> Populate(file.device[s], lists[Of(s)])]
  /\ slider' = [d \in Directions |-> Ranged(Loaded(d))]
  /\ text' = [d \in Directions |-> Ranged(Loaded(d))]
  /\ touched' = {} /\ UNCHANGED <<system, file>>

\* GtkConfigure asks for the sources, then for the sinks, each with its own
\* connection, and either may fail.
Begin ==
  /\ build = "gtk" /\ dialog = "closed" /\ dialog' = "sources"
  /\ UNCHANGED <<system, file, listed, active, slider, text, touched>>
GotSources ==
  /\ dialog = "sources" /\ dialog' = "sinks"
  /\ listed' = [listed EXCEPT !["source"] = Ask("source")]
  /\ UNCHANGED <<system, file, active, slider, text, touched>>
GotSinks == dialog = "sinks" /\ Show([listed EXCEPT !["sink"] = Ask("sink")])
AskFails ==
  /\ dialog \in {"sources", "sinks"} /\ Close /\ UNCHANGED <<system, file>>
\* WM_INITDIALOG does all of it.
InitDialog ==
  /\ build = "windows" /\ dialog = "closed"
  /\ Show([d \in Directions |-> Ask(d)])

-----------------------------------------------------------------------------
(* The user.                                                               *)

Pick(s, i) ==
  /\ dialog = "open" /\ i \in 0..Len(listed[Of(s)]) /\ i # active[s]
  /\ active' = [active EXCEPT ![s] = i] /\ touched' = touched \cup {s}
  /\ UNCHANGED <<system, file, dialog, listed, slider, text>>
Scroll(d, n) ==
  /\ dialog = "open" /\ n # slider[d]
  /\ slider' = [slider EXCEPT ![d] = n] /\ text' = [text EXCEPT ![d] = n]
  /\ UNCHANGED <<system, file, dialog, listed, active, touched>>
\* EN_CHANGE: what is too long is corrected in the text too, what is too short
\* is not.
Type(d, n) ==
  /\ build = "windows" /\ dialog = "open" /\ n # text[d]
  /\ text' = [text EXCEPT ![d] = IF n > MaxLength THEN MaxLength ELSE n]
  /\ slider' = [slider EXCEPT ![d] = Ranged(n)]
  /\ UNCHANGED <<system, file, dialog, listed, active, touched>>
Cancel ==
  /\ dialog = "open" /\ Close /\ UNCHANGED <<system, file>>

\* Each setting is saved by itself, and may fail by itself.
Chosen(s) == IF active[s] > 0 THEN listed[Of(s)][active[s]] ELSE Missing
Accept(failed) ==
  /\ dialog = "open" /\ Close
  /\ file' = [device |-> [s \in Slots |-> IF s \in failed THEN file.device[s] ELSE Chosen(s)],
              length |-> [d \in Directions |-> IF d \in failed THEN file.length[d] ELSE slider[d]]]
  /\ UNCHANGED system

Failures == {{}, {"source0"}, {"sink"}, {"sink0", "source"}}
User == \/ (\E s \in Slots, i \in 0..2 : Pick(s, i))
        \/ (\E d \in Directions, n \in 1..MaxLength : Scroll(d, n))
        \/ (\E d \in Directions, n \in Lengths : Type(d, n))
        \/ Cancel \/ (\E failed \in Failures : Accept(failed))
Next == /\ \/ (\E d \in Sources \cup Sinks : Plug(d))
           \/ Begin \/ GotSources \/ GotSinks \/ AskFails \/ InitDialog \/ User
        /\ UNCHANGED build
Spec == Init /\ [][Next]_vars

-----------------------------------------------------------------------------
(* Properties.                                                             *)

\* Type invariant.  A length that was saved is one that a device can use.
TypeOK ==
  /\ system \subseteq Sources \cup Sinks /\ dialog \in {"closed", "sources", "sinks", "open"}
  /\ \A s \in Slots : file.device[s] \in All(Of(s)) \cup {Missing} /\ active[s] \in 0..Len(listed[Of(s)])
  /\ \A d \in Directions : file.length[d] \in 1..MaxLength \cup {Unset} /\ slider[d] \in 1..MaxLength

\* What the user left alone stays as it was, unless its device was not there
\* when the dialog asked for it.
ClosingKeeps ==
  dialog = "open" /\ dialog' = "closed" =>
    \A s \in Slots \ touched :
      file.device[s] \in {Missing} \cup Range(listed[Of(s)]) => file'.device[s] = file.device[s]
KeepsTheRest == [][ClosingKeeps]_vars

\* A device that is saved was on the list, even if it has gone since.
SavesListed ==
  \A s \in Slots : file'.device[s] # file.device[s] =>
    /\ file'.device[s] \in {Missing} \cup Range(listed[Of(s)])
    /\ file'.device[s] = Missing <=> active[s] = 0
SavedWasListed == [][SavesListed]_vars

\* In Windows the length that is saved is the one that is read in the text,
\* unless that is none.
TextIsSaved ==
  dialog = "open" => \A d \in Directions : text[d] = slider[d] \/ (text[d] = 0 /\ slider[d] = 1)
=============================================================================
