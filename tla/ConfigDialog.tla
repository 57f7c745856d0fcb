----------------------------- MODULE ConfigDialog -----------------------------
(***************************************************************************)
(* The dialog that picks a device, its API and its subtype                 *)
(* (linux/config-gtk.cpp, Win32/Config.cpp) and the settings behind it     *)
(* (configuration.cpp): the file, its copy in memory, conf.Port, and the   *)
(* choices not saved yet, changedAPIs and changedSubtype.                  *)
(*                                                                         *)
(* The model has one port; every setting is kept by port, and the two      *)
(* share nothing.  In GTK a widget that changes calls back, also when the  *)
(* program changes it; in Windows only the user's changes do.              *)
(***************************************************************************)
EXTENDS Integers, Sequences

CONSTANTS
  Types,       \* device types; NoType stands for no device
  Apis,        \* the APIs of each type, in the order of the list
  Subtypes,    \* how many subtypes each type has
  Files,       \* what may be in the file before the program is first used
  Builds       \* "gtk", "windows"

NoType == "none"
Absent == "absent"
Unset == -2         \* a subtype that is not in the file, or was never chosen

IsValidAPI(t, api) == \E i \in 1..Len(Apis[t]) : Apis[t][i] = api

\* A subtype that the device has; one that has none may be saved with -1 or 0.
HasSubtype(t, sub) == sub \in 0..Subtypes[t] - 1 \/ (Subtypes[t] = 0 /\ sub \in -1..0)
\* A file of before names an API that is gone for the device in the port only.
FileFits(f) ==
  /\ f.port \in Types \cup {NoType}
  /\ \A t \in Types : /\ f.api[t] = Absent \/ IsValidAPI(t, f.api[t]) \/ f.port = t
                      /\ f.sub[t] = Unset \/ HasSubtype(t, f.sub[t])

ConfigDialogConstants ==
  /\ NoType \notin Types /\ Builds \subseteq {"gtk", "windows"}
  /\ \A t \in Types : /\ Len(Apis[t]) \in 1..2 /\ (Len(Apis[t]) = 2 => Apis[t][1] # Apis[t][2])
                      /\ ~IsValidAPI(t, Absent) /\ Subtypes[t] \in Nat
  /\ \A f \in Files : FileFits(f)

VARIABLES
  build,
  disk,            \* the file: the port, and the API and subtype of every type
  ciniFile,        \* the file as it was loaded or changed
  conf,            \* conf.Port
  changedAPIs, changedSubtype,
  loaded,          \* LoadConfig has read the settings
  dialog,          \* the dialog is open
  shown,           \* the active entries of its three lists
  accepted,        \* history: what was on show when the user last accepted
  picked,          \* history: the API the user picked last for each type
  followed,        \* history: nothing was picked or cancelled since
  device           \* what the device in the port was made from

settings == <<conf, changedAPIs, changedSubtype, loaded>>
vars == <<build, disk, ciniFile, settings, dialog, shown, accepted, picked, followed, device>>

\* What the functions of the dialog change.
Desk == [apis |-> changedAPIs, subs |-> changedSubtype, shown |-> shown]
SetDesk(d) == changedAPIs' = d.apis /\ changedSubtype' = d.subs /\ shown' = d.shown

Blank == [dev |-> NoType, api |-> 0, sub |-> -1]
NoDevice == [dev |-> NoType, api |-> Absent, sub |-> Unset]

Init ==
  /\ build \in Builds
  /\ disk \in Files /\ ciniFile = disk
  /\ conf = NoType /\ loaded = FALSE
  /\ changedAPIs = [t \in Types |-> Absent] /\ changedSubtype = [t \in Types |-> Unset]
  /\ dialog = FALSE /\ shown = Blank
  /\ accepted = Blank /\ picked = [t \in Types |-> Absent] /\ followed = FALSE /\ device = NoDevice

-----------------------------------------------------------------------------
(* Settings.                                                               *)

Nth(t, api) == IF IsValidAPI(t, api) THEN CHOOSE i \in 1..Len(Apis[t]) : Apis[t][i] = api ELSE 1
OrFirst(sub) == IF sub = Unset THEN 0 ELSE sub

\* LoadConfig reads the file every time and takes the settings from it once.
\* An API that the device does not have becomes its first.
LoadConfig ==
  IF loaded \/ disk.port = NoType THEN Desk
  ELSE LET t == disk.port
       IN [Desk EXCEPT !.apis[t] = Apis[t][Nth(t, disk.api[t])], !.subs[t] = OrFirst(disk.sub[t])]
ReadConfig == ciniFile' = disk /\ loaded' = TRUE /\ conf' = IF loaded THEN conf ELSE disk.port

\* SaveConfig, for the device that is picked.
SaveConfig(dev) ==
  /\ ciniFile' = [port |-> dev,
                  api |-> [t \in Types |-> IF changedAPIs[t] = Absent THEN ciniFile.api[t]
                                           ELSE changedAPIs[t]],
                  sub |-> [t \in Types |-> IF changedSubtype[t] = Unset THEN ciniFile.sub[t]
                                           ELSE changedSubtype[t]]]
  /\ disk' = ciniFile'

-----------------------------------------------------------------------------
(* The dialog of GTK.  An entry that becomes active calls back.            *)

apiChanged(d, i) ==
  LET t == d.shown.dev
      e == [d EXCEPT !.shown.api = i]
  IN IF d.shown.api = i THEN d
     ELSE IF t = NoType \/ i = 0 THEN e ELSE [e EXCEPT !.apis[t] = Apis[t][i]]
subtypeChanged(d, s) ==
  LET t == d.shown.dev
      e == [d EXCEPT !.shown.sub = s]
  IN IF d.shown.sub = s THEN d ELSE IF t = NoType THEN e ELSE [e EXCEPT !.subs[t] = s]

\* The list is cleared and filled.  Each entry that is added makes itself or
\* the first the active one, so the last is picked or the first.
\* Mutant of populateApiWidget: the file goes before the choice not saved yet.
populateApiFromFile(d, file) ==
  LET t == d.shown.dev
      first == apiChanged(apiChanged(d, 0), 1)
  IN IF t = NoType THEN apiChanged(d, 0)
     ELSE IF Apis[t][Len(Apis[t])] = file.api[t] THEN apiChanged(first, Len(Apis[t])) ELSE first
populateApiWidget(d, file) ==
  LET t == d.shown.dev
      bare == apiChanged(d, 0)
      api == IF d.apis[t] # Absent THEN d.apis[t] ELSE file.api[t]
      first == apiChanged(bare, 1)
  IN IF t = NoType THEN bare
     ELSE IF Apis[t][Len(Apis[t])] = api THEN apiChanged(first, Len(Apis[t])) ELSE first

populateSubtypeWidget(d, file) ==
  LET t == d.shown.dev
      bare == subtypeChanged(d, -1)
      sel == OrFirst(file.sub[t])
      known == IF file.sub[t] = Unset THEN [bare EXCEPT !.subs[t] = sel] ELSE bare
  IN IF t = NoType THEN bare
     ELSE IF sel \in 0..Subtypes[t] - 1 THEN subtypeChanged(known, sel) ELSE known

-----------------------------------------------------------------------------
(* The dialog of Windows shows what the file holds, or the first.          *)

PopulateAPIs(d, file) ==
  LET t == d.shown.dev
  IN IF t = NoType THEN [d EXCEPT !.shown.api = 0]
     ELSE [d EXCEPT !.apis[t] = IF file.api[t] = Absent THEN Apis[t][1] ELSE @,
                    !.shown.api = Nth(t, file.api[t])]
PopulateSubType(d, file) ==
  LET t == d.shown.dev
      sel == OrFirst(file.sub[t])
  IN IF t = NoType THEN [d EXCEPT !.shown.sub = -1]
     ELSE [d EXCEPT !.subs[t] = IF file.sub[t] = Unset THEN sel ELSE @,
                    !.shown.sub = IF sel \in 0..Subtypes[t] - 1 THEN sel ELSE -1]

Populate(d, file) ==
  IF build = "gtk" THEN populateSubtypeWidget(populateApiWidget(d, file), file)
  ELSE PopulateSubType(PopulateAPIs(d, file), file)

-----------------------------------------------------------------------------
(* What the user does.                                                     *)

\* USBconfigure.  The lists are empty before they are filled.
OpenDialog ==
  /\ ~dialog /\ dialog' = TRUE
  /\ ReadConfig
  /\ LET d == [LoadConfig EXCEPT !.shown = [Blank EXCEPT !.dev = IF loaded THEN conf ELSE disk.port]]
         filled == Populate(d, disk)
     IN SetDesk(filled)
  /\ UNCHANGED <<disk, accepted, picked, followed, device>>

\* deviceChanged: GTK changes conf.Port at once.
PickDevice(t) ==
  /\ dialog /\ shown.dev # t
  /\ LET filled == Populate([Desk EXCEPT !.shown.dev = t], ciniFile) IN SetDesk(filled)
  /\ conf' = IF build = "gtk" THEN t ELSE conf
  /\ followed' = FALSE
  /\ UNCHANGED <<disk, ciniFile, loaded, dialog, accepted, picked, device>>

\* An entry that is active already is not picked again: nothing calls back.
PickApi(i) ==
  /\ dialog /\ shown.dev # NoType /\ i \in 1..Len(Apis[shown.dev]) /\ shown.api # i
  /\ SetDesk(apiChanged(Desk, i)) /\ followed' = FALSE
  /\ picked' = [picked EXCEPT ![shown.dev] = Apis[shown.dev][i]]
  /\ UNCHANGED <<disk, ciniFile, conf, loaded, dialog, accepted, device>>

PickSubtype(s) ==
  /\ dialog /\ shown.dev # NoType /\ s \in 0..Subtypes[shown.dev] - 1 /\ shown.sub # s
  /\ SetDesk(subtypeChanged(Desk, s)) /\ followed' = FALSE
  /\ UNCHANGED <<disk, ciniFile, conf, loaded, dialog, accepted, picked, device>>

Accept ==
  /\ dialog /\ dialog' = FALSE
  /\ SaveConfig(shown.dev) /\ conf' = shown.dev
  /\ accepted' = shown /\ followed' = TRUE
  /\ UNCHANGED <<changedAPIs, changedSubtype, loaded, shown, picked, device>>

Cancel ==
  /\ dialog /\ dialog' = FALSE /\ followed' = FALSE
  /\ UNCHANGED <<disk, ciniFile, settings, shown, accepted, picked, device>>

-----------------------------------------------------------------------------
(* What the emulator does.                                                 *)

\* USBinit and USBopen: a device is made from the API in the file and from
\* the subtype that was chosen.
GetSelectedSubtype(d, t) == OrFirst(d.subs[t])
CreateDevice ==
  /\ ~dialog /\ ReadConfig
  /\ SetDesk(LoadConfig)
  /\ LET t == IF loaded THEN conf ELSE disk.port
     IN device' = IF t = NoType \/ ~IsValidAPI(t, disk.api[t]) THEN NoDevice
                  ELSE [dev |-> t, api |-> disk.api[t], sub |-> GetSelectedSubtype(LoadConfig, t)]
  /\ UNCHANGED <<disk, dialog, accepted, picked, followed>>

Restart ==
  /\ ~dialog /\ loaded
  /\ conf' = NoType /\ loaded' = FALSE
  /\ changedAPIs' = [t \in Types |-> Absent] /\ changedSubtype' = [t \in Types |-> Unset]
  /\ shown' = Blank /\ device' = NoDevice /\ picked' = [t \in Types |-> Absent]
  /\ UNCHANGED <<disk, ciniFile, dialog, accepted, followed>>

Pick == (\E t \in Types \cup {NoType} : PickDevice(t))
        \/ (\E i \in 1..2 : PickApi(i)) \/ (\E t \in Types : \E s \in 0..Subtypes[t] - 1 : PickSubtype(s))
Next == (OpenDialog \/ Pick \/ Accept \/ Cancel \/ CreateDevice \/ Restart) /\ UNCHANGED build
Spec == Init /\ [][Next]_vars

-----------------------------------------------------------------------------
(* Properties.                                                             *)

\* Type invariant.
TypeOK ==
  /\ conf \in Types \cup {NoType} /\ shown.dev \in Types \cup {NoType}
  /\ \A t \in Types : /\ changedAPIs[t] = Absent \/ IsValidAPI(t, changedAPIs[t])
                      /\ changedSubtype[t] \in {Unset} \cup -1..Subtypes[t]
  /\ loaded \in BOOLEAN /\ dialog \in BOOLEAN /\ followed \in BOOLEAN

SameChoice(a, b) == a.dev = b.dev /\ (a.dev # NoType => a.api = b.api /\ a.sub = b.sub)

\* The dialog, opened again, shows what was last accepted in it, also after a
\* restart, whatever was picked and passed over on the way.
ShowsWhatWasAccepted == dialog /\ followed => SameChoice(shown, accepted)

\* A device made after the user has accepted is what the dialog showed.
MakesAccepted ==
  device' # device /\ followed' /\ device'.dev # NoType =>
    /\ device'.dev = accepted.dev /\ device'.api = Apis[accepted.dev][accepted.api]
    /\ Subtypes[accepted.dev] > 0 => device'.sub = accepted.sub

\* Whatever the lists call back while they are filled, and however often the
\* dialog is opened, cancelled or turned to another device: the API that the
\* user picked last for a type is the one that is saved.
SavesPicked == disk' # disk => \A t \in Types : picked[t] # Absent => disk'.api[t] = picked[t]

\* The API saved for the device that is accepted is the one on show or the one
\* the user picked for it before, never one that the user did not see.
SavesSeen ==
  disk' # disk /\ shown.dev # NoType =>
    disk'.api[shown.dev] \in {Apis[shown.dev][shown.api], picked[shown.dev]}
SeenOrPicked == [][SavesSeen]_vars

=============================================================================
