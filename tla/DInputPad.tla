------------------------------- MODULE DInputPad -------------------------------
(***************************************************************************)
(* The pads of Windows on DirectInput (dx/usb-pad-dx.cpp, dx/dinput.cpp)   *)
(* and their dialog (dx/dinput-config.cpp).  All pads and the dialog share *)
(* one list of devices, which is there while anybody uses it; a control of *)
(* a port is mapped to a place in that list, the settings on disk to the   *)
(* device itself.  Devices come and go, but the list is only made anew     *)
(* after its last user has left, and DirectInput may refuse to start.      *)
(*                                                                         *)
(* A mapping also carries the device that was meant (history).  What the   *)
(* devices report, drawing and settings that are plain numbers are left    *)
(* out.                                                                    *)
(***************************************************************************)
EXTENDS Integers, Sequences, FiniteSets

CONSTANTS
  Ports, DevTypes,  \* the device types that have controls on a port
  Controls, Steering,
  Filtered,         \* the controls that have filters (indices 0 to 5)
  Devices,
  Joysticks,        \* the devices that are neither keyboard nor mouse
  XInput,           \* the joysticks that are XInput's
  Effects,          \* the kinds of force, "constant" among them
  Supports,         \* the effects that can be created on each device
  Pulled,           \* the devices that may be pulled and plugged in again
  None,
  MaxListen         \* bound: times that the dialog listens
DInputPadConstants ==
  /\ IsFiniteSet(Ports) /\ None \notin Ports
  /\ IsFiniteSet(Devices) /\ None \notin Devices /\ XInput \subseteq Joysticks
  /\ \A n \in 0..Cardinality(Devices) : None \notin [1..n -> Devices]
  /\ Joysticks \cup Pulled \subseteq Devices
  /\ Steering \in Filtered /\ Filtered \subseteq Controls /\ None \notin DevTypes \cup Controls
  /\ Supports \in [Devices -> SUBSET Effects]
  /\ MaxListen \in Nat

VARIABLES
  attached,     \* the devices that are there
  refCount, g_pJoysticks,
  known,        \* history: the first list, or None
  changed,      \* history: a later one was another, or there was none
  refused,      \* history: DirectInput refused to start
  g_Controls,   \* of each port: what each control is mapped to, or Unmapped
  FFB,          \* of each port: the device that effects were created on, or None
  playing,      \* of each port: the effects that are started
  ini,          \* the settings of each device type and port
  open,         \* of each port: the device type whose pad is open, or None
  dialog,       \* [port, type], or NoDialog
  listening, CID,
  listens,      \* number of times that the dialog listened
  failed        \* the list was read behind its end
list == <<refCount, g_pJoysticks, known, changed, refused>>
effects == <<FFB, playing>>
vars == <<attached, list, effects, g_Controls, ini, open, dialog, listening, CID, listens, failed>>

Kinds == {"MT_NONE", "MT_AXIS", "MT_BUTTON"}
Mapping(i, kind, d) == [index |-> i, type |-> kind, of |-> d]
Unmapped == Mapping(0, "MT_NONE", None)
\* What operator[] makes of a control that has no mapping.
Default == Mapping(1, "MT_NONE", None)
NotSaved == [guid |-> None, type |-> "MT_NONE"]
NoDialog == [port |-> None, type |-> None]

Init ==
  /\ attached = Devices /\ refCount = 0 /\ g_pJoysticks = <<>>
  /\ known = None /\ changed = FALSE /\ refused = FALSE
  /\ g_Controls = [p \in Ports |-> [c \in Controls |-> Unmapped]]
  /\ FFB = [p \in Ports |-> None] /\ playing = [p \in Ports |-> {}]
  /\ ini = [t \in DevTypes |-> [p \in Ports |-> [c \in Controls |-> NotSaved]]]
  /\ open = [p \in Ports |-> None] /\ dialog = NoDialog
  /\ listening = FALSE /\ CID = None /\ listens = 0 /\ failed = FALSE

-----------------------------------------------------------------------------
(* The list of devices.                                                    *)

\* Keyboard and mouse come first; an XInput device is told by its GUID.
ControlType(d) ==
  IF d \in XInput THEN "CT_XINPUT" ELSE IF d \in Joysticks THEN "CT_JOYSTICK" ELSE "CT_OTHER"
Lists(D) ==
  {s \in [1..Cardinality(D) -> D] :
     \A i, j \in DOMAIN s : i < j => s[i] # s[j] /\ (s[i] \in Joysticks => s[j] \in Joysticks)}

\* The first user enumerates what is attached.
InitDirectInput ==
  \/ /\ refCount > 0 /\ refCount' = refCount + 1
     /\ UNCHANGED <<g_pJoysticks, known, changed, refused>>
  \/ /\ refCount = 0 /\ refCount' = 1 /\ g_pJoysticks' \in Lists(attached)
     /\ known' = (IF known = None THEN g_pJoysticks' ELSE known)
     /\ changed' = (changed \/ known' # g_pJoysticks') /\ UNCHANGED refused
  \/ /\ refCount = 0 /\ refused' = TRUE /\ changed' = TRUE
     /\ UNCHANGED <<refCount, g_pJoysticks, known>>

\* The last user stops all effects and frees the list.
ReleaseFFB == FFB' = [p \in Ports |-> None] /\ playing' = [p \in Ports |-> {}]
\* Mutant: does not count.
FreeAtOnce(users) ==
  /\ refCount' = 0 /\ ReleaseFFB /\ g_pJoysticks' = <<>> /\ UNCHANGED <<known, changed, refused>>
Free(users) ==
  /\ refCount' = (IF users < refCount THEN refCount - users ELSE 0)
  /\ IF refCount # 0 /\ refCount' = 0
     THEN ReleaseFFB /\ g_pJoysticks' = <<>> ELSE UNCHANGED <<effects, g_pJoysticks>>
  /\ UNCHANGED <<known, changed, refused>>
FreeDirectInput == Free(1)

-----------------------------------------------------------------------------
(* Settings.                                                               *)

\* A control whose device is not found, or that was saved without a mapping,
\* keeps the mapping that it has.
LoadDInputConfig(port, type, joysticks) ==
  [c \in Controls |->
     LET saved == ini[type][port][c]
         at == {i \in DOMAIN joysticks : joysticks[i] = saved.guid}
     IN IF at # {} /\ saved.type # "MT_NONE"
        THEN Mapping(CHOOSE i \in at : TRUE, saved.type, saved.guid) ELSE g_Controls[port][c]]

\* The device at each place is named; the section was cleared before.
SaveDInputConfig(port) ==
  [c \in Controls |->
     LET im == g_Controls[port][c]
     IN IF im = Unmapped THEN NotSaved ELSE [guid |-> g_pJoysticks[im.index], type |-> im.type]]

Beyond(im, joysticks) == im # Unmapped /\ im.index \notin DOMAIN joysticks

-----------------------------------------------------------------------------
(* Effects.                                                                *)

\* Those of before are released; the constant force is started.
CreateFFB(port, d) ==
  /\ FFB' = [FFB EXCEPT ![port] = d]
  /\ playing' = [playing EXCEPT ![port] = {"constant"} \cap Supports[d]]

\* For the device that steers, unless the port has effects.
FindFFDevice(port, im, joysticks) ==
  /\ failed' = Beyond(im, joysticks)
  /\ IF im # Unmapped /\ ~failed' /\ FFB[port] = None
     THEN LET d == joysticks[im.index]
          IN IF ControlType(d) = "CT_JOYSTICK" /\ Supports[d] # {}
             THEN CreateFFB(port, d) ELSE UNCHANGED effects
     ELSE UNCHANGED effects

\* InitDI, and what InitDialog does of it: a list that is not there changes nothing.
InitDI(port, type) ==
  /\ InitDirectInput
  /\ g_Controls' = [g_Controls EXCEPT ![port] = LoadDInputConfig(port, type, g_pJoysticks')]
  /\ FindFFDevice(port, g_Controls'[port][Steering], g_pJoysticks')

SetForce(port, kind) ==
  playing' = [playing EXCEPT ![port] = IF FFB[port] = None THEN @ ELSE @ \cup ({kind} \cap Supports[FFB[port]])]
DisableForce(port, kind) == playing' = [playing EXCEPT ![port] = @ \ {kind}]

-----------------------------------------------------------------------------
(* Pads.  The dialog is modal.                                             *)

Closed == dialog = NoDialog
Opened == {p \in Ports : open[p] # None}

Open(port, type) ==
  /\ Closed /\ open[port] = None /\ InitDI(port, type)
  /\ open' = [open EXCEPT ![port] = type]
  /\ UNCHANGED <<attached, ini, dialog, listening, CID, listens>>
\* The pads of both ports are closed, the open ones and those that were closed
\* before, and perhaps destroyed, which does not delete them.
Close ==
  /\ Closed /\ \E users \in Cardinality(Opened)..Cardinality(Ports) : Free(users)
  /\ open' = [p \in Ports |-> None]
  /\ UNCHANGED <<attached, g_Controls, ini, dialog, listening, CID, listens, failed>>
\* A command for the wheel; TokenIn looks for the end of the list.
TokenOut(port) ==
  /\ Closed /\ open[port] # None
  /\ \/ (\E kind \in Effects : SetForce(port, kind) \/ DisableForce(port, kind)) /\ UNCHANGED failed
     \/ failed' = Beyond(g_Controls[port][Steering], g_pJoysticks) /\ UNCHANGED playing
  /\ UNCHANGED <<attached, list, FFB, g_Controls, ini, open, dialog, listening, CID, listens>>

-----------------------------------------------------------------------------
(* The dialog.                                                             *)

InitDialog(port, type) ==
  /\ Closed /\ dialog' = [port |-> port, type |-> type]
  /\ InitDI(port, type) /\ UNCHANGED <<attached, ini, open, listening, CID, listens>>
StartListen(c) ==
  /\ dialog # NoDialog /\ ~listening /\ listens < MaxListen /\ listens' = listens + 1
  /\ listening' = TRUE /\ CID' = c
  /\ UNCHANGED <<attached, list, effects, g_Controls, ini, open, dialog, failed>>
ListenTimeout ==
  /\ dialog # NoDialog /\ listening /\ listening' = FALSE
  /\ UNCHANGED <<attached, list, effects, g_Controls, ini, open, dialog, CID, listens, failed>>
\* An axis of a joystick that moves, or a button: an axis that steers gets
\* effects, those of a joystick without forces being none.
FindControl(i, kind) ==
  /\ dialog # NoDialog /\ listening /\ i \in DOMAIN g_pJoysticks
  /\ kind = "MT_AXIS" => g_pJoysticks[i] \in Joysticks
  /\ listening' = FALSE
  /\ g_Controls' = [g_Controls EXCEPT ![dialog.port][CID] = Mapping(i, kind, g_pJoysticks[i])]
  /\ IF CID = Steering /\ kind = "MT_AXIS" /\ ControlType(g_pJoysticks[i]) = "CT_JOYSTICK"
     THEN CreateFFB(dialog.port, g_pJoysticks[i]) ELSE UNCHANGED effects
  /\ UNCHANGED <<attached, list, ini, open, dialog, CID, listens, failed>>
Remap(m) ==
  g_Controls' = [g_Controls EXCEPT ![dialog.port] = [c \in Controls |-> IF c \in DOMAIN m THEN m[c] ELSE @[c]]]
\* One control or all of them, which leaves CID at one of them.
DeleteControl(cs) ==
  /\ dialog # NoDialog /\ Remap([c \in cs |-> Unmapped]) /\ CID' \in cs
  /\ UNCHANGED <<attached, list, effects, ini, open, dialog, listening, listens, failed>>
\* Filters are set and drawn in the mapping of a control, which is made for that.
ApplyFilter(cs) ==
  /\ dialog # NoDialog /\ Remap([c \in {c \in cs : g_Controls[dialog.port][c] = Unmapped} |-> Default])
  /\ UNCHANGED <<attached, list, effects, ini, open, dialog, listening, CID, listens, failed>>
\* Pulls left and right for two seconds, in which nothing else runs.
TestForce ==
  LET im == g_Controls[dialog.port][Steering]
  IN /\ dialog # NoDialog /\ im # Unmapped
     /\ failed' = Beyond(im, g_pJoysticks)
     /\ IF ~failed' /\ ControlType(g_pJoysticks[im.index]) = "CT_JOYSTICK"
        THEN SetForce(dialog.port, "constant") ELSE UNCHANGED playing
     /\ UNCHANGED <<attached, list, FFB, g_Controls, ini, open, dialog, listening, CID, listens>>
Ok ==
  /\ dialog # NoDialog
  /\ failed' = \E c \in Controls : Beyond(g_Controls[dialog.port][c], g_pJoysticks)
  /\ ini' = IF failed' THEN ini
            ELSE [ini EXCEPT ![dialog.type][dialog.port] = SaveDInputConfig(dialog.port)]
  /\ FreeDirectInput /\ dialog' = NoDialog
  /\ UNCHANGED <<attached, g_Controls, open, listening, CID, listens>>
\* What was changed stays, and it goes on listening.
Cancel ==
  /\ dialog # NoDialog /\ FreeDirectInput /\ dialog' = NoDialog
  /\ UNCHANGED <<attached, g_Controls, ini, open, listening, CID, listens, failed>>

Pull(d) ==
  /\ attached' = (IF d \in attached THEN attached \ {d} ELSE attached \cup {d})
  /\ UNCHANGED <<list, effects, g_Controls, ini, open, dialog, listening, CID, listens, failed>>

\* The buttons of the controls, and what else the dialog is told.
Assign == \E c \in Controls : StartListen(c)
Delete == DeleteControl(Controls) \/ \E c \in Controls : DeleteControl({c})
Dialog ==
  \/ \E p \in Ports, t \in DevTypes : InitDialog(p, t)
  \/ Assign \/ Delete \/ ListenTimeout
  \/ \E i \in DOMAIN g_pJoysticks, kind \in {"MT_AXIS", "MT_BUTTON"} : FindControl(i, kind)
  \/ (\E c \in Filtered : ApplyFilter({c})) \/ ApplyFilter(Filtered)
  \/ TestForce \/ Ok \/ Cancel
Next ==
  /\ ~failed
  /\ \/ \E p \in Ports : (\E t \in DevTypes : Open(p, t)) \/ TokenOut(p)
     \/ Close \/ Dialog \/ \E d \in Pulled : Pull(d)
Spec == Init /\ [][Next]_vars

-----------------------------------------------------------------------------
(* Properties.                                                             *)

\* Type invariant.
AllLists == UNION {Lists(D) : D \in SUBSET Devices}
Mappings ==
  {Unmapped, Default} \cup
  {Mapping(i, kind, d) : i \in 1..Cardinality(Devices), kind \in {"MT_AXIS", "MT_BUTTON"}, d \in Devices}
TypeOK ==
  /\ attached \subseteq Devices /\ refCount \in Nat /\ g_pJoysticks \in AllLists
  /\ known \in AllLists \cup {None} /\ {changed, refused, listening, failed} \subseteq BOOLEAN
  /\ g_Controls \in [Ports -> [Controls -> Mappings]]
  /\ FFB \in [Ports -> Devices \cup {None}] /\ playing \in [Ports -> SUBSET Effects]
  /\ ini \in [DevTypes -> [Ports -> [Controls -> [guid : Devices \cup {None}, type : Kinds]]]]
  /\ open \in [Ports -> DevTypes \cup {None}]
  /\ dialog \in [port : Ports, type : DevTypes] \cup {NoDialog}
  /\ CID \in Controls \cup {None} /\ (listening => CID # None) /\ listens \in 0..MaxListen

\* The count is that of the users, but for those whom DirectInput was refused, and
\* the devices are there for as long as it is not zero.
Users == Cardinality(Opened) + (IF dialog = NoDialog THEN 0 ELSE 1)
CountsUsers ==
  /\ refCount <= Users /\ (~refused => refCount = Users)
  /\ refCount = 0 => g_pJoysticks = <<>>

\* Effects are those of a device that is in the list, and they play there: they
\* are stopped and released before it.
EffectsOfDevices ==
  \A p \in Ports :
    /\ FFB[p] # None => \E i \in DOMAIN g_pJoysticks : g_pJoysticks[i] = FFB[p]
    /\ playing[p] # {} => FFB[p] # None /\ playing[p] \subseteq Supports[FFB[p]]

\* "assert(im.index < g_pJoysticks.size())" of GetControl and ReadAxis, and the
\* places without it: as long as every list is the first one, and there was a
\* device then, a mapping that is used is a place of the list.
IndexInRange == ~changed /\ known # <<>> => ~failed

\* And the device there is the one that was meant.
BoundToWhatWasMeant ==
  ~changed => \A p \in Ports, c \in Controls :
    (refCount # 0 /\ g_Controls[p][c].type # "MT_NONE") =>
      /\ ~Beyond(g_Controls[p][c], g_pJoysticks)
      /\ g_pJoysticks[g_Controls[p][c].index] = g_Controls[p][c].of

\* What OK saves names the devices that were meant.
SavesMeant ==
  \A p \in Ports, t \in DevTypes :
    Ok /\ dialog = [port |-> p, type |-> t] /\ ~changed =>
      \A c \in Controls : g_Controls[p][c].type # "MT_NONE" =>
        ini'[t][p][c] = [guid |-> g_Controls[p][c].of, type |-> g_Controls[p][c].type]
OkSavesAll == [][SavesMeant]_vars

=============================================================================
