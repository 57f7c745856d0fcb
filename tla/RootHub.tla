-------------------------------- MODULE RootHub --------------------------------
(***************************************************************************)
(* The ports of the OHCI root hub (qemu-usb/usb-ohci.cpp), the devices in  *)
(* them (core.cpp), and a driver that hands out addresses, one port at a   *)
(* time.  The other interrupts and the bus are in OhciInterrupts.          *)
(*                                                                         *)
(* A device is known by the order in which it came.  The driver reads      *)
(* HcRhPortStatus and clears what it read in two steps; any change may     *)
(* come between them.                                                      *)
(***************************************************************************)
EXTENDS Naturals, FiniteSetTheorems, TLAPS

CONSTANTS
  Ports,       \* a set of numbers; ohci_find_device starts with the smallest
  Addrs,       \* addresses the driver hands out, 0 excepted
  PortWrites,  \* what the driver writes to HcRhPortStatus to change a port
  MaxPlugs     \* bound: devices ever made

RootHubConstants ==
  /\ Ports \subseteq Nat \ {0} /\ Ports # {} /\ IsFiniteSet(Ports)
  /\ Addrs \subseteq Nat \ {0}
  /\ PortWrites \subseteq SUBSET {"CCS", "PES", "PSS", "PRS", "PPS"}
  /\ MaxPlugs \in Nat

VARIABLES
  ctrl,      \* rhport[i].ctrl
  dev,       \* rhport[i].port.dev
  rhsc,      \* OHCI_INTR_RHSC is set in intr_status
  made,      \* devices made so far
  saw,       \* what the driver last read of a port
  todo,      \* what it has to do with a port: "read" it, "clear" what it saw
  zero,      \* the port whose device it is giving an address
  believed   \* the device it addresses through a port, and how

driver == <<saw, todo, zero, believed>>
vars == <<ctrl, dev, rhsc, made, driver>>

Changes == {"CSC", "PESC", "PSSC", "PRSC"}    \* OHCI_PORT_WTC
NoDevice == [id |-> 0, state |-> "none", addr |-> 0, wakeup |-> FALSE]
NewDevice(n) == [NoDevice EXCEPT !.id = n, !.state = "ATTACHED"]
NoPort == 0
ToRead == [p \in Ports |-> "read"]
Nobody == [id |-> 0, addr |-> 0]

Init ==
  /\ ctrl = [p \in Ports |-> {}] /\ dev = [p \in Ports |-> NoDevice]
  /\ rhsc = FALSE /\ made = 0
  /\ saw = ctrl /\ todo = ToRead /\ zero = NoPort
  /\ believed = [p \in Ports |-> Nobody]

\* The interrupt of a handler that compares ctrl with what it was.
Report(changed) == rhsc' = (rhsc \/ changed)

-----------------------------------------------------------------------------
(* Devices come and go: usb_attach, usb_detach and their port operations.  *)

\* What ohci_detach makes of a port.
DetachedCtrl(c) ==
  (c \ {"CCS", "PES"}) \cup (IF "CCS" \in c THEN {"CSC"} ELSE {})
                       \cup (IF "PES" \in c THEN {"PESC"} ELSE {})
AttachedCtrl(c) == c \cup {"CCS", "CSC"}

\* USBAttach of a new device, in place of the one that is there or not.
Attach(p) ==
  /\ made < MaxPlugs /\ made' = made + 1
  /\ LET between == IF dev[p].id = 0 THEN ctrl[p] ELSE DetachedCtrl(ctrl[p])
     IN /\ ctrl' = [ctrl EXCEPT ![p] = AttachedCtrl(between)]
        /\ Report(ctrl'[p] # between \/ between # ctrl[p])
  /\ dev' = [dev EXCEPT ![p] = NewDevice(made')]
  /\ UNCHANGED driver

\* USBAttach of nothing.
Detach(p) ==
  /\ dev[p].id # 0
  /\ ctrl' = [ctrl EXCEPT ![p] = DetachedCtrl(@)]
  /\ dev' = [dev EXCEPT ![p] = NoDevice]
  /\ Report(ctrl' # ctrl)
  /\ UNCHANGED <<made, driver>>

\* CreateDevices destroys the devices without telling the ports, and attaches
\* new ones where one is wanted.
CreateDevices(wanted) ==
  /\ made + Cardinality(wanted) <= MaxPlugs /\ made' = made + Cardinality(wanted)
  /\ dev' = [p \in Ports |-> IF p \in wanted
                               THEN NewDevice(made + Cardinality({q \in wanted : q <= p}))
                               ELSE NoDevice]
  /\ ctrl' = [p \in Ports |-> IF p \in wanted THEN AttachedCtrl(ctrl[p]) ELSE ctrl[p]]
  /\ Report(ctrl' # ctrl)
  /\ UNCHANGED driver

\* usb_device_reset.  Mutant of Reset: the address is kept.
ResetKeepsAddr(d) == IF d.id = 0 THEN d ELSE [d EXCEPT !.state = "DEFAULT", !.wakeup = FALSE]
Reset(d) == IF d.id = 0 THEN d
            ELSE [d EXCEPT !.state = "DEFAULT", !.addr = 0, !.wakeup = FALSE]

\* ohci_wakeup, for an input event of a device that may wake the bus.  Where
\* the bus is suspended it resumes, and that is all the driver is told.
Wakeup(p, suspended) ==
  /\ dev[p].wakeup
  /\ ctrl' = [ctrl EXCEPT ![p] = IF "PSS" \in @ THEN (@ \ {"PSS"}) \cup {"PSSC"} ELSE @]
  /\ Report(~suspended /\ "PSS" \in ctrl[p])
  /\ todo' = IF suspended THEN ToRead ELSE todo
  /\ UNCHANGED <<dev, made, saw, zero, believed>>

-----------------------------------------------------------------------------
(* Resets of the controller.                                               *)

\* ohci_roothub_reset: the devices are detached, attached and reset; the driver
\* that asked for it knows.
RoothubReset ==
  /\ ctrl' = [p \in Ports |-> IF dev[p].id = 0 THEN {} ELSE AttachedCtrl({})]
  /\ dev' = [p \in Ports |-> Reset(dev[p])]
  /\ Report(\E p \in Ports : dev[p].id # 0)
  /\ zero' = NoPort /\ believed' = [p \in Ports |-> Nobody] /\ todo' = ToRead
  /\ UNCHANGED <<made, saw>>

\* ohci_soft_reset leaves the ports and the devices as they are.
SoftReset ==
  /\ rhsc' = FALSE
  /\ todo' = ToRead /\ UNCHANGED <<ctrl, dev, made, saw, zero, believed>>

-----------------------------------------------------------------------------
(* HcRhPortStatus.                                                         *)

\* ohci_port_set_if_connected.
SetIfConnected(c, val, bit) ==
  IF bit \notin val THEN c ELSE IF "CCS" \in c THEN c \cup {bit} ELSE c \cup {"CSC"}

\* The port after the bits that are cleared, enabled and suspended.
Switched(c, val) ==
  LET cleared == (c \ (val \cap Changes)) \ (IF "CCS" \in val THEN {"PES"} ELSE {})
  IN SetIfConnected(SetIfConnected(cleared, val, "PES"), val, "PSS")

Resets(c, val) == "PRS" \in val /\ "CCS" \in Switched(c, val)

\* ohci_port_power: the driver only ever powers a port on.
Powered(c, val) == c \cup (val \cap {"PPS"})

Written(c, val) ==
  LET s == Switched(c, val)
      t == IF Resets(c, val) THEN s \cup {"PES", "PRSC"} ELSE SetIfConnected(s, val, "PRS")
  IN Powered(t, val)

\* ohci_port_set_status.
PortSetStatus(p, val) ==
  /\ ctrl' = [ctrl EXCEPT ![p] = Written(@, val)]
  /\ dev' = IF Resets(ctrl[p], val) THEN [dev EXCEPT ![p] = Reset(@)] ELSE dev
  /\ Report(ctrl' # ctrl)
  /\ UNCHANGED made

\* ohci_set_hub_status, when the driver powers all ports, its only use of it.
SetHubStatus ==
  /\ ctrl' = [p \in Ports |-> Powered(ctrl[p], {"PPS"})]
  /\ UNCHANGED <<dev, rhsc, made, driver>>

\* The driver does nothing else before it has handled the changes it was told of.
HandledAll == \A p \in Ports : todo[p] = "done"

\* The driver resets one port at a time, until its device has an address, and
\* enables a port without a reset where it believes in a device with one.
MayWrite(p, val) ==
  /\ "PRS" \in val => zero \in {NoPort, p}
  /\ "PES" \in val => believed[p] # Nobody

DriverWrites(p, val) ==
  /\ HandledAll /\ MayWrite(p, val) /\ PortSetStatus(p, val)
  /\ zero' = IF "PRS" \in val THEN p ELSE IF "CCS" \in val /\ zero = p THEN NoPort ELSE zero
  /\ believed' = IF "PRS" \in val THEN [believed EXCEPT ![p] = Nobody] ELSE believed
  /\ UNCHANGED <<saw, todo>>

-----------------------------------------------------------------------------
(* The driver: its interrupt handler and the addresses it hands out.       *)

\* The interrupt handler acknowledges the change, then reads the ports.
Acknowledge ==
  /\ rhsc /\ rhsc' = FALSE /\ todo' = ToRead
  /\ UNCHANGED <<ctrl, dev, made, saw, zero, believed>>

ReadPort(p) ==
  /\ todo[p] = "read" /\ todo' = [todo EXCEPT ![p] = "clear"]
  /\ saw' = [saw EXCEPT ![p] = ctrl[p]]
  /\ UNCHANGED <<ctrl, dev, rhsc, made, zero, believed>>

\* A port that was disconnected or disabled has lost its device; the driver
\* disables it and starts over.
ClearPort(p) ==
  /\ todo[p] = "clear" /\ todo' = [todo EXCEPT ![p] = "done"]
  /\ LET lost == saw[p] \cap {"CSC", "PESC"} # {}
     IN /\ PortSetStatus(p, (saw[p] \cap Changes) \cup IF lost THEN {"CCS"} ELSE {})
        /\ believed' = IF lost THEN [believed EXCEPT ![p] = Nobody] ELSE believed
  /\ saw' = [saw EXCEPT ![p] = {}] /\ UNCHANGED zero

\* ohci_find_device: the first enabled port with the address.
Answers(p, a) == "PES" \in ctrl[p] /\ dev[p].state = "DEFAULT" /\ dev[p].addr = a
FindDevice(a) == {p \in Ports : Answers(p, a) /\ \A q \in Ports : Answers(q, a) => p <= q}

\* SET_ADDRESS to whoever answers to address 0, believed to be in port zero.
SetAddress(a) ==
  /\ HandledAll /\ zero # NoPort /\ FindDevice(0) # {}
  /\ \A p \in Ports : believed[p].addr # a
  /\ \E p \in FindDevice(0) : dev' = [dev EXCEPT ![p].addr = a]
  /\ believed' = [believed EXCEPT ![zero] = [id |-> dev[zero].id, addr |-> a]]
  /\ zero' = NoPort
  /\ UNCHANGED <<ctrl, rhsc, made, saw, todo>>

SetRemoteWakeup(p) ==
  /\ FindDevice(believed[p].addr) # {} /\ believed[p] # Nobody
  /\ \E q \in FindDevice(believed[p].addr) : dev' = [dev EXCEPT ![q].wakeup = TRUE]
  /\ UNCHANGED <<ctrl, rhsc, made, driver>>

-----------------------------------------------------------------------------
Next ==
  \/ RoothubReset \/ SoftReset \/ SetHubStatus \/ Acknowledge
  \/ \E w \in SUBSET Ports : CreateDevices(w)
  \/ \E a \in Addrs : SetAddress(a)
  \/ \E p \in Ports :
       \/ Attach(p) \/ Detach(p) \/ ReadPort(p) \/ ClearPort(p) \/ SetRemoteWakeup(p)
       \/ \E suspended \in BOOLEAN : Wakeup(p, suspended)
       \/ \E val \in PortWrites : DriverWrites(p, val)

Spec == Init /\ [][Next]_vars

-----------------------------------------------------------------------------
(* Properties.                                                             *)

Ids == 0 .. MaxPlugs
PortBits == {"CCS", "PES", "PSS", "PPS"} \cup Changes
TypeOK ==
  /\ ctrl \in [Ports -> SUBSET PortBits]
  /\ dev \in [Ports -> [id : Ids, state : {"none", "ATTACHED", "DEFAULT"},
                        addr : Addrs \cup {0}, wakeup : BOOLEAN]]
  /\ rhsc \in BOOLEAN /\ made \in Ids
  /\ saw \in [Ports -> SUBSET PortBits]
  /\ todo \in [Ports -> {"read", "clear", "done"}] /\ zero \in Ports \cup {NoPort}
  /\ believed \in [Ports -> [id : Ids, addr : Addrs \cup {0}]]

\* What the driver sends to an address it has handed out reaches the device it
\* gave the address to, or nobody: not a device that came in its place, with
\* or without a detach, and not one in another port (ohci_find_device, core.cpp:346).
AddressedRight ==
  \A p \in Ports : believed[p] # Nobody =>
    \A q \in FindDevice(believed[p].addr) : q = p /\ dev[q].id = believed[p].id

\* A change bit that is set in a port is on its way to the driver: the status
\* change interrupt is pending, or the driver is about to read the port.  The
\* handlers compare a port before and after, so one whose bits were set before
\* reports nothing (usb-ohci.cpp:174).
ChangesReported ==
  \A p \in Ports : ctrl[p] \cap Changes # {} => rhsc \/ todo[p] # "done"

\* While the driver believes in a device that another has replaced, the port
\* still says so: no change is lost between reading and clearing it.
NewsKept ==
  \A p \in Ports :
    believed[p] # Nobody /\ dev[p].id \notin {0, believed[p].id} =>
      (ctrl[p] \cup saw[p]) \cap {"CSC", "PESC"} # {}

\* An enabled port is a connected one, whatever the driver enables and resets
\* and whenever the device goes.
EnabledConnected == \A p \in Ports : "PES" \in ctrl[p] => "CCS" \in ctrl[p]

-----------------------------------------------------------------------------
(* Proof.  The facts below hold for all ports, addresses, writes and devices;
   CoreProofs puts them together into a theorem of the core's specification.
   The inductive invariant: *)

\* Who is addressed.  A device with an address is the one the driver believes
\* in, or the driver has given it up and its port is disabled; one that was
\* reset and has none is enabled only in port zero.  So a port that is enabled
\* again without a reset cannot bring back a device that answers to 0.
Addressed(p) ==
  /\ dev[p].id = 0 => dev[p].state = "none" /\ dev[p].addr = 0
  /\ dev[p].id # 0 => "CCS" \in ctrl[p]
  /\ dev[p].addr # 0 =>
       \/ believed[p] = [id |-> dev[p].id, addr |-> dev[p].addr]
       \/ believed[p] = Nobody /\ "PES" \notin ctrl[p]
  /\ dev[p].state = "DEFAULT" /\ dev[p].addr = 0 =>
       believed[p] = Nobody /\ ("PES" \in ctrl[p] => zero = p)
  /\ zero = p => believed[p] = Nobody
  /\ believed[p] # Nobody => believed[p].addr # 0
  /\ "PES" \in ctrl[p] => "CCS" \in ctrl[p]
OneEach ==
  \A p, q \in Ports : believed[p].addr # 0 /\ believed[p].addr = believed[q].addr => p = q

\* What the driver still has to hear.  A bit that came after the driver read the
\* port has raised the interrupt again; what it saw of a device it believes in is
\* still set.
Heard(p) ==
  /\ todo[p] = "done" => saw[p] = {}
  /\ todo[p] = "clear" => ctrl[p] \cap Changes \subseteq saw[p] \/ rhsc
  /\ ctrl[p] \cap Changes # {} => rhsc \/ todo[p] # "done"
  /\ believed[p] # Nobody => saw[p] \cap {"CSC", "PESC"} \subseteq ctrl[p]
  /\ believed[p] # Nobody /\ dev[p].id \notin {0, believed[p].id} =>
       ctrl[p] \cap {"CSC", "PESC"} # {}

IInv == TypeOK /\ OneEach /\ \A p \in Ports : Addressed(p) /\ Heard(p)

-----------------------------------------------------------------------------
(* What the operators on a port do.                                        *)

\* A write to HcRhPortStatus: it leaves CCS alone, clears only the changes it
\* names, and enables a port only where it says so.
LEMMA WrittenBits ==
  ASSUME NEW c \in SUBSET PortBits, NEW val \in SUBSET (Changes \cup {"CCS", "PES", "PSS", "PRS", "PPS"}),
         "PES" \in c => "CCS" \in c
  PROVE  /\ Written(c, val) \in SUBSET PortBits
         /\ "CCS" \in Written(c, val) <=> "CCS" \in c
         /\ Resets(c, val) <=> "PRS" \in val /\ "CCS" \in c
         /\ "PES" \in Written(c, val) => "CCS" \in c
         /\ "PES" \in Written(c, val) => ("PES" \in c /\ "CCS" \notin val) \/ "PES" \in val \/ "PRS" \in val
         /\ (c \cap Changes) \ val \subseteq Written(c, val)
         /\ val \cap {"PES", "PSS", "PRS"} = {} => Written(c, val) \cap Changes = (c \cap Changes) \ val
<1>1. Switched(c, val) \in SUBSET PortBits /\ ("CCS" \in Switched(c, val) <=> "CCS" \in c)
  BY DEF Switched, SetIfConnected, PortBits, Changes
<1>2. Resets(c, val) <=> "PRS" \in val /\ "CCS" \in c
  BY <1>1 DEF Resets
<1>3. /\ "PES" \in Switched(c, val) => "CCS" \in c
      /\ "PES" \in Switched(c, val) => ("PES" \in c /\ "CCS" \notin val) \/ "PES" \in val
      /\ (c \cap Changes) \ val \subseteq Switched(c, val)
  BY DEF Switched, SetIfConnected, PortBits, Changes
<1>4. val \cap {"PES", "PSS", "PRS"} = {} => Switched(c, val) \cap Changes = (c \cap Changes) \ val
  BY DEF Switched, SetIfConnected, PortBits, Changes
<1>5. CASE Resets(c, val)
  <2>1. Written(c, val) = (Switched(c, val) \cup {"PES", "PRSC"}) \cup (val \cap {"PPS"})
    BY <1>5 DEF Written, Powered
  <2> QED BY <1>1, <1>2, <1>3, <1>5, <2>1 DEF PortBits, Changes
<1>6. CASE ~Resets(c, val)
  <2>1. Written(c, val) = SetIfConnected(Switched(c, val), val, "PRS") \cup (val \cap {"PPS"})
    BY <1>6 DEF Written, Powered
  <2>2. Written(c, val) \in {Switched(c, val) \cup (val \cap {"PPS"}),
                             Switched(c, val) \cup {"CSC"} \cup (val \cap {"PPS"})}
    BY <1>1, <1>2, <1>6, <2>1 DEF SetIfConnected
  <2>3. "PRS" \notin val => Written(c, val) = Switched(c, val) \cup (val \cap {"PPS"})
    BY <2>1 DEF SetIfConnected
  <2> QED BY <1>1, <1>2, <1>3, <1>4, <2>2, <2>3 DEF PortBits, Changes
<1> QED BY <1>5, <1>6

LEMMA DetachedBits ==
  ASSUME NEW c \in SUBSET PortBits
  PROVE  /\ DetachedCtrl(c) \in SUBSET PortBits
         /\ "PES" \notin DetachedCtrl(c)
         /\ c \cap Changes \subseteq DetachedCtrl(c)
BY DEF DetachedCtrl, PortBits, Changes

LEMMA AttachedBits ==
  ASSUME NEW c \in SUBSET PortBits
  PROVE  /\ AttachedCtrl(c) \in SUBSET PortBits
         /\ "CCS" \in AttachedCtrl(c) /\ "CSC" \in AttachedCtrl(c)
         /\ "PES" \in AttachedCtrl(c) <=> "PES" \in c
         /\ c \subseteq AttachedCtrl(c)
BY DEF AttachedCtrl, PortBits, Changes

LEMMA ChangedBits == /\ PortBits = {"CCS", "PES", "PSS", "PPS", "CSC", "PESC", "PSSC", "PRSC"}
                     /\ Changes = {"CSC", "PESC", "PSSC", "PRSC"}
BY DEF PortBits, Changes

DeviceRecords == [id : Ids, state : {"none", "ATTACHED", "DEFAULT"}, addr : Addrs \cup {0},
                  wakeup : BOOLEAN]
LEMMA Devices ==
  ASSUME RootHubConstants, NEW n \in Ids
  PROVE  /\ NoDevice \in DeviceRecords /\ NewDevice(n) \in DeviceRecords
         /\ NoDevice.id = 0 /\ NoDevice.state = "none" /\ NoDevice.addr = 0
         /\ NewDevice(n).id = n /\ NewDevice(n).state = "ATTACHED" /\ NewDevice(n).addr = 0
<1>1. NoDevice \in DeviceRecords
  BY DEF DeviceRecords, NoDevice, Ids, RootHubConstants
<1>2. NewDevice(n) \in DeviceRecords
  BY DEF DeviceRecords, NewDevice, NoDevice, Ids, RootHubConstants
<1> QED BY <1>1, <1>2 DEF NewDevice, NoDevice

-----------------------------------------------------------------------------
(* One action after another keeps the invariant.                           *)

\* Devices come: the ones that come have no address, and their ports say so.
LEMMA AttachKeeps ==
  ASSUME RootHubConstants, IInv, NEW p \in Ports, Attach(p)
  PROVE  IInv'
<1> DEFINE between == IF dev[p].id = 0 THEN ctrl[p] ELSE DetachedCtrl(ctrl[p])
<1>1. /\ made' = made + 1 /\ made' \in Ids
      /\ ctrl' = [ctrl EXCEPT ![p] = AttachedCtrl(between)]
      /\ rhsc' = (rhsc \/ (ctrl'[p] # between \/ between # ctrl[p]))
      /\ dev' = [dev EXCEPT ![p] = NewDevice(made')] /\ UNCHANGED <<saw, todo, zero, believed>>
  BY DEF Attach, Report, driver, IInv, TypeOK, Ids, RootHubConstants
<1>2. /\ NewDevice(made') \in DeviceRecords /\ NewDevice(made').id = made' /\ made' # 0
      /\ NewDevice(made').state = "ATTACHED" /\ NewDevice(made').addr = 0
  BY <1>1, Devices DEF IInv, TypeOK, Ids, RootHubConstants
<1>3. between \in SUBSET PortBits /\ ctrl[p] \cap Changes \subseteq between
  BY DetachedBits DEF IInv, TypeOK
<1>4. /\ AttachedCtrl(between) \in SUBSET PortBits
      /\ "CCS" \in AttachedCtrl(between) /\ "CSC" \in AttachedCtrl(between)
      /\ ctrl[p] \cap Changes \subseteq AttachedCtrl(between)
  BY <1>3, AttachedBits
<1>5. TypeOK' /\ OneEach'
  BY <1>1, <1>2, <1>4 DEF IInv, TypeOK, OneEach, DeviceRecords
<1>6. ASSUME NEW q \in Ports PROVE Addressed(q)' /\ Heard(q)'
  <2>1. CASE q # p
    <3>1. ctrl'[q] = ctrl[q] /\ dev'[q] = dev[q] /\ (rhsc => rhsc')
      BY <1>1, <2>1 DEF IInv, TypeOK
    <3> QED BY <1>1, <3>1 DEF IInv, Addressed, Heard
  <2>2. CASE q = p
    <3>1. ctrl'[p] = AttachedCtrl(between) /\ dev'[p] = NewDevice(made')
      BY <1>1 DEF IInv, TypeOK
    <3>2. (ctrl'[p] = ctrl[p] \/ rhsc') /\ (rhsc => rhsc')
      BY <1>1
    <3>3. Heard(p)'
      BY <1>1, <1>4, <3>1, <3>2, ChangedBits DEF IInv, Heard
    <3>4. Addressed(p)'
      BY <1>1, <1>2, <1>4, <3>1 DEF IInv, Addressed
    <3> QED BY <2>2, <3>3, <3>4
  <2> QED BY <2>1, <2>2
<1> QED BY <1>5, <1>6 DEF IInv

LEMMA DetachKeeps ==
  ASSUME RootHubConstants, IInv, NEW p \in Ports, Detach(p)
  PROVE  IInv'
<1>1. /\ ctrl' = [ctrl EXCEPT ![p] = DetachedCtrl(ctrl[p])]
      /\ dev' = [dev EXCEPT ![p] = NoDevice] /\ rhsc' = (rhsc \/ ctrl' # ctrl)
      /\ UNCHANGED <<made, saw, todo, zero, believed>>
  BY DEF Detach, Report, driver
<1>2. DetachedCtrl(ctrl[p]) \in SUBSET PortBits /\ "PES" \notin DetachedCtrl(ctrl[p])
      /\ ctrl[p] \cap Changes \subseteq DetachedCtrl(ctrl[p])
  BY DetachedBits DEF IInv, TypeOK
<1>3. NoDevice \in DeviceRecords /\ NoDevice.id = 0 /\ NoDevice.state = "none" /\ NoDevice.addr = 0
  <2>1. 0 \in Ids
    BY DEF Ids, RootHubConstants
  <2> QED BY <2>1, Devices
<1>4. TypeOK' /\ OneEach'
  BY <1>1, <1>2, <1>3 DEF IInv, TypeOK, OneEach, DeviceRecords
<1>5. ASSUME NEW q \in Ports PROVE Addressed(q)' /\ Heard(q)'
  <2>1. CASE q # p
    <3>1. ctrl'[q] = ctrl[q] /\ dev'[q] = dev[q] /\ (rhsc => rhsc')
      BY <1>1, <2>1 DEF IInv, TypeOK
    <3> QED BY <1>1, <3>1 DEF IInv, Addressed, Heard
  <2>2. CASE q = p
    <3>1. ctrl'[p] = DetachedCtrl(ctrl[p]) /\ dev'[p] = NoDevice
      BY <1>1 DEF IInv, TypeOK
    <3>2. (ctrl'[p] = ctrl[p] \/ rhsc') /\ (rhsc => rhsc')
      BY <1>1
    <3>3. Heard(p)'
      BY <1>1, <1>2, <1>3, <3>1, <3>2, ChangedBits DEF IInv, Heard
    <3>4. Addressed(p)'
      BY <1>1, <1>2, <1>3, <3>1 DEF IInv, Addressed
    <3> QED BY <2>2, <3>3, <3>4
  <2> QED BY <2>1, <2>2
<1> QED BY <1>4, <1>5 DEF IInv

LEMMA CreateDevicesKeeps ==
  ASSUME RootHubConstants, IInv, NEW wanted \in SUBSET Ports, CreateDevices(wanted)
  PROVE  IInv'
<1>1. /\ made' = made + Cardinality(wanted) /\ made' <= MaxPlugs
      /\ ctrl' = [q \in Ports |-> IF q \in wanted THEN AttachedCtrl(ctrl[q]) ELSE ctrl[q]]
      /\ rhsc' = (rhsc \/ ctrl' # ctrl) /\ UNCHANGED <<saw, todo, zero, believed>>
  BY DEF CreateDevices, Report, driver
<1>2. IsFiniteSet(wanted) /\ Cardinality(wanted) \in Nat
  BY FS_Subset, FS_CardinalityType DEF RootHubConstants
<1>3. made' \in Ids
  BY <1>1, <1>2 DEF IInv, TypeOK, Ids, RootHubConstants
<1>4. ASSUME NEW q \in wanted
      PROVE  /\ dev'[q] = NewDevice(made + Cardinality({r \in wanted : r <= q}))
             /\ made + Cardinality({r \in wanted : r <= q}) \in Ids \ {0}
  <2> DEFINE before == {r \in wanted : r <= q}
  <2>1. IsFiniteSet(before) /\ Cardinality(before) \in Nat /\ Cardinality(before) <= Cardinality(wanted)
    BY <1>2, FS_Subset, FS_CardinalityType
  <2>2. q \in before
    BY DEF RootHubConstants
  <2>3. Cardinality(before) # 0
    BY <2>1, <2>2, FS_EmptySet
  <2>4. dev'[q] = NewDevice(made + Cardinality(before))
    BY DEF CreateDevices
  <2> HIDE DEF before
  <2>5. made + Cardinality(before) \in Ids \ {0}
    BY <1>1, <1>2, <2>1, <2>3 DEF IInv, TypeOK, Ids, RootHubConstants
  <2> QED BY <2>4, <2>5 DEF before
<1>5. /\ \A q \in Ports : dev'[q] = NoDevice \/ \E n \in Ids \ {0} : dev'[q] = NewDevice(n) /\ q \in wanted
      /\ \A q \in Ports : q \notin wanted => dev'[q] = NoDevice
      /\ \E f : dev' = [q \in Ports |-> f[q]]
  <2>1. \A q \in Ports : q \notin wanted => dev'[q] = NoDevice
    BY DEF CreateDevices
  <2>2. dev' = [q \in Ports |-> dev'[q]]
    BY DEF CreateDevices
  <2> QED BY <1>4, <2>1, <2>2
<1>6. /\ NoDevice \in DeviceRecords /\ NoDevice.id = 0 /\ NoDevice.state = "none" /\ NoDevice.addr = 0
      /\ \A n \in Ids : /\ NewDevice(n) \in DeviceRecords /\ NewDevice(n).id = n
                         /\ NewDevice(n).state = "ATTACHED" /\ NewDevice(n).addr = 0
  <2>1. 0 \in Ids
    BY DEF Ids, RootHubConstants
  <2> QED BY <2>1, Devices
<1>7. dev' \in [Ports -> DeviceRecords]
  <2>1. ASSUME NEW q \in Ports
        PROVE  dev'[q] \in DeviceRecords
    BY <1>5, <1>6
  <2> QED BY <1>5, <2>1
<1>8. TypeOK' /\ OneEach'
  <2>1. \A q \in Ports : AttachedCtrl(ctrl[q]) \in SUBSET PortBits
    BY AttachedBits DEF IInv, TypeOK
  <2>2. ctrl' \in [Ports -> SUBSET PortBits]
    BY <1>1, <2>1 DEF IInv, TypeOK
  <2> QED BY <1>1, <1>3, <1>7, <2>2 DEF IInv, TypeOK, OneEach, DeviceRecords
<1>9. ASSUME NEW q \in Ports PROVE Addressed(q)' /\ Heard(q)'
  <2>1. ctrl[q] \subseteq ctrl'[q] /\ (ctrl'[q] = ctrl[q] \/ rhsc') /\ (rhsc => rhsc')
        /\ (q \in wanted => "CCS" \in ctrl'[q] /\ "CSC" \in ctrl'[q])
        /\ ("PES" \in ctrl'[q] => "PES" \in ctrl[q])
    BY <1>1, AttachedBits DEF IInv, TypeOK
  <2>2. dev'[q].addr = 0 /\ dev'[q].state # "DEFAULT" /\ (dev'[q].id # 0 => q \in wanted)
        /\ (dev'[q].id = 0 => dev'[q].state = "none")
    BY <1>5, <1>6
  <2>3. Addressed(q)'
    BY <1>1, <2>1, <2>2 DEF IInv, Addressed
  <2>4. Heard(q)'
    BY <1>1, <2>1, <2>2, ChangedBits DEF IInv, Heard
  <2> QED BY <2>3, <2>4
<1> QED BY <1>8, <1>9 DEF IInv

\* A reset takes a device its address; where there is no device it does nothing.
LEMMA ResetDevices ==
  ASSUME RootHubConstants, NEW d \in DeviceRecords
  PROVE  /\ Reset(d) \in DeviceRecords /\ Reset(d).id = d.id
         /\ d.id = 0 => Reset(d) = d
         /\ d.id # 0 => Reset(d).state = "DEFAULT" /\ Reset(d).addr = 0
BY DEF Reset, DeviceRecords

LEMMA WakeupKeeps ==
  ASSUME RootHubConstants, IInv, NEW p \in Ports, NEW suspended \in BOOLEAN, Wakeup(p, suspended)
  PROVE  IInv'
<1> DEFINE woken == IF "PSS" \in ctrl[p] THEN (ctrl[p] \ {"PSS"}) \cup {"PSSC"} ELSE ctrl[p]
<1>1. /\ ctrl' = [ctrl EXCEPT ![p] = woken] /\ rhsc' = (rhsc \/ (~suspended /\ "PSS" \in ctrl[p]))
      /\ todo' = (IF suspended THEN [q \in Ports |-> "read"] ELSE todo)
      /\ UNCHANGED <<dev, made, saw, zero, believed>>
  BY DEF Wakeup, Report, ToRead
<1>2. woken \in SUBSET PortBits /\ \A b \in {"CCS", "PES", "CSC", "PESC", "PRSC"} : b \in woken <=> b \in ctrl[p]
  BY ChangedBits DEF IInv, TypeOK
<1>3. TypeOK' /\ OneEach'
  BY <1>1, <1>2 DEF IInv, TypeOK, OneEach
<1>4. ASSUME NEW q \in Ports PROVE Addressed(q)' /\ Heard(q)'
  <2>1. /\ ctrl'[q] = ctrl[q] \/ (q = p /\ ctrl'[q] = woken /\ (suspended \/ rhsc'))
        /\ rhsc => rhsc'
        /\ \A b \in {"CCS", "PES", "CSC", "PESC", "PRSC"} : b \in ctrl'[q] <=> b \in ctrl[q]
    BY <1>1, <1>2 DEF IInv, TypeOK
  <2>2. Addressed(q)'
    BY <1>1, <2>1 DEF IInv, Addressed
  <2>3. Heard(q)'
    <3>1. CASE suspended
      <4>1. todo'[q] = "read"
        BY <1>1, <3>1
      <4> QED BY <1>1, <2>1, <4>1 DEF IInv, Heard
    <3>2. CASE ~suspended
      BY <1>1, <2>1, <3>2 DEF IInv, Heard
    <3> QED BY <3>1, <3>2
  <2> QED BY <2>2, <2>3
<1> QED BY <1>3, <1>4 DEF IInv

LEMMA RoothubResetKeeps ==
  ASSUME RootHubConstants, IInv, RoothubReset
  PROVE  IInv'
<1>1. /\ ctrl' = [q \in Ports |-> IF dev[q].id = 0 THEN {} ELSE {"CCS", "CSC"}]
      /\ dev' = [q \in Ports |-> Reset(dev[q])] /\ (rhsc => rhsc') /\ rhsc' \in BOOLEAN
      /\ zero' = NoPort /\ believed' = [q \in Ports |-> Nobody] /\ todo' = [q \in Ports |-> "read"]
      /\ UNCHANGED <<made, saw>>
  BY DEF RoothubReset, Report, ToRead, AttachedCtrl, IInv, TypeOK
<1>2. \A q \in Ports : /\ Reset(dev[q]) \in DeviceRecords /\ Reset(dev[q]).id = dev[q].id
                       /\ dev[q].id = 0 => Reset(dev[q]) = dev[q]
  BY ResetDevices DEF IInv, TypeOK, DeviceRecords
<1>3. Nobody.addr = 0 /\ Nobody \in [id : Ids, addr : Addrs \cup {0}]
  BY DEF Nobody, Ids, RootHubConstants
<1>4. TypeOK' /\ OneEach'
  <2>1. ctrl' \in [Ports -> SUBSET PortBits]
    BY <1>1, ChangedBits
  <2> QED BY <1>1, <1>2, <1>3, <2>1 DEF IInv, TypeOK, OneEach, DeviceRecords
<1>5. ASSUME NEW q \in Ports PROVE Addressed(q)' /\ Heard(q)'
  <2>1. believed'[q] = Nobody /\ todo'[q] = "read" /\ "PES" \notin ctrl'[q]
        /\ (dev'[q].id # 0 => "CCS" \in ctrl'[q])
        /\ (dev'[q].id = 0 => dev'[q] = dev[q] /\ dev[q].id = 0)
    BY <1>1, <1>2
  <2> QED BY <2>1 DEF IInv, Addressed, Heard
<1> QED BY <1>4, <1>5 DEF IInv

LEMMA SetHubStatusKeeps ==
  ASSUME RootHubConstants, IInv, SetHubStatus
  PROVE  IInv'
<1>1. /\ ctrl' = [q \in Ports |-> ctrl[q] \cup {"PPS"}]
      /\ UNCHANGED <<dev, rhsc, made, saw, todo, zero, believed>>
  BY DEF SetHubStatus, driver, Powered
<1>2. ctrl' \in [Ports -> SUBSET PortBits]
  BY <1>1, ChangedBits DEF IInv, TypeOK
<1>3. ASSUME NEW q \in Ports PROVE Addressed(q)' /\ Heard(q)'
  <2>1. ctrl'[q] = ctrl[q] \cup {"PPS"}
    BY <1>1
  <2>2. Addressed(q)'
    BY <1>1, <2>1 DEF IInv, Addressed
  <2>3. Heard(q)'
    BY <1>1, <2>1, ChangedBits DEF IInv, Heard
  <2> QED BY <2>2, <2>3
<1> QED BY <1>1, <1>2, <1>3 DEF IInv, TypeOK, OneEach

\* The bus is reset without the ports, or the driver is told, or looks.
LEMMA LooksKeep ==
  ASSUME RootHubConstants, IInv, SoftReset \/ Acknowledge \/ \E p \in Ports : ReadPort(p)
  PROVE  IInv'
<1>1. CASE SoftReset \/ Acknowledge
  <2>1. /\ todo' = [q \in Ports |-> "read"] /\ rhsc' = FALSE
        /\ UNCHANGED <<ctrl, dev, made, saw, zero, believed>>
    BY <1>1 DEF SoftReset, Acknowledge, ToRead
  <2>2. ASSUME NEW q \in Ports PROVE Addressed(q)' /\ Heard(q)'
    BY <2>1 DEF IInv, Addressed, Heard
  <2> QED BY <2>1, <2>2 DEF IInv, TypeOK, OneEach
<1>2. ASSUME NEW p \in Ports, ReadPort(p) PROVE IInv'
  <2>1. /\ todo' = [todo EXCEPT ![p] = "clear"] /\ saw' = [saw EXCEPT ![p] = ctrl[p]]
        /\ UNCHANGED <<ctrl, dev, rhsc, made, zero, believed>>
    BY <1>2 DEF ReadPort
  <2>2. ASSUME NEW q \in Ports PROVE Addressed(q)' /\ Heard(q)'
    <3>1. (todo'[q] = todo[q] /\ saw'[q] = saw[q]) \/ (todo'[q] = "clear" /\ saw'[q] = ctrl[q])
      BY <2>1 DEF IInv, TypeOK
    <3> QED BY <2>1, <3>1 DEF IInv, Addressed, Heard
  <2> QED BY <2>1, <2>2 DEF IInv, TypeOK, OneEach
<1> QED BY <1>1, <1>2

\* The driver writes when it has handled what it was told, so no change it has
\* not heard of is cleared; and it enables only whom it believes in or resets.
LEMMA DriverWritesKeeps ==
  ASSUME RootHubConstants, IInv, NEW p \in Ports, NEW val \in PortWrites, DriverWrites(p, val)
  PROVE  IInv'
<1> DEFINE c == ctrl[p]
           w == Written(c, val)
<1>1. /\ ctrl' = [ctrl EXCEPT ![p] = w] /\ rhsc' = (rhsc \/ ctrl' # ctrl)
      /\ dev' = (IF Resets(c, val) THEN [dev EXCEPT ![p] = Reset(dev[p])] ELSE dev)
      /\ zero' = (IF "PRS" \in val THEN p ELSE IF "CCS" \in val /\ zero = p THEN NoPort ELSE zero)
      /\ believed' = (IF "PRS" \in val THEN [believed EXCEPT ![p] = Nobody] ELSE believed)
      /\ UNCHANGED <<made, saw, todo>>
      /\ ("PRS" \in val => zero \in {NoPort, p}) /\ ("PES" \in val => believed[p] # Nobody)
      /\ \A q \in Ports : todo[q] = "done"
  BY DEF DriverWrites, PortSetStatus, Report, MayWrite, HandledAll
<1>2. c \in SUBSET PortBits /\ dev[p] \in DeviceRecords /\ ("PES" \in c => "CCS" \in c)
      /\ val \in SUBSET {"CCS", "PES", "PSS", "PRS", "PPS"}
  BY DEF IInv, TypeOK, DeviceRecords, Addressed, RootHubConstants
<1>3. /\ w \in SUBSET PortBits /\ ("CCS" \in w <=> "CCS" \in c) /\ ("PES" \in w => "CCS" \in c)
      /\ Resets(c, val) <=> "PRS" \in val /\ "CCS" \in c
      /\ "PES" \in w => ("PES" \in c /\ "CCS" \notin val) \/ "PES" \in val \/ "PRS" \in val
      /\ c \cap Changes \subseteq w
  BY <1>2, WrittenBits DEF Changes
<1>4. /\ Reset(dev[p]) \in DeviceRecords /\ Reset(dev[p]).id = dev[p].id
      /\ dev[p].id = 0 => Reset(dev[p]) = dev[p]
      /\ dev[p].id # 0 => Reset(dev[p]).state = "DEFAULT" /\ Reset(dev[p]).addr = 0
  BY <1>2, ResetDevices
<1>5. Nobody.addr = 0 /\ Nobody.id = 0 /\ Nobody \in [id : Ids, addr : Addrs \cup {0}]
  BY DEF Nobody, Ids, RootHubConstants
<1> HIDE DEF w
<1>6. TypeOK'
  <2>1. ctrl' \in [Ports -> SUBSET PortBits] /\ rhsc' \in BOOLEAN
    BY <1>1, <1>3 DEF IInv, TypeOK
  <2>2. dev' \in [Ports -> DeviceRecords]
    BY <1>1, <1>4 DEF IInv, TypeOK, DeviceRecords
  <2>3. zero' \in Ports \cup {NoPort} /\ believed' \in [Ports -> [id : Ids, addr : Addrs \cup {0}]]
    BY <1>1, <1>5 DEF IInv, TypeOK
  <2> QED BY <1>1, <2>1, <2>2, <2>3 DEF IInv, TypeOK, DeviceRecords
<1>7. OneEach'
  <2>1. \A q \in Ports : believed'[q] = believed[q] \/ believed'[q].addr = 0
    BY <1>1, <1>5 DEF IInv, TypeOK
  <2> QED BY <2>1 DEF IInv, OneEach
<1>8. \A q \in Ports : q # NoPort
  BY DEF NoPort, RootHubConstants
<1>9. ASSUME NEW q \in Ports PROVE Addressed(q)' /\ Heard(q)'
  <2>1. CASE q # p
    <3>1. /\ ctrl'[q] = ctrl[q] /\ dev'[q] = dev[q] /\ believed'[q] = believed[q]
          /\ zero = q => zero' = q
          /\ zero' = q => zero = q
      BY <1>1, <1>8, <2>1 DEF IInv, TypeOK
    <3>2. (rhsc => rhsc') /\ UNCHANGED <<saw, todo>>
      BY <1>1
    <3> QED BY <3>1, <3>2 DEF IInv, Addressed, Heard
  <2>2. CASE q = p
    <3>1. ctrl'[p] = w /\ (w = c \/ rhsc') /\ (rhsc => rhsc') /\ todo[p] = "done" /\ saw[p] = {}
          /\ saw'[p] = {} /\ todo'[p] = "done"
      BY <1>1 DEF IInv, TypeOK, Heard
    <3>2. CASE "PRS" \in val
      <4>1. believed'[p] = Nobody /\ zero' = p
        BY <1>1, <3>2 DEF IInv, TypeOK
      <4>2. dev'[p] = IF "CCS" \in c THEN Reset(dev[p]) ELSE dev[p]
        BY <1>1, <1>3, <3>2 DEF IInv, TypeOK
      <4>3. Heard(p)'
        BY <1>3, <3>1, <4>1 DEF IInv, Heard
      <4>4. Addressed(p)'
        BY <1>3, <1>4, <3>1, <4>1, <4>2 DEF IInv, Addressed
      <4> QED BY <2>2, <4>3, <4>4
    <3>3. CASE "PRS" \notin val
      <4>1. dev'[p] = dev[p] /\ believed'[p] = believed[p]
        BY <1>1, <1>3, <3>3
      <4>2. zero' = zero \/ (zero = p /\ "CCS" \in val /\ zero' = NoPort)
        BY <1>1, <3>3
      <4>3. Heard(p)'
        BY <1>3, <3>1, <4>1, ChangedBits DEF IInv, Heard
      <4>4. Addressed(p)'
        BY <1>1, <1>3, <1>8, <3>1, <3>3, <4>1, <4>2 DEF IInv, Addressed
      <4> QED BY <2>2, <4>3, <4>4
    <3> QED BY <3>2, <3>3
  <2> QED BY <2>1, <2>2
<1> QED BY <1>6, <1>7, <1>9 DEF IInv

\* What the driver saw is cleared, and nothing that came since.
LEMMA ClearPortKeeps ==
  ASSUME RootHubConstants, IInv, NEW p \in Ports, ClearPort(p)
  PROVE  IInv'
<1> DEFINE c == ctrl[p]
           lost == saw[p] \cap {"CSC", "PESC"} # {}
           val == (saw[p] \cap Changes) \cup (IF lost THEN {"CCS"} ELSE {})
           w == Written(c, val)
<1>1. /\ todo[p] = "clear" /\ todo' = [todo EXCEPT ![p] = "done"] /\ saw' = [saw EXCEPT ![p] = {}]
      /\ ctrl' = [ctrl EXCEPT ![p] = w] /\ rhsc' = (rhsc \/ ctrl' # ctrl)
      /\ dev' = (IF Resets(c, val) THEN [dev EXCEPT ![p] = Reset(dev[p])] ELSE dev)
      /\ believed' = (IF lost THEN [believed EXCEPT ![p] = Nobody] ELSE believed)
      /\ UNCHANGED <<made, zero>>
  BY DEF ClearPort, PortSetStatus, Report
<1>2. c \in SUBSET PortBits /\ ("PES" \in c => "CCS" \in c)
      /\ val \in SUBSET (Changes \cup {"CCS", "PES", "PSS", "PRS", "PPS"})
      /\ val \cap {"PES", "PSS", "PRS"} = {}
  BY ChangedBits DEF IInv, TypeOK, Addressed
<1>3. /\ w \in SUBSET PortBits /\ ("CCS" \in w <=> "CCS" \in c) /\ ("PES" \in w => "CCS" \in c)
      /\ ~Resets(c, val)
      /\ "PES" \in w => "PES" \in c /\ "CCS" \notin val
      /\ w \cap Changes = (c \cap Changes) \ val
  <2> HIDE DEF val, c
  <2> QED BY <1>2, WrittenBits
<1>4. Nobody.addr = 0 /\ Nobody.id = 0 /\ Nobody \in [id : Ids, addr : Addrs \cup {0}]
  BY DEF Nobody, Ids, RootHubConstants
<1>5. /\ lost => "CCS" \in val
      /\ Changes \cap val = saw[p] \cap Changes
  BY ChangedBits
<1>6. dev' = dev
  BY <1>1, <1>3
<1> HIDE DEF w, val
<1>7. TypeOK'
  BY <1>1, <1>3, <1>4, <1>6 DEF IInv, TypeOK
<1>8. OneEach'
  <2>1. \A q \in Ports : believed'[q] = believed[q] \/ believed'[q].addr = 0
    BY <1>1, <1>4 DEF IInv, TypeOK
  <2> QED BY <2>1 DEF IInv, OneEach
<1>9. ASSUME NEW q \in Ports PROVE Addressed(q)' /\ Heard(q)'
  <2>1. CASE q # p
    <3>1. /\ ctrl'[q] = ctrl[q] /\ believed'[q] = believed[q] /\ saw'[q] = saw[q] /\ todo'[q] = todo[q]
          /\ (rhsc => rhsc') /\ zero' = zero
      BY <1>1, <2>1 DEF IInv, TypeOK
    <3> QED BY <1>6, <3>1 DEF IInv, Addressed, Heard
  <2>2. CASE q = p
    <3>1. ctrl'[p] = w /\ (w = c \/ rhsc') /\ (rhsc => rhsc') /\ saw'[p] = {} /\ todo'[p] = "done"
      BY <1>1 DEF IInv, TypeOK
    <3>2. believed'[p] = IF lost THEN Nobody ELSE believed[p]
      BY <1>1 DEF IInv, TypeOK
    <3>3. Addressed(p)'
      BY <1>1, <1>3, <1>4, <1>5, <1>6, <3>1, <3>2 DEF IInv, Addressed
    <3>4. w \cap Changes # {} => rhsc'
      <4>1. w = c => (c \cap Changes) \cap saw[p] = {}
        BY <1>3, <1>5
      <4>2. c \cap Changes \subseteq saw[p] \/ rhsc
        BY <1>1 DEF IInv, Heard
      <4> QED BY <3>1, <4>1, <4>2
    <3>5. ~lost => (c \cap {"CSC", "PESC"} # {} => w \cap {"CSC", "PESC"} # {})
      BY <1>3, <1>5, ChangedBits
    <3>6. Heard(p)'
      BY <1>6, <3>1, <3>2, <3>4, <3>5 DEF IInv, Heard
    <3> QED BY <2>2, <3>3, <3>6
  <2> QED BY <2>1, <2>2
<1> QED BY <1>7, <1>8, <1>9 DEF IInv

\* Only the device in port zero answers to 0, so it is the one that is addressed.
LEMMA SetAddressKeeps ==
  ASSUME RootHubConstants, IInv, NEW a \in Addrs, SetAddress(a)
  PROVE  IInv'
<1>1. zero \in Ports /\ zero # NoPort /\ a # 0
  BY DEF SetAddress, IInv, TypeOK, NoPort, RootHubConstants
<1>2. ASSUME NEW p \in FindDevice(0)
      PROVE  p = zero /\ dev[p].state = "DEFAULT" /\ dev[p].id # 0
  BY <1>2 DEF FindDevice, Answers, IInv, Addressed
<1>3. /\ dev' = [dev EXCEPT ![zero].addr = a] /\ dev[zero].state = "DEFAULT" /\ dev[zero].id # 0
      /\ believed' = [believed EXCEPT ![zero] = [id |-> dev[zero].id, addr |-> a]]
      /\ zero' = NoPort /\ UNCHANGED <<ctrl, rhsc, made, saw, todo>>
      /\ \A q \in Ports : todo[q] = "done" /\ believed[q].addr # a
  BY <1>2 DEF SetAddress, HandledAll
<1>4. /\ dev'[zero].id = dev[zero].id /\ dev'[zero].addr = a /\ dev'[zero].state = "DEFAULT"
      /\ dev' \in [Ports -> DeviceRecords]
      /\ \A q \in Ports \ {zero} : dev'[q] = dev[q]
  BY <1>1, <1>3 DEF IInv, TypeOK, DeviceRecords
<1>5. /\ believed'[zero] = [id |-> dev[zero].id, addr |-> a]
      /\ \A q \in Ports \ {zero} : believed'[q] = believed[q]
      /\ believed' \in [Ports -> [id : Ids, addr : Addrs \cup {0}]]
  BY <1>1, <1>3 DEF IInv, TypeOK
<1>6. TypeOK' /\ OneEach'
  <2>1. TypeOK'
    BY <1>3, <1>4, <1>5 DEF IInv, TypeOK, DeviceRecords
  <2>2. OneEach'
    BY <1>1, <1>3, <1>5 DEF IInv, OneEach
  <2> QED BY <2>1, <2>2
<1>7. ASSUME NEW q \in Ports PROVE Addressed(q)' /\ Heard(q)'
  <2>1. q # NoPort
    BY DEF NoPort, RootHubConstants
  <2>2. CASE q # zero
    BY <1>3, <1>4, <1>5, <2>1, <2>2 DEF IInv, Addressed, Heard
  <2>3. CASE q = zero
    <3>1. Addressed(q)'
      BY <1>1, <1>3, <1>4, <1>5, <2>1, <2>3 DEF IInv, Addressed
    <3>2. saw[q] = {} /\ saw'[q] = {} /\ todo'[q] = "done"
      BY <1>3 DEF IInv, Heard
    <3>3. Heard(q)'
      BY <1>1, <1>3, <1>4, <1>5, <2>3, <3>2 DEF IInv, Heard
    <3> QED BY <3>1, <3>3
  <2> QED BY <2>2, <2>3
<1> QED BY <1>6, <1>7 DEF IInv

LEMMA SetRemoteWakeupKeeps ==
  ASSUME RootHubConstants, IInv, NEW p \in Ports, SetRemoteWakeup(p)
  PROVE  IInv'
<1>1. PICK q \in Ports : dev' = [dev EXCEPT ![q].wakeup = TRUE]
  BY DEF SetRemoteWakeup, FindDevice
<1>2. UNCHANGED <<ctrl, rhsc, made, saw, todo, zero, believed>>
  BY DEF SetRemoteWakeup, driver
<1>3. /\ dev' \in [Ports -> DeviceRecords]
      /\ \A r \in Ports : /\ dev'[r].id = dev[r].id /\ dev'[r].addr = dev[r].addr
                          /\ dev'[r].state = dev[r].state
  BY <1>1, ZenonT(40) DEF IInv, TypeOK, DeviceRecords
<1>4. ASSUME NEW r \in Ports PROVE Addressed(r)' /\ Heard(r)'
  BY <1>2, <1>3 DEF IInv, Addressed, Heard
<1> QED BY <1>2, <1>3, <1>4 DEF IInv, TypeOK, OneEach, DeviceRecords

-----------------------------------------------------------------------------
(* All of them.                                                            *)

LEMMA HubBegins == ASSUME RootHubConstants, Init PROVE IInv
<1>1. /\ NoDevice \in DeviceRecords /\ NoDevice.id = 0 /\ NoDevice.state = "none" /\ NoDevice.addr = 0
  <2>1. 0 \in Ids
    BY DEF Ids, RootHubConstants
  <2> QED BY <2>1, Devices
<1>2. Nobody.addr = 0 /\ Nobody \in [id : Ids, addr : Addrs \cup {0}]
  BY DEF Nobody, Ids, RootHubConstants
<1>3. TypeOK
  BY <1>1, <1>2 DEF Init, TypeOK, DeviceRecords, ToRead, Ids, RootHubConstants
<1>4. ASSUME NEW p \in Ports PROVE Addressed(p) /\ Heard(p)
  <2>1. p # NoPort /\ believed[p] = Nobody /\ dev[p] = NoDevice /\ ctrl[p] = {} /\ saw[p] = {}
        /\ zero = NoPort /\ todo[p] = "read"
    BY DEF Init, NoPort, ToRead, RootHubConstants
  <2> QED BY <1>1, <2>1 DEF Addressed, Heard
<1>5. OneEach
  BY <1>2 DEF Init, OneEach
<1> QED BY <1>3, <1>4, <1>5 DEF IInv

LEMMA HubStep == ASSUME RootHubConstants, IInv, [Next]_vars PROVE IInv'
<1>1. CASE UNCHANGED vars
  BY <1>1 DEF vars, driver, IInv, TypeOK, OneEach, Addressed, Heard
<1>2. CASE Next
  BY <1>2, AttachKeeps, DetachKeeps, CreateDevicesKeeps, WakeupKeeps, RoothubResetKeeps,
     SetHubStatusKeeps, LooksKeep, DriverWritesKeeps, ClearPortKeeps, SetAddressKeeps,
     SetRemoteWakeupKeeps DEF Next
<1> QED BY <1>1, <1>2

\* What the invariant says of the driver.
LEMMA HubTells ==
  ASSUME RootHubConstants, IInv
  PROVE  TypeOK /\ AddressedRight /\ ChangesReported /\ NewsKept /\ EnabledConnected
<1>1. AddressedRight
  <2>1. ASSUME NEW p \in Ports, believed[p] # Nobody, NEW q \in FindDevice(believed[p].addr)
        PROVE  q = p /\ dev[q].id = believed[p].id
    <3>1. believed[p].addr # 0 /\ q \in Ports /\ "PES" \in ctrl[q] /\ dev[q].addr = believed[p].addr
      BY <2>1 DEF FindDevice, Answers, IInv, Addressed
    <3>2. believed[q] = [id |-> dev[q].id, addr |-> dev[q].addr]
      BY <3>1 DEF IInv, Addressed
    <3>3. q = p
      BY <3>1, <3>2 DEF IInv, OneEach
    <3> QED BY <3>2, <3>3
  <2> QED BY <2>1 DEF AddressedRight
<1>2. NewsKept
  BY DEF NewsKept, IInv, Heard
<1> QED BY <1>1, <1>2 DEF ChangesReported, EnabledConnected, IInv, Addressed, Heard
================================================================================
