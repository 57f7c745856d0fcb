------------------------------ MODULE PluginLife ------------------------------
(***************************************************************************)
(* The life of the plugin (USB.cpp): the emulator calls USBinit, USBopen,  *)
(* USBclose, USBshutdown and USBfreeze, the user changes the devices in    *)
(* USBconfigure, and the guest uses the two ports.                         *)
(*                                                                         *)
(* Devices are objects on a heap, so that a pointer may outlive its        *)
(* object.  Of a device the model keeps what a saved state must bring      *)
(* back, its type and its own data as one value, and of a port whether it  *)
(* shows a connection.  That the guest enables the port and gives the      *)
(* device an address is left to RootHub: here it may use a device as soon  *)
(* as it is shown.  A saved state outlives the process and may be loaded   *)
(* after the configuration has changed.                                    *)
(***************************************************************************)
EXTENDS Naturals, FiniteSets

CONSTANTS
  Objects,     \* where devices are allocated
  Null,        \* a null pointer
  Types,       \* device types that can be configured
  None,        \* DEVTYPE_NONE, the empty name in the configuration
  Reattached,  \* types whose Freeze reattaches the port: the mass storage device
  Sizeless,    \* types that save nothing of their own: EyeToy, Seamic
  Confs,       \* configurations the user chooses among
  Dialogs,     \* which USBconfigure may be built: "gtk", "windows"
  AfterEnd,    \* whether the user may configure the plugin after USBshutdown
  Data,        \* values of a device's own data
  Driven,      \* bound: the ports whose device the guest uses
  Again        \* bound: whether a second state may be saved

Ports == {0, 1}
Garbage == "garbage"
Lost == "lost"

PluginLifeConstants ==
  /\ IsFiniteSet(Objects) /\ Cardinality(Objects) >= 2 /\ {Null, Lost} \cap Objects = {}
  /\ Null # Lost
  /\ None \notin Types /\ Reattached \subseteq Types /\ Sizeless \subseteq Types
  /\ Dialogs \subseteq {"gtk", "windows"}
  /\ Confs \subseteq [Ports -> Types \cup {None}]
  /\ AfterEnd \in BOOLEAN /\ Driven \subseteq Ports /\ Again \in BOOLEAN
  /\ Data # {} /\ Garbage \notin Data

VARIABLES
  build,          \* the dialog of this build
  ohci,           \* qemu_ohci: "null", "live", or "freed" but still pointed to
  usb_opened, configChanged,
  conf,           \* conf.Port
  loaded,         \* LoadConfig has read the configuration
  ini,            \* the configuration on disk
  heap,           \* the device at each address, or Freed
  usb_device,     \* usb_device[2]
  port,           \* rhport[i]: port.dev, and the part of ctrl that is followed
  ep,             \* usb_packet.ep: which endpoint of which object
  disk,           \* the last saved state, if there is one
  \* Of the last step: what USBfreeze(FREEZE_LOAD) did, at which ports
  \* CreateDevice fails, what went wrong in memory.
  returned, unmade, wrong

plugin == <<ohci, usb_opened, configChanged, conf, loaded, ini>>
board == <<heap, usb_device, port>>
outcome == <<returned, unmade, wrong>>
vars == <<build, plugin, board, ep, disk, outcome>>

Freed == [type |-> None, opens |-> 0, data |-> Garbage]
Born(type, d) == [type |-> type, opens |-> 0, data |-> d]
Kinds == {"ctl", "in"}
NoEp == [obj |-> Null, kind |-> "none"]
LostEp == [obj |-> Lost, kind |-> "none"]  \* in a device that was freed
Nothing == [p \in Ports |-> None]

\* The heap, the array and the root hub, which the functions below change.
Board == [heap |-> heap, dev |-> usb_device, port |-> port, ep |-> ep]
SetBoard(b) == heap' = b.heap /\ usb_device' = b.dev /\ port' = b.port /\ ep' = b.ep

Init ==
  /\ build \in Dialogs
  /\ ohci = "null" /\ usb_opened = FALSE /\ configChanged = FALSE
  /\ conf = Nothing /\ loaded = FALSE /\ ini \in Confs
  /\ heap = [o \in Objects |-> Freed]
  /\ usb_device = [p \in Ports |-> Null]
  /\ port = [p \in Ports |-> [dev |-> Null, ctrl |-> {}]]
  /\ ep = NoEp /\ disk = <<>> /\ returned = "none" /\ unmade = {} /\ wrong = {}

-----------------------------------------------------------------------------
(* Devices and ports.                                                      *)

OpenDevice(b, p) ==
  IF b.dev[p] = Null THEN b ELSE [b EXCEPT !.heap[b.dev[p]].opens = @ + 1]

\* A close function closes what is open.
CloseDevice(b, p) ==
  IF b.dev[p] = Null THEN b ELSE [b EXCEPT !.heap[b.dev[p]].opens = 0]

\* The endpoint of the packet in flight is part of the device, and is lost
\* with it: nothing is told, but what it points to is no device any more.
Unrealize(b, o) ==
  IF o = Null THEN b
  ELSE [b EXCEPT !.heap[o] = Freed, !.ep = IF @.obj = o THEN LostEp ELSE @]

\* The port is not told.  Mutant of DestroyDevice: only the port forgets.
DestroyLeaves(b, p) == [Unrealize(b, b.port[p].dev) EXCEPT !.port[p].dev = Null]
DestroyDevice(b, p) ==
  LET o == IF b.port[p].dev # Null THEN b.port[p].dev ELSE b.dev[p]
  IN [Unrealize(b, o) EXCEPT !.port[p].dev = Null, !.dev[p] = Null]

DestroyDevices(b) ==
  DestroyDevice(CloseDevice(DestroyDevice(CloseDevice(b, 0), 0), 1), 1)

CreateDevice(b, type, p, fails) ==
  IF type = None \/ fails THEN [b EXCEPT !.dev[p] = Null]
  ELSE LET o == CHOOSE x \in Objects : b.heap[x] = Freed
       IN [b EXCEPT !.heap[o] = Born(type, CHOOSE d \in Data : TRUE), !.dev[p] = o]

UsbAttach(b, p) == [b EXCEPT !.port[p].ctrl = @ \cup {"CCS"}]
UsbDetach(b, p) == [b EXCEPT !.port[p].ctrl = @ \ {"CCS"}]

\* USBAttach, which frees the device that is there.
Attach(b, p, sneaky) ==
  LET tmp == b.port[p].dev
      out == IF tmp = Null THEN b
             ELSE Unrealize(IF sneaky THEN b ELSE UsbDetach(b, p), tmp)
      in == [out EXCEPT !.port[p].dev = b.dev[p]]
  IN IF b.dev[p] = Null THEN in ELSE UsbAttach(in, p)

\* One turn of the loop of CreateDevices.
Replace(b, p, c, fails) ==
  LET made == Attach(CreateDevice(b, c[p], p, p \in fails), p, FALSE)
  IN IF usb_opened THEN OpenDevice(made, p) ELSE made
Created(b, c, fails) ==
  LET gone == DestroyDevices(b)
      first == Replace(gone, 0, c, fails)
  IN Replace(first, 1, c, fails)
\* At which ports it may fail to make the device.
Failures(c) == SUBSET {p \in Ports : c[p] # None}

-----------------------------------------------------------------------------
(* What the emulator calls.                                                *)

\* LoadConfig keeps what it read the first time.
LoadConfig == loaded' = TRUE /\ conf' = IF loaded THEN conf ELSE ini

Calm == returned' = "none" /\ unmade' = {} /\ wrong' = {}

USBinit ==
  /\ ohci # "live" /\ ohci' = "live" /\ usb_opened' = FALSE
  /\ LoadConfig
  /\ port' = [p \in Ports |-> [dev |-> Null, ctrl |-> {}]] /\ ep' = NoEp
  /\ Calm /\ UNCHANGED <<configChanged, ini, heap, usb_device, disk>>

USBopen ==
  /\ ohci = "live" /\ ~usb_opened /\ usb_opened' = TRUE
  /\ LET recreate == configChanged \/ \A p \in Ports : usb_device[p] = Null
         b == IF recreate THEN Created(Board, conf, unmade') ELSE Board
     IN /\ unmade' \in IF recreate THEN Failures(conf) ELSE {{}}
        /\ SetBoard(OpenDevice(OpenDevice(b, 0), 1))
  /\ configChanged' = FALSE /\ returned' = "none" /\ wrong' = {}
  /\ UNCHANGED <<ohci, conf, loaded, ini, disk>>

USBclose ==
  /\ ohci = "live" /\ usb_opened /\ usb_opened' = FALSE
  /\ SetBoard(CloseDevice(CloseDevice(Board, 0), 1))
  /\ Calm /\ UNCHANGED <<ohci, configChanged, conf, loaded, ini, disk>>

\* The controller is freed; qemu_ohci keeps pointing to it.
USBshutdown ==
  /\ ohci = "live" /\ ~usb_opened
  /\ SetBoard(DestroyDevices(Board))
  /\ ohci' = "freed" /\ usb_opened' = FALSE
  /\ Calm /\ UNCHANGED <<configChanged, conf, loaded, ini, disk>>

\* The emulator ends and starts again, perhaps with another configuration.
Restart ==
  /\ ohci = "freed"
  /\ ohci' = "null" /\ configChanged' = FALSE /\ conf' = Nothing /\ loaded' = FALSE
  /\ ini' \in Confs
  /\ Calm /\ UNCHANGED <<usb_opened, board, ep, disk>>

\* The user accepts the dialog.  The one for Windows replaces the devices at
\* once, both have them replaced when the plugin is opened next.
Configure ==
  /\ ohci = "freed" => AfterEnd
  /\ LET now == build = "windows" /\ ohci # "null"
     IN /\ ini' \in Confs /\ conf' = ini'
        /\ unmade' \in IF now THEN Failures(ini') ELSE {{}}
        /\ SetBoard(IF now THEN Created(Board, ini', unmade') ELSE Board)
        /\ wrong' = IF now /\ ohci = "freed" THEN {"freed ohci"} ELSE {}
  /\ loaded' = TRUE /\ configChanged' = TRUE /\ returned' = "none"
  /\ UNCHANGED <<ohci, usb_opened, disk>>

\* The user picks devices in the GTK dialog and cancels it.
CancelConfigure ==
  /\ build = "gtk" /\ conf' \in Confs /\ loaded' = TRUE
  /\ Calm /\ UNCHANGED <<ohci, usb_opened, configChanged, ini, board, ep, disk>>

-----------------------------------------------------------------------------
(* Saved states.                                                           *)

\* What FREEZE_SIZE of the proxy for a type answers.
FreezeSize(type) == IF type \in Sizeless THEN 0 ELSE 1
SizeOf(type, o) == IF type = None \/ o = Null THEN 0 ELSE FreezeSize(type)

\* The device that usb_packet.ep belongs to, and which endpoint it is.  Where
\* the device is gone any may seem to be the owner.
NoIndex == 2
Dangling == ep = LostEp
Owners ==
  IF ep.obj = Null THEN {NoIndex}
  ELSE IF Dangling THEN Ports \cup {NoIndex}
  ELSE {p \in Ports : usb_device[p] = ep.obj}

\* A proxy of another type saves and loads bytes that mean something else.
Through(type, o, d) == IF heap[o].type = type THEN d ELSE Garbage

saved == disk[1]
Save ==
  /\ ohci = "live" /\ usb_opened /\ (Again \/ disk = <<>>)
  /\ \E owner \in Owners, kind \in IF Dangling THEN Kinds ELSE {ep.kind} :
       disk' = <<[index |-> conf,
                size |-> [p \in Ports |-> SizeOf(conf[p], usb_device[p])],
                dev |-> [p \in Ports |->
                           IF usb_device[p] = Null THEN Freed
                           ELSE LET d == heap[usb_device[p]]
                                IN [d EXCEPT !.data =
                                      IF conf[p] = None THEN Garbage
                                      ELSE Through(conf[p], usb_device[p], @)]],
                ctrl |-> [p \in Ports |-> port[p].ctrl],
                owner |-> owner, kind |-> kind]>>
  /\ wrong' = IF Dangling THEN {"freed endpoint"} ELSE {}
  /\ returned' = "none" /\ unmade' = {} /\ UNCHANGED <<plugin, board, ep>>

\* The device loads its own data; one type reattaches itself.
Restored(b, p, type) ==
  LET o == b.dev[p]
      data == IF FreezeSize(type) = 0 THEN b.heap[o].data
              ELSE IF b.heap[o].type = type THEN saved.dev[p].data ELSE Garbage
      read == [b EXCEPT !.heap[o].data = data]
  IN IF type \in Reattached THEN UsbAttach(UsbDetach(read, p), p) ELSE read

\* One turn of the loop over the devices, on the board and the configuration.
\* Mutant of LoadDevice: a device of another type is kept.
LoadDeviceKeeps(m, p, fails) ==
  IF m.stop \/ m.b.dev[p] = Null THEN m
  ELSE [m EXCEPT !.b = OpenDevice(Restored(m.b, p, saved.index[p]), p)]
LoadDevice(m, p, fails) ==
  LET index == saved.index[p]
      other == index # m.conf[p]
      fresh == [m EXCEPT !.conf[p] = IF index = None THEN @ ELSE index,
                         !.b = IF index = None THEN DestroyDevice(m.b, p)
                               ELSE Attach(CreateDevice(DestroyDevice(m.b, p), index, p,
                                                        p \in fails),
                                           p, index \notin Reattached)]
      n == IF other THEN fresh ELSE m
  IN IF m.stop THEN m
     ELSE IF index = None \/ n.b.dev[p] = Null THEN n
     ELSE IF FreezeSize(index) # saved.size[p] THEN [n EXCEPT !.stop = TRUE]
     ELSE [n EXCEPT !.b = OpenDevice(Restored(n.b, p, index), p)]

\* The endpoint that is like the one that was saved.  Nothing gives the control
\* endpoint the pid of a SETUP, so that it is looked for among the others.
Refound(b, owner, kind) ==
  IF kind = "in" /\ b.heap[b.dev[owner]].type = saved.dev[owner].type
    THEN [obj |-> b.dev[owner], kind |-> "in"] ELSE NoEp

\* USBfreeze(FREEZE_LOAD).  The controller becomes the saved one except for
\* what its ports point to, then each device is loaded, then the packet.
\* Mutant of Emptied: the endpoint that was in use is kept.
EmptiedKeeps(b) ==
  [b EXCEPT !.port = [p \in Ports |-> [dev |-> b.port[p].dev, ctrl |-> saved.ctrl[p]]]]
Emptied(b) ==
  [b EXCEPT !.port = [p \in Ports |-> [dev |-> b.port[p].dev, ctrl |-> saved.ctrl[p]]],
            !.ep = NoEp]

\* usb_device[-1] is read when no device owned the packet.
LoadPacket(m) ==
  LET valid == saved.owner # NoIndex
      found == valid /\ m.b.dev[saved.owner] # Null
  IN /\ SetBoard(IF found THEN [m.b EXCEPT !.ep = Refound(m.b, saved.owner, saved.kind)]
                 ELSE m.b)
     /\ returned' \in IF found THEN {"loaded"} ELSE IF valid THEN {"packet"}
                      ELSE {"packet", "loaded"}
     /\ wrong' = IF valid THEN {} ELSE {"usb_device[-1]"}

Load ==
  /\ ohci = "live" /\ usb_opened /\ disk # <<>>
  /\ unmade' \in SUBSET {p \in Ports : saved.index[p] \notin {None, conf[p]}}
  /\ LET closed == Emptied(CloseDevice(CloseDevice(Board, 0), 1))
         first == LoadDevice([b |-> closed, conf |-> conf, stop |-> FALSE], 0, unmade')
         m == LoadDevice(first, 1, unmade')
     IN /\ conf' = m.conf
        /\ IF m.stop THEN SetBoard(m.b) /\ returned' = "size" /\ wrong' = {}
           ELSE LoadPacket(m)
  /\ UNCHANGED <<ohci, usb_opened, configChanged, loaded, ini, disk>>

-----------------------------------------------------------------------------
(* What the guest does to a port.                                          *)

Transfer(p, kind, d) ==
  /\ ohci = "live" /\ usb_opened /\ "CCS" \in port[p].ctrl /\ port[p].dev # Null
  /\ ep' = [obj |-> port[p].dev, kind |-> kind]
  /\ heap' = [heap EXCEPT ![port[p].dev].data = d]
  /\ Calm /\ UNCHANGED <<plugin, usb_device, port, disk>>

\* USBsetRAM and the write of HcControl that resets the root hub.
ResetHub ==
  /\ ohci = "live"
  /\ port' = [p \in Ports |-> [port[p] EXCEPT
                !.ctrl = IF port[p].dev = Null THEN {} ELSE {"CCS"}]]
  /\ Calm /\ UNCHANGED <<plugin, heap, usb_device, ep, disk>>

Guest == ResetHub \/ \E p \in Driven, k \in Kinds, d \in Data : Transfer(p, k, d)
Host == USBinit \/ USBopen \/ USBclose \/ USBshutdown \/ Restart
        \/ Configure \/ CancelConfigure \/ Save \/ Load
Next == (Host \/ Guest) /\ UNCHANGED build
Spec == Init /\ [][Next]_vars

-----------------------------------------------------------------------------
(* Properties.                                                             *)

Alive == {o \in Objects : heap[o] # Freed}

\* Type invariant.
TypeOK ==
  /\ ohci \in {"null", "live", "freed"}
  /\ usb_opened \in BOOLEAN /\ configChanged \in BOOLEAN /\ loaded \in BOOLEAN
  /\ conf \in [Ports -> Types \cup {None}] /\ ini \in Confs
  /\ \A o \in Alive : heap[o].type \in Types /\ heap[o].opens \in 0..1
  /\ usb_device \in [Ports -> Objects \cup {Null}]
  /\ \A p \in Ports : port[p].ctrl \subseteq {"CCS"}
  /\ returned \in {"none", "loaded", "size", "packet"}

\* Whatever devices are made, fail, are replaced by the dialog or by a saved
\* state: every device that exists belongs to one port, the root hub and the
\* plugin agree on it, and none is lost or freed twice.
OwnedOnce ==
  /\ Alive = {usb_device[p] : p \in Ports} \ {Null}
  /\ usb_device[0] = usb_device[1] => usb_device[0] = Null
  /\ ohci = "live" => \A p \in Ports : port[p].dev = usb_device[p]

\* While the plugin is closed no device holds its files, sound or cameras open,
\* also after a saved state that was loaded in part.
ClosedTogether == ~usb_opened => \A o \in Alive : heap[o].opens = 0

\* A state was read, up to its packet or up to a device of another size.
Read == returned' # "none"

\* "TODO check that current created usb device and conf.Port[n] are the same":
\* a state was saved while the port held what was configured, and is loaded
\* while it holds no other device than that, if that is what was saved.
Sound(p) == saved.dev[p].type = saved.index[p]
Settled(p) == conf[p] = saved.index[p] =>
                usb_device[p] = Null \/ heap[usb_device[p]].type = conf[p]
Trusted == \A p \in Ports : Sound(p) /\ Settled(p)

\* The device that was saved could not be made, now or when it was to be made last.
Missing(p) == IF conf[p] = saved.index[p] THEN usb_device[p] = Null ELSE p \in unmade'

\* Opening the plugin opens every device, whatever failed before, and while it
\* is open every device is: those that the dialog puts in the place of others,
\* and those of a saved state that can be trusted.
AllOpen == \A o \in Alive : heap[o].opens = 1
OpenTogether ==
  usb_opened' /\ (usb_opened => AllOpen) => AllOpen' \/ (Read /\ ~Trusted)

\* The guest sees a connection on the ports that hold a device and on no other,
\* until a device goes with none in its place or a saved state says otherwise.
Shows(p) == "CCS" \in port[p].ctrl <=> port[p].dev # Null
SavedShows(p) == "CCS" \in saved.ctrl[p] <=> saved.dev[p] # Freed
ShowsDevices ==
  ohci' = "live" => \A p \in Ports :
    (ohci = "live" => Shows(p)) =>
      \/ Shows(p)'
      \/ IF Read THEN Missing(p) \/ ~Trusted \/ ~SavedShows(p)
         ELSE usb_device[p] # Null /\ usb_device'[p] = Null

\* The packet in flight comes to point to a device that was freed only where
\* the devices are made anew for another configuration, which tells no port;
\* a state that is loaded, also one that is given up, leaves no such packet.
Dangles == ohci = "live" /\ Dangling
PacketPointsToDevice == Dangles' => ~Read /\ (Dangles \/ configChanged \/ configChanged')

\* "recreate the same device type as was saved": after a saved state was read
\* every port holds a device of the type that it held, with the data it had,
\* except one that could not be made.
LoadsSameDevices ==
  Read /\ Trusted =>
    \A p \in Ports : LET was == saved.dev[p]
                         o == usb_device'[p]
                     IN /\ o = Null <=> was = Freed \/ Missing(p)
                        /\ o # Null => /\ heap'[o].type = was.type
                                       /\ was.type \in Sizeless \/ heap'[o].data = was.data

\* A state whose devices were the configured ones is given up only for a packet
\* that belonged to no device, or to one that could not be made.
RefusesOnlyPackets ==
  Read /\ (\A p \in Ports : Sound(p)) =>
    /\ returned' # "size"
    /\ returned' = "packet" => \/ saved.owner = NoIndex
                               \/ usb_device'[saved.owner] = Null

\* "USB packet has invalid device index?": the index is one of the two ports.
IndexInBounds == "usb_device[-1]" \notin wrong
=============================================================================
