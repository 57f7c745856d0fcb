------------------------------- MODULE OnePacket -------------------------------
(***************************************************************************)
(* The one packet of the controller on its way through the USB core        *)
(* (core.cpp) between the lists of usb-ohci.cpp and the devices of both    *)
(* ports.  A device answers at once or keeps the packet; one that is kept  *)
(* comes back only by being cancelled: no device of the plugin completes   *)
(* one.                                                                    *)
(*                                                                         *)
(* A visit to an endpoint descriptor is an action: frames, the order of    *)
(* the lists and the done queue are in OhciLists and OhciIso.  Left out    *)
(* are the bytes.                                                          *)
(***************************************************************************)
EXTENDS Naturals, FiniteSets

CONSTANTS
  Devices, Eds, None,
  Dev,       \* the device of each endpoint
  Kind,      \* of each endpoint: "control", "bulk", "int", "isoc"
  Answers,   \* what its device may answer there
  MaxTds     \* bound: transfers that wait on an endpoint
OnePacketConstants ==
  /\ Dev \in [Eds -> Devices] /\ Kind \in [Eds -> {"control", "bulk", "int", "isoc"}]
  /\ Answers \in [Eds -> SUBSET {"SUCCESS", "STALL", "NAK", "ASYNC"}]
  /\ \A e \in Eds : Kind[e] \in {"int", "isoc"} => "ASYNC" \notin Answers[e]
  /\ None \notin Eds /\ MaxTds \in Nat

VARIABLES
  packet,     \* usb_packet: state, endpoint, status
  queue,      \* the endpoints in whose queue it is
  ep_halted,  \* halted of each endpoint of the core
  held,       \* the devices that keep it: s->packet
  async_td,   \* the descriptor whose transfer is in flight
  tds,        \* transfers that wait on each
  stopped,    \* H or K of each descriptor
  ctl,        \* the lists of control and bulk are enabled; the value of before
  state,      \* of each device: "NOTATTACHED", "ATTACHED", "DEFAULT"
  failed      \* the assertion that failed, or "none"
driver == <<tds, stopped, ctl>>
core == <<packet, queue, ep_halted, held>>
vars == <<core, async_td, driver, state, failed>>

Async(e) == Kind[e] \in {"control", "bulk"}
InFlight == packet.state \in {"QUEUED", "ASYNC"}

Init ==
  /\ packet = [state |-> "UNDEFINED", ep |-> None, status |-> "SUCCESS"]
  /\ queue = {} /\ ep_halted = [e \in Eds |-> FALSE] /\ held = {} /\ async_td = None
  /\ tds = [e \in Eds |-> 0] /\ stopped = {} /\ ctl = [now |-> TRUE, old |-> TRUE]
  /\ state = [d \in Devices |-> "ATTACHED"] /\ failed = "none"

-----------------------------------------------------------------------------
(* The core.                                                               *)

\* The assertions on the way of a packet to endpoint e.
SetupAsserts(e) == IF InFlight THEN "not in flight" ELSE "none"
HandleAsserts(e, status) ==
  IF state[Dev[e]] # "DEFAULT" THEN "default state"
  ELSE IF ep_halted[e] /\ e \in queue THEN "empty queue"
  ELSE IF status = "ASYNC" /\ Kind[e] = "isoc" THEN "no async for isoc"
  ELSE IF status = "ASYNC" /\ Kind[e] = "int" THEN "no async for int"
  ELSE "none"

\* usb_packet_setup and usb_handle_packet.
Handle(e, status) ==
  /\ ep_halted' = [ep_halted EXCEPT ![e] = FALSE]
  /\ packet' = [state |-> CASE status = "ASYNC" -> "ASYNC" [] status = "NAK" -> "SETUP"
                            [] OTHER -> "COMPLETE",
                ep |-> e, status |-> status]
  /\ queue' = IF status = "ASYNC" THEN queue \cup {e} ELSE queue
  /\ held' = IF status = "ASYNC" THEN held \cup {Dev[e]} ELSE held

\* usb_cancel_packet, and the device's cancel_packet.
CancelAsserts == CASE ~InFlight -> "in flight"
                   [] Dev[packet.ep] \notin held -> "s->packet == p"
                   [] OTHER -> "none"
\* Mutant of Cancel: the device is not told.
CancelQuietly ==
  /\ packet' = [packet EXCEPT !.state = "CANCELED"] /\ queue' = queue \ {packet.ep}
  /\ UNCHANGED <<held, ep_halted>>
Cancel ==
  /\ packet' = [packet EXCEPT !.state = "CANCELED"] /\ queue' = queue \ {packet.ep}
  /\ held' = held \ {Dev[packet.ep]} /\ UNCHANGED ep_halted

\* Cancel on behalf of the controller, if a condition holds of what is in
\* flight.
CancelIf(condition) ==
  IF async_td # None /\ condition
  THEN Cancel /\ async_td' = None /\ failed' = CancelAsserts
  ELSE UNCHANGED <<core, async_td, failed>>

-----------------------------------------------------------------------------
(* The controller.                                                         *)

Visited(e) == (Async(e) => ctl.now) /\ tds[e] > 0
Retire(e, status) ==
  /\ tds' = [tds EXCEPT ![e] = IF status \in {"SUCCESS", "STALL"} THEN @ - 1 ELSE @]
  /\ stopped' = IF status = "STALL" /\ Kind[e] # "isoc" THEN stopped \cup {e} ELSE stopped
  /\ UNCHANGED ctl

\* A device that is found is sent the packet.
Send(e, status) ==
  /\ state[Dev[e]] = "DEFAULT" /\ status \in Answers[e]
  /\ IF SetupAsserts(e) # "none" \/ HandleAsserts(e, status) # "none"
     THEN /\ failed' = IF SetupAsserts(e) # "none" THEN SetupAsserts(e) ELSE HandleAsserts(e, status)
          /\ UNCHANGED <<core, driver>>
     ELSE Handle(e, status) /\ Retire(e, status) /\ UNCHANGED failed

Free == async_td = None
ServiceTd(e, status) ==
  /\ Kind[e] # "isoc" /\ Visited(e) /\ e \notin stopped /\ Free
  /\ Send(e, status)
  /\ async_td' = IF status = "ASYNC" THEN e ELSE async_td
  /\ UNCHANGED state
\* An isochronous one does not look at it.
ServiceIsoTd(e, status) ==
  /\ Kind[e] = "isoc" /\ Visited(e) /\ e \notin stopped
  /\ Send(e, status) /\ UNCHANGED <<async_td, state>>
\* Mutant of Paused: nothing is cancelled.
PausedOnly(e) == e \in stopped /\ (Async(e) => ctl.now) /\ CancelIf(FALSE) /\ UNCHANGED <<driver, state>>
\* A descriptor that is paused; its transfer is cancelled.
Paused(e) == e \in stopped /\ (Async(e) => ctl.now) /\ CancelIf(async_td = e) /\ UNCHANGED <<driver, state>>
\* ohci_frame_boundary: lists that were disabled.
FrameBoundary ==
  /\ ctl.now # ctl.old /\ ctl' = [ctl EXCEPT !.old = ctl.now]
  /\ CancelIf(ctl.old /\ ~ctl.now) /\ UNCHANGED <<tds, stopped, state>>
HardReset ==
  /\ CancelIf(TRUE) /\ ctl' = [now |-> FALSE, old |-> FALSE]
  /\ state' = [d \in Devices |-> IF state[d] = "NOTATTACHED" THEN state[d] ELSE "DEFAULT"]
  /\ UNCHANGED <<tds, stopped>>
\* The packet in flight stays.
SoftReset == ctl' = [now |-> FALSE, old |-> FALSE] /\ UNCHANGED <<core, async_td, tds, stopped, state, failed>>

Detach(d) ==
  /\ state[d] # "NOTATTACHED" /\ CancelIf(InFlight /\ Dev[packet.ep] = d)
  /\ state' = [state EXCEPT ![d] = "NOTATTACHED"] /\ UNCHANGED driver
Attach(d) ==
  /\ state[d] = "NOTATTACHED" /\ state' = [state EXCEPT ![d] = "ATTACHED"]
  /\ UNCHANGED <<core, async_td, driver, failed>>
PortReset(d) ==
  /\ state[d] # "NOTATTACHED" /\ state' = [state EXCEPT ![d] = "DEFAULT"]
  /\ UNCHANGED <<core, async_td, driver, failed>>

-----------------------------------------------------------------------------
(* The driver: transfers, pauses, lists on and off.                        *)

Submit(e) == tds[e] < MaxTds /\ tds' = [tds EXCEPT ![e] = @ + 1] /\ UNCHANGED <<stopped, ctl>>
Pause(e) == e \notin stopped /\ stopped' = stopped \cup {e} /\ UNCHANGED <<tds, ctl>>
\* It takes back what waits, when the controller has let go of it.
Resume(e) ==
  /\ e \in stopped /\ async_td # e /\ stopped' = stopped \ {e}
  /\ \E n \in 0..tds[e] : tds' = [tds EXCEPT ![e] = n]
  /\ UNCHANGED ctl
SwitchLists(on) == ctl.now # on /\ ctl' = [ctl EXCEPT !.now = on] /\ UNCHANGED <<tds, stopped>>
Driver ==
  /\ \E e \in Eds : Submit(e) \/ Pause(e) \/ Resume(e)
  /\ UNCHANGED <<core, async_td, state, failed>>
Switch == (\E on \in BOOLEAN : SwitchLists(on)) /\ UNCHANGED <<core, async_td, state, failed>>

Service(e) == \E status \in Answers[e] : ServiceTd(e, status) \/ ServiceIsoTd(e, status)
Lists == \/ \E e \in Eds : Service(e) \/ Paused(e)
         \/ FrameBoundary
Ports == \E d \in Devices : Detach(d) \/ Attach(d) \/ PortReset(d)
Next == failed = "none" /\ (Lists \/ Ports \/ HardReset \/ SoftReset \/ Driver \/ Switch)
Spec == Init /\ [][Next]_vars

\* The frames go on, and a driver pauses an endpoint whose transfer hangs, and
\* enables the lists again after a reset, without which nothing cancels it.
On == SwitchLists(TRUE) /\ UNCHANGED <<core, async_td, state, failed>>
GiveUp(e) == async_td = e /\ Pause(e) /\ UNCHANGED <<core, async_td, state, failed>>
FairSpec ==
  /\ Spec /\ WF_vars(FrameBoundary) /\ WF_vars(On)
  /\ \A e \in Eds : SF_vars(Service(e)) /\ SF_vars(Paused(e)) /\ WF_vars(GiveUp(e))

-----------------------------------------------------------------------------
(* Properties.                                                             *)

\* Type invariant.
TypeOK ==
  /\ packet.state \in {"UNDEFINED", "SETUP", "ASYNC", "COMPLETE", "CANCELED"}
  /\ packet.ep = None <=> packet.state = "UNDEFINED"
  /\ tds \in [Eds -> 0..MaxTds] /\ queue \cup stopped \subseteq Eds

\* Controller, core and device agree on the packet in flight: the descriptor it
\* is of, the queue it is in, the device that keeps it.
AllAgree ==
  failed = "none" =>
    IF packet.state = "ASYNC"
    THEN async_td = packet.ep /\ queue = {packet.ep} /\ held = {Dev[packet.ep]}
         /\ state[Dev[packet.ep]] = "DEFAULT"
    ELSE async_td = None /\ queue = {} /\ held = {}

\* The assertions of usb_packet_setup, usb_handle_packet, usb_cancel_packet and
\* usb_msd_cancel_io hold, whatever is reset, removed or paused meanwhile.
NoAssertFails == failed = "none"

\* A transfer that hangs does not keep those of the other endpoints from being
\* served, once its driver gives it up.
OthersAreServed ==
  \A e \in Eds : Answers[e] = {"SUCCESS"} =>
    []<>(tds[e] = 0 \/ e \in stopped \/ state[Dev[e]] # "DEFAULT"
         \/ (Async(e) /\ ~ctl.now) \/ failed # "none")
       \/ []<><<\E s \in Answers[e] : ServiceTd(e, s)>>_vars
=============================================================================
