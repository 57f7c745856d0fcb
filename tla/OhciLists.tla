------------------------------- MODULE OhciLists -------------------------------
(***************************************************************************)
(* The list processing of the OHCI controller, src/qemu-usb/usb-ohci.cpp:  *)
(* endpoint and transfer descriptors, the one packet in flight, the done   *)
(* queue and its interrupt counter, and the resets that cut across them.   *)
(*                                                                         *)
(* ohci_frame_boundary runs to its end before the driver's code runs       *)
(* again; it is cut here into the steps it makes per endpoint and per      *)
(* transfer descriptor, and pc keeps the driver out while it is under way. *)
(* A descriptor queue is the sequence of transfer descriptors from head to *)
(* tail; a list is a set of endpoint descriptors, visited in any order.    *)
(***************************************************************************)
EXTENDS Integers, Sequences, FiniteSets

CONSTANTS
  Eds,            \* endpoint descriptors
  Tds,            \* transfer descriptors the driver has memory for
  NoEd, NoTd,
  ListOf,         \* the list the driver keeps an endpoint descriptor on
  Devices,
  DeviceOf,       \* the device an endpoint descriptor talks to
  DelayInts,      \* values of the DelayInterrupt field
  MaxPackets,     \* packets a transfer descriptor may take
  ListChoices, StateChoices,   \* what the driver writes to HcControl
  DeviceCodes,    \* errors the devices answer with
  ReclaimStates   \* bus states in which the driver takes all its memory back

Lists == {"periodic", "control", "bulk"}
BusStates == {"RESET", "RESUME", "OPERATIONAL", "SUSPEND"}

\* Condition codes.  The first group is set where the interrupt counter is
\* cleared as well.
DeviceErrors == {"STALL", "DEVICENOTRESPONDING", "DATAOVERRUN", "UNEXPECTEDPID"}
Errors == DeviceErrors \cup {"DATAUNDERRUN"}

ASSUME ListConstants ==
  /\ NoEd \notin Eds /\ NoTd \notin Tds /\ IsFiniteSet(Tds)
  /\ ListOf \in [Eds -> Lists]
  /\ DeviceOf \in [Eds -> Devices]
  /\ DelayInts \subseteq 0 .. 7
  /\ MaxPackets \in Nat \ {0}
  /\ ListChoices \subseteq SUBSET Lists /\ StateChoices \subseteq BusStates
  /\ DeviceCodes \subseteq DeviceErrors
  /\ ReclaimStates \subseteq BusStates

VARIABLES
  enabled,     \* PLE, CLE, BLE of HcControl (ctl)
  old_ctl,     \* the same bits at the last frame
  hcfs,        \* bus state in HcControl
  filled,      \* CLF, BLF of HcCommandStatus (status)
  wd, ue,      \* WritebackDoneHead and UnrecoverableError in intr_status
  running,     \* eof_timer # 0
  queue,       \* transfer descriptors of each endpoint descriptor, head first
  halted,      \* endpoint descriptors with the H bit
  skip,        \* endpoint descriptors with the K bit
  td,          \* delay, packets to go and condition code
  done,        \* the done queue, newest first
  done_count,
  hcca_done,   \* the done queue last written to the HCCA
  async_td,    \* descriptor of the packet in flight
  packet,      \* usb_packet: its state and its endpoint
  pc,          \* where ohci_frame_boundary is
  todo,        \* endpoint descriptors it has still to read on this list
  cur,         \* the one whose queue it is working on
  active,      \* this list has had an active one
  submitted    \* history: descriptors handed to a device since they were queued

regs    == <<enabled, old_ctl, hcfs, filled, wd, ue, running>>
memory  == <<queue, halted, skip, td, hcca_done>>
frame   == <<pc, todo, cur, active>>
vars == <<regs, memory, done, done_count, async_td, packet, frame, submitted>>

FreeTd == [di |-> 7, left |-> 0, cc |-> "NOTACCESSED"]
NoPacket == [state |-> "none", ed |-> NoEd]

Init ==
  /\ enabled = {} /\ old_ctl = {} /\ hcfs = "RESET" /\ filled = {}
  /\ wd = FALSE /\ ue = FALSE /\ running = FALSE
  /\ queue = [e \in Eds |-> <<>>] /\ halted = {} /\ skip = {}
  /\ td = [t \in Tds |-> FreeTd]
  /\ done = <<>> /\ done_count = 7 /\ hcca_done = <<>>
  /\ async_td = NoTd /\ packet = NoPacket
  /\ pc = "idle" /\ todo = {} /\ cur = NoEd /\ active = FALSE
  /\ submitted = {}

InSeq(s) == {s[i] : i \in 1 .. Len(s)}
Queued == UNION {InSeq(queue[e]) : e \in Eds}
Held == Queued \cup InSeq(done) \cup InSeq(hcca_done)

\* Mutant of Cancel: async_td is kept.
CancelPacket == packet' = NoPacket /\ UNCHANGED async_td
\* usb_cancel_packet and the assignments next to it
Cancel == async_td' = NoTd /\ packet' = NoPacket
KeepPacket == UNCHANGED <<async_td, packet>>

\* ohci_soft_reset: registers and done queue, not the packet in flight
ResetTo(state) ==
  /\ enabled' = {} /\ old_ctl' = {} /\ hcfs' = state /\ filled' = {}
  /\ wd' = FALSE /\ running' = FALSE
  /\ done' = <<>> /\ done_count' = 7
SoftReset == ResetTo("SUSPEND")

-----------------------------------------------------------------------------
(* The frame: ohci_frame_boundary and ohci_process_lists.                  *)

\* service_ed_list is called for a list when it is enabled and, but for the
\* periodic one, its filled bit is set.
Due(l) == l \in enabled /\ (l = "periodic" \/ l \in filled)
Enter(l) ==
  /\ pc' = l /\ active' = FALSE /\ cur' = NoEd
  /\ todo' = IF Due(l) THEN {e \in Eds : ListOf[e] = l} ELSE {}

StartFrame ==
  /\ pc = "idle" /\ running
  /\ Enter("periodic")
  /\ UNCHANGED <<regs, memory, done, done_count, async_td, packet, submitted>>

ListDone(l) == pc = l /\ todo = {} /\ cur = NoEd

\* After the periodic list: packets in flight are cancelled when the driver
\* has disabled the control or the bulk list since the last frame.
EndPeriodic ==
  /\ ListDone("periodic")
  /\ IF (old_ctl \ enabled) \cap {"control", "bulk"} # {} /\ async_td # NoTd
     THEN Cancel ELSE KeepPacket
  /\ old_ctl' = enabled
  /\ Enter("control")
  /\ UNCHANGED <<enabled, hcfs, filled, wd, ue, running, memory, done, done_count, submitted>>

\* A list on which nothing was active is no longer filled.
ClearFilled(l) == filled' = IF Due(l) /\ ~active THEN filled \ {l} ELSE filled

EndControl ==
  /\ ListDone("control") /\ ClearFilled("control")
  /\ Enter("bulk")
  /\ UNCHANGED <<enabled, old_ctl, hcfs, wd, ue, running, memory, done, done_count,
                 async_td, packet, submitted>>

EndBulk ==
  /\ ListDone("bulk") /\ ClearFilled("bulk")
  /\ pc' = "eof" /\ UNCHANGED <<todo, cur, active>>
  /\ UNCHANGED <<enabled, old_ctl, hcfs, wd, ue, running, memory, done, done_count,
                 async_td, packet, submitted>>

\* The end of the frame: the done queue goes to the HCCA when its counter has
\* run out and the driver has taken the previous one; then ohci_sof.
\* Mutant of HandOver: whether or not the driver has.
HandOverAnyway == done_count = 0
HandOver == done_count = 0 /\ ~wd

\* Mutant of GiveDone: the done queue is not emptied.
GiveDoneAndKeep == hcca_done' = done /\ UNCHANGED done
GiveDone == hcca_done' = done /\ done' = <<>>

\* Mutants of Countdown: below zero; without a done queue; not at all.
CountdownFrom(count) == IF count = 7 THEN count ELSE count - 1
CountdownToZero(count) == IF count = 0 THEN count ELSE count - 1
CountdownNever(count) == count
Countdown(count) == IF count \in {0, 7} THEN count ELSE count - 1

EndFrame ==
  /\ pc = "eof" /\ pc' = "idle"
  /\ \/ /\ ue /\ UNCHANGED <<wd, running, hcca_done, done, done_count>>
     \/ /\ ~ue /\ HandOver
        /\ GiveDone /\ done_count' = 7 /\ wd' = TRUE
        /\ running' = TRUE
     \/ /\ ~ue /\ ~HandOver
        /\ done_count' = Countdown(done_count)
        /\ running' = TRUE
        /\ UNCHANGED <<wd, hcca_done, done>>
  /\ UNCHANGED <<enabled, old_ctl, hcfs, filled, ue, queue, halted, skip, td,
                 async_td, packet, todo, cur, active, submitted>>

-----------------------------------------------------------------------------
(* One endpoint descriptor: ohci_service_ed_list.                          *)

Paused(e) == e \in halted \cup skip

CancelPaused(e) ==
  IF queue[e] # <<>> /\ Head(queue[e]) = async_td THEN Cancel ELSE KeepPacket

\* A paused descriptor whose first transfer is in flight has it cancelled.
PausedEd(e) ==
  /\ cur = NoEd /\ e \in todo /\ Paused(e)
  /\ todo' = todo \ {e}
  /\ CancelPaused(e)
  /\ UNCHANGED <<regs, memory, done, done_count, pc, cur, active, submitted>>

ReadEd(e) ==
  /\ cur = NoEd /\ e \in todo /\ ~Paused(e)
  /\ todo' = todo \ {e}
  /\ IF queue[e] = <<>> THEN UNCHANGED <<cur, active>> ELSE cur' = e /\ active' = TRUE
  /\ UNCHANGED <<regs, memory, done, done_count, async_td, packet, pc, submitted>>

\* An address outside the emulated memory: cpu_physical_memory_rw resets the
\* controller, and ohci_die gives up the list.
BadEd ==
  /\ todo # {} /\ cur = NoEd
  /\ SoftReset /\ ue' = TRUE
  /\ todo' = {} /\ active' = FALSE
  /\ UNCHANGED <<memory, async_td, packet, pc, cur, submitted>>

-----------------------------------------------------------------------------
(* One transfer descriptor: ohci_service_td.                               *)

Td == Head(queue[cur])
Stop == cur' = NoEd /\ UNCHANGED <<pc, todo, active>>
\* The while loop of service_ed_list goes on while the queue is not empty.
GoOn == /\ cur' = IF queue'[cur] = <<>> THEN NoEd ELSE cur
        /\ UNCHANGED <<pc, todo, active>>

\* Mutant of Lower: a cleared counter is raised again.
LowerFromBefore(count) == IF td[Td].di < done_count THEN td[Td].di ELSE done_count
Lower(count) == IF td[Td].di < count THEN td[Td].di ELSE count

\* Retirement: off the queue, onto the done queue, the counter lowered.
RetireTo(count, code) ==
  /\ queue' = [queue EXCEPT ![cur] = Tail(@)]
  /\ td' = [td EXCEPT ![Td].cc = code, ![Td].left = 0]
  /\ done' = <<Td>> \o done
  /\ done_count' = Lower(count)

Submit == submitted' = submitted \cup {Td}

\* The descriptor is the one in flight, or another one is: wait.
Wait ==
  /\ cur # NoEd /\ async_td # NoTd
  /\ Stop
  /\ UNCHANGED <<regs, memory, done, done_count, async_td, packet, submitted>>

\* The device defers the packet.  core.cpp asserts that interrupt endpoints,
\* the ones on the periodic list, never do.
\* No device of this program completes a deferred packet later (no call of
\* usb_packet_complete finds one), so nothing but a cancellation ends the wait.
Defer ==
  /\ cur # NoEd /\ async_td = NoTd /\ ListOf[cur] # "periodic"
  /\ async_td' = Td /\ packet' = [state |-> "async", ed |-> cur]
  /\ Submit /\ Stop
  /\ UNCHANGED <<regs, memory, done, done_count>>

\* No device at the address, an unknown direction, or NAK: nothing changes.
Nak ==
  /\ cur # NoEd /\ async_td = NoTd
  /\ Stop /\ (Submit \/ UNCHANGED submitted)
  /\ UNCHANGED <<regs, memory, done, done_count, async_td, packet>>

\* One packet of an OUT transfer that takes more.
PartialOut ==
  /\ cur # NoEd /\ async_td = NoTd /\ td[Td].left > 1
  /\ td' = [td EXCEPT ![Td].left = @ - 1, ![Td].cc = "NOERROR"]
  /\ Submit
  /\ UNCHANGED <<regs, queue, halted, skip, hcca_done, done, done_count,
                 async_td, packet, frame>>

Complete ==
  /\ cur # NoEd /\ async_td = NoTd /\ td[Td].left = 1
  /\ RetireTo(done_count, "NOERROR")
  /\ Submit /\ GoOn
  /\ UNCHANGED <<regs, halted, skip, hcca_done, async_td, packet>>

\* The device reports an error: the counter is cleared and the endpoint halts.
DeviceError(code) ==
  /\ cur # NoEd /\ async_td = NoTd
  /\ RetireTo(0, code) /\ halted' = halted \cup {cur}
  /\ Submit /\ Stop
  /\ UNCHANGED <<regs, skip, hcca_done, async_td, packet>>

\* Fewer bytes than asked for, and no BufferRounding.
Underrun ==
  /\ cur # NoEd /\ async_td = NoTd
  /\ RetireTo(done_count, "DATAUNDERRUN") /\ halted' = halted \cup {cur}
  /\ Submit /\ Stop
  /\ UNCHANGED <<regs, skip, hcca_done, async_td, packet>>

\* ohci_die for a buffer that ends before it begins.
BadTd ==
  /\ cur # NoEd /\ Td # async_td
  /\ ue' = TRUE /\ running' = FALSE
  /\ Stop
  /\ UNCHANGED <<enabled, old_ctl, hcfs, filled, wd, memory, done, done_count,
                 async_td, packet, submitted>>

\* A descriptor outside the emulated memory.
UnmappedTd ==
  /\ cur # NoEd /\ Td # async_td
  /\ SoftReset /\ ue' = TRUE
  /\ Stop
  /\ UNCHANGED <<memory, async_td, packet, submitted>>

\* A buffer outside the emulated memory: the controller is reset, and goes on
\* with the descriptor; only a bad first page is reported by ohci_die.
UnmappedBuffer ==
  /\ cur # NoEd /\ Td # async_td
  /\ SoftReset /\ ue' \in BOOLEAN
  /\ UNCHANGED <<memory, async_td, packet, frame, submitted>>

-----------------------------------------------------------------------------
(* Register writes: ohci_mem_write.                                        *)

\* Mutant of RoothubReset: the packet stays in flight.
RoothubResetPorts == KeepPacket
\* ohci_roothub_reset
RoothubReset == IF async_td # NoTd THEN Cancel ELSE KeepPacket

WriteControl(lists, state) ==
  /\ pc = "idle"
  /\ (state = "OPERATIONAL" /\ hcfs # state) => hcca_done = <<>>  \* the driver's part
  /\ enabled' = lists /\ hcfs' = state
  /\ running' = CASE state = hcfs -> running
                  [] state = "OPERATIONAL" -> TRUE
                  [] state \in {"SUSPEND", "RESET"} -> FALSE
                  [] OTHER -> running
  /\ IF state = "RESET" /\ hcfs # state THEN RoothubReset ELSE KeepPacket
  /\ UNCHANGED <<old_ctl, filled, wd, ue, memory, done, done_count, frame, submitted>>

WriteFilled(l) ==
  /\ pc = "idle" /\ l # "periodic"
  /\ filled' = filled \cup {l}
  /\ UNCHANGED <<enabled, old_ctl, hcfs, wd, ue, running, memory, done, done_count,
                 async_td, packet, frame, submitted>>

HostControllerReset ==
  /\ pc = "idle"
  /\ SoftReset /\ ue' = FALSE
  /\ UNCHANGED <<memory, async_td, packet, frame, submitted>>

\* ohci_hard_reset, for the emulator's USBReset
HardReset ==
  /\ pc = "idle"
  /\ ResetTo("RESET") /\ ue' = FALSE /\ RoothubReset
  /\ UNCHANGED <<memory, frame, submitted>>

\* ohci_wakeup: a device resumes a suspended bus
Wakeup ==
  /\ pc = "idle" /\ hcfs = "SUSPEND" /\ hcfs' = "RESUME"
  /\ UNCHANGED <<enabled, old_ctl, filled, wd, ue, running, memory, done, done_count,
                 async_td, packet, frame, submitted>>

AckError ==
  /\ pc = "idle" /\ ue /\ ue' = FALSE
  /\ UNCHANGED <<enabled, old_ctl, hcfs, filled, wd, running, memory, done, done_count,
                 async_td, packet, frame, submitted>>

\* The driver takes the done queue from the HCCA, then acknowledges it; it
\* also clears the HCCA before it starts the bus.
TakeDone ==
  /\ pc = "idle" /\ (wd \/ (hcfs # "OPERATIONAL" /\ hcca_done # <<>>))
  /\ wd' = FALSE /\ hcca_done' = <<>>
  /\ td' = [t \in Tds |-> IF t \in InSeq(hcca_done) THEN FreeTd ELSE td[t]]
  /\ UNCHANGED <<enabled, old_ctl, hcfs, filled, ue, running, queue, halted, skip,
                 done, done_count, async_td, packet, frame, submitted>>

\* ohci_detach: the device's packet in flight is cancelled.
Detach(d) ==
  /\ pc = "idle" /\ async_td # NoTd /\ DeviceOf[packet.ed] = d
  /\ Cancel
  /\ UNCHANGED <<regs, memory, done, done_count, frame, submitted>>

-----------------------------------------------------------------------------
(* The driver's own memory: external to the program.                       *)

driverKeeps == <<regs, hcca_done, done, done_count, async_td, packet, frame>>

Enqueue(e, t, d, n) ==
  /\ pc = "idle" /\ t \notin Held
  /\ queue' = [queue EXCEPT ![e] = Append(@, t)]
  /\ td' = [td EXCEPT ![t] = [di |-> d, left |-> n, cc |-> "NOTACCESSED"]]
  /\ submitted' = submitted \ {t}
  /\ UNCHANGED <<driverKeeps, halted, skip>>

SetSkip(e) ==
  /\ pc = "idle" /\ e \notin skip /\ skip' = skip \cup {e}
  /\ UNCHANGED <<driverKeeps, queue, halted, td, submitted>>

\* The driver lets a paused endpoint go again, once nothing of it is in
\* flight, with its transfers kept or dropped.
Resume(e) ==
  /\ pc = "idle" /\ Paused(e) /\ packet.ed # e
  /\ halted' = halted \ {e} /\ skip' = skip \ {e}
  /\ queue' \in {queue, [queue EXCEPT ![e] = <<>>]}
  /\ UNCHANGED <<driverKeeps, td, submitted>>

\* After a reset the driver starts over with all its descriptors.
Reclaim ==
  /\ pc = "idle" /\ hcfs \in ReclaimStates /\ ~running
  /\ queue' = [e \in Eds |-> <<>>]
  /\ halted' = {} /\ skip' = {}
  /\ done = <<>> /\ hcca_done' = <<>> /\ td' = [t \in Tds |-> FreeTd]
  /\ UNCHANGED <<regs, done, done_count, async_td, packet, frame, submitted>>

-----------------------------------------------------------------------------
Service ==
  \/ Wait \/ Defer \/ Nak \/ PartialOut \/ Complete \/ Underrun
  \/ \E code \in DeviceCodes : DeviceError(code)
  \/ BadTd \/ UnmappedTd \/ UnmappedBuffer

Controller ==
  \/ StartFrame \/ EndPeriodic \/ EndControl \/ EndBulk \/ EndFrame
  \/ \E e \in Eds : PausedEd(e) \/ ReadEd(e)
  \/ BadEd
  \/ Service

Driver ==
  \/ \E lists \in ListChoices, state \in StateChoices : WriteControl(lists, state)
  \/ \E l \in Lists : WriteFilled(l)
  \/ HostControllerReset \/ HardReset \/ Wakeup \/ AckError \/ TakeDone
  \/ \E d \in Devices : Detach(d)
  \/ \E e \in Eds, t \in Tds, d \in DelayInts, n \in 1 .. MaxPackets : Enqueue(e, t, d, n)
  \/ \E e \in Eds : SetSkip(e) \/ Resume(e)
  \/ Reclaim

Next == Controller \/ Driver

Spec == Init /\ [][Next]_vars

\* The emulator calls USBasync for as long as it runs, so frames that are due
\* begin and end, whatever the devices answer; a driver's interrupt handler
\* takes, between some two frames, the done queue it is told of.
Fairness == WF_vars(Controller) /\ SF_vars(TakeDone)
FairSpec == Spec /\ Fairness

-----------------------------------------------------------------------------
(* Properties.                                                             *)

Codes == Errors \cup {"NOERROR", "NOTACCESSED"}

TypeOK ==
  /\ enabled \in SUBSET Lists /\ old_ctl \in SUBSET Lists
  /\ filled \in SUBSET {"control", "bulk"}
  /\ hcfs \in BusStates
  /\ wd \in BOOLEAN /\ ue \in BOOLEAN /\ running \in BOOLEAN
  /\ queue \in [Eds -> Seq(Tds)]
  /\ halted \in SUBSET Eds /\ skip \in SUBSET Eds
  /\ td \in [Tds -> [di : 0 .. 7, left : 0 .. MaxPackets, cc : Codes]]
  /\ done \in Seq(Tds) /\ hcca_done \in Seq(Tds)
  /\ done_count \in 0 .. 7
  /\ async_td \in Tds \cup {NoTd}
  /\ packet \in [state : {"none", "async"}, ed : Eds \cup {NoEd}]
  /\ pc \in {"idle", "eof"} \cup Lists
  /\ todo \in SUBSET Eds /\ cur \in Eds \cup {NoEd} /\ active \in BOOLEAN
  /\ cur # NoEd => queue[cur] # <<>>
  /\ submitted \in SUBSET Tds

\* A counter that is not at rest has something to hand over: the abort() of
\* ohci_frame_boundary for an empty done queue is not reached, through any
\* mix of delays, errors, resets in mid-frame and unacknowledged queues.
DoneCountMeansDone == done_count < 7 => done # <<>>

\* async_td and the state of usb_packet tell the same story, so the asserts
\* that a cancelled packet is in flight (usb_cancel_packet) and that a new
\* one is not (usb_packet_setup) hold at every point of every list.
AsyncPacketInFlight ==
  /\ async_td # NoTd <=> packet.state = "async"
  /\ packet.ed # NoEd <=> packet.state = "async"

\* No descriptor is at two places of the queues, the done queue and the HCCA.
Places == {<<"q", e, i>> : e \in Eds, i \in 1 .. Cardinality(Tds)}
          \cup {<<q, NoEd, i>> : q \in {"done", "hcca"}, i \in 1 .. Cardinality(Tds)}
SeqAt(p) == CASE p[1] = "q" -> queue[p[2]] [] p[1] = "done" -> done [] OTHER -> hcca_done
TdInOnePlace ==
  /\ Len(done) + Len(hcca_done) <= Cardinality(Tds)
  /\ \A p, q \in Places :
       (/\ p[3] <= Len(SeqAt(p)) /\ q[3] <= Len(SeqAt(q))
        /\ SeqAt(p)[p[3]] = SeqAt(q)[q[3]]) => p = q

\* A frame neither loses nor gains a descriptor, unless the controller is
\* reset in it: a done queue the driver has not taken is not overwritten.
FrameKeepsTds ==
  [][(pc # "idle" /\ hcfs' = "OPERATIONAL") => Held' = Held]_vars

\* A transfer that failed on an error of the device is handed over at the
\* next frame that may: the counter stays clear until then, whatever delays
\* later transfers ask for (usb-ohci.cpp:930).
DeviceErrorClearsCount ==
  \A i \in 1 .. Len(done) : td[done[i]].cc \in DeviceErrors => done_count = 0

\* A descriptor the controller skips because it is the one in flight was
\* given to a device since it was queued (usb-ohci.cpp:751, "See if this TD
\* has already been submitted to the device").
SkippedWasSubmitted ==
  \A e \in Eds : (queue[e] # <<>> /\ Head(queue[e]) = async_td) => async_td \in submitted

\* What is on the done queue with a delay is handed over, unless the bus
\* stops or a reset empties it.
DoneIsHandedOver ==
  (done_count < 7) ~> (done = <<>> \/ ~running \/ ue)

\* Once the driver has paused the endpoint of the packet in flight, on a list
\* the controller reads, the packet is cancelled, unless the driver lets the
\* endpoint go again, takes the list out or stops the bus.
Waiting(e) == packet.ed = e /\ e \in skip /\ Due(ListOf[e]) /\ running
Off(e) == e \notin skip \/ ListOf[e] \notin enabled \/ ~running
PausedIsCancelled == \A e \in Eds : Waiting(e) ~> (packet.ed # e \/ Off(e))
===============================================================================
