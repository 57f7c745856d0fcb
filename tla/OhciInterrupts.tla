----------------------------- MODULE OhciInterrupts -----------------------------
(***************************************************************************)
(* The interrupts and bus states of the OHCI controller                    *)
(* (qemu-usb/usb-ohci.cpp) and the clock behind them (USB.cpp).            *)
(*                                                                         *)
(* Whatever changes HcInterruptStatus, HcInterruptEnable or the bus state  *)
(* is here: frames, the ports (RootHub), the lists (OhciLists), the driver.*)
(* An interrupt reaches the processor as a call of USBirq, if the last one *)
(* is more than MIN_IRQ_INTERVAL clocks ago.                               *)
(***************************************************************************)
EXTENDS Integers

CONSTANTS
  Enables,       \* sets of bits the driver writes to HcInterruptEnable and -Disable
  Cycles,        \* cycles the emulator lets pass between calls of USBasync
  Interval,      \* MIN_IRQ_INTERVAL
  FrameTime,     \* usb_frame_time
  Lag,           \* bound: how far the clock falls behind last_cycle in USBinit
  MaxRemaining   \* bound: cycles kept while the bus is stopped

Sources == {"WD", "SF", "RD", "UE", "RHSC"}
BusStates == {"RESET", "RESUME", "OPERATIONAL", "SUSPEND"}
Smaller(a, b) == IF a < b THEN a ELSE b

InterruptConstants ==
  /\ Enables \subseteq SUBSET (Sources \cup {"MIE"})
  /\ Cycles \subseteq 1 .. FrameTime /\ Cycles # {}
  /\ Interval \in Nat /\ FrameTime \in Nat /\ FrameTime > Interval
  /\ Lag \in Nat /\ MaxRemaining \in Nat

VARIABLES
  hcfs,         \* the bus state in HcControl
  eof_timer,    \* 0 while there are no frames
  remaining,    \* cycles that USBasync has not used up
  since,        \* clocks - last_cycle, up to Interval + 1
  intr,         \* HcInterruptEnable
  intr_status,  \* HcInterruptStatus
  raised,       \* USBirq was called; the processor has not taken it yet
  waited        \* history: cycles an interrupt has been due while frames went on

registers == <<hcfs, intr, intr_status>>
vars == <<registers, eof_timer, remaining, since, raised, waited>>

Init ==
  /\ hcfs = "RESET" /\ eof_timer = 0 /\ remaining = 0
  /\ since = 0 /\ intr = {"MIE"} /\ intr_status = {}
  /\ raised = FALSE /\ waited = 0

-----------------------------------------------------------------------------
Level(enabled, status) == "MIE" \in enabled /\ enabled \cap status # {}

Due(clock) == clock > Interval

\* The history counts to one more than RaisedInTime allows.
Waits(c) == Smaller(waited + c, 2 * FrameTime + Lag + 1)

\* The registers change, then ohci_intr_update; the clock is that much ahead of
\* the last interrupt, c cycles after the handler before.
IntrUpdate(enabled, status, clock, c) ==
  /\ intr' = enabled /\ intr_status' = status
  /\ IF Level(enabled, status) /\ Due(clock)
       THEN raised' = TRUE /\ since' = 0 /\ waited' = 0
       ELSE /\ since' = Smaller(clock, Interval + 1) /\ UNCHANGED raised
            /\ waited' = IF Level(enabled, status) /\ eof_timer' > 0 THEN Waits(c) ELSE 0

SetInterrupt(s) == IntrUpdate(intr, intr_status \cup s, since, 0)

-----------------------------------------------------------------------------
(* USBasync: c cycles pass.  What was left over before counts again in the  *)
(* clock, and every frame it makes room for is run at once.                 *)

Cycled(c) == remaining + c
Clock(c) == since + Cycled(c)

NoFrame(c) ==
  /\ eof_timer = 0 \/ Cycled(c) < eof_timer
  /\ Cycled(c) <= MaxRemaining
  /\ eof_timer' = IF eof_timer = 0 THEN 0 ELSE eof_timer - Cycled(c)
  /\ remaining' = IF eof_timer = 0 THEN Cycled(c) ELSE 0
  /\ since' = Smaller(Clock(c), Interval + 1)
  /\ waited' = IF eof_timer > 0 /\ Level(intr, intr_status) THEN Waits(c) ELSE 0
  /\ UNCHANGED <<registers, raised>>

Room(c) == 1 + (Cycled(c) - eof_timer) \div FrameTime

\* Frames that end, and whether the lists wrote back finished transfers.
SofBits(wd) == {"SF"} \cup IF wd THEN {"WD"} ELSE {}
Frames(c, wd) ==
  /\ "UE" \notin intr_status /\ eof_timer > 0 /\ Cycled(c) >= eof_timer
  /\ eof_timer' = FrameTime - ((Cycled(c) - eof_timer) % FrameTime)
  /\ remaining' = 0
  /\ IntrUpdate(intr, intr_status \cup SofBits(wd), Clock(c), c)
  /\ UNCHANGED hcfs

\* An error in the n-th of these frames stops the bus (ohci_die) and the loop.
FrameDies(c, n) ==
  /\ eof_timer > 0 /\ Cycled(c) >= eof_timer /\ ("UE" \in intr_status => n = 1)
  /\ eof_timer' = 0 /\ remaining' = Cycled(c) - eof_timer - (n - 1) * FrameTime
  /\ remaining' <= MaxRemaining
  /\ IntrUpdate(intr, intr_status \cup {"UE"} \cup IF n > 1 THEN {"SF"} ELSE {}, Clock(c), c)
  /\ UNCHANGED hcfs

\* An error the driver has not acknowledged stops it again without one.
FrameRefused(c) ==
  /\ "UE" \in intr_status /\ eof_timer > 0 /\ Cycled(c) >= eof_timer
  /\ eof_timer' = 0 /\ remaining' = Cycled(c) - eof_timer /\ remaining' <= MaxRemaining
  /\ since' = Smaller(Clock(c), Interval + 1) /\ waited' = 0
  /\ UNCHANGED <<registers, raised>>

USBasync(c) ==
  \/ NoFrame(c) \/ FrameRefused(c)
  \/ \E wd \in BOOLEAN : Frames(c, wd)
  \/ \E n \in 1 .. Room(c) : FrameDies(c, n)

-----------------------------------------------------------------------------
(* Events of the ports, between two calls of USBasync.                     *)

\* A port changes; a device that is attached to a suspended bus wakes it up as
\* well.
PortChanges ==
  /\ UNCHANGED <<hcfs, eof_timer, remaining>>
  /\ \/ SetInterrupt({"RHSC"})
     \/ hcfs = "SUSPEND" /\ SetInterrupt({"RD", "RHSC"})

\* ohci_wakeup on a suspended bus.
Wakeup ==
  /\ hcfs = "SUSPEND" /\ hcfs' = "RESUME"
  /\ UNCHANGED <<eof_timer, remaining>> /\ SetInterrupt({"RD"})

-----------------------------------------------------------------------------
(* The registers.                                                          *)

InterruptEnable(s) ==
  /\ UNCHANGED <<hcfs, eof_timer, remaining>>
  /\ IntrUpdate(intr \cup s, intr_status, since, 0)

InterruptDisable(s) ==
  /\ UNCHANGED <<hcfs, eof_timer, remaining>>
  /\ IntrUpdate(intr \ s, intr_status, since, 0)

\* The driver acknowledges with HcInterruptStatus.
Acknowledge(s) ==
  /\ s # {} /\ UNCHANGED <<hcfs, eof_timer, remaining>>
  /\ IntrUpdate(intr, intr_status \ s, since, 0)

\* ohci_bus_start: a whole frame from here on.
BusStart ==
  /\ hcfs # "OPERATIONAL" /\ hcfs' = "OPERATIONAL"
  /\ eof_timer' = FrameTime /\ UNCHANGED remaining /\ SetInterrupt({"SF"})

BusSuspend ==
  /\ hcfs # "SUSPEND" /\ hcfs' = "SUSPEND"
  /\ eof_timer' = 0 /\ UNCHANGED remaining
  /\ IntrUpdate(intr, intr_status \ {"SF"}, since, 0)

\* Frames go on where they did.
BusResume ==
  /\ hcfs # "RESUME" /\ hcfs' = "RESUME"
  /\ UNCHANGED <<intr, intr_status, eof_timer, remaining, since, raised, waited>>

\* Devices that are attached again on the way change their ports.
BusReset ==
  /\ hcfs # "RESET" /\ hcfs' = "RESET"
  /\ eof_timer' = 0 /\ UNCHANGED remaining
  /\ \/ SetInterrupt({"RHSC"})
     \/ waited' = 0 /\ UNCHANGED <<intr, intr_status, since, raised>>

SoftReset ==
  /\ hcfs' = "SUSPEND" /\ eof_timer' = 0
  /\ intr' = {"MIE"} /\ intr_status' = {} /\ waited' = 0
  /\ UNCHANGED <<remaining, since, raised>>

\* USBinit sets the clock to zero; last_cycle keeps its value.
USBinit ==
  /\ hcfs' = "RESET" /\ eof_timer' = 0 /\ remaining' = 0
  /\ intr' = {"MIE"} /\ intr_status' = {} /\ raised' = FALSE /\ waited' = 0
  /\ since' \in -Lag .. 0

TakeInterrupt ==
  /\ raised /\ raised' = FALSE
  /\ UNCHANGED <<registers, eof_timer, remaining, since, waited>>

-----------------------------------------------------------------------------
Async == \E c \in Cycles : USBasync(c)

Next ==
  \/ Async \/ PortChanges \/ Wakeup \/ TakeInterrupt
  \/ BusStart \/ BusSuspend \/ BusResume \/ BusReset \/ SoftReset \/ USBinit
  \/ \E s \in Enables : InterruptEnable(s) \/ InterruptDisable(s)
  \/ \E s \in SUBSET intr_status : Acknowledge(s)

Spec == Init /\ [][Next]_vars
\* The emulator goes on calling USBasync.
FairSpec == Spec /\ WF_vars(Async)

-----------------------------------------------------------------------------
(* Properties.                                                             *)

TypeOK ==
  /\ hcfs \in BusStates
  /\ eof_timer \in 0 .. FrameTime /\ remaining \in 0 .. MaxRemaining
  /\ since \in -Lag .. Interval + 1
  /\ intr \subseteq Sources \cup {"MIE"} /\ intr_status \subseteq Sources
  /\ raised \in BOOLEAN /\ waited \in Nat

\* An interrupt that is enabled and pending reaches the processor before the
\* second frame from then ends, however soon after the last it came: the one
\* that is dropped for that is given at the start of a frame (usb-ohci.cpp:65).
\* After USBinit it takes as much longer as the clock has fallen behind (USB.cpp:287).
RaisedInTime == waited <= 2 * FrameTime + Lag

\* While frames go on, what is pending reaches the processor, or the driver has
\* seen to it.
Pending == Level(intr, intr_status) /\ eof_timer > 0
InterruptRaised == Pending ~> (raised \/ ~Pending)
=============================================================================
