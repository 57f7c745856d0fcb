------------------------------ MODULE HidPointer ------------------------------
(***************************************************************************)
(* The queue of the HID mouse (hid.cpp), between the thread that reads the *)
(* host's mouse and the emulator's thread that polls the device.  They     *)
(* share HIDState without a lock, so a handler is modelled by its accesses *)
(* to head and n; an update of a slot is one step.                         *)
(*                                                                         *)
(* Overlap says whether a handler may run while the other thread is inside *)
(* one of its own.  Nothing in the code forbids it.                        *)
(***************************************************************************)
EXTENDS Integers, FiniteSets, FiniteSetsExt

CONSTANTS QUEUE_LENGTH,  \* slots: a power of two
          Axes,          \* dx, dy and the wheel are handled alike
          Clamp,         \* most motion in one report: 127
          Moves,         \* what a mouse event adds to an axis
          MaxMoved,      \* bound: motion of an axis since the reset
          Buttons,
          Overlap

HidAssumption ==
  /\ QUEUE_LENGTH \in Nat /\ QUEUE_LENGTH > 1
  /\ Clamp \in Nat \ {0} /\ MaxMoved \in Nat /\ Moves \subseteq Int
  /\ Overlap \in BOOLEAN

VARIABLES
  queue, head, n,   \* HIDState: ptr.queue, head, n
  reader,           \* the thread of the host's mouse: where it is
  poller,           \* the emulator's thread
  moved, pressed,   \* the mouse: motion and buttons told since the reset
  got, seen         \* what the guest was told since

hid == <<queue, head, n>>
world == <<moved, pressed, got, seen>>
vars == <<hid, reader, poller, world>>

Slots == 0 .. QUEUE_LENGTH - 1
Still == [a \in Axes |-> 0]
Empty == [motion |-> Still, buttons |-> {}]
Slot(h, k) == (h + k) % QUEUE_LENGTH      \* (hs->head + k) & QUEUE_MASK
Apart == Overlap \/ (reader.at = "idle" /\ poller.at = "idle")

\* head and n are two loads, in an order the compiler chooses: one of them
\* may be older than the other.
Snapshot == [head |-> head, n |-> n]
Views(old) == {[head |-> old.head, n |-> n], [head |-> head, n |-> old.n]}

Init ==
  /\ queue = [s \in Slots |-> Empty] /\ head = 0 /\ n = 0
  /\ reader = [at |-> "idle"] /\ poller = [at |-> "idle"]
  /\ moved = Still /\ pressed = {} /\ got = Still /\ seen = {}

-------------------------------------------------------------------------------
(* The reader: an event changes the slot behind the queue, a sync makes it *)
(* visible.                                                                *)

\* EV_REL or EV_KEY read: the assert and the first load of the slot's index
EventBegin(event) ==
  /\ reader.at = "idle" /\ Apart
  /\ reader' = [at |-> "event", event |-> event, old |-> Snapshot]
  /\ UNCHANGED <<hid, poller, world>>

Move == \E a \in Axes, d \in Moves :
  /\ moved[a] + d \in -MaxMoved .. MaxMoved
  /\ EventBegin([axis |-> a, by |-> d])

Press == \E b \in Buttons, down \in BOOLEAN :
  EventBegin([button |-> b, down |-> down])

\* hid_pointer_event: the second load and the update
EventEnd ==
  /\ reader.at = "event"
  /\ \E view \in Views(reader.old) :
       LET s == Slot(view.head, view.n)
           e == reader.event IN
       IF "axis" \in DOMAIN e
       THEN /\ queue' = [queue EXCEPT ![s].motion[e.axis] = @ + e.by]
            /\ moved' = [moved EXCEPT ![e.axis] = @ + e.by]
            /\ UNCHANGED pressed
       ELSE LET Set(bs) == IF e.down THEN bs \union {e.button} ELSE bs \ {e.button} IN
            /\ queue' = [queue EXCEPT ![s].buttons = Set(@)]
            /\ pressed' = Set(pressed)
            /\ UNCHANGED moved
  /\ reader' = [at |-> "idle"]
  /\ UNCHANGED <<head, n, poller, got, seen>>

\* SYN_REPORT: hid_pointer_sync loads n and gives up when the queue is full
SyncBegin ==
  /\ reader.at = "idle" /\ Apart
  /\ reader' = IF n = QUEUE_LENGTH - 1 THEN [at |-> "full"]
               ELSE [at |-> "sync", old |-> Snapshot]
  /\ UNCHANGED <<hid, poller, world>>

SyncFull ==
  /\ reader.at = "full"
  /\ reader' = [at |-> "idle"]
  /\ UNCHANGED <<hid, poller, world>>

\* Motion alone joins the event before it, which the guest has not seen
Compress(prev, curr) ==
  queue' = [queue EXCEPT
    ![prev].motion = [a \in Axes |-> @[a] + queue[curr].motion[a]],
    ![curr].motion = Still]

\* Mutant of SyncStore: the buttons are not carried over to the next slot
SyncStoreBare ==
  /\ reader.at = "sync"
  /\ \E view \in Views(reader.old) :
       LET prev == Slot(view.head, view.n - 1)
           curr == Slot(view.head, view.n)
           next == Slot(view.head, view.n + 1) IN
       IF view.n > 0 /\ queue[curr].buttons = queue[prev].buttons
       THEN Compress(prev, curr) /\ reader' = [at |-> "idle"]
       ELSE /\ queue' = [queue EXCEPT ![next] = Empty]
            /\ reader' = [at |-> "count"]
  /\ UNCHANGED <<head, n, poller, world>>

SyncStore ==
  /\ reader.at = "sync"
  /\ \E view \in Views(reader.old) :
       LET prev == Slot(view.head, view.n - 1)
           curr == Slot(view.head, view.n)
           next == Slot(view.head, view.n + 1) IN
       IF view.n > 0 /\ queue[curr].buttons = queue[prev].buttons
       THEN Compress(prev, curr) /\ reader' = [at |-> "idle"]
       ELSE /\ queue' = [queue EXCEPT ![next] =
                           [motion |-> Still, buttons |-> queue[curr].buttons]]
            /\ reader' = [at |-> "count"]
  /\ UNCHANGED <<head, n, poller, world>>

\* hs->n++ is a load and a store
CountLoad ==
  /\ reader.at = "count"
  /\ reader' = [at |-> "counted", n |-> n]
  /\ UNCHANGED <<hid, poller, world>>

CountStore ==
  /\ reader.at = "counted"
  /\ n' = reader.n + 1
  /\ reader' = [at |-> "idle"]
  /\ UNCHANGED <<queue, head, poller, world>>

-------------------------------------------------------------------------------
(* The emulator: an interrupt IN, a GET_REPORT, a reset                    *)

\* hid_pointer_poll begins with the index of the event to report
PollBegin ==
  /\ poller.at = "idle" /\ Apart
  /\ poller' = [at |-> "poll", old |-> Snapshot]
  /\ UNCHANGED <<hid, reader, world>>

\* An interrupt IN is answered NAK when there is no event
Interrupt == n > 0 /\ PollBegin

\* GET_REPORT polls all the same
GetReport == PollBegin

Clamped(d) == Max({-Clamp, Min({Clamp, d})})

\* hid_pointer_poll takes what fits in a report from the event
Take ==
  /\ poller.at = "poll"
  /\ \E view \in Views(poller.old) :
       LET s == Slot(view.head, IF view.n > 0 THEN 0 ELSE -1)
           was == queue[s].motion
           left == [a \in Axes |-> was[a] - Clamped(was[a])] IN
       /\ queue' = [queue EXCEPT ![s].motion = left]
       /\ got' = [a \in Axes |-> got[a] + Clamped(was[a])]
       /\ poller' = [at |-> IF view.n > 0 /\ left = Still THEN "pop" ELSE "answer",
                     slot |-> s]
  /\ UNCHANGED <<head, n, reader, moved, pressed, seen>>

PopHead ==
  /\ poller.at = "pop"
  /\ head' = Slot(head, 1)
  /\ poller' = [at |-> "load", slot |-> poller.slot]
  /\ UNCHANGED <<queue, n, reader, world>>

PopLoad ==
  /\ poller.at = "load"
  /\ poller' = [at |-> "store", slot |-> poller.slot, n |-> n]
  /\ UNCHANGED <<hid, reader, world>>

PopStore ==
  /\ poller.at = "store"
  /\ n' = poller.n - 1
  /\ poller' = [at |-> "answer", slot |-> poller.slot]
  /\ UNCHANGED <<queue, head, reader, world>>

\* The buttons go into the report last
Answer ==
  /\ poller.at = "answer"
  /\ seen' = queue[poller.slot].buttons
  /\ poller' = [at |-> "idle"]
  /\ UNCHANGED <<hid, reader, moved, pressed, got>>

\* hid_reset clears the slots, then head, then n
ResetQueue ==
  /\ poller.at = "idle" /\ Apart
  /\ queue' = [s \in Slots |-> Empty]
  /\ moved' = Still /\ pressed' = {} /\ got' = Still /\ seen' = {}
  /\ poller' = [at |-> "reset"]
  /\ UNCHANGED <<head, n, reader>>

ResetHead ==
  /\ poller.at = "reset"
  /\ head' = 0
  /\ poller' = [at |-> "headless"]
  /\ UNCHANGED <<queue, n, reader, world>>

ResetCount ==
  /\ poller.at = "headless"
  /\ n' = 0
  /\ poller' = [at |-> "idle"]
  /\ UNCHANGED <<queue, head, reader, world>>

-------------------------------------------------------------------------------
ReaderStep == EventEnd \/ SyncFull \/ SyncStore \/ CountLoad \/ CountStore
PollerStep == Take \/ PopHead \/ PopLoad \/ PopStore \/ Answer \/ ResetHead \/ ResetCount

Next == Move \/ Press \/ SyncBegin \/ ReaderStep \/ Interrupt \/ GetReport \/ ResetQueue \/ PollerStep

Spec == Init /\ [][Next]_vars

\* Threads go on with what they began, and the host controller asks the
\* interrupt endpoint again and again: strong fairness, for the reader may be
\* inside a handler each time the poll would come when handlers stay apart.
FairSpec == Spec /\ WF_vars(ReaderStep) /\ WF_vars(PollerStep) /\ SF_vars(Interrupt)

-------------------------------------------------------------------------------
Motion == [Axes -> Int]

\* The variables stay in their types.
TypeOK ==
  /\ queue \in [Slots -> [motion : Motion, buttons : SUBSET Buttons]]
  /\ head \in Slots /\ n \in 0 .. QUEUE_LENGTH
  /\ moved \in Motion /\ got \in Motion
  /\ pressed \subseteq Buttons /\ seen \subseteq Buttons

Resting == reader.at = "idle" /\ poller.at = "idle"

\* The assert of hid_pointer_event: whatever the threads do, n is below
\* QUEUE_LENGTH when an event comes.
RoomForEvent == reader.at = "idle" => n < QUEUE_LENGTH

\* No motion is lost or told twice, not even when the queue is full, motion
\* is compressed or a report cannot hold all of an event: what the mouse told
\* since the reset is what the guest got and what the slots up to the current
\* one hold.
MotionKept ==
  Resting => \A a \in Axes :
    moved[a] = got[a] + MapThenSumSet(LAMBDA k : queue[Slot(head, k)].motion[a], 0 .. n)

\* "we at least keep track of most recent button state": the slot that the
\* next event will change holds the buttons as they are.
ButtonsTracked == Resting => queue[Slot(head, n)].buttons = pressed

\* While the mouse goes on sending batches, buttons that stay as they are
\* become what the guest sees: a transition is not stuck in the slot behind
\* the queue.
CatchesUp ==
  \A bs \in SUBSET Buttons :
    (<>[](pressed = bs) /\ []<>(reader.at \in {"sync", "full"})) => <>[](seen = bs)
===============================================================================
