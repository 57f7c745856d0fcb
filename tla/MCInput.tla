------------------------------- MODULE MCInput -------------------------------
(*****************************************************************************)
(* The user's input on its way to the guest, one component at a time: HID    *)
(* pointers and keyboards, pads read from evdev, and the forces a game plays *)
(* on a wheel.                                                               *)
(*****************************************************************************)
EXTENDS Integers, Sequences, TLC

CONSTANTS None   \* no device, port or control

VARIABLES
  part,  \* the component that runs; it never changes
  hid_queue, head, n, reader, poller, moved, pressed, got, seen,
  keyboard_queue, modifiers, keys, held, missed,
  mType, opened, mDevices, mWheelData, evdev_queue, pos, reply,
  slot_type, dev, effect, mLastValue, autocenter, mUseRawFF, mFFData,
  writer, written, want, astray

hidVars == <<hid_queue, head, n, reader, poller, moved, pressed, got, seen>>
keyboardVars == <<keyboard_queue, modifiers, keys, held, missed>>
evdevVars == <<mType, opened, mDevices, mWheelData, evdev_queue, pos, reply>>
ffVars == <<slot_type, dev, effect, mLastValue, autocenter, mUseRawFF,
            mFFData, writer, written, want, astray>>
vars == <<part, hidVars, keyboardVars, evdevVars, ffVars>>

-----------------------------------------------------------------------------
\* One axis, one button, a queue of four, steps of one and of two with reports
\* of at most one; events that come one after the other, and that overlap.
Pointer == INSTANCE HidPointer WITH
    QUEUE_LENGTH <- 4, Axes <- {"dx"}, Clamp <- 1, Moves <- {-1, 2},
    MaxMoved <- 1, Buttons <- {"left"}, Overlap <- FALSE, queue <- hid_queue
ASSUME Pointer!HidAssumption

Race == INSTANCE HidPointer WITH
    QUEUE_LENGTH <- 4, Axes <- {"dx"}, Clamp <- 1, Moves <- {-1, 2},
    MaxMoved <- 0, Buttons <- {"left"}, Overlap <- TRUE, queue <- hid_queue
ASSUME Race!HidAssumption

\* Four scan codes in the queue: a Pause and one more; keys that share a code.
Keyboard == INSTANCE HidKeyboard WITH
    QUEUE_LENGTH <- 4, KeySlots <- 1, Keys <- {"LCtrl", "RCtrl", "Pause"},
    queue <- keyboard_queue

\* A wheel with a hat and two buttons, one of them mapped and one guessed by its
\* number, beside a pad with one mapped key; a pair of pedals; a wheel by itself
\* whose queue may overflow.
JOY_STEERING == 16
JOY_THROTTLE == 17
JOY_BRAKE == 18
Range0(a, b, flat, rest) == [min |-> a, max |-> b, flat |-> flat, rest |-> rest]

WheelOne ==
  [abs |-> (0 :> Range0(0, 255, 0, 127) @@ 16 :> Range0(-1, 1, 0, 0) @@ 17 :> Range0(-1, 1, 0, 0)),
   keys |-> {288, 293}, inverted |-> <<TRUE, FALSE, FALSE>>,
   controls |-> (JOY_STEERING :> 0 @@ 2 :> 288)]
Pad ==
  [abs |-> <<>>, keys |-> {28}, inverted |-> <<FALSE, FALSE, FALSE>>, controls |-> (4 :> 28)]
Attached == <<WheelOne, Pad>>
WheelAlone ==
  <<[WheelOne EXCEPT !.keys = {288}, !.inverted = <<FALSE, FALSE, FALSE>>]>>
WheelAloneMoves == <<(0 :> {0, 127, 255} @@ 16 :> {-1} @@ 17 :> {0, 1})>>
PedalsOnly ==
  <<[abs |-> (2 :> Range0(0, 255, 0, 0) @@ 5 :> Range0(0, 1023, 15, 1023)), keys |-> {},
     inverted |-> <<FALSE, FALSE, TRUE>>, controls |-> (JOY_THROTTLE :> 2 @@ JOY_BRAKE :> 5)]>>
PedalMoves == <<(2 :> {0, 127, 200, 255} @@ 5 :> {0, 511, 900, 1023})>>
Moves ==
  <<(0 :> {0, 127, 255} @@ 16 :> {-1, 0, 1} @@ 17 :> {-1, 0, 1}), <<>>>>
Wheel == INSTANCE EvdevPad WITH
    Wheels <- {"WT_GENERIC", "WT_DRIVING_FORCE_PRO", "WT_DRIVING_FORCE_PRO_1102", "WT_GT_FORCE", "WT_BUZZ_CONTROLLER"},
    Positions <- Moves, MaxEvents <- 1, Overflowing <- {},
    queue <- evdev_queue
ASSUME Wheel!EvdevPadConstants

Pedals == INSTANCE EvdevPad WITH
    Wheels <- {"WT_GENERIC", "WT_DRIVING_FORCE_PRO", "WT_DRIVING_FORCE_PRO_1102", "WT_GT_FORCE"},
    Attached <- PedalsOnly, Positions <- PedalMoves, MaxEvents <- 2,
    Overflowing <- {}, queue <- evdev_queue
ASSUME Pedals!EvdevPadConstants

Alone == INSTANCE EvdevPad WITH
    Wheels <- {"WT_GENERIC"}, Attached <- WheelAlone,
    Positions <- WheelAloneMoves, MaxEvents <- 2, Overflowing <- {1},
    queue <- evdev_queue
ASSUME Alone!EvdevPadConstants

\* Forces at the ends and the middle of their ranges.
Constant(a, b, c, d) == [type |-> "CONSTANT", params |-> <<a, b, c, d>>]
SpringForce(type, dead1, dead2, k, s) ==
  [type |-> type, dead1 |-> dead1, dead2 |-> dead2, k1 |-> k, k2 |-> k, s1 |-> s, s2 |-> 0, clip |-> 255]
DamperForce(type, k, clip) == [type |-> type, k1 |-> k, s1 |-> 1, k2 |-> k, s2 |-> 0, clip |-> clip]

Forces ==
  {Constant(0, 127, 128, 255),
   [type |-> "VARIABLE", l1 |-> 200, l2 |-> 20, ramp1 |-> FALSE, ramp2 |-> FALSE],
   SpringForce("SPRING", 100, 155, 7, 1),
   [type |-> "AUTO_CENTER_SPRING", k1 |-> 255, k2 |-> 255, clip |-> 255]}
\* The other kinds, which differ in their numbers only.
OtherForces ==
  {Constant(0, 127, 128, 255), Constant(127, 255, 90, 90), Constant(128, 0, 0, 0), Constant(126, 0, 0, 0),
   Constant(255, 0, 0, 0), SpringForce("SPRING", 0, 255, 0, 0),
   SpringForce("HIGH_RESOLUTION_SPRING", 64, 127, 15, 0), DamperForce("DAMPER", 7, 10),
   [type |-> "FRICTION", k1 |-> 255, k2 |-> 1, s1 |-> 1, s2 |-> 0, clip |-> 255]}
\* Two slots, alone and together.
SlotSets == {{0}, {2}, {0, 2}}
Force == INSTANCE WheelForce WITH
    Supported <- {{"CONSTANT", "SPRING", "DAMPER", "FRICTION"}, {"RUMBLE"}},
    Managed <- BOOLEAN, RawFF <- {FALSE}, MaxRaw <- 1

Kinds == INSTANCE WheelForce WITH
    Forces <- OtherForces, SlotSets <- {{0}},
    Supported <- {{"CONSTANT", "SPRING", "DAMPER", "FRICTION"}, {"RUMBLE"}},
    Managed <- BOOLEAN, RawFF <- {FALSE}, MaxRaw <- 1

\* All four slots at once, and a ramp, which the code does not convert.
WholeForces ==
  {Constant(0, 127, 128, 255), DamperForce("HIGH_RESOLUTION_DAMPER", 15, 200),
   [type |-> "VARIABLE", l1 |-> 200, l2 |-> 20, ramp1 |-> TRUE, ramp2 |-> FALSE]}
Whole == INSTANCE WheelForce WITH
    Forces <- WholeForces, SlotSets <- {{0}, {0, 1, 2, 3}},
    Supported <- {{"CONSTANT", "SPRING", "DAMPER", "FRICTION"}, {"RUMBLE"}},
    Managed <- {FALSE}, RawFF <- {FALSE}, MaxRaw <- 1

-----------------------------------------------------------------------------
Parts == {"pointer", "race", "keyboard", "wheel", "pedals", "alone", "force",
          "kinds", "whole"}
\* The components that do not run stay in one of their initial states.
Init ==
  /\ part \in Parts
  /\ CASE part = "race" -> Race!Init
         [] OTHER -> Pointer!Init
  /\ Keyboard!Init
  /\ CASE part = "pedals" -> Pedals!Init
         [] part = "alone" -> Alone!Init
         [] OTHER -> Wheel!Init /\ (part # "wheel" => mType = "WT_GENERIC")
  /\ CASE part = "kinds" -> Kinds!Init
         [] part = "whole" -> Whole!Init
         [] OTHER -> Force!Init

PointerStep ==
  /\ part = "pointer" /\ Pointer!Next
  /\ UNCHANGED <<part, keyboardVars, evdevVars, ffVars>>
RaceStep ==
  /\ part = "race" /\ Race!Next
  /\ UNCHANGED <<part, keyboardVars, evdevVars, ffVars>>
KeyboardStep ==
  /\ part = "keyboard" /\ Keyboard!Next
  /\ UNCHANGED <<part, hidVars, evdevVars, ffVars>>
WheelStep ==
  /\ part = "wheel" /\ Wheel!Next
  /\ UNCHANGED <<part, hidVars, keyboardVars, ffVars>>
PedalsStep ==
  /\ part = "pedals" /\ Pedals!Next
  /\ UNCHANGED <<part, hidVars, keyboardVars, ffVars>>
AloneStep ==
  /\ part = "alone" /\ Alone!Next
  /\ UNCHANGED <<part, hidVars, keyboardVars, ffVars>>
ForceStep ==
  /\ part = "force" /\ Force!Next
  /\ UNCHANGED <<part, hidVars, keyboardVars, evdevVars>>
KindsStep ==
  /\ part = "kinds" /\ Kinds!Next
  /\ UNCHANGED <<part, hidVars, keyboardVars, evdevVars>>
WholeStep ==
  /\ part = "whole" /\ Whole!Next
  /\ UNCHANGED <<part, hidVars, keyboardVars, evdevVars>>
Next == \/ PointerStep \/ RaceStep \/ KeyboardStep \/ WheelStep \/ PedalsStep
        \/ AloneStep \/ ForceStep \/ KindsStep \/ WholeStep
Spec == Init /\ [][Next]_vars

-----------------------------------------------------------------------------
(* Properties.  Each puts together what the modules of the parts state and explain. *)

\* What a guest sees is what the user holds, whatever came on the way.
\* Pointers: the queue never runs over, no motion is lost or told twice and the
\* slot the next event changes holds the buttons as they are (hid.cpp:120).
\* Keyboards: no key is stuck, confused or reported without being pressed, and
\* no prefix stays without its code (hid.cpp:254).  Pads: buttons, hat,
\* steering and pedals of a report are those held, on whichever of the devices
\* and through every mapping, and an axis nobody touched reads as in its middle
\* (evdev.cpp:405).
ReportsShowInputs ==
  /\ part = "pointer" => /\ Pointer!TypeOK
                         /\ Pointer!RoomForEvent
                         /\ Pointer!MotionKept
                         /\ Pointer!ButtonsTracked
  /\ part = "race" => /\ Race!TypeOK
                      /\ Race!RoomForEvent
  /\ part = "keyboard" => /\ Keyboard!TypeOK
                          /\ Keyboard!KeysAsHeld
                          /\ Keyboard!NoGhostKey
                          /\ Keyboard!PrefixPending
  /\ part = "wheel" => /\ Wheel!TypeOK
                       /\ Wheel!ButtonsShown
                       /\ Wheel!HatShown
                       /\ Wheel!SteeringShown
  /\ part = "pedals" => /\ Pedals!TypeOK
                        /\ Pedals!PedalsShown
  /\ part = "alone" => /\ Alone!TypeOK
                       /\ Alone!SteeringShown
                       /\ Alone!UntouchedAtRest

\* Forces of a wheel, whatever slots the game starts, stops and changes and
\* whatever the device can do: every force the game plays is played, what it
\* stopped does not play on, closing leaves nothing behind, and the centring
\* spring stays within what the user allows (evdev-ff.cpp:132).  The host has
\* one effect of each kind for the four slots, so an effect is left out from
\* when one of the slots that share it is stopped, its slot is given another
\* kind before it is stopped, or its force is none that the code converts, until
\* all its slots are played or stopped together (usb-pad-ff.cpp:136, 208).  And
\* a force reaches the host as the wheel's commands mean it: 127 and 128 are no
\* force, the ends of the range full force either way; and the dead band of a
\* spring reaches from its one end to the other, centre and width in units that
\* fit together (lg_ff.h:22).
ForcesFollow ==
  /\ [](part = "force" => /\ Force!TypeOK
                          /\ Force!NothingLeftPlaying
                          /\ Force!EveryForcePlays
                          /\ Force!NothingAfterClose
                          /\ Force!UsersCentring)
  /\ [](part = "kinds" => /\ Kinds!TypeOK
                          /\ Kinds!NothingLeftPlaying
                          /\ Kinds!EveryForcePlays)
  /\ [](part = "whole" => /\ Whole!TypeOK
                          /\ Whole!NothingLeftPlaying
                          /\ Whole!EveryForcePlays)
  /\ [][part = "kinds" => Kinds!SetsLevel]_ffVars
  /\ [][part = "kinds" => Kinds!SetsDeadBand]_ffVars
=============================================================================
