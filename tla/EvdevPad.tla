------------------------------- MODULE EvdevPad -------------------------------
(***************************************************************************)
(* The Linux input backend of the pads: Open reads which axes and keys of  *)
(* the attached devices the user mapped, TokenIn takes the events of all   *)
(* of them and answers with a report, or with a NAK when there are none.   *)
(*                                                                         *)
(* The kernel keeps one queue of events per open device; when it overflows *)
(* it holds only SYN_DROPPED and the newest event. Event codes are the     *)
(* kernel's numbers. What the user does with a device since it was opened  *)
(* is kept in pos, Untouched for an axis or key that has not moved.        *)
(***************************************************************************)
EXTENDS Descriptors, FiniteSets

-----------------------------------------------------------------------------
(* The state of a wheel, drum kit, buzzer or keyboard as the input backends
   keep it (wheel_data_t), and the eight bytes the game reads of it.  A report
   is the set of the bits that are 1, bit 0 being the lowest of the first byte,
   and a button mask is the set of the buttons held. *)

Generic == "WT_GENERIC"
Pro == "WT_DRIVING_FORCE_PRO"
Pro1102 == "WT_DRIVING_FORCE_PRO_1102"
GtForceWheel == "WT_GT_FORCE"
Drums == "WT_ROCKBAND1_DRUMKIT"
Buzz == "WT_BUZZ_CONTROLLER"
Sega == "WT_SEGA_SEAMIC"
Kbm == "WT_KEYBOARDMANIA_CONTROLLER"
PS2WheelTypes == {Generic, Pro, Pro1102, GtForceWheel, Drums, Buzz, Sega, Kbm}

PAD_CROSS == 0
PAD_SQUARE == 1
PAD_CIRCLE == 2
PAD_TRIANGLE == 3
PAD_R1 == 4
PAD_L1 == 5
PAD_BUTTON_COUNT == 14

PAD_HAT_N == 0
PAD_HAT_E == 2
PAD_HAT_S == 4
PAD_HAT_W == 6
PAD_HAT_COUNT == 8
Hats == 0..PAD_HAT_COUNT

\* How far the wheel of a type turns.
range_max(type) ==
  CASE type \in {Pro, Pro1102} -> 16383
    [] type = Sega -> 255
    [] OTHER -> 1023

\* The button of the GT Force that a Driving Force Pro button becomes, the others
\* becoming PAD_BUTTON_COUNT, which is no button.
convert_wt_btn(type, button) ==
  IF type # GtForceWheel THEN button
  ELSE CASE button = PAD_L1 -> PAD_CROSS
         [] button = PAD_R1 -> PAD_SQUARE
         [] button = PAD_SQUARE -> PAD_CIRCLE
         [] button = PAD_TRIANGLE -> PAD_TRIANGLE
         [] button = PAD_CIRCLE -> PAD_L1
         [] button = PAD_CROSS -> PAD_R1
         [] OTHER -> PAD_BUTTON_COUNT

\* The compass point of a hat whose two axes are read apart.
HatOf(horz, vert) ==
  CASE vert = PAD_HAT_N -> CASE horz = PAD_HAT_W -> 7 [] horz = PAD_HAT_E -> 1 [] OTHER -> PAD_HAT_N
    [] vert = PAD_HAT_S -> CASE horz = PAD_HAT_W -> 5 [] horz = PAD_HAT_E -> 3 [] OTHER -> PAD_HAT_S
    [] OTHER -> horz

\* The lowest width bits of n, and the buttons below width, written from bit at on.
Bits(n, width, at) == {at + i : i \in {j \in 0..(width - 1) : (n \div 2^j) % 2 = 1}}
Held(buttons, width, at) == {at + b : b \in buttons \cap (0..(width - 1))}

pad_copy_data(type, data) ==
  CASE type = Generic ->
         Bits(data.steering, 10, 0) \cup Held(data.buttons, 12, 10) \cup (24..31)
           \cup Bits(data.hatswitch, 4, 32) \cup Bits(data.throttle, 8, 40) \cup Bits(data.brake, 8, 48)
    [] type = GtForceWheel ->
         Bits(data.steering, 10, 0) \cup Held(data.buttons, 12, 10) \cup (24..31)
           \cup Bits(data.throttle, 8, 32) \cup Bits(data.brake, 8, 40)
    [] type = Pro ->
         Bits(data.steering, 14, 0) \cup Held(data.buttons, 14, 14) \cup Bits(data.hatswitch, 4, 28)
           \cup Bits(data.throttle, 8, 40) \cup Bits(data.brake, 8, 48) \cup {56, 60}
    [] type = Pro1102 ->
         Bits(data.steering, 14, 0) \cup Held(data.buttons, 14, 14) \cup Bits(data.hatswitch, 4, 28)
           \cup {42} \cup Bits((data.throttle * 63) \div 255, 6, 42)
           \cup {48} \cup Bits(63 - (data.brake * 63) \div 255, 6, 49) \cup {55, 56, 60}
    [] type = Drums ->
         Held(data.buttons, 12, 0) \cup Bits(data.hatswitch, 4, 16)
    [] type = Buzz ->
         Bits(127, 8, 0) \cup Bits(127, 8, 8) \cup Held(data.buttons, 20, 16) \cup (36..39)
    [] type = Sega ->
         Bits(data.steering, 8, 0) \cup Bits(data.throttle, 8, 8) \cup Bits(data.brake, 8, 16)
           \cup Bits(data.hatswitch, 4, 24) \cup Held(data.buttons, 10, 28)
    [] type = Kbm ->
         Bits(63, 8, 0) \cup Held(data.buttons, 32, 8)

\* What a game that goes by the report descriptor reads: the fields of the type's
\* reports, and the bits and the number in the i-th of them.
FieldsOf(type) ==
  CASE type = Generic -> DrivingForceSeparate.in
    [] type \in {Pro, Pro1102} -> DrivingForcePro.in
    [] type = GtForceWheel -> GtForce.in
    [] type = Drums -> RockBandDrums.in
    [] type = Buzz -> BuzzButtons.in
    [] type = Sega -> Seamic.in
    [] type = Kbm -> Keyboardmania.in
FieldBits(type, i, report) ==
  LET at == At(FieldsOf(type), i) IN
    {b \in 0..(FieldsOf(type)[i].bits - 1) : at + b \in report}
Number(bits) == MapThenSumSet(LAMBDA b : 2^b, bits)
IndexOf(type, usage) ==
  CHOOSE i \in DOMAIN FieldsOf(type) : FieldsOf(type)[i].usage = usage
HasField(type, usage) == \E i \in DOMAIN FieldsOf(type) : FieldsOf(type)[i].usage = usage
Read(type, usage, report) == Number(FieldBits(type, IndexOf(type, usage), report))
Pressed(type, report) == FieldBits(type, IndexOf(type, "Buttons"), report)

-----------------------------------------------------------------------------
(* The backend *)

CONSTANTS
  Wheels,       \* the types of pad the port may be
  Attached,     \* the devices: the range of each axis, the keys, and the user's mapping
  Positions,    \* the positions of an axis that are tried
  MaxEvents,    \* how many events the kernel keeps for a device
  Overflowing   \* the devices whose queue may overflow

EvdevPadConstants == Wheels \subseteq PS2WheelTypes

VARIABLES mType, opened, mDevices, mWheelData, queue, pos, reply
vars == <<mType, opened, mDevices, mWheelData, queue, pos, reply>>

BTN_TRIGGER == 288
BTN_BASE5 == 298
Hat0X == 16
Hat3Y == 23

JOY_L3 == 11
JOY_STEERING == 16
JOY_THROTTLE == 17
JOY_BRAKE == 18
JOY_MAPS_COUNT == 19

Unmapped == -1
Untouched == 1000000
EV_ABS == 3
EV_KEY == 1
EV_SYN == 0

\* Values of an axis brought to the range of 16 bits.
CalcAxisCorr(info) ==
  LET t == info.max - info.min - 4 * info.flat IN
    [used |-> info.min # info.max,
     below |-> info.max + info.min - 2 * info.flat,
     above |-> info.max + info.min + 2 * info.flat,
     scale |-> IF t # 0 THEN 2^28 \div t ELSE 0]
Clamp(value) == IF value < -32768 THEN -32768 ELSE IF value > 32767 THEN 32767 ELSE value
AxisCorrect(correct, value) ==
  IF ~correct.used THEN Clamp(value)
  ELSE LET twice == 2 * value IN
    IF twice > correct.below
      THEN IF twice < correct.above THEN 0
           ELSE Clamp(((twice - correct.above) * correct.scale) \div 2^13)
      ELSE Clamp(((twice - correct.below) * correct.scale) \div 2^13)

\* A 16 bit value as one of 0..n, of its whole range and of half of it.
NORM(x, n) == ((32768 + x) * n) \div 65535
NORM2(x, n) == ((32768 + x) * n) \div 32767

\* The entries of the mapping that are buttons come first; a buzzer has twenty of them.
max_buttons(type) == IF type = Buzz THEN 20 ELSE JOY_STEERING

Latest(ks) == CHOOSE k \in ks : \A j \in ks : j <= k
MappedAs(type, d, code, ks) == {k \in ks \cap DOMAIN Attached[d].controls : Attached[d].controls[k] = code}
AxisNames(type) == max_buttons(type)..(JOY_MAPS_COUNT - 1)
ButtonNames(type) == 0..(max_buttons(type) - 1)

\* What an axis does: the name the user gave it, for a hat its own number.
axis_map(type, d, i) ==
  LET names == MappedAs(type, d, i, AxisNames(type)) IN
    CASE i \in DOMAIN Attached[d].abs /\ names # {} -> 128 + Latest(names)
      [] i \in Hat0X..Hat3Y -> i
      [] OTHER -> Unmapped

btn_map(type, d, i) ==
  LET names == MappedAs(type, d, i, ButtonNames(type)) IN
    IF i \in Attached[d].keys /\ names # {} THEN 32768 + Latest(names) ELSE Unmapped

has_mappings(type, d) ==
  \/ \E i \in DOMAIN Attached[d].abs : MappedAs(type, d, i, AxisNames(type)) # {}
  \/ \E i \in Attached[d].keys : MappedAs(type, d, i, ButtonNames(type)) # {}

Zero == [steering |-> 0, buttons |-> {}, hatswitch |-> 0, hat_horz |-> 0, hat_vert |-> 0,
         throttle |-> 0, brake |-> 0]
Unpressed == [steering |-> 1023 \div 2, buttons |-> {}, hatswitch |-> 8, hat_horz |-> 8, hat_vert |-> 8,
              throttle |-> 255, brake |-> 255]

Hat(value, back, forth) == IF value < 0 THEN back ELSE IF value > 0 THEN forth ELSE PAD_HAT_COUNT

Turned(n, range, inverted) == IF inverted THEN range - n ELSE n

SetAxis(data, d, i, value) ==
  LET code == axis_map(mType, d, i)
      cfg == Attached[d].inverted
  IN CASE code \in {0, 128 + JOY_STEERING} ->
            [data EXCEPT !.steering = Turned(NORM(value, range_max(mType)), range_max(mType), cfg[1])]
       [] code = 4 ->
            [data EXCEPT !.throttle = IF value < 0 THEN NORM2(value, 255) ELSE 255,
                         !.brake = IF value < 0 THEN 255 ELSE NORM2(-value, 255)]
       [] code \in {2, 128 + JOY_THROTTLE} ->
            [data EXCEPT !.throttle = Turned(NORM(value, 255), 255, ~cfg[2])]
       [] code \in {5, 128 + JOY_BRAKE} ->
            [data EXCEPT !.brake = Turned(NORM(value, 255), 255, ~cfg[3])]
       [] code \in Hat0X..Hat3Y /\ code % 2 = 0 ->
            [data EXCEPT !.hat_horz = Hat(value, PAD_HAT_W, PAD_HAT_E)]
       [] code \in Hat0X..Hat3Y /\ code % 2 = 1 ->
            [data EXCEPT !.hat_vert = Hat(value, PAD_HAT_N, PAD_HAT_S)]
       [] OTHER -> data

Corrected(d, i, value) == AxisCorrect(CalcAxisCorr(Attached[d].abs[i]), value)

\* What the kernel says of an axis: where it is, and 0 of one the device has not.
Asked(d, i) ==
  IF i \notin DOMAIN Attached[d].abs THEN 0
  ELSE Corrected(d, i, IF pos[d].abs[i] = Untouched THEN Attached[d].abs[i].rest ELSE pos[d].abs[i])

\* An axis that is neither the device's nor a hat's is mapped to nothing.
PollAxesValues(data, d) ==
  FoldLeft(LAMBDA w, i : SetAxis(w, d, i, Asked(d, i)), data,
           SelectSeq([i \in 1..63 |-> i - 1], LAMBDA i : i \in Hat0X..Hat3Y \/ i \in DOMAIN Attached[d].abs))

\* The button an event's key stands for: the one the user gave it, else a guess by its
\* number among the joystick's buttons.
ButtonOf(d, code) ==
  LET mapped == btn_map(mType, d, code) IN
    IF mType = Buzz THEN (IF mapped = Unmapped THEN Unmapped ELSE mapped - 32768)
    ELSE convert_wt_btn(mType,
           CASE mapped \in 32768..(32768 + JOY_L3) -> mapped - 32768
             [] mapped = Unmapped /\ code >= BTN_TRIGGER /\ code < BTN_BASE5 -> code - BTN_TRIGGER
             [] OTHER -> PAD_BUTTON_COUNT)

Key(data, d, code, value) ==
  [data EXCEPT !.buttons = IF value # 0 THEN @ \cup ({ButtonOf(d, code)} \ {Unmapped})
                           ELSE @ \ {ButtonOf(d, code)}]

Handle(data, d, event) ==
  CASE event.type = EV_ABS ->
         IF mType = Buzz THEN data
         ELSE SetAxis(data, d, event.code, Corrected(d, event.code, event.value))
    [] event.type = EV_KEY -> Key(data, d, event.code, event.value)
    [] event.type = EV_SYN -> PollAxesValues(Zero, d)

Still(d) == [abs |-> [i \in DOMAIN Attached[d].abs |-> Untouched],
             keys |-> [i \in Attached[d].keys |-> Untouched]]

Init ==
  /\ mType \in Wheels
  /\ opened = FALSE
  /\ mDevices = <<>>
  /\ mWheelData = Zero
  /\ queue = [d \in DOMAIN Attached |-> <<>>]
  /\ pos = [d \in DOMAIN Attached |-> Still(d)]
  /\ reply = "none"

Open ==
  /\ ~opened
  /\ opened' = TRUE
  /\ mWheelData' = Unpressed
  /\ mDevices' = SelectSeq([d \in DOMAIN Attached |-> d], LAMBDA d : has_mappings(mType, d))
  /\ reply' = "none"
  /\ UNCHANGED <<mType, queue, pos>>

Close ==
  /\ opened
  /\ opened' = FALSE
  /\ mDevices' = <<>>
  /\ queue' = [d \in DOMAIN Attached |-> <<>>]
  /\ pos' = [d \in DOMAIN Attached |-> Still(d)]
  /\ reply' = "none"
  /\ UNCHANGED <<mType, mWheelData>>

\* The user moves an axis or a key of an open device.
Queued(d, event) ==
  /\ d \in ToSet(mDevices)
  /\ \/ Len(queue[d]) < MaxEvents /\ queue' = [queue EXCEPT ![d] = Append(@, event)]
     \/ /\ Len(queue[d]) = MaxEvents /\ d \in Overflowing
        /\ queue' = [queue EXCEPT ![d] = <<[type |-> EV_SYN, code |-> 3, value |-> 0], event>>]
  /\ reply' = "none"
  /\ UNCHANGED <<mType, opened, mDevices, mWheelData>>

Move(d, i, value) ==
  /\ pos[d].abs[i] # value
  /\ pos' = [pos EXCEPT ![d].abs[i] = value]
  /\ Queued(d, [type |-> EV_ABS, code |-> i, value |-> value])

Press(d, i, value) ==
  /\ pos[d].keys[i] # value
  /\ pos' = [pos EXCEPT ![d].keys[i] = value]
  /\ Queued(d, [type |-> EV_KEY, code |-> i, value |-> value])

\* The events of every device, in the order the devices were opened.
Take(data) ==
  FoldLeft(LAMBDA w, d : FoldLeft(LAMBDA v, e : Handle(v, d, e), w, queue[d]), data, mDevices)

TokenIn ==
  IF \A d \in ToSet(mDevices) : queue[d] = <<>>
    THEN reply' = "NAK" /\ UNCHANGED <<mType, opened, mDevices, mWheelData, queue, pos>>
    ELSE LET taken == Take(mWheelData)
             data == [taken EXCEPT !.hatswitch = HatOf(taken.hat_horz, taken.hat_vert)]
         IN /\ mWheelData' = data
            /\ queue' = [d \in DOMAIN Attached |-> IF d \in ToSet(mDevices) THEN <<>> ELSE queue[d]]
            /\ reply' = "report"
            /\ UNCHANGED <<mType, opened, mDevices, pos>>

Next ==
  \/ Open
  \/ Close
  \/ \E d \in DOMAIN Attached :
       \/ \E i \in DOMAIN Attached[d].abs : \E p \in Positions[d][i] : Move(d, i, p)
       \/ \E i \in Attached[d].keys, v \in {0, 1} : Press(d, i, v)
  \/ TokenIn

Spec == Init /\ [][Next]_vars

-----------------------------------------------------------------------------
\* Types.
TypeOK ==
  /\ mType \in Wheels /\ opened \in BOOLEAN
  /\ ToSet(mDevices) \subseteq DOMAIN Attached
  /\ mWheelData.steering \in 0..range_max(mType) \cup {511}
  /\ mWheelData.throttle \in 0..255 /\ mWheelData.brake \in 0..255
  /\ mWheelData.buttons \subseteq 0..31
  /\ {mWheelData.hatswitch, mWheelData.hat_horz, mWheelData.hat_vert} \subseteq Hats
  /\ \A d \in DOMAIN Attached : Len(queue[d]) <= MaxEvents \/ Len(queue[d]) = 2
  /\ reply \in {"none", "NAK", "report"}

\* What a report says, and the positions of the axis and of the keys a name is mapped to.
report == pad_copy_data(mType, mWheelData)
Answered == reply = "report"
Mapped(name) ==
  {<<d, i>> \in {<<e, j>> : e \in ToSet(mDevices), j \in 0..63} :
     /\ i \in DOMAIN Attached[d].abs
     /\ name \in DOMAIN Attached[d].controls /\ Attached[d].controls[name] = i}
Down(d) == {i \in Attached[d].keys : pos[d].keys[i] = 1}

\* The button a pressed key is meant to be, its mapping first.
Meant(d, i) ==
  LET ks == {k \in DOMAIN Attached[d].controls : Attached[d].controls[k] = i} IN
    IF ks # {} THEN ks ELSE IF mType # Buzz /\ i \in BTN_TRIGGER..(BTN_BASE5 - 1) THEN {i - BTN_TRIGGER} ELSE {}

\* The six buttons of the GT Force, each with the Driving Force Pro button that is one.
GtForceButtons == {<<5, 0>>, <<4, 1>>, <<1, 2>>, <<3, 3>>, <<2, 5>>, <<0, 4>>}

\* The buttons a game sees in a report are those the user holds down, on whichever of the
\* devices, as far as the wheel has them: nothing is lost, added or moved on the way through
\* the mapping, the conversion to the wheel's own buttons and the bits of the report.
ButtonsShown ==
  Answered =>
    LET meant == UNION {UNION {Meant(d, i) : i \in Down(d)} : d \in ToSet(mDevices)} IN
      Pressed(mType, report) =
        IF mType = GtForceWheel THEN {b[2] : b \in {c \in GtForceButtons : c[1] \in meant}}
        ELSE IF mType = Buzz THEN meant ELSE meant \cap (0..JOY_L3)

Compass == <<<<0, -1>>, <<1, -1>>, <<1, 0>>, <<1, 1>>, <<0, 1>>, <<-1, 1>>, <<-1, 0>>, <<-1, -1>>>>

\* The hat of a report points where the two axes of the hat point, and nowhere when both
\* are in the middle.
HatShown ==
  \A d \in ToSet(mDevices) :
    Answered /\ {16, 17} \subseteq DOMAIN Attached[d].abs /\ HasField(mType, "Hat") /\ mType # Buzz =>
      LET At0(i) == IF pos[d].abs[i] = Untouched THEN 0 ELSE pos[d].abs[i]
          hat == Read(mType, "Hat", report)
      IN IF At0(16) = 0 /\ At0(17) = 0 THEN hat = 8 ELSE hat \in 0..7 /\ Compass[hat + 1] = <<At0(16), At0(17)>>

InMiddle(x, range) == 49 * range <= 100 * x /\ 100 * x <= 51 * range

\* A wheel at one end reads 0, at the other the whole range of the type, and in the middle
\* half of it, the ends changed over when the user inverted the axis.
SteeringShown ==
  \A m \in Mapped(JOY_STEERING) :
    LET info == Attached[m[1]].abs[m[2]]
        p == pos[m[1]].abs[m[2]]
        range == range_max(mType)
        x == Read(mType, "X", report)
        inverted == Attached[m[1]].inverted[1]
    IN Answered /\ mType \in {Generic, Pro, Pro1102, GtForceWheel} =>
         /\ p = info.min => x = IF inverted THEN range ELSE 0
         /\ p = info.max => x = IF inverted THEN 0 ELSE range
         /\ p = (info.min + info.max) \div 2 => InMiddle(x, range)

\* The two pedals as a report has them, 0 pressed and full let go: eight bits each, on the
\* buggy Pro six of them, the throttle never 0 and the brake counted the other way.
Pedals ==
  CASE mType \in {Generic, Pro} -> <<Read(mType, "Y", report), Read(mType, "Rz", report)>>
    [] mType = Pro1102 -> <<Read(mType, "Y", report) \div 4, 63 - (Read(mType, "Rz", report) % 128) \div 2>>
    [] mType = GtForceWheel ->
         <<Read(mType, "Pedals", report) % 256, Read(mType, "Pedals", report) \div 256>>

\* A pedal at one end of its axis reads full, at the other 0, changed over when inverted,
\* and its report does not move the other pedal.
PedalsShown ==
  \A k \in {1, 2} : \A m \in Mapped(JOY_STEERING + k) :
    LET info == Attached[m[1]].abs[m[2]]
        p == pos[m[1]].abs[m[2]]
        full == IF mType = Pro1102 THEN 63 ELSE 255
        none == IF mType = Pro1102 /\ k = 1 THEN 1 ELSE 0
        inverted == Attached[m[1]].inverted[k + 1]
    IN Answered =>
         /\ p = info.min => Pedals[k] = IF inverted THEN none ELSE full
         /\ p = info.max => Pedals[k] = IF inverted THEN full ELSE none
         /\ p = Untouched => Pedals[k] = full

\* After Open, "Setting to unpressed", an axis nobody has touched reads as one that is in
\* its middle.
UntouchedAtRest ==
  \A m \in Mapped(JOY_STEERING) :
    Answered /\ pos[m[1]].abs[m[2]] = Untouched /\ mType \in {Generic, Pro, Pro1102, GtForceWheel} =>
      LET x == Read(mType, "X", report) IN InMiddle(x, range_max(mType))

===============================================================================
