------------------------------ MODULE WheelForce ------------------------------
(***************************************************************************)
(* Force feedback of the wheels on Linux. The game downloads forces into   *)
(* the four slots of a Logitech wheel, plays and stops them; ParseFFData   *)
(* turns the commands into effects of the host's input device, one effect  *)
(* per kind of force, not per slot. When commands are passed through raw   *)
(* they are queued for a thread that writes them to the wheel.             *)
(*                                                                         *)
(* want is what the game has playing in each slot, and astray the effects  *)
(* that the host cannot follow, having one of each kind for four slots; the *)
(* other variables are the program's and the kernel's.                     *)
(***************************************************************************)
EXTENDS Integers, FiniteSets, Sequences, SequencesExt

CONSTANTS
  Forces,       \* the forces the game downloads
  SlotSets,     \* the sets of slots it names in a command
  Supported,    \* the effects the device supports, one of these sets
  Managed,      \* whether the game manages the centring spring, one of these
  RawFF,        \* whether commands are passed through, one of these
  MaxRaw        \* how many commands the game queues for the wheel

VARIABLES slot_type, dev, effect, mLastValue, autocenter, mUseRawFF, mFFData, writer, written,
          want, astray
ff == <<slot_type, dev, effect, mLastValue, autocenter>>
raw == <<mUseRawFF, mFFData, writer, written>>
vars == <<slot_type, dev, effect, mLastValue, autocenter, mUseRawFF, mFFData, writer, written,
          want, astray>>

Slots == 0..3
Effects == {"CONSTANT", "SPRING", "DAMPER", "FRICTION", "RUMBLE"}
mHidHandle == -1

\* What a force becomes on the host.
EffectOf(type) ==
  CASE type \in {"CONSTANT", "VARIABLE"} -> "CONSTANT"
    [] type \in {"SPRING", "HIGH_RESOLUTION_SPRING"} -> "SPRING"
    [] type \in {"DAMPER", "HIGH_RESOLUTION_DAMPER"} -> "DAMPER"
    [] type = "FRICTION" -> "FRICTION"
    [] OTHER -> "none"

\* C's division, towards zero, and the low bits of a number.
Quot(a, b) == IF a >= 0 THEN a \div b ELSE -((-a) \div b)
u8(n) == n % 256
u16(n) == n % 65536
s16(n) == IF u16(n) < 32768 THEN u16(n) ELSE u16(n) - 65536

ff_lg_u8_to_s16(c) == Quot(((IF c < 128 THEN c + 1 ELSE c) - 128) * 32767, 127)

ff_lg_u8_to_u16(c) == (c * 65535) \div 255
ff_lg_u16_to_s16(n) == IF n < 32768 THEN n - 32767 ELSE n - 32768

OldCoefs == <<<<1, 16>>, <<1, 8>>, <<3, 16>>, <<1, 4>>, <<3, 8>>, <<3, 4>>, <<2, 4>>, <<4, 4>>>>
Coefs == <<<<1, 16>>, <<1, 8>>, <<3, 16>>, <<1, 4>>, <<3, 8>>, <<2, 4>>, <<3, 4>>, <<4, 4>>>>

\* A selector k as a fraction; the tables have eight entries.
ff_lg_get_force_coefficient(caps, k) ==
  CASE "HIGH_RES_COEF" \in caps -> <<k, 15>>
    [] "OLD_LOW_RES_COEF" \in caps -> OldCoefs[k + 1]
    [] OTHER -> Coefs[k + 1]
ff_lg_get_condition_coef(caps, k, s) ==
  LET coef == ff_lg_get_force_coefficient(caps, k) IN
    s16(Quot((IF s # 0 THEN -32767 ELSE 32767) * coef[1], coef[2]))
ff_lg_get_spring_deadband(d, dL) == u16(((d * 8 + dL) * 65535) \div 2047)
ff_lg_get_damper_clip(caps, clip) ==
  IF "DAMPER_CLIP" \in caps THEN u16((clip * 65535) \div 255) ELSE 65535

Condition(left, right, saturation, center, deadband) ==
  [left_coeff |-> left, right_coeff |-> right, saturation |-> saturation,
   center |-> center, deadband |-> deadband]

\* The effect of a spring: its dead band between dead1 and dead2, with three more bits of
\* each in high resolution.
Spring(f, caps) ==
  LET d1 == ff_lg_get_spring_deadband(f.dead1, (f.s1 \div 2) % 8)
      d2 == ff_lg_get_spring_deadband(f.dead2, (f.s2 \div 2) % 8)
      high == "HIGH_RES_DEADBAND" \in caps
  IN Condition(ff_lg_get_condition_coef(caps, f.k1, f.s1), ff_lg_get_condition_coef(caps, f.k2, f.s2),
       ff_lg_u8_to_u16(f.clip),
       IF high THEN ff_lg_u16_to_s16((d1 + d2) \div 2) ELSE ff_lg_u8_to_s16((f.dead1 + f.dead2) \div 2),
       IF high THEN d2 - d1 ELSE ff_lg_u8_to_u16(u8(f.dead2 - f.dead1)))
Damper(f, caps) ==
  Condition(ff_lg_get_condition_coef(caps, f.k1, f.s1), ff_lg_get_condition_coef(caps, f.k2, f.s2),
    ff_lg_get_damper_clip(caps, f.clip), 0, 0)
Friction(f) ==
  Condition(Quot(f.k1 * 32767, 255) * (IF f.s1 % 2 = 1 THEN -1 ELSE 1),
    Quot(f.k2 * 32767, 255) * (IF f.s2 % 2 = 1 THEN -1 ELSE 1), (32767 * f.clip) \div 255, 0, 0)

\* The force of all four slots together.
Sum(params) ==
  FoldLeft(LAMBDA force, c :
             LET t == IF c < 128 THEN c + 1 ELSE c
                 n == force + t - 128
             IN IF n < -128 THEN -128 ELSE IF n > 127 THEN 127 ELSE n,
           0, params)

\* The level a constant or variable force plays at, if it plays.
Level(f, slots) ==
  CASE f.type = "CONSTANT" /\ slots = Slots -> <<ff_lg_u8_to_s16(128 + Sum(f.params))>>
    [] f.type = "CONSTANT" /\ Cardinality(slots) = 1 ->
         <<ff_lg_u8_to_s16(f.params[1 + CHOOSE i \in slots : TRUE])>>
    [] f.type = "VARIABLE" /\ 0 \in slots /\ ~f.ramp1 -> <<ff_lg_u8_to_s16(f.l1)>>
    [] f.type = "VARIABLE" /\ 0 \notin slots /\ 2 \in slots /\ ~f.ramp2 -> <<ff_lg_u8_to_s16(f.l2)>>
    [] OTHER -> <<>>

Abs(n) == IF n < 0 THEN -n ELSE n
Off == [state |-> "off", of |-> <<>>]

mUseRumble == "CONSTANT" \notin dev.supported /\ "RUMBLE" \in dev.supported

\* An effect is uploaded, in place of the one of its kind, and played, if the device
\* supports its kind.
Upload(e, of) ==
  effect' = IF e \in dev.supported THEN [effect EXCEPT ![e] = [state |-> "on", of |-> of]] ELSE effect

SetSpringForce(of) == Upload("SPRING", <<of>>) /\ UNCHANGED <<mLastValue, autocenter>>
SetDamperForce(of) == Upload("DAMPER", <<of>>) /\ UNCHANGED <<mLastValue, autocenter>>
SetFrictionForce(of) == Upload("FRICTION", <<of>>) /\ UNCHANGED <<mLastValue, autocenter>>

SetConstantForce(level) ==
  IF ~mUseRumble
    THEN Upload("CONSTANT", <<level>>) /\ UNCHANGED mLastValue
    ELSE LET mag == Abs(level)
             diff == Abs(mag - mLastValue)
         IN /\ mLastValue' = mag
            /\ Upload("RUMBLE", <<IF diff > 8292 /\ diff < 32767 THEN mag ELSE 0,
                                  IF diff >= 8192 THEN mag ELSE 0>>)

SetAutoCenter(percent) ==
  autocenter' = IF dev.managed THEN (percent * dev.strength) \div 100 ELSE autocenter

\* A download changes what the slots hold; with play, the host plays it.
Play(f, slots) ==
  LET isDFP == dev.pro
      level == Level(f, slots)
  IN CASE f.type \in {"CONSTANT", "VARIABLE"} ->
            /\ IF level = <<>> THEN UNCHANGED <<effect, mLastValue>> ELSE SetConstantForce(level[1])
            /\ UNCHANGED autocenter
       [] f.type = "SPRING" -> SetSpringForce(Spring(f, IF isDFP THEN {} ELSE {"OLD_LOW_RES_COEF"}))
       [] f.type = "HIGH_RESOLUTION_SPRING" -> SetSpringForce(Spring(f, {"HIGH_RES_COEF", "HIGH_RES_DEADBAND"}))
       [] f.type = "FRICTION" -> SetFrictionForce(Friction(f))
       [] f.type = "DAMPER" -> SetDamperForce(Damper(f, {}))
       [] f.type = "HIGH_RESOLUTION_DAMPER" ->
            SetDamperForce(Damper(f, {"HIGH_RES_COEF"} \cup IF isDFP THEN {"DAMPER_CLIP"} ELSE {}))
       [] f.type = "AUTO_CENTER_SPRING" ->
            SetAutoCenter((((f.k1 * f.clip) \div 255) * 100) \div 255) /\ UNCHANGED <<effect, mLastValue>>

\* Mutant of Disable: a force that stops keeps playing on the host.
DisableSpringOnly(slots) ==
  effect' = [e \in Effects |->
    IF e = "SPRING" /\ \E i \in slots : EffectOf(slot_type[i]) = e THEN Off ELSE effect[e]]

\* Stopping slots stops the effects of the forces they hold; a device that rumbles
\* instead of a constant force has no such effect to stop.
Disable(slots) ==
  effect' = [e \in Effects |->
    IF \E i \in slots : EffectOf(slot_type[i]) = e THEN Off ELSE effect[e]]

-----------------------------------------------------------------------------
Init ==
  /\ slot_type = [i \in Slots |-> "CONSTANT"]
  /\ dev = [open |-> FALSE, supported |-> {}, managed |-> FALSE, pro |-> FALSE, strength |-> 0]
  /\ effect = [e \in Effects |-> Off]
  /\ mLastValue = 0
  /\ autocenter = 0
  /\ mUseRawFF = FALSE
  /\ mFFData = 0
  /\ writer = "none"
  /\ written = 0
  /\ want = [i \in Slots |-> "none"]
  /\ astray = {}

\* The wheel is opened: for itself, or for the raw commands of the game and a thread to
\* write them. The user's strength of the centring spring is the game's most, or its own.
Open ==
  /\ ~dev.open /\ writer # "starts"
  /\ \E r \in RawFF, s \in Supported, m \in Managed, pro \in BOOLEAN, strength \in {50, 100} :
       /\ mUseRawFF' = r
       /\ dev' = [open |-> TRUE, supported |-> s, managed |-> m, pro |-> pro, strength |-> strength]
       /\ autocenter' = IF r THEN autocenter ELSE IF m THEN 0 ELSE strength
       /\ writer' = IF r /\ writer = "none" THEN "starts" ELSE writer
  /\ mLastValue' = 0
  /\ UNCHANGED <<slot_type, effect, mFFData, written, want, astray>>

\* The destructor of the force feedback device removes every effect uploaded.
Close ==
  /\ dev.open
  /\ dev' = [dev EXCEPT !.open = FALSE]
  /\ effect' = [e \in Effects |-> Off]
  /\ want' = [i \in Slots |-> "none"] /\ astray' = {}
  /\ UNCHANGED <<slot_type, mLastValue, autocenter, mUseRawFF, mFFData, writer, written>>

\* The slots that play an effect, and what they play that another kind of force
\* replaces while it plays: nobody stops that, and a Stop stops what came instead.
Users(e) == {i \in Slots : want[i] # "none" /\ EffectOf(want[i]) = e}
Replaced(f, slots) ==
  {e \in Effects : e # EffectOf(f.type) /\ Users(e) \cap slots # {}}
\* The code plays no constant force of two or three slots, and no ramp.
Converted(f, slots) == EffectOf(f.type) = "CONSTANT" => Level(f, slots) # <<>>

\* A command of the game when the wheel is not passed through.
Parsed == dev.open /\ ~mUseRawFF

Download(f, slots) ==
  /\ Parsed
  /\ slot_type' = [i \in Slots |-> IF i \in slots THEN f.type ELSE slot_type[i]]
  /\ astray' = astray \cup Replaced(f, slots)
  /\ UNCHANGED <<dev, effect, mLastValue, autocenter, raw, want>>

DownloadAndPlay(f, slots) ==
  /\ Parsed
  /\ slot_type' = [i \in Slots |-> IF i \in slots THEN f.type ELSE slot_type[i]]
  /\ Play(f, slots)
  /\ want' = [i \in Slots |-> IF i \in slots THEN f.type ELSE want[i]]
  /\ LET e == EffectOf(f.type)
         anew == {x \in {e} : Converted(f, slots) /\ Users(e) \subseteq slots}
         never == {x \in {e} : ~Converted(f, slots)}
     IN astray' = ((astray \cup Replaced(f, slots)) \ anew) \cup never
  /\ UNCHANGED <<dev, raw>>

\* Stopping one slot of several stops the effect that they share.
Stop(slots) ==
  /\ Parsed
  /\ Disable(slots)
  /\ IF \E i \in slots : slot_type[i] = "AUTO_CENTER_SPRING"
       THEN SetAutoCenter(0) ELSE UNCHANGED autocenter
  /\ want' = [i \in Slots |-> IF i \in slots THEN "none" ELSE want[i]]
  /\ LET stopped == {e \in Effects : \E i \in slots : EffectOf(slot_type[i]) = e}
         shared == {e \in stopped : ~(Users(e) \subseteq slots)}
     IN astray' = (astray \ stopped) \cup shared
  /\ UNCHANGED <<slot_type, dev, mLastValue, raw>>

\* "Just release force": a constant force of 127, over any that plays.
DefaultSpringOff ==
  /\ Parsed
  /\ SetConstantForce(ff_lg_u8_to_s16(127))
  /\ astray' = IF Users("CONSTANT") = {} THEN astray ELSE astray \cup {"CONSTANT"}
  /\ UNCHANGED <<slot_type, dev, autocenter, raw, want>>

\* A command that is passed through is queued; there are none of the modes and extended
\* commands the code drops.
TokenOutRaw ==
  /\ dev.open /\ mUseRawFF /\ mFFData < MaxRaw
  /\ mFFData' = mFFData + 1
  /\ UNCHANGED <<ff, mUseRawFF, writer, written, want, astray>>

\* The writer's thread: it takes commands as long as the wheel's handle is open.
WriterThread ==
  /\ writer \in {"starts", "runs"}
  /\ writer' = IF mHidHandle # -1 THEN "runs" ELSE "none"
  /\ IF mHidHandle # -1 /\ mFFData > 0
       THEN mFFData' = mFFData - 1 /\ written' = written + 1
       ELSE UNCHANGED <<mFFData, written>>
  /\ UNCHANGED <<ff, mUseRawFF, want, astray>>

\* An effect has played its time: half a second of rumble, else 32 seconds.
Expire(e) ==
  /\ effect[e].state = "on"
  /\ effect' = [effect EXCEPT ![e].state = "expired"]
  /\ UNCHANGED <<slot_type, dev, mLastValue, autocenter, raw, want, astray>>

Next ==
  \/ Open
  \/ Close
  \/ \E f \in Forces, slots \in SlotSets :
       \/ Download(f, slots)
       \/ DownloadAndPlay(f, slots)
  \/ \E slots \in SlotSets : Stop(slots)
  \/ DefaultSpringOff
  \/ TokenOutRaw
  \/ WriterThread
  \/ \E e \in Effects : Expire(e)

Spec == Init /\ [][Next]_vars
FairSpec == Spec /\ WF_vars(WriterThread) /\ WF_vars(Expire("RUMBLE"))

-----------------------------------------------------------------------------
\* Types, with the widths the kernel's ff_effect has.
TypeOK ==
  /\ \A i \in Slots : slot_type[i] \in {f.type : f \in Forces} \cup {"CONSTANT"}
  /\ effect["CONSTANT"].of # <<>> => effect["CONSTANT"].of[1] \in -32767..32767
  /\ \A e \in {"SPRING", "DAMPER", "FRICTION"} :
       effect[e].of # <<>> =>
         /\ {effect[e].of[1].left_coeff, effect[e].of[1].right_coeff, effect[e].of[1].center} \subseteq -32767..32767
         /\ {effect[e].of[1].saturation, effect[e].of[1].deadband} \subseteq 0..65535
  /\ autocenter \in 0..100
  /\ mFFData \in 0..MaxRaw /\ writer \in {"none", "starts", "runs"}

\* What the game hears as a force: an effect that is on, and not a constant one of nothing.
Felt(e) == effect[e].state = "on" /\ (e = "CONSTANT" => effect[e].of # <<0>>)

\* A wheel the game has stopped moves no more by itself: every effect that plays is one
\* some slot wants. A device that rumbles instead is left to run out. An effect is astray
\* from when one of several slots that share it is stopped, when it is replaced by another
\* kind in its slot, released, or cannot be converted, until it is played or stopped for
\* all its slots.
NothingLeftPlaying ==
  \A e \in Effects \ ({"RUMBLE"} \cup astray) : Felt(e) => Users(e) # {}

\* A force the game plays is played, unless it has run out, the device has no such effect,
\* or the effect is astray.
EveryForcePlays ==
  \A e \in dev.supported \ astray : Users(e) # {} => effect[e].state # "off"

\* A rumble the game does not want any more ends by itself.
RumbleEnds == (effect["RUMBLE"].state = "on" /\ Users("CONSTANT") = {}) ~>
                (effect["RUMBLE"].state # "on" \/ Users("CONSTANT") # {})

\* Closing the wheel leaves no effect behind on the device.
NothingAfterClose == ~dev.open => \A e \in Effects : effect[e] = Off

\* The centring spring is the game's to set only where the user lets it, and then never
\* stronger than the user's strength; the user's own stays as it was set.
UsersCentring ==
  dev.open /\ ~mUseRawFF =>
    IF dev.managed THEN autocenter <= dev.strength ELSE autocenter = dev.strength

\* "input values 127 and 128 are center positions and are translated to output value 0";
\* the ends of the range are full force either way, and below the centre is left.
SetsLevel ==
  \A f \in Forces, i \in Slots :
    f.type = "CONSTANT" /\ DownloadAndPlay(f, {i}) /\ "CONSTANT" \in dev.supported =>
      LET c == f.params[i + 1]
          level == effect'["CONSTANT"].of[1]
      IN /\ level = 0 <=> c \in {127, 128}
         /\ level < 0 <=> c < 127
         /\ c \in {0, 255} => Abs(level) = 32767

\* The dead band of a spring on the host reaches from dead1 to dead2: centre and width are
\* in units that fit together.
SetsDeadBand ==
  \A f \in Forces, slots \in SlotSets :
    f.type \in {"SPRING", "HIGH_RESOLUTION_SPRING"} /\ f.dead1 <= f.dead2
        /\ DownloadAndPlay(f, slots) /\ "SPRING" \in dev.supported =>
      LET of == effect'["SPRING"].of[1]
          Near(n, d) == Abs(2 * (n + 32768) - 514 * d) <= 1030
      IN Near(of.center - of.deadband \div 2, f.dead1) /\ Near(of.center + of.deadband \div 2, f.dead2)

===============================================================================
