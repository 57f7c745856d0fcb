------------------------------ MODULE HidKeyboard ------------------------------
(***************************************************************************)
(* The HID keyboard (hid.cpp): the host's key events become scan codes,    *)
(* one, two or three for a key; the scan codes wait in a queue; each poll  *)
(* takes one of them through the state machine of process_keycode.         *)
(*                                                                         *)
(* Bits 0 to 7 of kbd.modifiers are modifier keys, "grey" is bit 8 (an e0  *)
(* was seen) and "e1" bit 9.  A handler is one step here: HidPointer has   *)
(* the two threads.                                                        *)
(***************************************************************************)
EXTENDS Integers, Sequences, FiniteSets, SequencesExt

CONSTANTS QUEUE_LENGTH,  \* scan codes the queue holds
          KeySlots,      \* kbd.key: keys remembered at once
          Keys           \* the keys the user presses

VARIABLES
  queue,       \* the scan codes from head to head + n
  modifiers,   \* kbd.modifiers
  keys,        \* kbd.key, the first kbd.keys of them
  held,        \* the keys that are down
  missed       \* keys whose last event was dropped, or not told again since a reset

vars == <<queue, modifiers, keys, held, missed>>

-------------------------------------------------------------------------------
(* Scan codes.  A code is used with and without the prefix: hid_usage_keys *)
(* has a half for each.                                                    *)

Usage(code, grey) ==
  CASE code = "1d" -> IF grey THEN "RCtrl" ELSE "LCtrl"
    [] code = "45" -> IF grey THEN "Pause" ELSE "NumLock"
    [] code = "47" -> IF grey THEN "Home" ELSE "Kp7"
    [] code = "1e" -> IF grey THEN "none" ELSE "A"
    [] code = "00" -> "none"

ModifierKeys == {"LCtrl", "RCtrl"}

\* qemu_input_key_value_to_scancode
Grey == [RCtrl |-> "1d", Home |-> "47"]
Plain == [LCtrl |-> "1d", NumLock |-> "45", Kp7 |-> "47", A |-> "1e", Unmapped |-> "00"]

Scancodes(key, down) ==
  LET code(c) == [code |-> c, up |-> ~down]
      prefix(c) == [code |-> c, up |-> TRUE] IN
  IF key = "Pause" THEN <<prefix("e1"), code("1d"), code("45")>>
  ELSE IF key \in DOMAIN Grey THEN <<prefix("e0"), code(Grey[key])>>
  ELSE <<code(Plain[key])>>

Init ==
  /\ queue = <<>> /\ modifiers = {} /\ keys = <<>>
  /\ held = {} /\ missed = {}

-------------------------------------------------------------------------------

\* hid_keyboard_event: all the codes of an event are queued, or none
Enqueue(key, codes) ==
  IF Len(queue) + Len(codes) > QUEUE_LENGTH
  THEN missed' = missed \union {key} /\ UNCHANGED queue
  ELSE missed' = missed \ {key} /\ queue' = queue \o codes

KeyEvent(key, down) ==
  /\ (key \in held) # down
  /\ held' = IF down THEN held \union {key} ELSE held \ {key}
  /\ Enqueue(key, Scancodes(key, down))
  /\ UNCHANGED <<modifiers, keys>>

\* kbd.key[i] = kbd.key[--kbd.keys]
RemoveKey(usage) ==
  LET i == SelectLastInSeq(keys, LAMBDA k : k = usage) IN
  SubSeq([keys EXCEPT ![i] = keys[Len(keys)]], 1, Len(keys) - 1)

Becomes(mods, ks) == modifiers' = mods /\ keys' = ks

PrefixCode(code) ==
  /\ code \in {"e0", "e1"}
  /\ Becomes((modifiers \ {"grey"}) \union {IF code = "e0" THEN "grey" ELSE "e1"}, keys)
  /\ UNCHANGED missed

\* The code after e1: from now on as after e0
PauseCode(usage) ==
  /\ usage = "LCtrl" /\ "e1" \in modifiers
  /\ Becomes((modifiers \ {"e1"}) \union {"grey"}, keys)
  /\ UNCHANGED missed

ModifierCode(usage, up) ==
  /\ usage \in ModifierKeys /\ ~(usage = "LCtrl" /\ "e1" \in modifiers)
  /\ LET mods == modifiers \ {"grey"} IN
     Becomes(IF up THEN mods \ {usage} ELSE mods \union {usage}, keys)
  /\ UNCHANGED missed

Release(usage) ==
  /\ Becomes(modifiers \ {"grey"}, IF usage \in ToSet(keys) THEN RemoveKey(usage) ELSE keys)
  /\ UNCHANGED missed

\* A key that finds no place in kbd.key is ignored
Pressed(usage) ==
  LET full == usage \notin ToSet(keys) /\ Len(keys) = KeySlots IN
  /\ Becomes(modifiers \ {"grey"},
             IF usage \in ToSet(keys) \/ full THEN keys ELSE Append(keys, usage))
  /\ missed' = IF full /\ usage \in held THEN missed \union {usage} ELSE missed

UnknownCode ==
  /\ Becomes(modifiers \ {"grey"}, keys)
  /\ UNCHANGED missed

\* hid_keyboard_process_keycode
Process(scan) ==
  \/ PrefixCode(scan.code)
  \/ /\ scan.code \notin {"e0", "e1"}
     /\ LET usage == Usage(scan.code, "grey" \in modifiers) IN
        \/ PauseCode(usage)
        \/ ModifierCode(usage, scan.up)
        \/ usage = "none" /\ UnknownCode
        \/ usage \notin ModifierKeys \union {"none"} /\ scan.up /\ Release(usage)
        \/ usage \notin ModifierKeys \union {"none"} /\ ~scan.up /\ Pressed(usage)

\* hid_keyboard_poll: one code of the queue, then a report of what is known.
\* (With nothing queued, a GET_REPORT repeats that report.)
Poll ==
  /\ queue # <<>>
  /\ Process(Head(queue))
  /\ queue' = Tail(queue)
  /\ UNCHANGED held

\* hid_reset
Reset ==
  /\ queue' = <<>> /\ modifiers' = {} /\ keys' = <<>>
  /\ missed' = held
  /\ UNCHANGED held

Next ==
  \/ \E key \in Keys, down \in BOOLEAN : KeyEvent(key, down)
  \/ Poll \/ Reset

\* The host controller goes on asking the interrupt endpoint
Spec == Init /\ [][Next]_vars /\ WF_vars(Poll)

-------------------------------------------------------------------------------
\* The variables stay in their types, and no key is remembered twice.
TypeOK ==
  /\ Len(queue) <= QUEUE_LENGTH
  /\ modifiers \subseteq ModifierKeys \union {"grey", "e1"}
  /\ Len(keys) <= KeySlots /\ IsInjective(keys)
  /\ held \subseteq Keys /\ missed \subseteq Keys

Believed == (modifiers \intersect ModifierKeys) \union ToSet(keys)

\* Once the queue has drained, the keys the keyboard believes to be down are
\* those that are: no key is stuck, none is confused with another that has
\* the same scan code, except for a key whose last event was dropped as a
\* whole.
KeysAsHeld == queue = <<>> => \A k \in Keys \ (missed \union {"Unmapped"}) : k \in Believed <=> k \in held

\* A key that was never pressed is never reported, not even for a moment
\* between the codes of a Pause.
NoGhostKey == Believed \subseteq Keys \ {"Unmapped"}

\* A prefix is always followed by the codes that belong to it: events are
\* queued as a whole and the state machine leaves no prefix behind.
PrefixPending ==
  /\ "grey" \in modifiers => queue # <<>> /\ Head(queue).code \in {"1d", "47", "45"}
  /\ "e1" \in modifiers => Len(queue) >= 2 /\ queue[1].code = "1d" /\ queue[2].code = "45"
  /\ ~({"grey", "e1"} \subseteq modifiers)

\* A key that stays down or up, and whose last event was not dropped, is in
\* the end believed to be so.
KeysSettle ==
  \A k \in Keys \ {"Unmapped"} :
    /\ <>[](k \in held /\ k \notin missed) => <>[](k \in Believed)
    /\ <>[](k \notin held /\ k \notin missed) => <>[](k \notin Believed)
===============================================================================
