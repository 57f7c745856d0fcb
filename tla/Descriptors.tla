------------------------------ MODULE Descriptors -----------------------------
(***************************************************************************)
(* What the devices tell the guest of themselves: the configuration tables *)
(* as their sources list them, usb_desc_parse_config, which turns a table  *)
(* into interfaces with their endpoints, and usb_desc_config, which writes *)
(* descriptors for the guest from those.                                   *)
(***************************************************************************)
EXTENDS Integers, Sequences, SequencesExt

----------------------------------------------------------------------------
(* The HID report descriptors, as tables: how long each descriptor is, and the
   fields it declares for the reports the device sends (in) and receives (out),
   lowest bit first.  A field is its usage and its number of bits; usages of the
   same report item stay together when nothing tells them apart. *)

Field(usage, bits) == [usage |-> usage, bits |-> bits]
Report(bytes, in, out) == [bytes |-> bytes, in |-> in, out |-> out]

\* The seven bytes of a force feedback command.
ForceCommand == <<Field("Force", 56)>>

DrivingForceSeparate == Report(132,
  <<Field("X", 10), Field("Buttons", 12), Field("Vendor", 2), Field("Axis", 8),
    Field("Hat", 4), Field("Vendor", 4), Field("Y", 8), Field("Rz", 8)>>, ForceCommand)

DrivingForce == Report(130,
  <<Field("X", 10), Field("Buttons", 12), Field("Vendor", 2), Field("Y", 8),
    Field("Hat", 4), Field("Vendor", 4), Field("Vendor", 16)>>, ForceCommand)

DrivingForcePro == Report(90,
  <<Field("X", 14), Field("Buttons", 14), Field("Hat", 4), Field("Constant", 8),
    Field("Y", 8), Field("Rz", 8), Field("Constant", 8)>>, ForceCommand)

Momo == Report(88,
  <<Field("X", 10), Field("Buttons", 8), Field("Vendor", 14), Field("Y", 8),
    Field("Z", 8), Field("Vendor", 8)>>, ForceCommand)

GenericPad == Report(92,
  <<Field("X", 10), Field("Buttons", 10), Field("Vendor", 12), Field("Y", 8),
    Field("Z", 8), Field("Rz", 8), Field("Vendor", 8)>>, ForceCommand)

GtForce == Report(79,
  <<Field("X", 10), Field("Buttons", 6), Field("Vendor", 8), Field("Y", 8),
    Field("Pedals", 24)>>, ForceCommand)

GtForceOther == Report(96,
  <<Field("X", 10), Field("Buttons", 10), Field("Vendor", 12), Field("Constant", 8),
    Field("Z", 8), Field("Rz", 8), Field("Vendor", 12)>>, <<Field("Force", 84)>>)

RockBandDrums == Report(137,
  <<Field("Buttons", 13), Field("Constant", 3), Field("Hat", 4), Field("Constant", 4),
    Field("Axes", 32), Field("Pressure", 96), Field("Motion", 64)>>, <<Field("Command", 64)>>)

BuzzButtons == Report(78,
  <<Field("X", 8), Field("Y", 8), Field("Buttons", 20), Field("Vendor", 4)>>, ForceCommand)

Keyboardmania == Report(150,
  <<Field("Extra", 6), Field("Constant", 2), Field("Keys1", 7), Field("Constant", 1),
    Field("Keys2", 7), Field("Constant", 1), Field("Keys3", 7), Field("Constant", 1),
    Field("Keys4", 7), Field("Constant", 1), Field("Axes", 4), Field("Constant", 20)>>, <<>>)

Seamic == Report(98,
  <<Field("X", 8), Field("Y", 8), Field("Z", 8), Field("Hat", 4), Field("Buttons", 10),
    Field("Constant", 2)>>, <<Field("Leds", 8)>>)

Mouse == Report(52, <<Field("Buttons", 3), Field("Constant", 5), Field("Motion", 24)>>, <<>>)

Tablet == Report(74,
  <<Field("Buttons", 3), Field("Constant", 5), Field("Position", 32), Field("Wheel", 8)>>, <<>>)

Keyboard == Report(63,
  <<Field("Modifiers", 8), Field("Constant", 8), Field("Keys", 48)>>,
  <<Field("Leds", 5), Field("Constant", 3)>>)

Beatmania == Report(68,
  <<Field("Modifiers", 8), Field("Constant", 8), Field("Keys", 48)>>,
  <<Field("Leds", 5), Field("Constant", 3)>>)

\* Where the i-th field starts, and how many bits the fields take.
BitsOf(fields) == FoldLeft(LAMBDA n, f : n + f.bits, 0, fields)
At(fields, i) == BitsOf(SubSeq(fields, 1, i - 1))

\* Every report fills whole bytes, but for the one whose name in the source ends
\* in "prolly_incorrect".
Reports ==
  {DrivingForceSeparate, DrivingForce, DrivingForcePro, Momo, GenericPad, GtForce,
   RockBandDrums, BuzzButtons, Keyboardmania, Seamic, Mouse, Tablet, Keyboard, Beatmania}
ReportsAreWhole ==
  /\ \A r \in Reports : BitsOf(r.in) % 8 = 0 /\ BitsOf(r.out) % 8 = 0
  /\ BitsOf(GtForceOther.in) % 8 # 0

----------------------------------------------------------------------------
(* Descriptors, with the fields the code or the guest acts on *)

Config(total, interfaces) ==
  [kind |-> "config", length |-> 9, total |-> total, interfaces |-> interfaces]
Iface(number, alt, endpoints) ==
  [kind |-> "interface", length |-> 9, number |-> number, alt |-> alt, endpoints |-> endpoints]
Ep(pid, nr, type, size) ==
  [kind |-> "endpoint", length |-> 7, pid |-> pid, nr |-> nr, type |-> type, size |-> size]
AudioEp(pid, nr, type, size) == [Ep(pid, nr, type, size) EXCEPT !.length = 9]
Hid(report) == [kind |-> "hid", length |-> 9, report |-> report]
ForIface(length) == [kind |-> "cs_interface", length |-> length]
ForEp(length) == [kind |-> "cs_endpoint", length |-> length]
\* The byte 0 some tables end with: the parser stops there.
End == [kind |-> "end", length |-> 0]

Bytes(descs) == FoldLeft(LAMBDA n, d : n + d.length, 0, descs)

----------------------------------------------------------------------------
(* The tables *)

DrivingForceConfig ==
  <<Config(41, 1), Iface(0, 0, 2), Hid(130), Ep("in", 1, "interrupt", 8),
    Ep("out", 2, "interrupt", 8)>>

DrivingForceProConfig ==
  <<Config(41, 1), Iface(0, 0, 2), Hid(90), Ep("in", 1, "interrupt", 8),
    Ep("out", 2, "interrupt", 8)>>

GtForceConfig ==
  <<Config(41, 1), Iface(0, 0, 2), Hid(79), Ep("in", 1, "interrupt", 8),
    Ep("out", 2, "interrupt", 8)>>

RockBandConfig ==
  <<Config(41, 1), Iface(0, 0, 2), Hid(137), Ep("out", 2, "interrupt", 64),
    Ep("in", 1, "interrupt", 64)>>

BuzzConfig ==
  <<Config(34, 1), Iface(0, 0, 1), Hid(78), Ep("in", 1, "interrupt", 8)>>

KeyboardmaniaConfig ==
  <<Config(34, 1), Iface(0, 0, 1), Hid(150), Ep("in", 1, "interrupt", 8)>>

StorageConfig ==
  <<Config(32, 1), Iface(0, 0, 2), Ep("in", 1, "bulk", 64), Ep("out", 2, "bulk", 512)>>

KeyboardConfig ==
  <<Config(34, 1), Iface(0, 0, 1), Hid(63), Ep("in", 1, "interrupt", 8)>>

MouseConfig ==
  <<Config(34, 1), Iface(0, 0, 1), Hid(52), Ep("in", 1, "interrupt", 4)>>

BeatmaniaConfig ==
  <<Config(34, 1), Iface(0, 0, 1), Hid(68), Ep("in", 1, "interrupt", 8)>>

SeamicConfig ==
  <<Config(134, 3), Iface(0, 0, 0), ForIface(9), ForIface(12), ForIface(9), ForIface(8),
    Iface(1, 0, 0), Iface(1, 1, 1), ForIface(7), ForIface(14), Ep("in", 1, "isochronous", 100),
    ForEp(7), Iface(2, 0, 1), Hid(98), Ep("in", 2, "interrupt", 8)>>

EyeToyConfig ==
  <<Config(180, 3), Iface(0, 0, 1), Ep("in", 1, "isochronous", 0), Iface(0, 1, 1),
    Ep("in", 1, "isochronous", 384), Iface(0, 2, 1), Ep("in", 1, "isochronous", 512),
    Iface(0, 3, 1), Ep("in", 1, "isochronous", 768), Iface(0, 4, 1),
    Ep("in", 1, "isochronous", 896), Iface(1, 0, 0), ForIface(9), ForIface(12), ForIface(9),
    Iface(2, 0, 0), Iface(2, 1, 1), ForIface(7), ForIface(11),
    AudioEp("in", 2, "isochronous", 40), ForEp(7)>>

LogitechMicConfig ==
  <<Config(177, 2), Iface(0, 0, 0), ForIface(9), ForIface(12), ForIface(9), ForIface(10),
    Iface(1, 0, 0), Iface(1, 1, 1), ForIface(7), ForIface(23),
    AudioEp("in", 1, "isochronous", 100), ForEp(7), Iface(1, 2, 1), ForIface(7), ForIface(23),
    AudioEp("in", 1, "isochronous", 200), ForEp(7), End>>

SingstarConfig ==
  <<Config(177, 2), Iface(0, 0, 0), ForIface(9), ForIface(12), ForIface(9), ForIface(10),
    Iface(1, 0, 0), Iface(1, 1, 1), ForIface(7), ForIface(23),
    AudioEp("in", 1, "isochronous", 100), ForEp(7), Iface(1, 2, 1), ForIface(7), ForIface(23),
    AudioEp("in", 1, "isochronous", 200), ForEp(7), End>>

Ak5370Config ==
  <<Config(118, 2), Iface(0, 0, 0), ForIface(9), ForIface(12), ForIface(9), ForIface(8),
    Iface(1, 0, 0), Iface(1, 1, 1), ForIface(7), ForIface(23), Ep("in", 1, "isochronous", 100),
    ForEp(7)>>

HeadsetConfig ==
  <<Config(318, 3), Iface(0, 0, 0), ForIface(10), ForIface(12), ForIface(9), ForIface(12),
    ForIface(13), ForIface(10), ForIface(9), ForIface(12), ForIface(9), ForIface(12),
    ForIface(9), Iface(1, 0, 0), Iface(1, 1, 1), ForIface(7), ForIface(23),
    AudioEp("out", 1, "isochronous", 192), ForEp(7), Iface(1, 2, 1), ForIface(7), ForIface(23),
    AudioEp("out", 1, "isochronous", 96), ForEp(7), Iface(2, 0, 0), Iface(2, 1, 1),
    ForIface(7), ForIface(23), AudioEp("in", 4, "isochronous", 96), ForEp(7), End>>

----------------------------------------------------------------------------
(* Parsing: usb_desc_parse_config takes one descriptor after the other. *)

\* Nothing parsed. A 9-byte endpoint takes the descriptor after it as its own.
Nothing ==
  [config |-> FALSE, interfaces |-> 0, ifs |-> <<>>, taking |-> FALSE, failed |-> FALSE]

InLast(c, field, value) ==
  [c EXCEPT !.ifs[Len(c.ifs)] = [@ EXCEPT ![field] = Append(@, value)]]

TakeExtra(c, d) ==
  LET n == Len(c.ifs)  e == Len(c.ifs[n].eps)
  IN  [c EXCEPT !.ifs[n].eps[e].extra = <<d>>, !.taking = FALSE]

ParseStep(c, d) ==
  CASE c.failed -> c
    [] c.taking -> TakeExtra(c, d)
    [] d.kind = "end" -> c
    [] d.kind = "config" -> [c EXCEPT !.config = TRUE, !.interfaces = d.interfaces]
    [] d.kind = "interface" /\ c.config ->
         [c EXCEPT !.ifs = Append(@, [desc |-> d, descs |-> <<>>, eps |-> <<>>])]
    [] d.kind = "interface" \/ c.ifs = <<>> -> [c EXCEPT !.failed = TRUE]
    [] d.kind = "endpoint" ->
         [InLast(c, "eps", [desc |-> d, extra |-> <<>>]) EXCEPT !.taking = d.length = 9]
    [] OTHER -> InLast(c, "descs", d)

Parsed(table) == FoldLeft(ParseStep, Nothing, table)

----------------------------------------------------------------------------
(* Writing: usb_desc_config and what it calls *)

RebuiltEp(e) == <<e.desc>> \o e.extra
RebuiltIface(i) == <<i.desc>> \o i.descs \o FlattenSeq([k \in DOMAIN i.eps |-> RebuiltEp(i.eps[k])])
Rebuilt(c) ==
  LET body == FlattenSeq([k \in DOMAIN c.ifs |-> RebuiltIface(c.ifs[k])])
  IN  <<Config(9 + Bytes(body), c.interfaces)>> \o body

----------------------------------------------------------------------------
(* The devices *)

\* Strings are told apart by what they are for; "" is one that says nothing.
DrivingForceStrings == <<"product", "", "manufacturer">>
GtForceStrings == <<"manufacturer", "product">>
RockBandStrings == <<"manufacturer", "product">>
BuzzStrings == <<"product", "", "manufacturer">>
KeyboardmaniaStrings == <<"product", "", "manufacturer">>
StorageStrings == <<"manufacturer", "product", "serial", "config">>
HidStrings == <<"mouse", "tablet", "keyboard", "serial", "mouse config", "tablet config",
                "keyboard config">>
BeatmaniaStrings == <<"manufacturer", "product">>
SeamicStrings == <<"manufacturer", "product">>
EyeToyStrings == <<"manufacturer", "product">>
LogitechMicStrings == <<"manufacturer", "product">>
SingstarStrings == <<"manufacturer", "product", "serial">>
Ak5370Strings == <<"manufacturer", "product">>
HeadsetStrings == <<"manufacturer", "product", "serial">>

NoReport == Report(0, <<>>, <<>>)

\* A device: the index of its manufacturer and product strings, the strings and the
\* product's name there, its configuration, the report descriptor it answers with,
\* and whether it is told of the alternate settings.
Device(manufacturer, product, strings, name, table, report, hears) ==
  [manufacturer |-> manufacturer, product |-> product, strings |-> strings, name |-> name,
   table |-> table, report |-> report, hears |-> hears]

\* pad_handle_control answers with this report descriptor for a pad of no kind of its own.
OtherPads == DrivingForceSeparate

Devices ==
  [df |-> Device(3, 1, DrivingForceStrings, "product", DrivingForceConfig, OtherPads, FALSE),
   dfp |-> Device(3, 1, DrivingForceStrings, "product", DrivingForceProConfig,
                  DrivingForcePro, FALSE),
   gtforce |-> Device(1, 2, GtForceStrings, "product", GtForceConfig, GtForce, FALSE),
   rb1 |-> Device(1, 2, RockBandStrings, "product", RockBandConfig, OtherPads, FALSE),
   buzz |-> Device(3, 1, BuzzStrings, "product", BuzzConfig, OtherPads, FALSE),
   kbm |-> Device(1, 2, KeyboardmaniaStrings, "product", KeyboardmaniaConfig,
                  Keyboardmania, FALSE),
   msd |-> Device(1, 2, StorageStrings, "product", StorageConfig, NoReport, FALSE),
   keyboard |-> Device(1, 4, HidStrings, "keyboard", KeyboardConfig, Keyboard, FALSE),
   mouse |-> Device(1, 2, HidStrings, "mouse", MouseConfig, Mouse, FALSE),
   beatmania |-> Device(1, 2, BeatmaniaStrings, "product", BeatmaniaConfig, Beatmania, FALSE),
   seamic |-> Device(1, 2, SeamicStrings, "product", SeamicConfig, Seamic, FALSE),
   eyetoy |-> Device(1, 2, EyeToyStrings, "product", EyeToyConfig, NoReport, FALSE),
   logitech |-> Device(1, 2, LogitechMicStrings, "product", LogitechMicConfig, NoReport, TRUE),
   singstar |-> Device(1, 2, SingstarStrings, "product", SingstarConfig, NoReport, TRUE),
   ak5370 |-> Device(1, 2, Ak5370Strings, "product", Ak5370Config, NoReport, TRUE),
   headset |-> Device(1, 2, HeadsetStrings, "product", HeadsetConfig, NoReport, FALSE)]
===============================================================================
