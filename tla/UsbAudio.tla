------------------------------- MODULE UsbAudio -------------------------------
(***************************************************************************)
(* The requests of USB audio that the microphones and the headset answer   *)
(* (usb-mic-singstar.cpp, usb-headset.cpp): the volume as the device keeps *)
(* it, 0 to 255, and as the driver sees it, 1/256 dB in 16 bits.           *)
(*                                                                         *)
(* A request names what it does, whose control it is and the channel, of   *)
(* which 0 is the master; its data are words of 16 bits.                   *)
(***************************************************************************)
EXTENDS Integers, Sequences

Stalled == "stall"
Silent == 32768               \* -infinity, as an unsigned word
Least == 32769
Most == 2048

\* usb_audio_get_control.
ToRaw(vol) == ((vol * 34816 + 127) \div 255 + 32768) % 65536
\* usb_audio_set_control, which computes in 16 bits.
FromRaw(raw) ==
  LET v == (((raw - 32768) % 65536) * 255 + 17408) \div 34816
  IN IF v > 255 THEN 255 ELSE v

\* The driver's words in the order of loudness.
Loudness(raw) == (raw - 32768) % 65536

\* What a range request of the volume answers.
Limit(op) == CASE op = "GetMin" -> Least [] op = "GetMax" -> Most [] op = "GetRes" -> 136

\* Replies: the number of bytes the handler returns, and the first word of
\* the data, if the handler wrote it.
Stall == [ret |-> Stalled, word |-> <<>>]
Byte(b) == [ret |-> 1, word |-> <<b>>]
Word(w) == [ret |-> 2, word |-> <<w>>]
Done == [ret |-> 0, word |-> <<>>]

\* Requests.
Ask(op, cs, c, len) == [op |-> op, cs |-> cs, chan |-> c, len |-> len, data |-> <<0, 0>>]
Tell(cs, c, len, words) == [op |-> "SetCur", cs |-> cs, chan |-> c, len |-> len, data |-> words]
=============================================================================
