-------------------------------- MODULE Headset --------------------------------
(***************************************************************************)
(* The headset (usb-headset.cpp): a microphone of one channel and the      *)
(* headphones, with the volumes and the mutes the driver sets.             *)
(*                                                                         *)
(* A frame of the microphone is its number.  Of the sound the guest plays  *)
(* a frame is the packet it comes from, and what is heard on each channel  *)
(* of the sink is a packet, a channel of it and the volume.                *)
(***************************************************************************)
EXTENDS UsbAudio, TLC

CONSTANTS
  Sinks,       \* channels that sinks may have
  Asks,        \* control requests the driver may send, each with its unit
  Rooms,       \* frames in a packet, in either direction
  MaxFrames,   \* bound: frames captured
  MaxPackets   \* bound: packets played

HeadsetConstants ==
  /\ Sinks \subseteq Nat \ {0} /\ Rooms \subseteq Nat
  /\ MaxFrames \in Nat /\ MaxPackets \in Nat

VARIABLES
  state,       \* "none", "closed", "open"
  f,           \* what is frozen
  altsetting,  \* of interfaces 1, the headphones, and 2, the microphone
  source,      \* frames captured and waiting, whether it captures, its rate
  sink,        \* its channels, whether it plays, its rate
  in,          \* the last packet of the microphone, and the mute when it was made
  out,         \* the last packet played: its number, channels, the frames it
               \* took and what the sink was given on each of its channels
  played,      \* packets played
  request, reply, saved

device == <<state, f, altsetting>>
sound == <<source, sink>>
vars == <<device, sound, in, out, played, request, reply, saved>>

Inputs == 1..2
Defaults == [in |-> [mute |-> FALSE, vol |-> 240, srate |-> 48000],
             out |-> [mute |-> FALSE, vol |-> <<240, 240>>, srate |-> 48000]]
NoSource == [next |-> 0, waiting |-> 0, on |-> FALSE, rate |-> 48000]
NoSink == [chans |-> 0, on |-> FALSE, rate |-> 48000]
NoRequest == [unit |-> "none"] @@ Ask("none", "none", 0, 0)
NoIn == [frames |-> <<>>, room |-> 0, mute |-> FALSE]
NoOut == [packet |-> 0, chans |-> 0, mute |-> FALSE, vol |-> <<240, 240>>, heard |-> <<>>]

Init ==
  /\ state = "none" /\ f = Defaults /\ altsetting = [i \in Inputs |-> 0]
  /\ source = NoSource /\ sink = NoSink /\ in = NoIn /\ out = NoOut /\ played = 0
  /\ request = NoRequest /\ reply = Done /\ saved = <<>>

-----------------------------------------------------------------------------
(* HeadsetDevice::CreateDevice wants both; headset_handle_open, _close.    *)

CreateDevice(chans) ==
  /\ state = "none" /\ state' = "closed" /\ f' = Defaults
  /\ altsetting' = [i \in Inputs |-> 0]
  /\ source' = NoSource /\ sink' = [NoSink EXCEPT !.chans = chans]
  /\ in' = NoIn /\ out' = NoOut /\ request' = NoRequest /\ reply' = Done
  /\ UNCHANGED <<played, saved>>

Switch(on) == source' = [source EXCEPT !.on = on] /\ sink' = [sink EXCEPT !.on = on]
Open == /\ state = "closed" /\ state' = "open" /\ Switch(TRUE)
        /\ UNCHANGED <<f, altsetting, in, out, played, request, reply, saved>>
Close == /\ state = "open" /\ state' = "closed" /\ Switch(FALSE)
         /\ UNCHANGED <<f, altsetting, in, out, played, request, reply, saved>>
Destroy == /\ state # "none" /\ state' = "none" /\ source' = NoSource /\ sink' = NoSink
           /\ in' = NoIn /\ out' = NoOut /\ request' = NoRequest /\ reply' = Done
           /\ UNCHANGED <<f, altsetting, played, saved>>

\* The source, in its own thread.
Capture ==
  /\ source.on /\ source.next < MaxFrames
  /\ source' = [source EXCEPT !.next = @ + 1, !.waiting = @ + 1]
  /\ UNCHANGED <<device, sink, in, out, played, request, reply, saved>>

-----------------------------------------------------------------------------
(* Control requests: the headphones are one unit, the microphone two.      *)

Mic(r) == r.unit = "mic"
\* The headphones have no master volume.
HasVolume(r) == Mic(r) \/ r.chan \in 1..2
Volume(r) == IF Mic(r) THEN f.in.vol ELSE f.out.vol[r.chan]
Mute(r) == IF Mic(r) THEN f.in.mute ELSE f.out.mute

GetControl(r) ==
  CASE r.cs = "mute" /\ r.op = "GetCur" -> Byte(IF Mute(r) THEN 1 ELSE 0)
    [] r.cs = "bass" /\ r.op = "GetCur" /\ ~Mic(r) -> Byte(0)
    [] r.cs = "volume" /\ r.op = "GetCur" -> IF HasVolume(r) THEN Word(ToRaw(Volume(r))) ELSE Stall
    [] r.cs = "volume" /\ r.op # "GetCur" -> Word(Limit(r.op))
    [] OTHER -> Stall

SetVolume(r, v) ==
  IF Mic(r) THEN [f EXCEPT !.in.vol = v] ELSE [f EXCEPT !.out.vol[r.chan] = v]
SetMute(r, on) == IF Mic(r) THEN [f EXCEPT !.in.mute = on] ELSE [f EXCEPT !.out.mute = on]

Sets(r) == r.cs = "mute" \/ (r.cs = "volume" /\ HasVolume(r))
SetControl(r) ==
  IF ~Sets(r) THEN f
  ELSE IF r.cs = "mute" THEN SetMute(r, r.data[1] % 2 = 1) ELSE SetVolume(r, FromRaw(r.data[1]))

HandleControl(r) ==
  /\ state # "none" /\ r.cs # "frequency" /\ request' = r
  /\ reply' = IF r.op # "SetCur" THEN GetControl(r) ELSE IF Sets(r) THEN Done ELSE Stall
  /\ f' = IF r.op = "SetCur" THEN SetControl(r) ELSE f
  /\ UNCHANGED <<state, altsetting, sound, in, out, played, saved>>

\* The sampling rate is an endpoint's; what is written of it is not sent.
EpControl(r) ==
  /\ state # "none" /\ r.cs = "frequency" /\ request' = r
  /\ IF r.op = "SetCur"
     THEN /\ reply' = Done
          /\ f' = IF Mic(r) THEN [f EXCEPT !.in.srate = r.data[1]]
                  ELSE [f EXCEPT !.out.srate = r.data[1]]
          /\ source' = IF Mic(r) THEN [source EXCEPT !.rate = r.data[1]] ELSE source
          /\ sink' = IF Mic(r) THEN sink ELSE [sink EXCEPT !.rate = r.data[1]]
     ELSE reply' = [Done EXCEPT !.word = <<IF Mic(r) THEN f.in.srate ELSE f.out.srate>>]
          /\ UNCHANGED <<f, sound>>
  /\ UNCHANGED <<state, altsetting, in, out, played, saved>>

\* Headphones: stereo and mono; microphone: mono.
SetInterface(i, alt) ==
  /\ state # "none" /\ alt \in IF i = 1 THEN 0..2 ELSE 0..1
  /\ altsetting' = [altsetting EXCEPT ![i] = alt]
  /\ UNCHANGED <<state, f, sound, in, out, played, request, reply, saved>>

-----------------------------------------------------------------------------
(* headset_handle_data.                                                    *)

Smaller(a, b) == IF a < b THEN a ELSE b
\* Mutant of Taken: everything is taken of the source.
TakenAll(room, ok) == IF ok THEN source.waiting ELSE 0
Taken(room, ok) == IF ok THEN Smaller(source.waiting, room) ELSE 0
FirstWaiting == source.next - source.waiting

\* Without frames the packet is empty, not refused; ok is GetFrames.
DataIn(room, ok) ==
  /\ state = "open"
  /\ IF altsetting[2] = 0 THEN UNCHANGED <<in, source>>
     ELSE LET n == Taken(room, ok)
          IN /\ source' = [source EXCEPT !.waiting = @ - n]
             /\ in' = [frames |-> [k \in 1..n |-> FirstWaiting + k - 1], room |-> room,
                       mute |-> f.in.mute]
  /\ UNCHANGED <<device, sink, out, played, request, reply, saved>>

\* What the sink's channels are given of packet k with chans channels.  A
\* stereo packet for a sink of one channel leaves the buffer as it was, or
\* silent where it grew.
Stale == [packet |-> 0, chan |-> 0, vol |-> 0]
Mixed(k, chans) ==
  [c \in 1..sink.chans |->
     IF chans > sink.chans THEN Stale
     ELSE [packet |-> k, chan |-> IF chans = sink.chans THEN c ELSE 1, vol |-> f.out.vol[c]]]

DataOut ==
  /\ state = "open" /\ played < MaxPackets /\ played' = played + 1
  /\ IF altsetting[1] = 0 THEN UNCHANGED out
     ELSE LET chans == IF altsetting[1] = 1 THEN 2 ELSE 1
          IN out' = [packet |-> played', chans |-> chans, mute |-> f.out.mute,
                     vol |-> f.out.vol, heard |-> Mixed(played + 1, chans)]
  /\ UNCHANGED <<device, sound, in, request, reply, saved>>

-----------------------------------------------------------------------------
(* HeadsetDevice::Freeze.                                                  *)

Save == /\ state # "none" /\ saved = <<>> /\ saved' = <<f>>
        /\ UNCHANGED <<device, sound, in, out, played, request, reply>>
Load == /\ state # "none" /\ saved # <<>> /\ f' = saved[1] /\ saved' = <<>>
        /\ source' = [source EXCEPT !.rate = saved[1].in.srate]
        /\ sink' = [sink EXCEPT !.rate = saved[1].out.srate]
        /\ request' = NoRequest /\ reply' = Done
        /\ UNCHANGED <<state, altsetting, in, out, played>>

Driver == \/ \E r \in Asks : HandleControl(r) \/ EpControl(r)
          \/ \E i \in Inputs, alt \in 0..2 : SetInterface(i, alt)
          \/ \E room \in Rooms, ok \in BOOLEAN : DataIn(room, ok)
          \/ DataOut
Next == (\E n \in Sinks : CreateDevice(n)) \/ Open \/ Close \/ Destroy \/ Capture
        \/ Driver \/ Save \/ Load
Spec == Init /\ [][Next]_vars

-----------------------------------------------------------------------------
(* Properties.                                                             *)

\* Type invariant.
TypeOK ==
  /\ state \in {"none", "closed", "open"} /\ altsetting \in [Inputs -> 0..2]
  /\ f.in.mute \in BOOLEAN /\ f.out.mute \in BOOLEAN
  /\ f.in.vol \in 0..255 /\ f.out.vol \in [1..2 -> 0..255]
  /\ source.waiting \in 0..source.next /\ sink.chans \in Sinks \cup {0}
  /\ Len(in.frames) <= in.room /\ (out.packet > 0 => Len(out.heard) >= 1)

\* Where the sink has a channel for each of the guest's, every channel plays
\* the packet that was sent, at its own volume.
HeardAsSent ==
  out.packet > 0 /\ Len(out.heard) >= out.chans =>
    \A c \in DOMAIN out.heard :
      /\ out.heard[c].packet = out.packet /\ out.heard[c].vol = out.vol[c]
      /\ out.chans = 2 => out.heard[c].chan = c

\* The microphone's frames go out in order and none of them is lost between.
MicInOrder ==
  [][in' # in /\ in'.room > 0 /\ Len(in'.frames) > 0
       => /\ in'.frames[1] = FirstWaiting /\ FirstWaiting' = FirstWaiting + Len(in'.frames)
          /\ Len(in'.frames) <= in'.room]_vars

\* A volume that a channel was set to is what it answers, whatever is set of
\* the other units and channels.
AnswersWhatWasSet ==
  [][\A c \in 1..2 :
       (request'.unit = "phones" /\ request'.op = "SetCur" /\ request'.chan # c)
         \/ (request'.unit = "mic" /\ request'.op = "SetCur")
       => f'.out.vol[c] = f.out.vol[c]]_vars

\* Source and sink run at the rates set, also after a state was loaded.
RatesFollow == state # "none" => source.rate = f.in.srate /\ sink.rate = f.out.srate

\* Each channel of the headphones, whose feature unit declares a volume for
\* both, answers with the word that sets it.
VolumesAnswer ==
  request.unit = "phones" /\ request.cs = "volume" /\ request.op = "GetCur" /\ request.chan \in 1..2
    => reply = Word(ToRaw(f.out.vol[request.chan]))

=============================================================================
