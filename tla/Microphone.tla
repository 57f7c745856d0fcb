------------------------------ MODULE Microphone ------------------------------
(***************************************************************************)
(* The microphones (usb-mic-singstar.cpp, usb-mic-logitech.cpp): two       *)
(* sources of sound, what the driver sets of them, and the packets that    *)
(* carry their frames, one channel for each player.                        *)
(*                                                                         *)
(* A source is a queue; its frames are numbered as they are captured.  A   *)
(* sample in a packet is the source it comes from and the frame.           *)
(***************************************************************************)
EXTENDS UsbAudio, FiniteSets

CONSTANTS
  Setups,      \* what the two settings of the device may lead to: the channels
               \* of each source, 0 when there is none, whether they are the
               \* same device, and whether the microphone has only one
  Rates,       \* sampling rates, as frames in a millisecond, 0 if not whole
  Usual,       \* 48 kHz, with which a device and its sources begin
  Sizes,       \* packets, in samples
  Requests,    \* requests the driver may send
  Alts,        \* settings of the interface the guest uses, of 0 to 2
  MaxFrames    \* frames a source captures

MicrophoneConstants ==
  /\ \A s \in Setups : s.chans \in [0..1 -> 0..2] /\ s.same \in BOOLEAN /\ s.mono \in BOOLEAN
  /\ Usual \in Rates /\ Rates \subseteq Nat /\ Sizes \subseteq Nat /\ MaxFrames \in Nat /\ Alts \subseteq 0..2

VARIABLES
  state,    \* "none", "closed", "open"
  setup,    \* the settings it was made with
  f,        \* what is frozen: intf, mode, mute, vol, srate
  src,      \* the sources: channels, frames captured, frames waiting, capturing
  packet,   \* the last packet: status, samples, room, settings, both channels
  lost,     \* history: the sources of which a frame was taken but not sent
  request, reply,    \* the last control request and its answer
  saved     \* a saved state, and the settings of the device that saved it

vars == <<state, setup, f, src, packet, lost, request, reply, saved>>

Nothing == [chans |-> 0, next |-> 0, waiting |-> 0, on |-> FALSE, rate |-> Usual]
NoRequest == Ask("none", "none", 0, 0)
Defaults == [intf |-> 0, mode |-> "none", mute |-> FALSE, vol |-> <<240, 240>>, srate |-> <<Usual, Usual>>]
NoPacket == [status |-> "none", length |-> 0, room |-> 0, by |-> [mode |-> "none", intf |-> 0, mute |-> FALSE], chan |-> <<{}, {}>>]
Channels == 1..2
Sources == 0..1

Init ==
  /\ state = "none" /\ setup \in Setups
  /\ f = Defaults /\ src = [i \in Sources |-> Nothing]
  /\ packet = NoPacket /\ lost = {} /\ request = NoRequest /\ reply = Done
  /\ saved = <<>>

-----------------------------------------------------------------------------
(* SingstarDevice::CreateDevice; the other microphones are made by it.      *)

\* The AK5370 has one microphone and asks for the first only.
Mono(s) == s.mono
Present(s, i) == s.chans[i] > 0 /\ ~(i = 1 /\ Mono(s))
Both(s) == Present(s, 0) /\ Present(s, 1)
\* Two sources that are the same device are one, with two channels.
ModeOf(s) == IF Both(s) THEN IF s.same THEN "shared" ELSE "separate" ELSE "single"
Kept(s, i) == Present(s, i) /\ ~(i = 1 /\ ModeOf(s) = "shared")

CreateDevice(s) ==
  /\ state = "none" /\ \E i \in Sources : Present(s, i)
  /\ state' = "closed" /\ setup' = s /\ lost' = {}
  /\ f' = [Defaults EXCEPT !.mode = ModeOf(s)]
  /\ src' = [i \in Sources |-> [Nothing EXCEPT !.chans = IF Kept(s, i) THEN s.chans[i] ELSE 0]]
  /\ UNCHANGED <<packet, request, reply, saved>>

\* singstar_mic_handle_open, _close, _destroy.
Switch(on) == [i \in Sources |-> [src[i] EXCEPT !.on = on /\ src[i].chans > 0]]
Open == /\ state = "closed" /\ state' = "open" /\ src' = Switch(TRUE)
        /\ UNCHANGED <<setup, f, packet, lost, request, reply, saved>>
Close == /\ state = "open" /\ state' = "closed" /\ src' = Switch(FALSE)
         /\ UNCHANGED <<setup, f, packet, lost, request, reply, saved>>
Destroy == /\ state # "none" /\ state' = "none"
           /\ src' = [i \in Sources |-> Nothing] /\ packet' = NoPacket
           /\ f' = Defaults /\ lost' = {}
           /\ request' = NoRequest /\ reply' = Done /\ UNCHANGED <<setup, saved>>

\* The source, in its own thread.
Capture(i, n) ==
  /\ src[i].on /\ src[i].next + n <= MaxFrames
  /\ src' = [src EXCEPT ![i].next = @ + n, ![i].waiting = @ + n]
  /\ UNCHANGED <<state, setup, f, packet, lost, request, reply, saved>>

-----------------------------------------------------------------------------
(* Control requests.                                                       *)

\* The entries of vol that channel c stands for: all of them for the master.
Chosen(c) == IF c = 0 THEN Channels ELSE Channels \cap {c}

\* Reading stops at an entry that does not fit; it is written at its place.
GetVolume(c, len) ==
  IF \A i \in Chosen(c) : i > len \div 2 THEN Stall
  ELSE [ret |-> 2, word |-> IF 1 \in Chosen(c) THEN <<ToRaw(f.vol[1])>> ELSE <<>>]
GetControl(r) ==
  CASE r.cs = "mute" -> IF r.op = "GetCur" THEN Byte(IF f.mute THEN 1 ELSE 0) ELSE Stall
    [] r.cs = "volume" -> IF r.op = "GetCur" THEN GetVolume(r.chan, r.len) ELSE Word(Limit(r.op))
    [] OTHER -> Stall

\* The master takes a word for each channel, or the first where there is none.
WordFor(c, i, len, data) == data[IF c = 0 /\ 2 * (i - 1) < len - 1 THEN i ELSE 1]
SetVolume(r) ==
  [f EXCEPT !.vol = [i \in Channels |->
     IF i \in Chosen(r.chan) THEN FromRaw(WordFor(r.chan, i, r.len, r.data)) ELSE f.vol[i]]]
SetControl(r) ==
  CASE r.cs = "mute" -> [f EXCEPT !.mute = r.data[1] % 2 = 1]
    [] r.cs = "volume" -> SetVolume(r)
    [] OTHER -> f
Sets(r) == r.cs \in {"mute", "agc"} \/ (r.cs = "volume" /\ Chosen(r.chan) # {})

\* The frequency is an endpoint's; the answer's length never reaches the packet.
EpReply(r) == IF r.op = "SetCur" THEN Done ELSE [ret |-> 0, word |-> <<f.srate[1]>>]
SetRate(r) == [f EXCEPT !.srate = [i \in Channels |-> IF i \in Chosen(r.chan) THEN r.data[1] ELSE f.srate[i]]]
\* Every source there is, of the channels chosen, is told its rate.
Resampled(g, c) ==
  [i \in Sources |-> IF src[i].chans > 0 /\ i + 1 \in Chosen(c)
                     THEN [src[i] EXCEPT !.rate = g.srate[i + 1]] ELSE src[i]]

HandleControl(r) ==
  LET setRate == r.cs = "frequency" /\ r.op = "SetCur"
      g == IF r.op # "SetCur" THEN f ELSE IF setRate THEN SetRate(r) ELSE SetControl(r)
  IN /\ state # "none" /\ request' = r /\ f' = g
     /\ src' = IF setRate THEN Resampled(g, r.chan) ELSE src
     /\ reply' = CASE r.cs = "frequency" -> EpReply(r)
                   [] r.op # "SetCur" -> GetControl(r)
                   [] OTHER -> IF Sets(r) THEN Done ELSE Stall
     /\ UNCHANGED <<state, setup, packet, lost, saved>>

\* Whatever the interface, its setting is taken for the number of channels.
SetInterface(alt) ==
  /\ state # "none" /\ f' = [f EXCEPT !.intf = alt]
  /\ UNCHANGED <<state, setup, src, packet, lost, request, reply, saved>>

-----------------------------------------------------------------------------
(* singstar_mic_handle_data: a packet with room for size samples.          *)

OutChns == IF f.intf = 1 THEN 1 ELSE 2
\* Only a millisecond of sound is sent where that is a whole number of frames.
MaxIn(size) ==
  LET ms == OutChns * f.srate[1]
  IN (IF f.srate[1] > 0 /\ ms < size THEN ms ELSE size) \div OutChns
Smaller(a, b) == IF a < b THEN a ELSE b

\* What is taken of each source: nothing when it cannot be asked.
Taken(i, max, ok) == IF src[i].chans > 0 /\ ok[i] THEN Smaller(max, src[i].waiting) ELSE 0

\* Whether there is nothing to send is told by the second source alone; one
\* that is not there counts as full.
Refused(max, ok) == IF src[1].chans = 0 THEN max = 0 ELSE Taken(1, max, ok) = 0

Frames(i, n) == {<<i, src[i].next - src[i].waiting + k>> : k \in 0..n - 1}
Only == IF src[0].chans > 0 THEN 0 ELSE 1
\* The number of frames sent, and the samples on both channels.
\* Mutant of Sent: a single microphone is always the first player's.
SentFirst(took) ==
  CASE f.mode = "single" -> [n |-> took[Only], chan |-> <<Frames(Only, took[Only]), {}>>]
    [] f.mode = "shared" -> [n |-> took[0], chan |-> <<Frames(0, took[0]), {}>>]
    [] f.mode = "separate" -> [n |-> took[0], chan |-> <<Frames(0, took[0]), Frames(1, took[1])>>]
Sent(took) ==
  LET stereo == OutChns = 2
      second(s) == IF stereo THEN s ELSE {}
  IN CASE f.mode = "single" ->
            LET s == Frames(Only, took[Only])
            IN [n |-> took[Only],
                chan |-> IF stereo /\ Only = 1 THEN <<{}, s>> ELSE <<s, {}>>]
       [] f.mode = "shared" ->
            [n |-> took[0], chan |-> <<Frames(0, took[0]), second(Frames(0, took[0]))>>]
       [] f.mode = "separate" ->
            LET n == Smaller(took[0], took[1])
            IN [n |-> n, chan |-> <<Frames(0, n), second(Frames(1, n))>>]

HandleData(size, ok) ==
  LET max == MaxIn(size)
      took == [i \in Sources |-> Taken(i, max, ok)]
      refused == Refused(max, ok)
      sent == IF refused THEN [n |-> 0, chan |-> <<{}, {}>>] ELSE Sent(took)
      gone == {i \in Sources : Frames(i, took[i]) \ (sent.chan[1] \cup sent.chan[2]) # {}}
  IN /\ state = "open"
     /\ packet' = [status |-> IF refused THEN "nak" ELSE "ok", length |-> sent.n * OutChns,
                   room |-> size, by |-> [mode |-> f.mode, intf |-> f.intf, mute |-> f.mute], chan |-> sent.chan]
     /\ src' = [i \in Sources |-> [src[i] EXCEPT !.waiting = @ - took[i]]]
     /\ lost' = lost \cup gone
     /\ UNCHANGED <<state, setup, f, request, reply, saved>>

-----------------------------------------------------------------------------
(* SingstarDevice::Freeze.  The state is loaded into a device made with    *)
(* the same settings.                                                      *)

Save == /\ state # "none" /\ saved = <<>> /\ saved' = <<[f |-> f, setup |-> setup]>>
        /\ UNCHANGED <<state, setup, f, src, packet, lost, request, reply>>
Load == /\ state # "none" /\ saved # <<>> /\ saved[1].setup = setup
        /\ f' = saved[1].f /\ src' = Resampled(saved[1].f, 0) /\ saved' = <<>>
        /\ request' = NoRequest /\ reply' = Done /\ UNCHANGED <<state, setup, packet, lost>>

Driver == (\E r \in Requests : HandleControl(r)) \/ (\E alt \in Alts : SetInterface(alt))
          \/ (\E size \in Sizes, ok \in [Sources -> BOOLEAN] : HandleData(size, ok))
Next == (\E s \in Setups : CreateDevice(s)) \/ Open \/ Close \/ Destroy \/ Driver
        \/ (\E i \in Sources, n \in 1..2 : Capture(i, n)) \/ Save \/ Load
Spec == Init /\ [][Next]_vars

-----------------------------------------------------------------------------
(* Properties.                                                             *)

\* Type invariant.
TypeOK ==
  /\ state \in {"none", "closed", "open"} /\ lost \subseteq Sources
  /\ f.intf \in 0..2 /\ f.mode \in {"none", "single", "shared", "separate"}
  /\ f.mute \in BOOLEAN /\ f.vol \in [Channels -> 0..255] /\ f.srate \in [Channels -> Rates]
  /\ \A i \in Sources : src[i].waiting \in 0..src[i].next /\ src[i].next \in 0..MaxFrames
  /\ packet.status \in {"none", "ok", "nak"}

\* The mode, which also comes from saved states, names only sources that there
\* are, and no two sources capture the same device.
ModeHasSources ==
  state # "none" =>
    /\ f.mode = "single" => \E i \in Sources : src[i].chans > 0
    /\ f.mode = "shared" => src[0].chans > 0 /\ src[1].chans = 0
    /\ f.mode = "separate" => \A i \in Sources : src[i].chans > 0
    /\ setup.same => ~(src[0].chans > 0 /\ src[1].chans > 0)

\* Nothing is recorded while the device is closed or gone.
CapturesOnlyOpen == \A i \in Sources : src[i].on => state = "open" /\ src[i].chans > 0

\* A frame that was taken from its source and never sent was dropped beside
\* the other player's: with one source, nothing is lost.
LossNeedsOther == lost # {} => setup.chans[0] > 0 /\ setup.chans[1] > 0 /\ ~setup.same /\ ~setup.mono

\* Where there are two channels each player's voice is on their own, also when
\* only one of them has a microphone.
OwnChannel ==
  \A c \in Channels : \A s \in packet.chan[c] :
    packet.by.mode \in {"single", "separate"} /\ packet.by.intf # 1 => s[1] = c - 1

\* A packet never holds more than was asked for, and where both players speak
\* into one packet they speak for the same time.
PacketFits ==
  /\ packet.length <= packet.room
  /\ packet.by.mode = "separate" /\ packet.by.intf # 1
       => Cardinality(packet.chan[1]) = Cardinality(packet.chan[2])

\* Every source runs at the rate the guest set, or had set in the loaded state.
RatesFollow == \A i \in Sources : src[i].chans > 0 => src[i].rate = f.srate[i + 1]

\* A driver that writes back the volume it has read changes nothing.
WriteBackKeeps ==
  [][request.op = "GetCur" /\ request.cs = "volume" /\ request'.op = "SetCur"
     /\ request'.cs = "volume" /\ request'.chan = request.chan
     /\ reply.word = <<request'.data[1]>> => f'.vol[1] = f.vol[1]]_vars

\* A louder volume is never stored as a lower one.
LouderIsLouder ==
  [][request.op = "SetCur" /\ request'.op = "SetCur" /\ request.cs = "volume"
     /\ request'.cs = "volume" /\ request.chan = 1 /\ request'.chan = 1
     /\ Loudness(request.data[1]) <= Loudness(request'.data[1])
       => f.vol[1] <= f'.vol[1]]_vars

=============================================================================
