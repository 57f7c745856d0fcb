------------------------------ MODULE PulseSource ------------------------------
(***************************************************************************)
(* A recording PulseAudioDevice, src/usb-mic/audiodev-pulse.cpp: PulseAudio's *)
(* thread, which runs stream_read_cb, against the emulator's, which calls  *)
(* GetFrames, GetBuffer, SetResampling, Start and Stop for a microphone.   *)
(*                                                                         *)
(* A frame is its serial number.  The resampler gives one frame for one.   *)
(* stream_read_cb fills and empties mInBuffer without the mutex, so that   *)
(* ResetBuffers may replace its memory between any two steps; what was in  *)
(* the old memory, or is copied there late, is Blank from then on.         *)
(***************************************************************************)
EXTENDS Rings, Sequences, FiniteSetsExt

CONSTANTS
  InFrames, OutFrames,  \* capacities of mInBuffer and mOutBuffer
  Fragments,            \* numbers of frames PulseAudio delivers at once
  MaxFrames,            \* frames a USB packet takes
  Frames                \* bound: frames recorded in all

SourceConstants ==
  /\ {InFrames, OutFrames, MaxFrames} \subseteq Nat \ {0}
  /\ Fragments \subseteq Nat \ {0} /\ Frames \in Nat

VARIABLES
  paused,    \* mPaused
  in, out,   \* mInBuffer, mOutBuffer: the members of RingBuffer, and m_data
  mutex,     \* who holds mMutex
  cb,        \* stream_read_cb: where it is, and the frames it has in hand
  em,        \* the emulator's thread: where it is, frames asked for, read, found
  recorded,  \* history: frames PulseAudio has delivered
  heard      \* history: serial number after the last frame the device got

vars == <<paused, in, out, mutex, cb, em, recorded, heard>>

Blank == -1
Buffer(cap) == [ring |-> NewRing(cap), cell |-> [i \in 0 .. cap - 1 |-> Blank]]

\* memcpy to back() and write, of as much as goes in one piece
Piece(b, data) == SubSeq(data, 1, Min({Len(data), PeekWrite(b.ring)}))
Put(b, data) ==
  [ring |-> Written(b.ring, Len(data)),
   cell |-> [i \in DOMAIN b.cell |->
               IF i \in b.ring.end .. b.ring.end + Len(data) - 1
               THEN data[i - b.ring.end + 1] ELSE b.cell[i]]]

\* memcpy from front() and read, of n frames that lie in one piece
AtFront(b, n) == [i \in 1 .. n |-> b.cell[b.ring.begin + i - 1]]
Dropped(b, n) == [b EXCEPT !.ring = Taken(b.ring, n)]

Resting == [at |-> "idle", want |-> 0, got |-> <<>>, found |-> 0]

Init ==
  /\ paused = TRUE /\ mutex = "free"
  /\ in = Buffer(InFrames) /\ out = Buffer(OutFrames)
  /\ cb = [at |-> "idle", data |-> <<>>]
  /\ em = Resting
  /\ recorded = 0 /\ heard = 0

-----------------------------------------------------------------------------
(* PulseAudio's thread.                                                    *)

\* A fragment arrives; nobody wants it while the device is paused.
Fragment(n) ==
  /\ cb.at = "idle" /\ recorded + n <= Frames
  /\ recorded' = recorded + n
  /\ cb' = IF paused THEN cb
           ELSE [at |-> "write", data |-> [i \in 1 .. n |-> recorded + i - 1]]
  /\ UNCHANGED <<paused, in, out, mutex, em, heard>>

\* mInBuffer.write
WriteIn ==
  /\ cb.at = "write"
  /\ LET piece == Piece(in, cb.data)
         rest  == SubSeq(cb.data, Len(piece) + 1, Len(cb.data)) IN
     /\ in' = Put(in, piece)
     /\ cb' = [at |-> IF rest = <<>> THEN "convert" ELSE "write", data |-> rest]
  /\ UNCHANGED <<paused, out, mutex, em, recorded, heard>>

\* One round of src_process, from mInBuffer to rebuf
Convert ==
  /\ cb.at = "convert" /\ PeekRead(in.ring) > 0
  /\ cb' = [cb EXCEPT !.data = @ \o AtFront(in, PeekRead(in.ring))]
  /\ in' = Dropped(in, PeekRead(in.ring))
  /\ UNCHANGED <<paused, out, mutex, em, recorded, heard>>

Lock ==
  /\ cb.at = "convert" /\ PeekRead(in.ring) = 0 /\ mutex = "free"
  /\ mutex' = "callback" /\ cb' = [cb EXCEPT !.at = "deliver"]
  /\ UNCHANGED <<paused, in, out, em, recorded, heard>>

\* One round of the loop that fills mOutBuffer
Deliver ==
  /\ cb.at = "deliver" /\ cb.data # <<>>
  /\ LET piece == Piece(out, cb.data) IN
     /\ out' = Put(out, piece)
     /\ cb' = [cb EXCEPT !.data = SubSeq(@, Len(piece) + 1, Len(@))]
  /\ UNCHANGED <<paused, in, mutex, em, recorded, heard>>

Return ==
  /\ cb.at = "deliver" /\ cb.data = <<>>
  /\ cb' = [cb EXCEPT !.at = "idle"] /\ mutex' = "free"
  /\ UNCHANGED <<paused, in, out, em, recorded, heard>>

-----------------------------------------------------------------------------
(* The emulator's thread.                                                  *)

\* GetFrames, and how much of it the packet takes
GetFrames ==
  /\ em.at = "idle" /\ mutex = "free"
  /\ em' = [em EXCEPT !.at = "told", !.want = Min({MaxFrames, Size(out.ring)})]
  /\ UNCHANGED <<paused, in, out, mutex, cb, recorded, heard>>

\* GetBuffer takes the mutex again, and asserts that it finds what it was told.
GetBuffer ==
  /\ em.at = "told" /\ mutex = "free" /\ mutex' = "emulator"
  /\ em' = [em EXCEPT !.at = "read", !.found = Size(out.ring)]
  /\ UNCHANGED <<paused, in, out, cb, recorded, heard>>

\* One round of its loop
Read ==
  /\ em.at = "read" /\ em.want > 0 /\ PeekRead(out.ring) > 0
  /\ LET n == Min({em.want, PeekRead(out.ring)}) IN
     /\ em' = [em EXCEPT !.want = @ - n, !.got = @ \o AtFront(out, n)]
     /\ out' = Dropped(out, n)
  /\ UNCHANGED <<paused, in, mutex, cb, recorded, heard>>

Recordings(s) == SelectSeq(s, LAMBDA frame : frame # Blank)

Unlock ==
  /\ em.at = "read" /\ (em.want = 0 \/ PeekRead(out.ring) = 0)
  /\ heard' = LET frames == Recordings(em.got) IN
              IF frames = <<>> THEN heard ELSE frames[Len(frames)] + 1
  /\ em' = Resting /\ mutex' = "free"
  /\ UNCHANGED <<paused, in, out, cb, recorded>>

\* reserve, with the capacity it has: new memory under the old indices.
Reserved(b) == [b EXCEPT !.cell = [i \in DOMAIN b.cell |-> Blank]]

ResetBuffers ==
  /\ em.at = "idle" /\ mutex = "free"
  /\ in' = Reserved(in) /\ out' = Reserved(out)
  /\ UNCHANGED <<mutex, cb, em, recorded, heard>>

SetResampling == ResetBuffers /\ UNCHANGED paused
Start == ResetBuffers /\ paused' = FALSE
Stop ==
  /\ em.at = "idle" /\ paused' = TRUE
  /\ UNCHANGED <<in, out, mutex, cb, em, recorded, heard>>

-----------------------------------------------------------------------------
Callback ==
  \/ \E n \in Fragments : Fragment(n)
  \/ WriteIn \/ Convert \/ Lock \/ Deliver \/ Return
Emulator ==
  \/ GetFrames \/ GetBuffer \/ Read \/ Unlock
  \/ SetResampling \/ Start \/ Stop

Next == Callback \/ Emulator
Spec == Init /\ [][Next]_vars

-----------------------------------------------------------------------------
IsBuffer(b, cap) ==
  /\ b.ring \in [begin : 0 .. cap - 1, end : 0 .. cap - 1, cap : {cap}, overrun : BOOLEAN]
  /\ b.cell \in [0 .. cap - 1 -> Blank .. Frames - 1]

TypeOK ==
  /\ paused \in BOOLEAN /\ mutex \in {"free", "callback", "emulator"}
  /\ IsBuffer(in, InFrames) /\ IsBuffer(out, OutFrames)
  /\ cb.at \in {"idle", "write", "convert", "deliver"}
  /\ cb.data \in Seq(Blank .. Frames - 1)
  /\ em.at \in {"idle", "told", "read"} /\ em.got \in Seq(Blank .. Frames - 1)
  /\ em.want \in 0 .. MaxFrames /\ em.found \in 0 .. OutFrames
  /\ recorded \in 0 .. Frames /\ heard \in 0 .. Frames

Held(b) ==
  [i \in 1 .. Size(b.ring) |-> b.cell[Wrap(b.ring.begin + i - 1, b.ring.cap)]]

\* What is between the device and PulseAudio, oldest first.
OnItsWay ==
  em.got \o Held(out) \o
  IF cb.at = "write" THEN Held(in) \o cb.data ELSE cb.data \o Held(in)

\* The device hears every frame once and in the order it was recorded, however
\* callbacks, reads, overruns and resets interleave (audiodev-pulse.cpp:313-358
\* and 763-818): what is on its way is newer than what it heard, and in order.
DeliveredInOrder ==
  LET frames == <<heard - 1>> \o Recordings(OnItsWay) \o <<recorded>> IN
  \A i \in 1 .. Len(frames) - 1 : frames[i] < frames[i + 1]

\* While GetBuffer copies, only it changes the buffer: what its assertion saw is
\* still there, so that its loop gets all the frames it passed the assertion with.
ReadsWhatItFound ==
  em.at = "read" => Size(out.ring) = em.found - Len(em.got)

\* A recording that disappears before the device has it was in a buffer that a
\* write filled, or whose memory was replaced.
LostOnlyToOverrun ==
  [][LET gone == Range(Recordings(OnItsWay)) \ Range(Recordings(OnItsWay')) IN
     (gone # {} /\ heard' = heard) =>
       \/ in' = Reserved(in) /\ out' = Reserved(out)
       \/ Size(in.ring) + Len(cb.data) - Len(cb'.data) >= InFrames
       \/ Size(out.ring) + Len(cb.data) - Len(cb'.data) >= OutFrames]_vars

===============================================================================
