------------------------------ MODULE EyeToyDevice ------------------------------
(***************************************************************************)
(* The pictures of the EyeToy on the bus (usb-eyetoy-webcam.cpp): a packet *)
(* with a header and the first bytes, packets with the rest, a footer.     *)
(* The camera is any FrameSource.  A driver collects the bytes between a   *)
(* header and a footer.                                                    *)
(*                                                                         *)
(* A byte of a picture is the picture's number and the byte's place.  Left *)
(* out: the microphone's endpoint, which is silent, and the contents of    *)
(* header and footer.                                                      *)
(***************************************************************************)
EXTENDS FrameSource, SequencesExt

CONSTANTS
  Length,       \* of each picture, in bytes
  max_ep_size, HeaderSize,
  BufferSize,   \* of mpeg_frame_data; GetImage gives no more than is asked for
  PacketSizes   \* of the packets the controller asks for
EyeToyDeviceConstants ==
  /\ BufferSize \in Nat /\ Length \in [Dummy..MaxFrames -> 0..BufferSize]
  /\ max_ep_size \in Nat /\ HeaderSize \in 1..max_ep_size /\ max_ep_size - HeaderSize <= BufferSize
  /\ PacketSizes \subseteq Nat

VARIABLES
  frame_step, mpeg_frame_data, mpeg_frame_size, mpeg_frame_offset,
  aborted,    \* an assertion failed
  collected,  \* of the driver: <<>>, or the bytes since the header
  picture     \* what it had at the last footer, or <<>>

device == <<frame_step, mpeg_frame_data, mpeg_frame_size, mpeg_frame_offset>>
driver == <<collected, picture>>
vars == <<source, device, aborted, driver>>

Zero == <<Blank, 0>>   \* memory as calloc gives it
Fill == <<Blank, 1>>   \* 0xff
Bytes(f) == IF f = Blank THEN <<>> ELSE [i \in 1..Length[f] |-> <<f, i>>]

Init ==
  /\ SourceInit /\ aborted = FALSE /\ collected = <<>> /\ picture = <<>>
  /\ frame_step = 0 /\ mpeg_frame_size = 0 /\ mpeg_frame_offset = 0
  /\ mpeg_frame_data = [i \in 1..BufferSize |-> Zero]

-----------------------------------------------------------------------------
(* The packets.                                                            *)

\* usb_packet_copy(p, data, max_ep_size): the packet must have room.
CopyFits(size) == max_ep_size <= size

\* memcpy over the picture of before.
Overlaid(bytes) == [i \in 1..BufferSize |-> IF i <= Len(bytes) THEN bytes[i] ELSE mpeg_frame_data[i]]
Padded(bytes) == bytes \o [i \in 1 .. max_ep_size - Len(bytes) |-> Fill]

\* No picture: a packet of fill.
NoFrame ==
  /\ frame_step = 0 /\ GetImage /\ Bytes(got') = <<>>
  /\ mpeg_frame_size' = 0
  /\ UNCHANGED <<frame_step, mpeg_frame_data, mpeg_frame_offset, driver>>
\* The header and the first bytes, of a picture that may be shorter.
FirstBytes == max_ep_size - HeaderSize
Begin ==
  /\ mpeg_frame_size' = Len(Bytes(got')) /\ mpeg_frame_data' = Overlaid(Bytes(got'))
  /\ mpeg_frame_offset' = FirstBytes
  /\ collected' = <<SubSeq(mpeg_frame_data', 1, FirstBytes)>>
Header ==
  /\ frame_step = 0 /\ GetImage /\ Bytes(got') # <<>>
  /\ Begin /\ frame_step' = frame_step + 1
  /\ UNCHANGED picture
\* The rest; a driver that has not seen the header has no use for it.
Advance(n) == mpeg_frame_offset' = mpeg_frame_offset + n
Rest ==
  /\ frame_step # 0 /\ mpeg_frame_offset < mpeg_frame_size
  /\ LET left == mpeg_frame_size - mpeg_frame_offset
         n == IF left > max_ep_size THEN max_ep_size ELSE left
     IN /\ collected' = IF collected = <<>> THEN <<>>
                        ELSE <<collected[1] \o
                               Padded(SubSeq(mpeg_frame_data, mpeg_frame_offset + 1, mpeg_frame_offset + n))>>
        /\ Advance(n)
  /\ UNCHANGED <<source, frame_step, mpeg_frame_data, mpeg_frame_size, picture>>
Footer ==
  /\ frame_step # 0 /\ mpeg_frame_offset >= mpeg_frame_size
  /\ frame_step' = 0
  /\ picture' = IF collected = <<>> THEN picture ELSE collected[1]
  /\ collected' = <<>>
  /\ UNCHANGED <<source, mpeg_frame_data, mpeg_frame_size, mpeg_frame_offset>>

\* eyetoy_handle_data.
HandleData(size) ==
  /\ ~aborted
  /\ IF CopyFits(size) THEN (NoFrame \/ Header \/ Rest \/ Footer) /\ UNCHANGED aborted
     ELSE aborted' = TRUE /\ UNCHANGED <<source, device, driver>>

\* The driver starts again, without a word to the device that it could use:
\* a reset of the bus only brings back the sensor's registers.
Resync ==
  /\ ~aborted /\ collected # <<>> /\ collected' = <<>> /\ UNCHANGED <<source, device, aborted, picture>>
Camera == ~aborted /\ (Store \/ Restart) /\ UNCHANGED <<device, aborted, driver>>

Poll == \E size \in PacketSizes : HandleData(size)
Next == Poll \/ Resync \/ Camera
Spec == Init /\ [][Next]_vars
FairSpec == Spec /\ WF_vars(Poll)

-----------------------------------------------------------------------------
(* Properties.                                                             *)

\* Type invariant.
TypeOK ==
  /\ frame_step \in {0, 1} /\ mpeg_frame_size \in 0..BufferSize
  /\ mpeg_frame_data \in [1..BufferSize -> {Zero} \cup ((0..MaxFrames) \X (1..BufferSize))]
  /\ frame_step = 1 => mpeg_frame_offset <= mpeg_frame_size \/ mpeg_frame_offset = FirstBytes
  /\ {latest, got, newest} \subseteq Frames

\* Between a header and the footer that follows is one whole picture, however
\* short or long, also when the camera stores others or is opened again
\* meanwhile; what comes after its last byte is of no meaning.
WholePicture ==
  picture = <<>> \/ \E f \in Dummy..MaxFrames : IsPrefix(Bytes(f), picture) /\ Bytes(f) # <<>>

\* What begins comes to its footer.
FooterComes == (frame_step # 0) ~> (frame_step = 0)

=============================================================================
