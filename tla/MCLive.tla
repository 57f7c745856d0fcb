-------------------------------- MODULE MCLive --------------------------------
(*****************************************************************************)
(* What must come about in the end, one component at a time, each under the  *)
(* fairness its module states.  A behaviour has one part, so that the        *)
(* fairness of the parts can be put together.                                *)
(*****************************************************************************)
EXTENDS Naturals, Integers

CONSTANTS 
  None,   \* no endpoint
  Parts   \* the components of the run

VARIABLES
  part,  \* the component that runs; it never changes
  hcfs, eof_timer, remaining, since, intr, intr_status, raised, waited,
  pointer_queue, head, n, reader, poller, moved, pressed, pointer_got, seen,
  keyboard_queue, modifiers, keys, keyboard_held, missed,
  handle, thread_running, joinable, threads, thread_main, opens, told,
  slot_type, dev, effect, mLastValue, autocenter, mUseRawFF, mFFData,
  writer, written, want, astray,
  object, wasapi_main, audio, wasapi_mutex, system, com, wasapi_running,
  mDeviceLost, wasapi_mPaused, wasapi_mQuit, rates, soon, wasapi_frames,
  fetched, wasapi_wanted, wasapi_losses, leaked,
  pulse_main, loop, lock, pulse_mutex, server, context, stream, corked,
  mPAready, pulse_mQuit, pulse_mPaused, pulse_wanted, pulse_losses,
  frame_number, td, iso_queue, done, unserved, age, sent,
  v4l2_main, after, thread, eyetoy_running, fd, mapped, v4l2_mpeg_buffer,
  v4l2_mpeg_mutex, v4l2_frame, stale, v4l2_image, world, v4l2_frames, past,
  dshow_main, callback, pointers, live, runs, dshow_mpeg_buffer,
  dshow_mpeg_mutex, dshow_frame, dshow_image, dshow_frames, bad,
  dshow_failed, lost,
  latest, eyetoy_got, newest, frame_step, mpeg_frame_data, mpeg_frame_size,
  mpeg_frame_offset, aborted, collected, picture,
  packet, packet_queue, ep_halted, packet_held, async_td, tds, stopped, ctl,
  state, packet_failed

interruptsVars == <<hcfs, eof_timer, remaining, since, intr, intr_status,
                    raised, waited>>
pointerVars == <<pointer_queue, head, n, reader, poller, moved, pressed,
                 pointer_got, seen>>
keyboardVars == <<keyboard_queue, modifiers, keys, keyboard_held, missed>>
threadVars == <<handle, thread_running, joinable, threads, thread_main, opens,
                told>>
rumbleVars == <<slot_type, dev, effect, mLastValue, autocenter, mUseRawFF,
                mFFData, writer, written, want, astray>>
wasapiVars == <<object, wasapi_main, audio, wasapi_mutex, system, com,
                wasapi_running, mDeviceLost, wasapi_mPaused, wasapi_mQuit,
                rates, soon, wasapi_frames, fetched, wasapi_wanted,
                wasapi_losses, leaked>>
pulseVars == <<pulse_main, loop, lock, pulse_mutex, server, context, stream,
               corked, mPAready, pulse_mQuit, pulse_mPaused, pulse_wanted,
               pulse_losses>>
isoVars == <<frame_number, td, iso_queue, done, unserved, age, sent>>
v4l2Vars == <<v4l2_main, after, thread, eyetoy_running, fd, mapped,
              v4l2_mpeg_buffer, v4l2_mpeg_mutex, v4l2_frame, stale,
              v4l2_image, world, v4l2_frames, past>>
dshowVars == <<dshow_main, callback, pointers, live, runs, dshow_mpeg_buffer,
               dshow_mpeg_mutex, dshow_frame, dshow_image, dshow_frames, bad,
               dshow_failed, lost>>
eyetoyVars == <<latest, eyetoy_got, newest, frame_step, mpeg_frame_data,
                mpeg_frame_size, mpeg_frame_offset, aborted, collected,
                picture>>
packetVars == <<packet, packet_queue, ep_halted, packet_held, async_td, tds,
                stopped, ctl, state, packet_failed>>
vars == <<part, interruptsVars, pointerVars, keyboardVars, threadVars,
          rumbleVars, wasapiVars, pulseVars, isoVars, v4l2Vars, dshowVars,
          eyetoyVars, packetVars>>

-----------------------------------------------------------------------------
\* Frames of three cycles and an interval of one.
Irq == INSTANCE OhciInterrupts WITH
    Enables <- {{"SF", "MIE"}}, Cycles <- {1, 2}, Interval <- 1,
    FrameTime <- 3, Lag <- 1, MaxRemaining <- 3
ASSUME Irq!InterruptConstants

Pointer == INSTANCE HidPointer WITH
    QUEUE_LENGTH <- 2, Axes <- {"dx"}, Clamp <- 1, Moves <- {-1, 2},
    MaxMoved <- 1, Buttons <- {"left"}, Overlap <- FALSE,
    queue <- pointer_queue, got <- pointer_got
ASSUME Pointer!HidAssumption

\* A grey key and one that takes three codes.
Keyboard == INSTANCE HidKeyboard WITH
    QUEUE_LENGTH <- 4, KeySlots <- 1, Keys <- {"Home", "Pause"},
    queue <- keyboard_queue, held <- keyboard_held

Thread == INSTANCE InputThread WITH
    Opens <- 4, Prompt <- TRUE, running <- thread_running, main <- thread_main
ASSUME Thread!InputThreadAssumption

\* A wheel that can rumble and one that has springs.
Forces ==
  {[type |-> "CONSTANT", params |-> <<0, 127, 128, 255>>],
   [type |-> "SPRING", dead1 |-> 100, dead2 |-> 155, k1 |-> 7, k2 |-> 7, s1 |-> 1, s2 |-> 0, clip |-> 255]}
Kinds == {{"CONSTANT", "SPRING", "DAMPER", "FRICTION"}, {"RUMBLE"}}
Wheel == INSTANCE WheelForce WITH
    SlotSets <- {{0}}, Supported <- Kinds, Managed <- BOOLEAN,
    RawFF <- BOOLEAN, MaxRaw <- 2

Wasapi == INSTANCE WasapiDevice WITH
    Dir <- "source", Shared <- TRUE, Rates <- {}, DeviceRates <- {48},
    Room <- 1, MaxLosses <- 1, main <- wasapi_main,
    mutex <- wasapi_mutex, running <- wasapi_running,
    mPaused <- wasapi_mPaused, mQuit <- wasapi_mQuit, frames <- wasapi_frames,
    wanted <- wasapi_wanted, losses <- wasapi_losses
ASSUME Wasapi!WasapiConstants

Pulse == INSTANCE PulseDevice WITH
    Dir <- "sink", Asserts <- FALSE, MaxLosses <- 1, main <- pulse_main,
    mutex <- pulse_mutex, mQuit <- pulse_mQuit, mPaused <- pulse_mPaused,
    wanted <- pulse_wanted, losses <- pulse_losses
ASSUME Pulse!PulseDeviceConstants

\* One TD of two frames.
Iso == INSTANCE OhciIso WITH
    Dir <- "in", Tds <- {1},
    Layouts <- {[bp |-> 8, be |-> 21, offset |-> <<2, 5>>]}, PageSize <- 4,
    Wrap <- 12, Ahead <- 1, MaxUnserved <- 1, queue <- iso_queue
ASSUME Iso!OhciIsoConstants

V4l2 == INSTANCE V4l2Camera WITH
    MaxFrames <- 1, MaxOpens <- 2, Unplugs <- TRUE, main <- v4l2_main,
    mpeg_buffer <- v4l2_mpeg_buffer, mpeg_mutex <- v4l2_mpeg_mutex,
    frame <- v4l2_frame, image <- v4l2_image, frames <- v4l2_frames
ASSUME V4l2!V4l2CameraConstants

DirectShow == INSTANCE DirectShowCamera WITH
    MaxFrames <- 2, MayFail <- TRUE, main <- dshow_main,
    mpeg_buffer <- dshow_mpeg_buffer, mpeg_mutex <- dshow_mpeg_mutex,
    frame <- dshow_frame, image <- dshow_image, frames <- dshow_frames,
    failed <- dshow_failed
ASSUME DirectShow!DirectShowConstants

\* Pictures that end with and after the first packet, and after a later one.
Length == [f \in 0..3 |-> CASE f = 0 -> 5 [] f = 1 -> 1 [] f = 2 -> 2 [] OTHER -> 6]
EyeToy == INSTANCE EyeToyDevice WITH
    MaxFrames <- 3, max_ep_size <- 3, HeaderSize <- 1, BufferSize <- 9, PacketSizes <- {3},
    got <- eyetoy_got
ASSUME EyeToy!EyeToyDeviceConstants
ASSUME EyeToy!FrameSourceConstants

\* The mass storage device on one port and a keyboard on the other.
Eds == {"bulk", "keys"}
DeviceOf == [e \in Eds |-> IF e = "bulk" THEN "msd" ELSE "other"]
KindOf == [e \in Eds |-> IF e = "bulk" THEN "bulk" ELSE "int"]
AnswersOf == [e \in Eds |-> IF e = "bulk" THEN {"SUCCESS", "STALL", "ASYNC"} ELSE {"SUCCESS"}]
Packet == INSTANCE OnePacket WITH
    Devices <- {"msd", "other"}, Dev <- DeviceOf, Kind <- KindOf,
    Answers <- AnswersOf, MaxTds <- 1, queue <- packet_queue,
    held <- packet_held, failed <- packet_failed
ASSUME Packet!OnePacketConstants

-----------------------------------------------------------------------------
\* The components that do not run stay in one of their initial states.
Init ==
  /\ part \in Parts
  /\ Irq!Init
  /\ Pointer!Init
  /\ Keyboard!Init
  /\ Thread!Init
  /\ Wheel!Init
  /\ Wasapi!Init
  /\ Pulse!Init /\ (part # "pulse" => server)
  /\ Iso!Init
  /\ V4l2!Init
  /\ DirectShow!Init
  /\ EyeToy!Init
  /\ Packet!Init

IrqRest == UNCHANGED <<part, pointerVars, keyboardVars, threadVars,
                       rumbleVars, wasapiVars, pulseVars, isoVars, v4l2Vars,
                       dshowVars, eyetoyVars, packetVars>>
IrqStep == part = "interrupts" /\ Irq!Next /\ IrqRest
PointerRest == UNCHANGED <<part, interruptsVars, keyboardVars, threadVars,
                           rumbleVars, wasapiVars, pulseVars, isoVars,
                           v4l2Vars, dshowVars, eyetoyVars, packetVars>>
PointerStep == part = "pointer" /\ Pointer!Next /\ PointerRest
KeyboardRest == UNCHANGED <<part, interruptsVars, pointerVars, threadVars,
                            rumbleVars, wasapiVars, pulseVars, isoVars,
                            v4l2Vars, dshowVars, eyetoyVars, packetVars>>
KeyboardStep == part = "keyboard" /\ Keyboard!Next /\ KeyboardRest
ThreadRest == UNCHANGED <<part, interruptsVars, pointerVars, keyboardVars,
                          rumbleVars, wasapiVars, pulseVars, isoVars,
                          v4l2Vars, dshowVars, eyetoyVars, packetVars>>
ThreadStep == part = "thread" /\ Thread!Next /\ ThreadRest
WheelRest == UNCHANGED <<part, interruptsVars, pointerVars, keyboardVars,
                         threadVars, wasapiVars, pulseVars, isoVars, v4l2Vars,
                         dshowVars, eyetoyVars, packetVars>>
WheelStep == part = "rumble" /\ Wheel!Next /\ WheelRest
WasapiRest == UNCHANGED <<part, interruptsVars, pointerVars, keyboardVars,
                          threadVars, rumbleVars, pulseVars, isoVars,
                          v4l2Vars, dshowVars, eyetoyVars, packetVars>>
WasapiStep == part = "wasapi" /\ Wasapi!Next /\ WasapiRest
PulseRest == UNCHANGED <<part, interruptsVars, pointerVars, keyboardVars,
                         threadVars, rumbleVars, wasapiVars, isoVars,
                         v4l2Vars, dshowVars, eyetoyVars, packetVars>>
PulseStep == part = "pulse" /\ Pulse!Next /\ PulseRest
IsoRest == UNCHANGED <<part, interruptsVars, pointerVars, keyboardVars,
                       threadVars, rumbleVars, wasapiVars, pulseVars,
                       v4l2Vars, dshowVars, eyetoyVars, packetVars>>
IsoStep == part = "iso" /\ Iso!Next /\ IsoRest
V4l2Rest == UNCHANGED <<part, interruptsVars, pointerVars, keyboardVars,
                        threadVars, rumbleVars, wasapiVars, pulseVars,
                        isoVars, dshowVars, eyetoyVars, packetVars>>
V4l2Step == part = "v4l2" /\ V4l2!Next /\ V4l2Rest
DirectShowRest == UNCHANGED <<part, interruptsVars, pointerVars, keyboardVars,
                              threadVars, rumbleVars, wasapiVars, pulseVars,
                              isoVars, v4l2Vars, eyetoyVars, packetVars>>
DirectShowStep == part = "dshow" /\ DirectShow!Next /\ DirectShowRest
EyeToyRest == UNCHANGED <<part, interruptsVars, pointerVars, keyboardVars,
                          threadVars, rumbleVars, wasapiVars, pulseVars,
                          isoVars, v4l2Vars, dshowVars, packetVars>>
EyeToyStep == part = "eyetoy" /\ EyeToy!Next /\ EyeToyRest
PacketRest == UNCHANGED <<part, interruptsVars, pointerVars, keyboardVars,
                          threadVars, rumbleVars, wasapiVars, pulseVars,
                          isoVars, v4l2Vars, dshowVars, eyetoyVars>>
PacketStep == part = "packet" /\ Packet!Next /\ PacketRest
Next == \/ IrqStep \/ PointerStep \/ KeyboardStep \/ ThreadStep \/ WheelStep
        \/ WasapiStep \/ PulseStep \/ IsoStep \/ V4l2Step \/ DirectShowStep
        \/ EyeToyStep \/ PacketStep
Spec == Init /\ [][Next]_vars

\* The fairness of each module.  Weak(i) and Strong(i) are the i-th actions of
\* the parts that are treated fairly; a part that has fewer has none there.
Weak(i) ==
  \/ part = "interrupts" /\ (i = 1 /\ Irq!Async /\ IrqRest)
  \/ /\ part = "pointer" /\ PointerRest
     /\ ((i = 1 /\ Pointer!ReaderStep) \/ (i = 2 /\ Pointer!PollerStep))
  \/ part = "keyboard" /\ (i = 1 /\ Keyboard!Poll /\ KeyboardRest)
  \/ /\ part = "thread" /\ ThreadRest
     /\ ((i = 1 /\ Thread!Main) \/ (i > 1 /\ i - 1 \in Thread!Ids /\ Thread!Thread(i - 1)))
  \/ /\ part = "rumble" /\ WheelRest
     /\ ((i = 1 /\ Wheel!WriterThread) \/ (i = 2 /\ Wheel!Expire("RUMBLE")))
  \/ /\ part = "wasapi" /\ WasapiRest
     /\ \/ (i = 1 /\ Wasapi!Audio) \/ (i = 2 /\ Wasapi!Second)
        \/ (i = 3 /\ Wasapi!OtherReleases) \/ (i = 4 /\ Wasapi!Join)
  \/ /\ part = "pulse" /\ PulseRest
     /\ \/ (i = 1 /\ Pulse!Making) \/ (i = 2 /\ Pulse!Free) \/ (i = 3 /\ Pulse!Transferred)
        \/ (i = 4 /\ Pulse!Cork("uncork", FALSE)) \/ (i = 5 /\ Pulse!Cork("cork", TRUE))
        \/ (i = 6 /\ Pulse!Callback)
  \/ part = "iso" /\ (i = 1 /\ Iso!Frame /\ IsoRest)
  \/ /\ part = "v4l2" /\ V4l2Rest
     /\ ((i = 1 /\ V4l2!ThreadStep) \/ (i = 2 /\ v4l2_main # "idle" /\ V4l2!GetImage))
  \/ /\ part = "dshow" /\ bad = "none" /\ DirectShowRest
     /\ ((i = 1 /\ DirectShow!SampleCB) \/ (i = 2 /\ dshow_main # "idle" /\ DirectShow!GetImage))
  \/ part = "eyetoy" /\ (i = 1 /\ EyeToy!Poll /\ EyeToyRest)
  \/ /\ part = "packet" /\ PacketRest
     /\ \/ (i = 1 /\ Packet!FrameBoundary) \/ (i = 2 /\ Packet!On) \/ (i = 3 /\ Packet!GiveUp("bulk"))
        \/ (i = 4 /\ Packet!GiveUp("keys"))
Strong(i) ==
  \/ part = "pointer" /\ (i = 1 /\ Pointer!Interrupt /\ PointerRest)
  \/ /\ part = "pulse" /\ PulseRest
     /\ \/ (i = 1 /\ Pulse!Wake) \/ (i = 2 /\ Pulse!Disconnect) \/ (i = 3 /\ Pulse!Halt)
        \/ (i = 4 /\ Pulse!Events) \/ (i = 5 /\ Pulse!Transfer)
  \/ /\ part = "v4l2" /\ V4l2Rest
     /\ \/ (i = 1 /\ V4l2!MainStep) \/ (i = 2 /\ thread = "lock" /\ V4l2!StoreFrame)
        \/ (i = 3 /\ thread' \in {"loop", "lock"} /\ (V4l2!Select \/ V4l2!ReadFrame))
  \/ /\ part = "dshow" /\ bad = "none" /\ DirectShowRest
     /\ \/ (i = 1 /\ (DirectShow!Closing \/ (dshow_main # "idle" /\ DirectShow!Opening)))
        \/ (i = 2 /\ callback = "lock" /\ DirectShow!SampleCB)
  \/ /\ part = "packet" /\ PacketRest
     /\ \/ (i = 1 /\ Packet!Service("bulk")) \/ (i = 2 /\ Packet!Service("keys"))
        \/ (i = 3 /\ Packet!Paused("bulk")) \/ (i = 4 /\ Packet!Paused("keys"))
\* Enough for the parts that need no strong fairness.
WeakSpec == Spec /\ \A i \in 1..5 : WF_vars(Weak(i))
FairSpec == Spec /\ (\A i \in 1..6 : WF_vars(Weak(i))) /\ (\A i \in 1..5 : SF_vars(Strong(i)))

-----------------------------------------------------------------------------
(* Properties.  Each puts together what the modules of the parts state and explain. *)

\* What was begun comes to its end: an interrupt that is pending reaches the
\* processor (usb-ohci.cpp:65); a key that stays as it is comes to be known
\* (hid.cpp:229); a device that stays open is read, Open returns and the thread
\* of a closed one ends (evdev.cpp:583); a rumble nobody wants stops; an audio
\* thread that is told to quit ends, and a device that was lost and is back is
\* found; every isochronous TD comes back; a picture that was begun is sent to
\* its footer.
ComesToAnEnd ==
  /\ Irq!InterruptRaised
  /\ Keyboard!KeysSettle
  /\ Thread!OpenIsRead
  /\ Thread!OpenReturns
  /\ Thread!EndsAfterClose
  /\ Wheel!RumbleEnds
  /\ Wasapi!Ends
  /\ Wasapi!IsFoundAgain
  /\ Iso!ComesBack
  /\ EyeToy!FooterComes

\* Who waits for another is let go: buttons that stay as they are become what
\* the guest sees while the mouse goes on (hid.cpp:120); the constructor of a
\* PulseAudio device misses no signal (audiodev-pulse.cpp:586); opening and
\* closing a camera end while its thread is at work and while it is pulled; and
\* a transfer that hangs does not keep those of the other endpoints waiting
\* once its driver gives it up (usb-ohci.cpp:831).
WaitingEnds ==
  /\ Pointer!CatchesUp
  /\ Pulse!InitEnds
  /\ V4l2!OpenAndCloseEnd
  /\ DirectShow!CloseEnds
  /\ Packet!OthersAreServed
=============================================================================
