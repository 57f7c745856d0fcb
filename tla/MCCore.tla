-------------------------------- MODULE MCCore --------------------------------
(*****************************************************************************)
(* The parts of the emulated bus, one at a time: the control pipe, the root  *)
(* hub, interrupts, isochronous lists, the packet that all endpoints share,  *)
(* descriptors; and the EyeToy: its video endpoint, its registers and the    *)
(* cameras of the host.  Each part runs by itself in small instances, and    *)
(* the others rest where they start.                                         *)
(*****************************************************************************)
EXTENDS Naturals, TLC

CONSTANTS
  None,   \* no endpoint
  \* of ControlPipe
  PipeRequests, PipeAnswerSizes, PipeBufSize, PipeSizes, PipeMaxSetups,
  \* of RootHub
  HubPorts, HubAddrs, HubWrites, HubPlugs,
  \* of OhciInterrupts
  IrqEnables, IrqCycles, IrqInterval, IrqFrameTime, IrqLag, IrqMaxRemaining,
  \* of OnePacket
  PacketEds, PacketDevices, PacketDev, PacketKind, PacketAnswers, PacketMaxTds,
  \* of EyeToyDevice
  EyeToyLength, EyeToyFrames, EyeToyPacket, EyeToyHeader, EyeToyBuffer, EyeToySizes,
  \* of CameraRegs
  SensorRegs, SensorBeyond, SensorCommon, SensorDefaults, SensorValues, SensorReset,
  \* of V4l2Camera and DirectShowCamera
  V4l2Frames, V4l2Opens, V4l2Unplugs, DshowFrames, DshowFails

VARIABLES
  part,  \* the component that runs; it never changes
  setup_state, setup_buf, setup_len, setup_index, data_buf, no, turn,
  pipe_got, pipe_sent, executed, accepted, refused, beyond,
  ctrl, dev, rhsc, made, saw, todo, zero, believed,
  hcfs, eof_timer, remaining, since, intr, intr_status, raised, waited,
  frame_number, td, iso_queue, done, unserved, age, iso_sent,
  packet, shared_queue, ep_halted, held, async_td, tds, stopped, ctl, state,
  shared_failed,
  name, conf, configured, configuration, ninterfaces, altsetting, ifaces,
  endpoints, intf, reply,
  latest, eyetoy_got, newest, frame_step, mpeg_frame_data, mpeg_frame_size,
  mpeg_frame_offset, aborted, collected, picture,
  regs, i2c_regs, job, result, memory,
  v4l2_main, after, thread, eyetoy_running, fd, mapped, v4l2_mpeg_buffer,
  v4l2_mpeg_mutex, v4l2_frame, stale, v4l2_image, world, v4l2_frames, past,
  dshow_main, callback, pointers, live, runs, dshow_mpeg_buffer,
  dshow_mpeg_mutex, dshow_frame, dshow_image, dshow_frames, bad,
  dshow_failed, lost

pipeVars == <<setup_state, setup_buf, setup_len, setup_index, data_buf, no,
              turn, pipe_got, pipe_sent, executed, accepted, refused, beyond>>
hubVars == <<ctrl, dev, rhsc, made, saw, todo, zero, believed>>
interruptsVars == <<hcfs, eof_timer, remaining, since, intr, intr_status,
                    raised, waited>>
isoVars == <<frame_number, td, iso_queue, done, unserved, age, iso_sent>>
sharedVars == <<packet, shared_queue, ep_halted, held, async_td, tds, stopped,
                ctl, state, shared_failed>>
descVars == <<name, conf, configured, configuration, ninterfaces, altsetting,
              ifaces, endpoints, intf, reply>>
eyetoyVars == <<latest, eyetoy_got, newest, frame_step, mpeg_frame_data,
                mpeg_frame_size, mpeg_frame_offset, aborted, collected,
                picture>>
regsVars == <<regs, i2c_regs, job, result, memory>>
v4l2Vars == <<v4l2_main, after, thread, eyetoy_running, fd, mapped,
              v4l2_mpeg_buffer, v4l2_mpeg_mutex, v4l2_frame, stale,
              v4l2_image, world, v4l2_frames, past>>
dshowVars == <<dshow_main, callback, pointers, live, runs, dshow_mpeg_buffer,
               dshow_mpeg_mutex, dshow_frame, dshow_image, dshow_frames, bad,
               dshow_failed, lost>>
vars == <<part, pipeVars, hubVars, interruptsVars, isoVars, sharedVars,
          descVars, eyetoyVars, regsVars, v4l2Vars, dshowVars>>

-----------------------------------------------------------------------------
\* In Core.cfg a buffer of three bytes; requests for none, for some, for all of
\* it and for more, and answers shorter and longer than asked for.
MCPipeRequests == [dir : {"in", "out"}, len : {0, 2, 3, 4}]
MCPipeAnswerSizes == 0..3
Pipe == INSTANCE ControlPipe WITH
    Requests <- PipeRequests, AnswerSizes <- PipeAnswerSizes,
    BufSize <- PipeBufSize, Sizes <- PipeSizes, MaxSetups <- PipeMaxSetups,
    got <- pipe_got, sent <- pipe_sent
ASSUME PipeAssumption == Pipe!PipeConstants

\* In Core.cfg two ports that compete for addresses; or one whose device goes
\* and comes back, with every kind of write.
MCHubWrites == {{"CCS"}, {"PES"}, {"PRS"}}
AnyWrite == MCHubWrites \cup {{"PSS"}, {"PPS"}}
Ports2 == INSTANCE RootHub WITH
    Ports <- HubPorts, Addrs <- HubAddrs, PortWrites <- HubWrites,
    MaxPlugs <- HubPlugs
ASSUME Ports2Assumption == Ports2!RootHubConstants

Port1 == INSTANCE RootHub WITH
    Ports <- {1}, Addrs <- {1, 2}, PortWrites <- AnyWrite, MaxPlugs <- 3
ASSUME Port1Assumption == Port1!RootHubConstants

\* In Core.cfg frames of three cycles and an interval of one; what a driver
\* enables.
MCIrqEnables == {{"SF"}, {"WD", "RHSC", "RD"}, {"MIE"}}
Irq == INSTANCE OhciInterrupts WITH
    Enables <- IrqEnables, Cycles <- IrqCycles, Interval <- IrqInterval,
    FrameTime <- IrqFrameTime, Lag <- IrqLag, MaxRemaining <- IrqMaxRemaining
ASSUME IrqAssumption == Irq!InterruptConstants

\* Pages of four bytes; TDs of one frame, of two, with one that crosses from
\* one page to the other, and of three.
TwoFrames == {[bp |-> 8, be |-> 21, offset |-> <<2, 5>>]}
AnyFrames ==
  TwoFrames \cup {[bp |-> 8, be |-> 10, offset |-> <<1>>], [bp |-> 8, be |-> 22, offset |-> <<1, 3, 6>>]}
IsoIn == INSTANCE OhciIso WITH
    Dir <- "in", Tds <- {1}, Layouts <- AnyFrames, PageSize <- 4, Wrap <- 18,
    Ahead <- 2, MaxUnserved <- 1, queue <- iso_queue, sent <- iso_sent
ASSUME IsoIn!OhciIsoConstants

IsoOut == INSTANCE OhciIso WITH
    Dir <- "out", Tds <- {1, 2}, Layouts <- TwoFrames, PageSize <- 4,
    Wrap <- 10, Ahead <- 1, MaxUnserved <- 0, queue <- iso_queue,
    sent <- iso_sent
ASSUME IsoOut!OhciIsoConstants

\* In Core.cfg the mass storage device on one port and a keyboard on the other.
MCPacketDev == [e \in PacketEds |-> IF e = "bulk" THEN "msd" ELSE "other"]
MCPacketKind ==
  [e \in PacketEds |-> CASE e = "bulk" -> "bulk" [] e = "ctl" -> "control" [] OTHER -> "int"]
MCPacketAnswers ==
  [e \in PacketEds |-> CASE e = "bulk" -> {"SUCCESS", "STALL", "ASYNC"}
                         [] e = "ctl" -> {"SUCCESS", "STALL", "NAK"}
                         [] OTHER -> {"SUCCESS"}]
Packet == INSTANCE OnePacket WITH
    Eds <- PacketEds, Devices <- PacketDevices, Dev <- PacketDev,
    Kind <- PacketKind, Answers <- PacketAnswers, MaxTds <- PacketMaxTds,
    queue <- shared_queue, failed <- shared_failed
ASSUME PacketAssumption == Packet!OnePacketConstants
\* Isochronous transfers do not look whether the packet is in flight, so none
\* may share the controller with a device that keeps it; Sound shows what comes
\* of it where one does.
ASSUME NoneWaitsForIsoc ==
  (\E e \in PacketEds : "ASYNC" \in PacketAnswers[e]) =>
    \A e \in PacketEds : PacketKind[e] # "isoc"

\* The mass storage device and a headset that plays.
SoundDeviceOf == [e \in {"bulk", "sound"} |-> IF e = "bulk" THEN "msd" ELSE "other"]
SoundKindOf == [e \in {"bulk", "sound"} |-> IF e = "bulk" THEN "bulk" ELSE "isoc"]
SoundAnswersOf ==
  [e \in {"bulk", "sound"} |-> IF e = "bulk" THEN {"SUCCESS", "STALL", "ASYNC"} ELSE {"SUCCESS"}]
Sound == INSTANCE OnePacket WITH
    Eds <- {"bulk", "sound"}, Devices <- {"msd", "other"},
    Dev <- SoundDeviceOf, Kind <- SoundKindOf, Answers <- SoundAnswersOf,
    MaxTds <- 1, queue <- shared_queue, failed <- shared_failed
ASSUME Sound!OnePacketConstants

Names == {"df", "dfp", "gtforce", "rb1", "buzz", "kbm", "msd", "keyboard", "mouse", "beatmania",
          "seamic", "eyetoy", "logitech", "singstar", "ak5370", "headset"}
Desc == INSTANCE UsbDesc WITH
    Values <- 0..2, Alts <- 0..5
ASSUME Desc!NamesAreDevices
ASSUME Desc!ReportsAreWhole

\* In Core.cfg packets of three bytes, one of them header; pictures that end
\* before, with and after the first packet, and with and after a later one.
MCEyeToyLength == [f \in 0..3 |-> CASE f = 0 -> 5 [] f = 1 -> 1 [] f = 2 -> 2 [] OTHER -> 6]
EyeToy == INSTANCE EyeToyDevice WITH
    Length <- EyeToyLength, MaxFrames <- EyeToyFrames,
    max_ep_size <- EyeToyPacket, HeaderSize <- EyeToyHeader,
    BufferSize <- EyeToyBuffer, PacketSizes <- EyeToySizes, got <- eyetoy_got
ASSUME EyeToyAssumption == EyeToy!EyeToyDeviceConstants
ASSUME EyeToySourceAssumption == EyeToy!FrameSourceConstants

\* In Core.cfg three registers of the sensor, of which one has no default.
MCSensorDefaults == (18 :> 1) @@ (0 :> 2)
Camera == INSTANCE CameraRegs WITH
    Registers <- SensorRegs, Beyond <- SensorBeyond, Common <- SensorCommon,
    Defaults <- SensorDefaults, Values <- SensorValues, ResetBit <- SensorReset
ASSUME SensorAssumption == Camera!CameraRegsConstants

\* Opens, closes and pictures of two cameras that share their state, or of one.
V4l2 == INSTANCE V4l2Camera WITH
    MaxFrames <- V4l2Frames, MaxOpens <- V4l2Opens, Unplugs <- V4l2Unplugs,
    main <- v4l2_main,
    mpeg_buffer <- v4l2_mpeg_buffer, mpeg_mutex <- v4l2_mpeg_mutex,
    frame <- v4l2_frame, image <- v4l2_image, frames <- v4l2_frames
ASSUME V4l2Assumption == V4l2!V4l2CameraConstants

DirectShow == INSTANCE DirectShowCamera WITH
    MaxFrames <- DshowFrames, MayFail <- DshowFails, main <- dshow_main,
    mpeg_buffer <- dshow_mpeg_buffer, mpeg_mutex <- dshow_mpeg_mutex,
    frame <- dshow_frame, image <- dshow_image, frames <- dshow_frames,
    failed <- dshow_failed
ASSUME DshowAssumption == DirectShow!DirectShowConstants

-----------------------------------------------------------------------------
Parts == {"pipe", "ports", "port", "interrupts", "iso_in", "iso_out",
          "packet", "sound", "desc", "eyetoy", "regs", "v4l2", "dshow"}
\* The components that do not run stay in one of their initial states.
Init ==
  /\ part \in Parts
  /\ Pipe!Init /\ (part # "pipe" => setup_buf = [dir |-> "in", len |-> 0])
  /\ CASE part = "port" -> Port1!Init
         [] OTHER -> Ports2!Init
  /\ Irq!Init
  /\ CASE part = "iso_out" -> IsoOut!Init
         [] OTHER -> IsoIn!Init
  /\ CASE part = "sound" -> Sound!Init
         [] OTHER -> Packet!Init
  /\ Desc!Init /\ (part # "desc" => name = "msd")
  /\ EyeToy!Init
  /\ Camera!Init
  /\ V4l2!Init
  /\ DirectShow!Init

PipeStep ==
  /\ part = "pipe" /\ Pipe!Next
  /\ UNCHANGED <<part, hubVars, interruptsVars, isoVars, sharedVars, descVars,
                 eyetoyVars, regsVars, v4l2Vars, dshowVars>>
Ports2Step ==
  /\ part = "ports" /\ Ports2!Next
  /\ UNCHANGED <<part, pipeVars, interruptsVars, isoVars, sharedVars,
                 descVars, eyetoyVars, regsVars, v4l2Vars, dshowVars>>
Port1Step ==
  /\ part = "port" /\ Port1!Next
  /\ UNCHANGED <<part, pipeVars, interruptsVars, isoVars, sharedVars,
                 descVars, eyetoyVars, regsVars, v4l2Vars, dshowVars>>
IrqStep ==
  /\ part = "interrupts" /\ Irq!Next
  /\ UNCHANGED <<part, pipeVars, hubVars, isoVars, sharedVars, descVars,
                 eyetoyVars, regsVars, v4l2Vars, dshowVars>>
IsoInStep ==
  /\ part = "iso_in" /\ IsoIn!Next
  /\ UNCHANGED <<part, pipeVars, hubVars, interruptsVars, sharedVars,
                 descVars, eyetoyVars, regsVars, v4l2Vars, dshowVars>>
IsoOutStep ==
  /\ part = "iso_out" /\ IsoOut!Next
  /\ UNCHANGED <<part, pipeVars, hubVars, interruptsVars, sharedVars,
                 descVars, eyetoyVars, regsVars, v4l2Vars, dshowVars>>
PacketStep ==
  /\ part = "packet" /\ Packet!Next
  /\ UNCHANGED <<part, pipeVars, hubVars, interruptsVars, isoVars, descVars,
                 eyetoyVars, regsVars, v4l2Vars, dshowVars>>
SoundStep ==
  /\ part = "sound" /\ Sound!Next
  /\ UNCHANGED <<part, pipeVars, hubVars, interruptsVars, isoVars, descVars,
                 eyetoyVars, regsVars, v4l2Vars, dshowVars>>
DescStep ==
  /\ part = "desc" /\ Desc!Next
  /\ UNCHANGED <<part, pipeVars, hubVars, interruptsVars, isoVars, sharedVars,
                 eyetoyVars, regsVars, v4l2Vars, dshowVars>>
EyeToyStep ==
  /\ part = "eyetoy" /\ EyeToy!Next
  /\ UNCHANGED <<part, pipeVars, hubVars, interruptsVars, isoVars, sharedVars,
                 descVars, regsVars, v4l2Vars, dshowVars>>
CameraStep ==
  /\ part = "regs" /\ Camera!Next
  /\ UNCHANGED <<part, pipeVars, hubVars, interruptsVars, isoVars, sharedVars,
                 descVars, eyetoyVars, v4l2Vars, dshowVars>>
V4l2Step ==
  /\ part = "v4l2" /\ V4l2!Next
  /\ UNCHANGED <<part, pipeVars, hubVars, interruptsVars, isoVars, sharedVars,
                 descVars, eyetoyVars, regsVars, dshowVars>>
DirectShowStep ==
  /\ part = "dshow" /\ DirectShow!Next
  /\ UNCHANGED <<part, pipeVars, hubVars, interruptsVars, isoVars, sharedVars,
                 descVars, eyetoyVars, regsVars, v4l2Vars>>

\* A failed assertion ends the program.
Aborted == part = "sound" /\ shared_failed # "none" /\ UNCHANGED vars

Next == \/ PipeStep \/ Ports2Step \/ Port1Step \/ IrqStep \/ IsoInStep
        \/ IsoOutStep \/ PacketStep \/ SoundStep \/ DescStep \/ EyeToyStep
        \/ CameraStep \/ V4l2Step \/ DirectShowStep \/ Aborted
Spec == Init /\ [][Next]_vars

-----------------------------------------------------------------------------
(* Properties.  Each puts together what the modules of the parts state and explain. *)

\* The control pipe, whatever the driver repeats, gives up or goes on with: after
\* a SETUP that was accepted it reads the answer to that request from the start
\* and in order, a request that writes is executed once with all its data and
\* none of another, and never when it was refused; a driver that keeps to the
\* protocol is refused by the device alone; and data_buf is left only by a driver
\* that goes on after a SETUP refused for its length, where no more is said
\* (do_token_in, core.cpp:160, 200).
RequestsAnswered ==
  /\ part = "pipe" => /\ Pipe!TypeOK
                      /\ Pipe!AnswersThisRequest
                      /\ Pipe!WholeAndOnce
                      /\ Pipe!ServedInTurn
                      /\ Pipe!StaysInBuffer

\* What a driver is told by the root hub: an address it has handed out reaches
\* the device it gave it to or nobody, a change bit that is set is on its way
\* to it and none is lost between reading and clearing, only a connected port
\* is enabled (usb-ohci.cpp:174); and an interrupt that is enabled and pending
\* reaches the processor within two frames however soon after the last it came
\* (usb-ohci.cpp:65).
ControllerTells ==
  /\ part = "ports" => /\ Ports2!TypeOK
                       /\ Ports2!AddressedRight
                       /\ Ports2!ChangesReported
                       /\ Ports2!NewsKept
                       /\ Ports2!EnabledConnected
  /\ part = "port" => /\ Port1!TypeOK
                      /\ Port1!AddressedRight
                      /\ Port1!ChangesReported
                      /\ Port1!NewsKept
                      /\ Port1!EnabledConnected
  /\ part = "interrupts" => /\ Irq!TypeOK
                            /\ Irq!RaisedInTime

\* Isochronous TDs, served late, early or not at all: a packet goes in its own
\* frame and once, with the bytes of that frame and none beyond the TD's two
\* pages, and a TD that is done without an error had its last packet
\* (ohci_service_iso_td, usb-ohci.cpp:645).
IsoFramesKept ==
  /\ part = "iso_in" => /\ IsoIn!TypeOK
                        /\ IsoIn!InItsFrame
                        /\ IsoIn!BytesInTd
                        /\ IsoIn!DoneMeansSent
  /\ part = "iso_out" => /\ IsoOut!TypeOK
                         /\ IsoOut!InItsFrame
                         /\ IsoOut!BytesInTd
                         /\ IsoOut!DoneMeansSent

\* The one packet of the controller: controller, core and device agree on whose
\* it is, the queue it is in and who keeps it, and the assertions of
\* usb_packet_setup, usb_handle_packet, usb_cancel_packet and usb_msd_cancel_io
\* hold, whatever is reset, removed or paused meanwhile (core.cpp:565).
PacketAgrees ==
  /\ part = "packet" => /\ Packet!TypeOK
                        /\ Packet!AllAgree
                        /\ Packet!NoAssertFails

\* Descriptors and the state they are selected by: the endpoint table follows
\* the settings chosen, the numbers counted by hand in the tables are those
\* usb_desc_ep_init walks by, the guest parses from the bytes it reads the
\* configuration that the device works with, and GET_CONFIGURATION answers the
\* last SET_CONFIGURATION that was accepted (desc.cpp:501).
DescriptorsAgree ==
  /\ part = "desc" => /\ Desc!TypeOK
                      /\ Desc!SettingsChosen
                      /\ Desc!EndpointsFollow
                      /\ Desc!TableConsistent
                      /\ Desc!GuestSeesConfiguration
                      /\ Desc!ConfigurationAnswered

\* From the camera of the host to the guest: GetImage gives one whole picture
\* while another thread stores the next, between a header and its footer is one
\* whole picture, a thread that waits for pictures has its file and buffers,
\* files stay open and calls go to objects that are gone only after a failure,
\* and registers read as they were written (usb-eyetoy-webcam.cpp:482).
PicturesWhole ==
  /\ part = "eyetoy" => /\ EyeToy!TypeOK
                        /\ EyeToy!WholePicture
  /\ part = "regs" => /\ Camera!TypeOK
                      /\ Camera!ReadsWhatIsThere
                      /\ Camera!SensorHolds
  /\ part = "v4l2" => /\ V4l2!TypeOK
                      /\ V4l2!WholeImage
                      /\ V4l2!ThreadHasCamera
                      /\ V4l2!RunsWhenOpened
                      /\ V4l2!FilesAreClosed
  /\ part = "dshow" => /\ DirectShow!TypeOK
                       /\ DirectShow!WholeImage
                       /\ DirectShow!BadOnlyAfterFailure
                       /\ DirectShow!ClosedHasNothing

\* The control pipe implements ControlTransfer, whole transfers each executed
\* once; the two cameras implement FrameSource, a source that gives the newest
\* picture and none of before it was opened.
ImplementAbstractions ==
  /\ Pipe!ImplementsTransfer
  /\ V4l2!ImplementsSource
  /\ DirectShow!ImplementsSource

\* A device that listens hears of every change of a setting in the step that
\* makes it, as long as it stays configured; it works with another setting than
\* the core only after a step that unconfigured it (desc.cpp:566).
SettingsTold ==
  /\ Desc!SettingTold
  /\ Desc!OnlyClearingLosesTrack

\* Whoever sets up the packet of the controller finds it free:
\* "assert(!usb_packet_is_inflight(p))" (core.cpp:565), also where a transfer
\* of the mass storage device is in flight while a headset plays.
SetupFindsPacketFree == part = "sound" => Sound!NoAssertFails
=============================================================================
