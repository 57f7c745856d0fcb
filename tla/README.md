# TLA+ models of USBqemu-wheel

USBqemu-wheel is a plugin that gives a console emulator an OHCI host
controller and USB devices: steering wheels, keyboards, microphones, a camera
and a mass storage device. The controller, the USB core and several devices
descend from QEMU. This directory holds TLA+ models of its parts, TLC
configurations that check them, and TLAPS proofs about them.

Run `tlc -config <cfg> <module>` for a check, with the module the table of checks
names, and `tlapm <M>.tla` for the proofs of a module. `PROJECT.json` lists the runs,
the definitions with the source lines they model, the mutants that show each
property can fail, the findings, the hazards and the theorems. Source paths below are relative to `src/src`.

## The system

```
   emulated console: USB driver           operating system
        | registers, memory                  | threads, callbacks
   +----v-------------------------+     +----v------------------+
   | OHCI controller  usb-ohci.cpp|     | input, audio, capture |
   |   lists, done queue, ports   |     |   backends            |
   +----+-------------------------+     +----+------------------+
        | USBPacket                          | queues, ring buffers
   +----v---------+    +---------------------v------+
   | USB core     |--->| devices: msd, pad, hid,    |
   | core.cpp     |    |   microphones, EyeToy      |
   +--------------+    +----------------------------+
   USB.cpp: clock (USBasync), start-up, shutdown, saved states
```

The emulator calls the plugin from one thread. `USBasync` advances the clock
and runs `ohci_frame_boundary` once per frame; register accesses and the
emulated driver run between frames. The only concurrency is with the threads of
the operating system's side: audio callbacks, the camera, the evdev reader and
writer.

| Part | State it keeps | Operations | Interacts with | What is hard | What makes it correct |
|---|---|---|---|---|---|
| Mass storage (`usb-msd/usb-msd.cpp`) | phase, bytes left, tags, status wrapper, sense data, file position | command, data and status packets, control requests, reset, cancel | controller (packets), image file | a data stage in packets of any size, short file I/O, aborted commands, tags of past commands | bytes are accounted for, the file offset is the command's, the status tells the truth, sense data reaches the driver |
| OHCI lists (`qemu-usb/usb-ohci.cpp`) | registers, done queue and counter, packet in flight, descriptors in memory | frame, list, endpoint and transfer descriptor steps, register writes, resets | driver (shared memory), devices (packets), core (cancel) | driver changes between frames, errors and resets in the middle of a list, one packet in flight | a done descriptor is handed over once, the counter and the queue agree, the packet in flight is the one recorded |
| Isochronous lists (same file) | TDs of one endpoint, their frames, frame number | service of a TD, retiring, expiry | devices with sound and video | frame numbers that wrap, TDs that come late, bytes in two pages | a packet goes in its frame, once, with its bytes |
| Root hub and interrupts (same file) | port status, interrupt enable and status, last interrupt | attach, detach, reset, wake-up, acknowledge | driver, `USB.cpp` clock | changes between reading and clearing, interrupts less than 64 clocks apart | an address reaches the device it was given to, no news is lost, a pending interrupt arrives |
| USB core (`qemu-usb/core.cpp`) | stage, `setup_buf`, `data_buf`, the packet and its state | setup, in and out tokens, cancel | controller, devices | a SETUP inside a transfer, refusals, one packet for all endpoints | an answer belongs to its request, the assertions hold |
| Descriptors (`qemu-usb/desc.cpp`, tables in the devices) | configuration, alternate settings, endpoint table | standard requests, parsing, writing | core, devices | counts made by hand, settings changed behind the device | endpoints are those of the settings, the guest reads what the device works with |
| Lifecycle (`USB.cpp`, `configuration.cpp`) | devices per port, controller, what is loaded, saved states | init, open, close, shutdown, configure, freeze | everything | order of destruction, states from other configurations | nothing is used after it is freed, a loaded state is the saved one |
| Dialogs (`linux/config-gtk.cpp`, `Win32/Config.cpp`, audio dialogs) | choices not saved yet, lists shown | pick, accept, cancel | settings file, lifecycle, sound systems | lists filled again by callbacks, devices that come and go | what was picked last is what is saved |
| HID (`qemu-usb/hid.cpp`, `usb-hid/`) | queue of 16 events, scan code state | events from a thread, polls | evdev thread, controller | full queue, unlocked access, threads told to end by a flag | motion and buttons are kept, a device has one reader |
| Pads (`usb-pad/`) | axes and buttons, mappings, four force slots, effects | tokens, events, force commands | evdev, DirectInput, writer thread | several devices for one pad, shared effects, shared device lists | reports show what is held, forces play while the game wants them |
| Microphones and headset (`usb-mic/usb-*.cpp`) | sources, volumes, rates, mode | audio requests, packets, Freeze | sound backends | two sources in one packet, volumes in two units | each voice on its channel, volumes as set |
| Sound backends (`audiodev-pulse.cpp`, `audiodev-wasapi.cpp`, `dynlink/pulse.cpp`) | buffers, connection, flags, thread, named mutex, counted library | make, start, stop, transfer, delete, callbacks | operating system | devices that are lost, locks of two threads, deletion during callbacks | frames once and in order, threads end, nothing is used that is gone |
| Ring buffer (`shared/ringbuffer.cpp`) | memory, two offsets, capacity, overrun flag | reserve, write, read, sizes | sound backends | exact fill, overrun, wrap | the newest bytes, in order, each read once |
| EyeToy (`usb-eyetoy/`) | picture in transit, registers, camera threads | packets, register access, open, close, capture | V4L2, DirectShow | a picture replaced while it is sent, a camera that is pulled | a picture arrives whole, registers read as written |

## Modules

| Module | Models | Uses |
|---|---|---|
| `UsbMsd` | `usb-msd.cpp` | |
| `BulkOnly` | what a bulk-only device promises | |
| `OhciLists` | `usb-ohci.cpp`: frames, lists, done queue, resets | |
| `OhciIso` | `usb-ohci.cpp`: isochronous TDs | |
| `RootHub` | `usb-ohci.cpp`, `core.cpp`: ports, addresses, a driver that hands them out | |
| `OhciInterrupts` | `usb-ohci.cpp`, `USB.cpp`: interrupt registers, bus states, clock | |
| `ControlPipe` | `core.cpp`: stages of a control transfer | |
| `ControlTransfer` | what the control pipe promises | |
| `OnePacket` | the packet of the controller: `core.cpp` with both kinds of list and the devices that keep it | |
| `Descriptors` | tables and report descriptors of every device, parsing and writing of `desc.cpp` | |
| `UsbDesc` | standard requests, settings, endpoint table | `Descriptors` |
| `PluginLife` | `USB.cpp`: start to end, devices, saved states | |
| `ConfigDialog` | GTK and Windows dialogs, `configuration.cpp` | |
| `AudioDialog` | dialogs of PulseAudio and WASAPI | |
| `HidPointer`, `HidKeyboard` | `hid.cpp`: the queue at the grain of its accesses; scan codes | |
| `InputThread` | the thread of `usb-hid/evdev` | |
| `EvdevPad` | `usb-pad/evdev/evdev.cpp`; reports of every wheel type, `usb-pad.cpp` | `Descriptors` |
| `WheelForce` | `usb-pad-ff.cpp`, `lg_ff.cpp`, `evdev-ff.cpp`, writer thread | |
| `DInputPad` | `usb-pad/dx/`: shared list of devices, bindings, dialog | |
| `UsbAudio` | audio requests and volumes of all sound devices | |
| `Microphone`, `Headset` | `usb-mic-singstar.cpp`, `usb-mic-logitech.cpp`, `usb-headset.cpp` | `UsbAudio` |
| `Rings`, `RingBuffer` | `ringbuffer.cpp`: offsets; the buffer with its memory | |
| `LossyQueue` | what the ring buffer promises | |
| `PulseSource` | recording in `audiodev-pulse.cpp` | `Rings`, twice |
| `PulseDevice` | life of a PulseAudio device | |
| `PulseLibrary` | `dynlink/pulse.cpp` | |
| `WasapiDevice` | `audiodev-wasapi.cpp` | |
| `FrameSource` | what a camera promises | |
| `V4l2Camera`, `DirectShowCamera` | `cam-linux.cpp`, `cam-windows.cpp` | `FrameSource` |
| `EyeToyDevice` | pictures on the bus | `FrameSource` |
| `CameraRegs` | registers of bridge and sensor | |
| `UsbMsdProofs`, `OhciListsProofs`, `RingBufferProofs` | proofs about one module | the module |
| `CoreProofs`, `HostProofs` | proofs about the parts of `MCCore` and `MCHost`; those of `RootHub`, `WasapiDevice` and `PulseDevice` end the modules themselves | `MCCore`, `MCHost` |
| `MCUsbMsd`, `MCOhciLists` | instances of one module | |
| `MCCore`, `MCInput`, `MCHost`, `MCLive` | instances of many, see below | |

### One run for many components

`MCCore`, `MCInput`, `MCHost` and `MCLive` instantiate several modules, some of
them twice with different constants. A variable `part` says which instance runs;
it never changes, and the variables of the others stay in an initial state. So
the behaviours of such a module are those of each instance by itself, and a
property is a conjunction of the modules' own: `part = "x" => X!Inv` for an
invariant, `[][part = "x" => X!A]_v` for a step, and for liveness `X!P`, which an
instance that rests satisfies by never beginning. What the conjuncts say is
written beside them in their modules. The modules meet where
one speaks for the others: `OnePacket` for lists, core and devices,
`EyeToyDevice` for any `FrameSource`, `OhciInterrupts` for whatever raises an
interrupt, `PluginLife` for devices of any type, `ConfigDialog` for devices that
are made from the settings.

### UsbMsd

One action is one call into the device: a packet, a control request, a
cancellation or a reset. `DataOut`, `DataIn`, `DataInTooLong`, `SendStatus`,
`DeferStatus` and `Refuse` are the branches of `usb_msd_handle_data`; `BufCommand`,
`FileCommand` and `UnknownCommand` are the groups of `send_command`. Variables
carry the names of `MSDState`. The contents of `s->f.buf` are abstracted to where
they come from, lengths and file offsets are kept, and `fread` and `fwrite` may
fail or fall short. `last_cmd`, `moved` and `reply` are history. Packets are not
larger than `s->f.buf` (assumption `PacketsFit`): the controller's own buffer for
general descriptors is no larger either.

`BulkOnly` is the promise: command, data and status in that order, one report per
command, and a report that is true about the bytes moved. `UsbMsd` implements it
with the mode as the phase.

### OhciLists, OhciIso, OnePacket

`ohci_frame_boundary` is atomic for the driver. `OhciLists` cuts it into one step
per endpoint descriptor (`PausedEd`, `ReadEd`), per transfer descriptor (`Wait`,
`Defer`, `Nak`, `PartialOut`, `Complete`, `DeviceError`, `Underrun`, `BadTd`,
`UnmappedTd`, `UnmappedBuffer`) and per list, with `pc` keeping the driver out
until the frame has ended. So a failure in the middle of a list (`ohci_die`, a
controller reset) meets the code that goes on after it. The driver's actions are
the register writes of `ohci_mem_write`, what it may do to descriptors in memory
by the rules of OHCI (external in `map`), and the hard reset, wake-up and detach
that come from the plugin.

A list is a set of endpoint descriptors visited in any order: the properties do
not depend on the order. `packet` and `async_td` are separate variables because
the code sets them apart. No device of this program completes a deferred packet
(the only call of `usb_packet_complete` is in `usb_msd_packet_complete`, for a
packet that is never recorded), so a packet in flight ends by cancellation only.
Toggles, addresses and buffer contents are left out.

`OhciIso` has the arithmetic that `OhciLists` leaves out: frame numbers modulo
`Wrap`, which 0x10000 is in the code, and offsets into two pages of `PageSize`,
0x1000 there. A transfer descriptor is served in its frame, late, or not at all, if
its list was off or ran out of time. `OnePacket` has what both share, with the
calls into `core.cpp` and its assertions as values of `failed`.

### RootHub, OhciInterrupts

A port is the set of bits of its register. A driver reads a port and clears what
it read in two steps, and any change may come between them. Devices are numbered
as they come, so that the address of one is never taken for that of another.
`OhciInterrupts` has every writer of the interrupt registers as an action and the
clock of `USBasync` as `since`, the time since the last interrupt; the counters
are relative, so the model has no absolute time.

### ControlPipe, UsbDesc

A byte of a data stage is the transfer's number and its place. The pipe's driver
sends tokens in any order, also after a SETUP that was refused, which has replaced
the request and its length and left the stage open (`core.cpp:160`). What those tokens
copy is in the model; only one that would go past the end of `data_buf` is the last
step that is followed (`beyond`). `accepted` says whether the last SETUP was, and the
guarantees about answers are of those. `answer` is what the device says, of any length.
`UsbDesc` runs `usb_desc_parse_config` on the real
tables of all sixteen devices, as records of the fields that anything acts on,
and lets the guest parse what `usb_desc_config` writes.

### HidPointer, HidKeyboard, InputThread

`hid_pointer_event`, `hid_pointer_sync` and `hid_pointer_poll` share `head` and `n`
without a lock, so each of their accesses is a step. `Overlap` says whether the
handlers of the two threads may be inside one another. The guarantees about
motion and buttons are checked without, the safety of the queue with it. The keyboard's handlers are
one step each. In `InputThread` a thread that was told to end may take any time to
see it; `Prompt` excludes that one is still there at the next Open.

### EvdevPad, WheelForce, DInputPad

The kernel keeps one queue of events per device and replaces an overflowing one by
SYN_DROPPED. A report is the set of its bits that are 1, and properties read it by
the fields of the report descriptor, never by the code that packed it. In
`WheelForce`, `want` is what the game has playing in each slot; `effect` is the host's. The
game may do anything with its four slots, while the host has one effect of each kind for all
of them: `astray` has the effects that it cannot follow for that reason, from the command that
made them so to the one that plays or stops them for all their slots.
In `DInputPad` a mapping also
carries the device that was meant. The list of devices is an object of its own there:
it is counted by the pads and the dialog, made by the first user from what is
attached at that moment, and freed by the last. So a mapping, which is a place in the
list, may meet another list than the one it was made for.

### PluginLife, ConfigDialog, AudioDialog

Devices are objects on a heap, so that a pointer may outlive its object; `wrong`
records uses of one that was freed, and `ep` is `LostEp` while `usb_packet.ep` points into
one. The dialog may be that of Linux, which has the devices made anew when the plugin is opened
next, or that of Windows, which also makes them at once, while the guest uses them; either
may leave a port empty, and any device may fail to be made. A saved state keeps the controller's
ports, the packet's endpoint as an index, and each device's data, and is loaded under any later
configuration. `returned` and `unmade` tell what a load did and which devices could not be made.
`AfterEnd` is FALSE in the runs: a Windows dialog accepted between `USBshutdown` and the next
`USBinit` works on the controller that was freed, and nothing can be said of what follows.
The dialogs model the
callbacks of GTK, which also run when the program fills a list, and the
messages of Windows, which do not.

### Microphone, Headset, sound backends

Frames are numbered as they are captured; a sample in a packet is a source and a
frame. Volumes keep their 16-bit and 8-bit arithmetic. `PulseSource` has two
threads over two ring buffers and one mutex: the steps of `stream_read_cb` are the
write of one piece, the conversion of one piece (one frame gives one
frame), taking the mutex, one piece into `mOutBuffer`, and the return. `mInBuffer` is used
without the mutex while `ResetBuffers` deletes its memory under it: a data race,
whose outcome for the recording is that the frames concerned are `Blank`; a crash
is not a state of the model. `ResetBuffers` keeps the capacities here. `PulseDevice`
has the two locks and the waits of the constructor and the destructor, one step
between two operations on a lock. `PulseLibrary` counts users of the library
beside the set of objects that are really alive, so that the counter can be
wrong. `WasapiDevice` has the calls that may fail or
lose the device, each with every outcome, a named mutex that other devices take too, and a
destructor that waits for the thread or, after its 30 seconds, kills it wherever it is.

### Rings, RingBuffer, LossyQueue

A byte is its serial number. `Write(n)` and `Read(n)` are one memcpy and one move
of the offset, for every length that `peek_write(true)` and `peek_read()` allow;
`%` is `Wrap`, exact for the sums that occur. `LossyQueue` is a queue that may
drop its oldest entries; the contents from `front()` on, as `size()` counts them,
are its queue.

### Cameras, EyeToyDevice, CameraRegs

A picture is a number for each half of a copy, so that a torn copy shows. Opening,
closing and the capture thread are steps between accesses to shared state;
calls of COM may fail. Both cameras are shown to implement `FrameSource`. `CameraRegs` has the
four bridge registers that reach the sensor; the others are memory that nothing reads.

## Checks

| Run | Module | Properties | States |
|---|---|---|---|
| `msd_commands` | `MCUsbMsd` | byte, offset, status and sense bookkeeping; implements `BulkOnly` | 154 078 |
| `ohci_lists` | `MCOhciLists` | done queue, counter and packet in flight agree through all interleavings | 2 523 808 |
| `ohci_live` | `MCOhciLists` | `WaitersAreServed`: a done queue is handed over, a paused packet is cancelled | 276 052 |
| `ring_buffer` | `RingBuffer` | newest bytes, in order, each read once; implements `LossyQueue` | 2 264 |
| `core` | `MCCore` | `RequestsAnswered`, `ControllerTells`, `IsoFramesKept`, `PacketAgrees`, `DescriptorsAgree`, `PicturesWhole`; `SettingsTold`; `ImplementAbstractions`: the pipe implements `ControlTransfer`, both cameras `FrameSource` | 1 643 438 |
| `input` | `MCInput` | `ReportsShowInputs`; `ForcesFollow` | 845 805 |
| `host` | `MCHost` | `HostAgrees`, `BindingsHold`, `SoundAsSet`, `ThreadsOwn`; `DevicesFollow`, `SavedIsLoaded`, `DialogsKeep`, `VolumesAndFramesKept` | 850 859 |
| `live` | `MCLive` | `ComesToAnEnd` | 31 775 |
| `live_locks` | `MCLive` | `WaitingEnds` | 17 663 |
| `ring_full` | `RingBuffer` | violates `RoomIsKept`: a write that fills the buffer exactly empties it | |
| `shared_packet` | `MCCore` | violates `SetupFindsPacketFree`: an isochronous transfer is set up in a packet that is in flight on the other port | |
| `state_index` | `MCHost` | violates `LoadedIndexInBounds`: a state saved without an endpoint reads `usb_device[-1]` | |

The last three are findings in `PROJECT.json`, each with the line of code and the
comment or assertion it contradicts. Every property of the others has a mutant
there: one definition changed as a bug would, which the property refutes.

### Where the code does not do what it says

Met while modelling, by properties stated from a comment, an assertion or a
document and then found violated. The properties above are stated so that they
hold beside these; the violations themselves are no part of the runs, except for
the three above. Paths are relative to `src/src`.

* Mass storage: `usb-msd.cpp:575` takes data from the image for every command
  with the tag of an earlier READ, so a driver that reuses one for REQUEST_SENSE
  gets image data; packets are deferred although line 612 says "no async support".
* OHCI: an underrun (`usb-ohci.cpp:902`) does not clear the interrupt counter
  ("An error occured so we have to clear the interrupt counter", 930); a soft reset
  (284) keeps `async_td`, so a descriptor at that address is skipped.
* Control pipe: a SETUP that is refused leaves the stage of the transfer before
  (`core.cpp:160`) with the new request and its length. A driver that goes on reads what is
  left in `data_buf`, and after a request that was refused for its length the copies of
  203-208 and 239-244 go past its end.
* Ring buffer: `reserve` (`ringbuffer.cpp:36`) keeps the offsets; an exact fill between `GetFrames`
  and `GetBuffer` fails the assertion of `audiodev-pulse.cpp:341`.
* HID: events that overlap with polls may lose a button (`hid.cpp:120`);
  `usb-hid.cpp:107` and `usb-pad.cpp:40` number strings otherwise than the
  descriptors do.
* Report descriptors: `usb-pad.cpp:264` sends one of another length than the
  configuration announces; `desc.cpp:186` writes descriptors in another order than
  the tables.
* Pads: after SYN_DROPPED the buttons held are forgotten
  (`evdev/evdev.cpp:405`); a Driving Force Pro rests at 511 of 16383 (512); an
  unmapped key sets bit 14 (391); nothing assigns `mHidHandle`, so raw force
  feedback is never written (796); four bits decide on an inversion that one
  stands for (`lg/lg_ff.cpp:52`). All four slots share the host's effects: stopping one slot
  silences another that plays the same kind (`usb-pad-ff.cpp:208-242`), a slot given another
  kind of force never has the one before stopped, a constant force of two or three
  slots is not played at all (136-143), and releasing the force takes it from all (253).
* Devices: those that are made anew go without a detach (`USB.cpp:131-142`), so that the packet in
  flight keeps the endpoint of one that was freed, which saving a state then reads (657, 666), and
  a port whose device goes with none in its place keeps the connection bit.
* Saved states: the type of a device is taken from a configuration that may not be the
  device's (`USB.cpp:647`: a cancelled GTK dialog, a dialog accepted while the plugin is open);
  loading gives up half-way when a size differs (535-538), as for such a state or for a device that
  was missing, with the devices closed until the plugin is opened again and the ports as
  they were saved; the control endpoint is not recognised (608); `USBshutdown`
  leaves a pointer to the controller it freed (302), to which a Windows dialog that is accepted
  after it attaches its devices.
* Settings: a default API is shown but not used until it is saved
  (`configuration.cpp:180`).
* Sound: the volume of the second channel is read back from the wrong place
  (`usb-mic-singstar.cpp:484`); a sampling rate is answered with no length (719); mutes are
  stored and not applied (546, `usb-headset.cpp:623`); a WASAPI sink that was lost
  never plays again, because `mFirstSamples` is never set false (`audiodev-wasapi.cpp:319`), and its
  interfaces are overwritten without a release each time it is made anew (180-189, called from
  524 without `FreeData`); a source that is lost when it is stopped starts by itself when it is
  back (719); a thread that has not ended within 30 seconds is killed (81-82), and if
  it owned the mutex of all devices, that is left abandoned; the ratio survives a change back
  (770); a lost PulseAudio server is never tried again (`audiodev-pulse.cpp:717`), and a
  stream that fails meets an assertion (586).
* EyeToy: settings with packets below 896 bytes abort
  (`usb-eyetoy-webcam.cpp:482`); bridge register 0xFF lies behind the array of 0xFF
  (347, 413): it is read and written as register 0 of the sensor. No driver in the model
  touches it.
* DirectInput: a binding survives the list it names a place of when a device is
  pulled (`dinput-config.cpp:1367`); an input goes to the control that was deleted while listening
  (438).

### Bounds

* `msd_commands`: transfers of 0, 2 and 4 bytes, packets of 0 to 2, a buffer of 2,
  an image of 6. A data stage takes up to two full packets and any number of
  empty ones, and ends inside, at and past the end of the image. One tag for file
  commands, one for the others, and 0, the value before any command. Lengths of
  the wrapper and of the command that disagree, and wrong directions, are among
  the commands. The counters are bounded by these; nothing else is.
* `ohci_lists`: two endpoints on two lists and two descriptors, which are
  symmetric; delays 1 and 7, one that counts and the one that never ends. Two
  descriptors make a done queue that grows while an older one waits in the HCCA.
  Two endpoints make one block the other. `TdInOnePlace` is about a pair of
  descriptors, so two are enough.
* `ohci_live`: one descriptor of up to two packets, a delay of 2, no symmetry
  (it is unsound for liveness).
* `ring_buffer`: capacities 1 to 4 and 13 bytes, three times around the largest.
* `core`: a control buffer of three bytes with requests for none, some, all and
  more, in packets of one and two, three SETUPs in all: one to abandon, one to be
  confused with, one more. Two ports with two devices and two addresses, or one
  port with three devices. Frames of three cycles with an interval of one. Isochronous
  descriptors of one to three frames in pages of four bytes, modulo 10 and 18, more than twice
  what is compared. Three endpoints of every kind that shares the packet, two
  transfers each. All descriptor tables, with one configuration value and one
  setting more than exist. Pictures that end before, with and after a packet; three
  opens of a camera, the third to meet what the first left.
* `input`: a queue of four instead of sixteen, one axis and one button, steps larger and smaller than
  a report carries; three keys that share codes, one of three codes; a wheel and
  a pad with five report layouts; pedals of two ranges; forces at the ends, the
  middle and one off it.
* `host`: two objects for two ports, as a device is always freed before another is made;
  three types, which differ in what they save; two configurations, one with both ports filled and
  one with an empty port; a guest that uses that port (`LifeDriven`) and one state that is saved
  (`LifeAgain`), loaded as often as one likes, both lifted in the proofs; a pad with two APIs and a
  microphone with one; DirectInput with two pads of one control each, as a control is
  bound, listened for and deleted by itself; one source for two players and two sinks, so that
  a list is empty, has one place or two; all five ways to give a microphone its sources; sound
  devices that are lost twice, the second loss while recovering from the first; four opens of
  an input device; two sound objects and three libraries.
* `live`, `live_locks`: smaller constants of the same instances: temporal
  checking takes the graph of all of them.

Deadlock is checked in `msd_commands`, `ohci_lists`, `ohci_live`, `ring_buffer`, `core` and
`input`. It is not in `host`, `live` and `live_locks`: there the bounds on opens,
losses and pictures end a behaviour, a deleted object does nothing more, and
`PulseDevice` has the deadlock of its destructor (`audiodev-pulse.h:77`), which
`OnlyDestructorStands` confines to it.

### Fairness

`ohci_live`: `WF_vars(Controller)`: the emulator calls `USBasync` for as long as it
runs, and each call that is due runs the frame to its end (`USB.cpp:711-745`).
`SF_vars(TakeDone)`: the driver's interrupt handler acknowledges, between some two
frames, a done queue it is told of; strong, because a frame is not interrupted by
it. Both properties say what ends the obligation: a reset, a stopped bus, the
driver changing its mind.

`MCLive` repeats the fairness that each module states in its `FairSpec`, with `part`
as a conjunct: `Weak(i)` is the i-th weakly fair action of the part that runs,
`Strong(i)` the i-th strongly fair one. As `part` does not change, fairness of
the i-th of each is fairness of all of them. Weak fairness says that a thread goes on with
what it began, that frames are served (`OhciIso`, `OhciInterrupts`), that a poll comes
(`HidKeyboard`, `EyeToyDevice`), that seconds pass and that another process gives
the mutex back (`WasapiDevice`). Strong fairness is for locks that are free again
and again (`PulseDevice`, the cameras), for polls of an endpoint that the reader
may keep from a shared queue each time (`HidPointer`), for a camera that may not
forever announce a picture it has not got, and for a driver that
gives up a transfer that hangs (`OnePacket`): without it nothing would ever free
the packet.

## Proofs

Every theorem holds for every value of the constants, under the assumptions
named in the modules, which TLC evaluates in the passing runs. They ask that
constants have their types and that sets of descriptors, ports or devices are
finite; five say more, because the code needs it: `PacketsFit` (packets are not
larger than the buffer they are copied to), `NoneWaitsForIsoc` (no isochronous
endpoint beside a device that keeps packets: without it the run `shared_packet`
refutes `PacketAgrees`), `InterruptConstants` (a frame takes longer
than the minimal time between two interrupts, as `usb_frame_time` and `MIN_IRQ_INTERVAL` do),
`EyeToyAssumption` (a picture fits the buffer of the device, to whose size
`get_image` cuts it, and a first packet has room for the header) and
`ConfigAssumption` with its `FileFits` (a file of before may name an API that is gone, but
for the device in the port only, and no subtype that the device has not: nothing in the
code looks at the others, so what they name would be shown and saved as it is).

| Module | Theorems, and the invariant of the runs they state |
|---|---|
| `UsbMsdProofs` | `TypeOK`, `BytesAccountedFor`, `FileAtCommandOffset`, `StatusTellsTruth`, `DeferredOnlyWhenStuck`, `SenseDelivered`; `ImplementsBulkOnly` |
| `OhciListsProofs` | `TypeOK`, `DoneCountMeansDone`, `AsyncPacketInFlight`, `DeviceErrorClearsCount`, `FrameKeepsTds`, `SkippedWasSubmitted`, `TdInOnePlace` |
| `RingBufferProofs` | `TypeOK`, `HoldsNewest`, `EachReadOnce`, `WriteKeepsOld`; `ImplementsLossyQueue` |
| `CoreProofs`, `RootHub` | `RequestsAnswered`, `PacketAgrees`, `ControllerTells`, `PicturesWhole`; `ImplementAbstractions` |
| `HostProofs`, `WasapiDevice`, `PulseDevice` | `HostAgrees`, `BindingsHold`, `ThreadsOwn`; the steps `DevicesFollow`, `SavedIsLoaded`, `DialogsKeep` |

* **UsbMsdProofs**: the invariants are inductive only together and with three facts more
  (`Inv`): the tags agree inside a command, a file command in its data stage has
  the tag that routes data to the file, and a failure has its sense code.
  `SenseDelivered` needs a condition on the driver: tags of file commands are not
  used for others, and 0 is not used (`TagsApart`, `TagZeroUnused`); without the
  condition the model violates it.
* **OhciListsProofs**: `DoneCountMeansDone` makes `abort()` unreachable and
  `AsyncPacketInFlight` two assertions of the core true. `SkippedWasSubmitted` is for
  a driver that takes its memory back only in the bus state RESET. The
  strengthenings are the shape of the state in the middle of a list, that what
  the HCCA holds has been announced (`HandedOverIsTold`), and for the last one that
  in RESET nothing is in flight and that a packet in flight is queued or was
  submitted (`Quiet`). `TdInOnePlace` counts places; what is inductive is `Apart`:
  queues, done queue and HCCA have no descriptor in common and none has one twice. The
  lemmas before it say what `Head`, `Tail` and `Append` do to that.
* **RingBufferProofs**: when `reserve` is not called on a buffer in use
  (`~ReserveAnyTime`). `HoldsNewest` counts from the oldest byte, which an
  overrun moves; the inductive form `NewestBehind` counts from the newest: a byte
  that is d writes old, with d below `size()`, lies d places behind `m_end`. A write
  then only needs the lemma that `size()` grows by at most its length.
* **CoreProofs, control pipe** (`PipeAnswersRequests`). `PipeIInv`: while a transfer is
  under way, `setup_index` is the driver's own place in it; of a transfer in, what
  the driver has got is the first `setup_index` bytes, and `data_buf` holds all of the
  answer; of a transfer out, `data_buf` holds what was sent so far, and the request
  has not been executed. All of it is about requests that were accepted; after one that was
  refused only the stage and the bounds are known. `PipeHistory` has what was executed. A SETUP may abandon a
  transfer anywhere, so nothing about its bytes is assumed when it comes. The
  lemmas `PipeOver`, `PipePrefix` and `PipeLonger` say what copying into and out of
  the buffer gives.
* **CoreProofs, packet** (`PacketIsAgreedOn`). Controller, core and device agree on
  the packet in flight; inductive with where the driver's descriptors are
  (`PacketKept`). The actions of both kinds of list end in the same four ways, which have a lemma each.
* **RootHub, CoreProofs** (`DriverIsTold`). Of the ports: an address given to a device is no
  other's (`Addressed`, `OneEach`), and a change that the driver has not seen has
  the interrupt raised or the driver still on its round (`Heard`). Of the
  interrupts: what a pending interrupt has waited was paid for by the clock
  (`IrqPaid`), so it arrives within two frames and what the clock lags behind. Its
  arithmetic is in lemmas about numbers (`PaidByClock`, `PaidByTimer`), apart from
  the actions.
* **CoreProofs, camera** (`PicturesAreWhole`), in four parts. `EyeToyIInv`: of the picture in
  transit, the packets sent are its first `frame_offset` bytes, all of one copy,
  and the buffer still holds that copy, because the device fetches the next one only when none
  is in transit. `SensorIInv`: a register the guest wrote reads as written, until a reset.
  `V4l2IInv` has for each control point of the emulator's and of the capture thread
  what is mapped, open and locked there, and which halves of the buffer are of one
  frame; a step of one thread leaves the other's part alone. `DshowIInv` is the same
  for the interfaces of DirectShow, with what is left at each point of a
  graph half built. The cameras' invariants have a lemma per action, and
  one that joins them (`V4l2Keeps`, `DshowKeeps`).
* **CoreProofs, refinement** (`AbstractionsAreImplemented`). Of `ControlTransfer`,
  `FrameSource` twice: initial states map to initial states, and a step is
  mapped to the abstract step it performs or to none (`PipeTransferStep`, `V4l2SourceStep`,
  `DshowSourceStep`). The invariants above say that the guard of the
  abstract step holds. For the pipe one more is needed, `PipeReadRan`: a status stage of a transfer in is only
  reached when the device has answered.
* **HostProofs, plugin** (`HostStaysAgreed`, `DevicesAreFollowed`, `SavedStatesLoad`). `LifeIInv`: each device
  belongs to one port and the root hub agrees (`LifeOwned`, on which everything rests: with as many
  objects as ports there is then always a free one), as does the packet's endpoint unless it is lost;
  devices are closed while the plugin is, and gone with the controller (`LifeDevices`); and what
  is on the disk has for each port the type, the size and the data of one device (`LifeDisk`). The
  functions of `USB.cpp` work on one port, so each has a lemma that says what it makes of that
  port and that it leaves the other (`LifeSame`); the calls of the emulator put them together.
  `DevicesFollow` is then one lemma per call, `LifeFollows`. That a state loads what was saved
  follows from what is on the disk and from the port that is loaded into, port by port
  (`LifeLoadIs`), not from what is configured.
* **HostProofs, dialogs** (`HostStaysAgreed`, `DialogsKeepChoices`). `ConfigIInv` relates the four
  places that hold a choice: the file, the settings that were read, the lists on
  show and the history of picks. GTK's callbacks write the settings while a list is
  filled, so there the settings name what is on show; in Windows they name only what was
  picked, and the file has the rest (`ConfigKnows`, `ConfigOnShow`). `SoundsIInv`: a slot the
  user did not touch shows what is set, if it is on the list.
* **HostProofs, pads** (`BindingsStay`). `PadsPlaces`: as long as every list of
  devices was the first one, the list in use is that one, and a control that is mapped is
  mapped to the place where its device is. `changed` and `refused` are
  the histories that the guarantee excludes: a device pulled between two lists is one of the findings.
* **HostProofs, threads** (`ThreadsStay`). `ThreadIInv` ties the object to the one
  thread that reads for it. `Counts` of the library: while it is installed, the counter is at least
  the number of its users, objects, dialog and a constructor that is under way, and functions
  are loaded exactly while it is not 0; FiniteSets' cardinalities carry it. It is not
  an equality: what the code leaks the invariant allows.
* **WasapiDevice, PulseDevice**: the pair of control points of the emulator's
  thread and the device's own, with the locks each of them implies (`Places`,
  `Locks`), the COM interfaces held at each (`Held`), what the emulator last asked for
  (`Wants`), and that only what was lost is made again (`Leaks`). One theorem for any device;
  `ThreadsStay` uses it for the source and the
  sink.

Model-checked only: `IsoFramesKept` and `DescriptorsAgree` of
`core`, `SoundAsSet` of `host`, `ReportsShowInputs` and `ForcesFollow` of `input`, and the
steps `SettingsTold` and `VolumesAndFramesKept`. `DescriptorsAgree` and the
reports of `input` are about the tables themselves:
for those TLC's run is complete, since there is nothing else to quantify over.
`IsoFramesKept` speaks of the frames that an endpoint passes over, a fold over its
queue: that is an induction over data, which is outside the provers' reach. All
liveness properties stay with TLC too, as does ENABLED. The modules have no RECURSIVE operators, so
that they can be proved about: folds do that work.

## Not modelled, and why

* `usb_packet_complete` and the packets an endpoint queues behind a deferred one:
  no device of this program gets there. `usb-hub.cpp` and `usb-buzzer.cpp` are in
  no list of devices.
* Raw input (`shared/rawinput.cpp`, `usb-pad/raw`, `usb-hid/raw`), joydev, and the
  raw dialog: thin layers over the operating system that fill the state of
  `EvdevPad` and `HidPointer`; the Sega microphone pad joins a pad and a microphone
  that are modelled by themselves.
* Settings files (`shared/inifile.cpp`), key names, conversions of images to MPEG,
  resampling, values of samples: data without control.
* Drawing of dialogs, and the numbers in DirectInput's filters.
* Calls through a COM pointer that the other thread releases between test and
  call (`audiodev-wasapi.cpp:339`), and torn reads of single words: outcomes outside
  the language's semantics that leave no state to speak of.
* A microphone's state loaded into a device that was made with other settings
  (`usb-mic-singstar.cpp:1050`): its mode then names a source that is not there.
* Device qualifier, BOS and superspeed descriptors, GET_STATUS and the feature
  requests: no device uses the former, the latter keep one bit each.
* Vendored code: libsamplerate, jpgd, readerwriterqueue.

## Plan

Every component with a protocol of its own has a module. What is left is to
prove more, in this order:

1. `HidPointer` without overlap: motion and buttons are kept.
2. `PulseSource`: mutual exclusion and order.
3. `Microphone` and `Headset`: `OwnChannel`, `PacketFits` and the rates of `SoundAsSet`.
4. `OhciIso`: `InItsFrame`, `BytesInTd` and `DoneMeansSent`, arithmetic modulo `Wrap`, where
   no fold is involved.
