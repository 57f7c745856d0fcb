-------------------------------- MODULE MCHost --------------------------------
(*****************************************************************************)
(* What the emulator and the user ask of the plugin, one component at a      *)
(* time: its life from init to shutdown with saved states, the configuration *)
(* dialogs, bindings of DirectInput, the audio devices with their control    *)
(* requests, and the threads that feed them and the input devices.           *)
(*****************************************************************************)
EXTENDS UsbAudio, TLC

CONSTANTS None,       \* no device type, and no device
          LifeObjects, LifeTypes, LifeReattached, LifeSizeless, LifeData,
          LifeConfs, LifeDialogs, LifeDriven, LifeAgain, \* those of PluginLife
          ConfigTypes, ConfigApis, ConfigSubtypes, ConfigFiles,
          ConfigBuilds, \* those of ConfigDialog
          SoundsBuilds, SoundsSources, SoundsSinks, SoundsMaxLength,
          SoundsLengths, \* those of AudioDialog
          PadPorts, PadTypes, PadControls, PadSteering, PadFiltered,
          PadDevices, PadJoysticks, PadXInput, PadEffects, PadSupports,
          PadPulled, PadListens, \* those of DInputPad
          ThreadOpens, ThreadPrompt,
          WasapiShared, SourceRates, SinkRates, DeviceRates, WasapiRoom,
          WasapiMaxLosses,
          PulseAsserts, PulseMaxLosses,
          LibUsers, LibObjects, LibFunctions, LibInstalled, LibMaxCount

VARIABLES
  part,  \* the component that runs; it never changes
  plugin_build, ohci, usb_opened, configChanged, plugin_conf, plugin_loaded,
  plugin_ini, heap, usb_device, port, ep, plugin_disk, returned, unmade,
  wrong,
  settings_build, settings_disk, ciniFile, settings_conf, changedAPIs,
  changedSubtype, settings_loaded, settings_dialog, shown, accepted, picked,
  followed, device,
  attached, refCount, g_pJoysticks, known, changed, refused, g_Controls, FFB,
  playing, dinput_ini, open, dinput_dialog, listening, CID, listens, failed,
  singstar_state, setup, singstar_f, src, packet, lost, singstar_request,
  singstar_reply, singstar_saved,
  usbheadset_state, usbheadset_f, altsetting, source, sink, usbheadset_in,
  usbheadset_out, played, usbheadset_request, usbheadset_reply,
  usbheadset_saved,
  devices_build, devices_system, file, devices_dialog, listed, active, slider, text,
  touched,
  paused, buffers_in, buffers_out, buffers_mutex, cb, em, recorded, heard,
  handle, thread_running, joinable, threads, thread_main, opens, told,
  object, wasapi_main, audio, wasapi_mutex, wasapi_system, com,
  wasapi_running, mDeviceLost, wasapi_mPaused, wasapi_mQuit, rates, soon,
  frames, fetched, wasapi_wanted, wasapi_losses, leaked,
  pulse_main, loop, lock, pulse_mutex, server, context, stream, corked,
  mPAready, pulse_mQuit, pulse_mPaused, pulse_wanted, pulse_losses,
  installed, pulse_handle, library_loaded, refCntPulse, stage, made, alive,
  library_dialog, used

pluginVars == <<plugin_build, ohci, usb_opened, configChanged, plugin_conf,
                plugin_loaded, plugin_ini, heap, usb_device, port, ep,
                plugin_disk, returned, unmade, wrong>>
settingsVars == <<settings_build, settings_disk, ciniFile, settings_conf,
                  changedAPIs, changedSubtype, settings_loaded,
                  settings_dialog, shown, accepted, picked, followed, device>>
dinputVars == <<attached, <<refCount, g_pJoysticks, known, changed, refused>>,
                <<FFB, playing>>, g_Controls, dinput_ini, open, dinput_dialog,
                listening, CID, listens, failed>>
singstarVars == <<singstar_state, setup, singstar_f, src, packet, lost,
                  singstar_request, singstar_reply, singstar_saved>>
usbheadsetVars == <<usbheadset_state, usbheadset_f, altsetting, source, sink,
                    usbheadset_in, usbheadset_out, played, usbheadset_request,
                    usbheadset_reply, usbheadset_saved>>
devicesVars == <<devices_build, devices_system, file, devices_dialog, listed, active, slider,
                 text, touched>>
buffersVars == <<paused, buffers_in, buffers_out, buffers_mutex, cb, em,
                 recorded, heard>>
threadVars == <<handle, thread_running, joinable, threads, thread_main, opens,
                told>>
wasapiVars == <<object, wasapi_main, audio, wasapi_mutex, wasapi_system, com,
                wasapi_running, mDeviceLost, wasapi_mPaused, wasapi_mQuit,
                rates, soon, frames, fetched, wasapi_wanted, wasapi_losses,
                leaked>>
pulseVars == <<pulse_main, loop, lock, pulse_mutex, server, context, stream,
               corked, mPAready, pulse_mQuit, pulse_mPaused, pulse_wanted,
               pulse_losses>>
libraryVars == <<installed, pulse_handle, library_loaded, refCntPulse, stage,
                 made, alive, library_dialog, used>>
vars == <<part, pluginVars, settingsVars, dinputVars, singstarVars,
          usbheadsetVars, devicesVars, buffersVars, threadVars, wasapiVars,
          pulseVars, libraryVars>>

-----------------------------------------------------------------------------
\* A pad, a mass storage device and a camera: two devices, others in their
\* place, and one alone.
Null == "null"
On(a, b) == [p \in 0..1 |-> IF p = 0 THEN a ELSE b]
MCConfs == {On("pad", "msd"), On("camera", None)}
Life == INSTANCE PluginLife WITH
    Objects <- LifeObjects, Types <- LifeTypes, Reattached <- LifeReattached,
    Sizeless <- LifeSizeless, Data <- LifeData, Confs <- LifeConfs,
    Dialogs <- LifeDialogs, Driven <- LifeDriven, Again <- LifeAgain, AfterEnd <- FALSE,
    build <- plugin_build, conf <- plugin_conf,
    loaded <- plugin_loaded, ini <- plugin_ini, disk <- plugin_disk
ASSUME LifeAssumption == Life!PluginLifeConstants

\* A pad with two APIs and two subtypes, and a microphone with one API and none;
\* a file that is empty, one that is complete and one that names an API of before.
MCApis == "pad" :> <<"evdev", "joydev">> @@ "mic" :> <<"pulse">>
MCSubtypes == "pad" :> 2 @@ "mic" :> 0
File(p, a, s) == [port |-> p, api |-> "pad" :> a @@ "mic" :> "absent",
                  sub |-> "pad" :> s @@ "mic" :> -2]
MCFiles == {File("none", "absent", -2), File("pad", "joydev", 1), File("pad", "gone", -2)}
Config == INSTANCE ConfigDialog WITH
    Types <- ConfigTypes, Apis <- ConfigApis, Subtypes <- ConfigSubtypes,
    Files <- ConfigFiles, Builds <- ConfigBuilds, build <- settings_build,
    disk <- settings_disk, conf <- settings_conf,
    loaded <- settings_loaded, dialog <- settings_dialog
ASSUME ConfigAssumption == Config!ConfigDialogConstants

\* A keyboard and a wheel, which has the forces.
MCSupports == "keyboard" :> {} @@ "wheel" :> {"constant"}
DInput == INSTANCE DInputPad WITH
    Ports <- PadPorts, DevTypes <- PadTypes, Controls <- PadControls,
    Steering <- PadSteering, Filtered <- PadFiltered, Devices <- PadDevices,
    Joysticks <- PadJoysticks, XInput <- PadXInput, Effects <- PadEffects,
    Supports <- PadSupports, Pulled <- PadPulled, MaxListen <- PadListens,
    ini <- dinput_ini, dialog <- dinput_dialog
ASSUME DInputAssumption == DInput!DInputPadConstants

\* Two microphones, one of two channels, one for both, one alone on either side;
\* packets of one to five samples, and volumes at the ends of their range.
Pair(a, b, same, mono) == [chans |-> 0 :> a @@ 1 :> b, same |-> same, mono |-> mono]
AllSetups == {Pair(1, 1, FALSE, FALSE), Pair(2, 2, TRUE, FALSE), Pair(1, 0, FALSE, FALSE),
              Pair(0, 1, FALSE, FALSE), Pair(1, 1, FALSE, TRUE)}
RateRequests == {Tell("frequency", 0, 3, <<0, 0>>), Tell("frequency", 2, 3, <<2, 0>>)}
Raws == {ToRaw(2), ToRaw(2) + 1, 32767}
VolumeRequests ==
  {Ask("GetCur", "volume", c, 2) : c \in 0..2} \cup {Ask("GetCur", "volume", 0, 4)}
  \cup {Ask(op, "volume", 1, 2) : op \in {"GetMin", "GetMax", "GetRes"}}
  \cup {Tell("volume", 1, 2, <<w, 0>>) : w \in Raws}
  \cup {Tell("volume", 0, 2, <<ToRaw(240), 0>>), Tell("volume", 2, 2, <<Least, 0>>)}
  \cup {Tell("volume", 0, 4, <<ToRaw(2), Silent>>)}
  \cup {Ask("GetCur", "mute", 0, 1), Tell("mute", 0, 1, <<1, 0>>), Tell("agc", 0, 1, <<1, 0>>),
        Ask("GetMin", "mute", 0, 1), Tell("volume", 3, 2, <<0, 0>>), Ask("GetCur", "frequency", 0, 3),
        Ask("GetCur", "none", 0, 2)}
Mic == INSTANCE Microphone WITH
    Setups <- AllSetups, Rates <- {0, 2}, Usual <- 2, Sizes <- {1, 5},
    Requests <- RateRequests, MaxFrames <- 1, Alts <- {0, 1},
    state <- singstar_state, f <- singstar_f, request <- singstar_request,
    reply <- singstar_reply, saved <- singstar_saved
ASSUME Mic!MicrophoneConstants

Volumes == INSTANCE Microphone WITH
    Setups <- {Pair(1, 1, FALSE, FALSE)}, Rates <- {2}, Usual <- 2,
    Sizes <- {}, Requests <- VolumeRequests, MaxFrames <- 0, Alts <- {0, 1},
    state <- singstar_state, f <- singstar_f, request <- singstar_request,
    reply <- singstar_reply, saved <- singstar_saved
ASSUME Volumes!MicrophoneConstants

\* Sinks of one and two channels, and each request once.
To(unit, r) == [unit |-> unit] @@ r
ControlAsks ==
  {To("phones", Tell("volume", c, 2, <<Silent, 0>>)) : c \in {0, 2}}
  \cup {To("phones", Ask("GetCur", "volume", c, 2)) : c \in 0..2}
  \cup {To("mic", Tell("volume", 1, 2, <<Silent, 0>>))}
RateAsks ==
  {To(u, Tell("frequency", 0, 3, <<8000, 0>>)) : u \in {"mic", "phones"}}
  \cup {To("mic", Ask("GetCur", "frequency", 0, 3)), To("mic", Tell("mute", 0, 1, <<1, 0>>)),
        To("mic", Ask("GetCur", "mute", 0, 1)), To("phones", Ask("GetCur", "bass", 0, 1))}
Controls == INSTANCE Headset WITH
    Sinks <- {1, 2}, Asks <- ControlAsks, Rooms <- {1}, MaxFrames <- 0,
    MaxPackets <- 1, state <- usbheadset_state, f <- usbheadset_f,
    in <- usbheadset_in, out <- usbheadset_out, request <- usbheadset_request,
    reply <- usbheadset_reply, saved <- usbheadset_saved
ASSUME Controls!HeadsetConstants

HeadsetRates == INSTANCE Headset WITH
    Sinks <- {2}, Asks <- RateAsks, Rooms <- {1}, MaxFrames <- 2,
    MaxPackets <- 0, state <- usbheadset_state, f <- usbheadset_f,
    in <- usbheadset_in, out <- usbheadset_out, request <- usbheadset_request,
    reply <- usbheadset_reply, saved <- usbheadset_saved
ASSUME HeadsetRates!HeadsetConstants

\* Devices that come and go while the user picks one.
Sounds == INSTANCE AudioDialog WITH
    Builds <- SoundsBuilds, Sources <- SoundsSources, Sinks <- SoundsSinks,
    MaxLength <- SoundsMaxLength, Lengths <- SoundsLengths,
    build <- devices_build, system <- devices_system,
    dialog <- devices_dialog
ASSUME SoundsAssumption == Sounds!AudioDialogConstants

\* Fragments that fit, that fill and that overrun buffers of two and three frames.
Buffers == INSTANCE PulseSource WITH
    InFrames <- 2, OutFrames <- 3, Fragments <- 1..3, MaxFrames <- 2,
    Frames <- 6, in <- buffers_in, out <- buffers_out, mutex <- buffers_mutex
ASSUME Buffers!SourceConstants

\* Threads that may take long to see that they must end.
Thread == INSTANCE InputThread WITH
    Opens <- ThreadOpens, Prompt <- ThreadPrompt, running <- thread_running,
    main <- thread_main
ASSUME ThreadAssumption == Thread!InputThreadAssumption

\* A source and a sink that are lost twice, beside another device that takes the
\* mutex.
WasapiSource == INSTANCE WasapiDevice WITH
    Dir <- "source", Shared <- WasapiShared, Rates <- SourceRates,
    Room <- WasapiRoom, MaxLosses <- WasapiMaxLosses,
    main <- wasapi_main,
    mutex <- wasapi_mutex, system <- wasapi_system, running <- wasapi_running,
    mPaused <- wasapi_mPaused, mQuit <- wasapi_mQuit, wanted <- wasapi_wanted,
    losses <- wasapi_losses
ASSUME WasapiSourceAssumption == WasapiSource!WasapiConstants

WasapiSink == INSTANCE WasapiDevice WITH
    Dir <- "sink", Shared <- WasapiShared, Rates <- SinkRates,
    Room <- WasapiRoom, MaxLosses <- WasapiMaxLosses,
    main <- wasapi_main,
    mutex <- wasapi_mutex, system <- wasapi_system, running <- wasapi_running,
    mPaused <- wasapi_mPaused, mQuit <- wasapi_mQuit, wanted <- wasapi_wanted,
    losses <- wasapi_losses
ASSUME WasapiSinkAssumption == WasapiSink!WasapiConstants

\* A source and a sink whose server goes twice.
PulseSourceDevice == INSTANCE PulseDevice WITH
    Dir <- "source", Asserts <- PulseAsserts, MaxLosses <- PulseMaxLosses, main <- pulse_main,
    mutex <- pulse_mutex, mQuit <- pulse_mQuit, mPaused <- pulse_mPaused,
    wanted <- pulse_wanted, losses <- pulse_losses
ASSUME PulseSourceAssumption == PulseSourceDevice!PulseDeviceConstants

PulseSink == INSTANCE PulseDevice WITH
    Dir <- "sink", Asserts <- PulseAsserts, MaxLosses <- PulseMaxLosses, main <- pulse_main,
    mutex <- pulse_mutex, mQuit <- pulse_mQuit, mPaused <- pulse_mPaused,
    wanted <- pulse_wanted, losses <- pulse_losses
ASSUME PulseSinkAssumption == PulseSink!PulseDeviceConstants

\* A headset and a microphone, the dialog, and libraries that are missing, old or
\* complete.
Library == INSTANCE PulseLibrary WITH
    Devices <- LibUsers, Objects <- LibObjects, All <- LibFunctions,
    Libraries <- LibInstalled, MaxCount <- LibMaxCount, loaded <- library_loaded,
    dialog <- library_dialog
ASSUME LibraryAssumption == Library!PulseLibraryConstants

-----------------------------------------------------------------------------
Parts == {"life", "config", "dinput", "mic", "volumes", "controls", "rates",
          "sounds", "buffers", "thread", "wasapi_source", "wasapi_sink",
          "pulse_source", "pulse_sink", "library"}
\* The components that do not run stay in one of their initial states.
Init ==
  /\ part \in Parts
  /\ Life!Init /\ (part # "life" => plugin_build = "gtk" /\ plugin_ini = CHOOSE c \in LifeConfs : TRUE)
  /\ Config!Init /\ (part # "config" => settings_build = "gtk" /\ settings_disk.port = "none")
  /\ DInput!Init
  /\ CASE part = "volumes" -> Volumes!Init
         [] OTHER -> Mic!Init /\ (part # "mic" => setup = Pair(1, 1, FALSE, FALSE))
  /\ CASE part = "rates" -> HeadsetRates!Init
         [] OTHER -> Controls!Init
  /\ Sounds!Init /\ (part # "sounds" => devices_build = "gtk" /\ devices_system = {})
  /\ Buffers!Init
  /\ Thread!Init
  /\ CASE part = "wasapi_sink" -> WasapiSink!Init
         [] OTHER -> WasapiSource!Init
  /\ CASE part = "pulse_sink" -> PulseSink!Init
         [] OTHER -> PulseSourceDevice!Init /\ (part # "pulse_source" => server)
  /\ Library!Init /\ (part # "library" => installed = 0)

LifeStep ==
  /\ part = "life" /\ Life!Next
  /\ UNCHANGED <<part, settingsVars, dinputVars, singstarVars, usbheadsetVars,
                 devicesVars, buffersVars, threadVars, wasapiVars, pulseVars,
                 libraryVars>>
ConfigStep ==
  /\ part = "config" /\ Config!Next
  /\ UNCHANGED <<part, pluginVars, dinputVars, singstarVars, usbheadsetVars,
                 devicesVars, buffersVars, threadVars, wasapiVars, pulseVars,
                 libraryVars>>
DInputStep ==
  /\ part = "dinput" /\ DInput!Next
  /\ UNCHANGED <<part, pluginVars, settingsVars, singstarVars, usbheadsetVars,
                 devicesVars, buffersVars, threadVars, wasapiVars, pulseVars,
                 libraryVars>>
MicStep ==
  /\ part = "mic" /\ Mic!Next
  /\ UNCHANGED <<part, pluginVars, settingsVars, dinputVars, usbheadsetVars,
                 devicesVars, buffersVars, threadVars, wasapiVars, pulseVars,
                 libraryVars>>
VolumesStep ==
  /\ part = "volumes" /\ Volumes!Next
  /\ UNCHANGED <<part, pluginVars, settingsVars, dinputVars, usbheadsetVars,
                 devicesVars, buffersVars, threadVars, wasapiVars, pulseVars,
                 libraryVars>>
ControlsStep ==
  /\ part = "controls" /\ Controls!Next
  /\ UNCHANGED <<part, pluginVars, settingsVars, dinputVars, singstarVars,
                 devicesVars, buffersVars, threadVars, wasapiVars, pulseVars,
                 libraryVars>>
HeadsetRatesStep ==
  /\ part = "rates" /\ HeadsetRates!Next
  /\ UNCHANGED <<part, pluginVars, settingsVars, dinputVars, singstarVars,
                 devicesVars, buffersVars, threadVars, wasapiVars, pulseVars,
                 libraryVars>>
SoundsStep ==
  /\ part = "sounds" /\ Sounds!Next
  /\ UNCHANGED <<part, pluginVars, settingsVars, dinputVars, singstarVars,
                 usbheadsetVars, buffersVars, threadVars, wasapiVars,
                 pulseVars, libraryVars>>
BuffersStep ==
  /\ part = "buffers" /\ Buffers!Next
  /\ UNCHANGED <<part, pluginVars, settingsVars, dinputVars, singstarVars,
                 usbheadsetVars, devicesVars, threadVars, wasapiVars,
                 pulseVars, libraryVars>>
ThreadStep ==
  /\ part = "thread" /\ Thread!Next
  /\ UNCHANGED <<part, pluginVars, settingsVars, dinputVars, singstarVars,
                 usbheadsetVars, devicesVars, buffersVars, wasapiVars,
                 pulseVars, libraryVars>>
WasapiSourceStep ==
  /\ part = "wasapi_source" /\ WasapiSource!Next
  /\ UNCHANGED <<part, pluginVars, settingsVars, dinputVars, singstarVars,
                 usbheadsetVars, devicesVars, buffersVars, threadVars,
                 pulseVars, libraryVars>>
WasapiSinkStep ==
  /\ part = "wasapi_sink" /\ WasapiSink!Next
  /\ UNCHANGED <<part, pluginVars, settingsVars, dinputVars, singstarVars,
                 usbheadsetVars, devicesVars, buffersVars, threadVars,
                 pulseVars, libraryVars>>
PulseSourceDeviceStep ==
  /\ part = "pulse_source" /\ PulseSourceDevice!Next
  /\ UNCHANGED <<part, pluginVars, settingsVars, dinputVars, singstarVars,
                 usbheadsetVars, devicesVars, buffersVars, threadVars,
                 wasapiVars, libraryVars>>
PulseSinkStep ==
  /\ part = "pulse_sink" /\ PulseSink!Next
  /\ UNCHANGED <<part, pluginVars, settingsVars, dinputVars, singstarVars,
                 usbheadsetVars, devicesVars, buffersVars, threadVars,
                 wasapiVars, libraryVars>>
LibraryStep ==
  /\ part = "library" /\ Library!Next
  /\ UNCHANGED <<part, pluginVars, settingsVars, dinputVars, singstarVars,
                 usbheadsetVars, devicesVars, buffersVars, threadVars,
                 wasapiVars, pulseVars>>
Next == \/ LifeStep \/ ConfigStep \/ DInputStep
        \/ MicStep \/ VolumesStep \/ ControlsStep \/ HeadsetRatesStep
        \/ SoundsStep \/ BuffersStep \/ ThreadStep
        \/ WasapiSourceStep \/ WasapiSinkStep \/ PulseSourceDeviceStep
        \/ PulseSinkStep \/ LibraryStep
Spec == Init /\ [][Next]_vars

-----------------------------------------------------------------------------
(* Properties.  Each puts together what the modules of the parts state and explain. *)

\* What the plugin holds, what is configured and what the dialogs show agree:
\* every device that exists belongs to one port and to the root hub's, none is
\* lost or freed twice and none is open while the plugin is closed, also after
\* one failed to be made, was replaced or came from a saved state that was
\* given up half-way (USB.cpp:535); and a dialog opened again shows what was
\* accepted in it.
HostAgrees ==
  /\ part = "life" => /\ Life!TypeOK
                      /\ Life!OwnedOnce
                      /\ Life!ClosedTogether
  /\ part = "config" => /\ Config!TypeOK
                        /\ settings_build = "gtk" => Config!ShowsWhatWasAccepted
  /\ part = "sounds" => /\ Sounds!TypeOK
                        /\ Sounds!TextIsSaved

\* What changes the devices takes along what hangs on them: opening the plugin
\* opens every device and while it is open each is, the guest sees the ports
\* that hold one, and the packet in flight points to none that was freed.  Each
\* may cease only where the code lets it, which the steps name: a state of
\* devices that were not the configured ones, a device that goes with none in
\* its place, and, for the packet, devices made anew for another configuration
\* (USB.cpp:131), never a state that is loaded.
DevicesFollow ==
  /\ [][part = "life" => Life!OpenTogether]_pluginVars
  /\ [][part = "life" => Life!ShowsDevices]_pluginVars
  /\ [][part = "life" => Life!PacketPointsToDevice]_pluginVars

\* Reading a saved state gives every port a device of the type and with the data
\* it had, "recreate the same device type as was saved", or none where it cannot
\* be made, however the plugin is configured by then, with ports that are empty
\* and devices that fail to be made, as long as no port holds another device
\* than the one configured for it; and a state that was saved like this is given
\* up only for a packet without a device (USB.cpp:507, 535, 647).
SavedIsLoaded ==
  /\ [][part = "life" => Life!LoadsSameDevices]_pluginVars
  /\ [][part = "life" => Life!RefusesOnlyPackets]_pluginVars

\* What the user picked last is what is saved and made, and what the user left
\* alone stays: lists that are filled again, devices that come and go, a dialog
\* that is cancelled or turned to another device do not change it
\* (configuration.cpp:180, dinput-config.cpp:438).
DialogsKeep ==
  /\ Config!SeenOrPicked
  /\ [][settings_build = "gtk" => Config!MakesAccepted]_settingsVars
  /\ [][settings_build = "gtk" => Config!SavesPicked]_settingsVars
  /\ Sounds!KeepsTheRest
  /\ Sounds!SavedWasListed
  /\ DInput!OkSavesAll

\* DirectInput's list of devices is shared by all pads and dialogs: it is there
\* as long as one of them uses it, effects go before their devices, and a
\* binding in use names a place of the list that holds the device it was made
\* for (dinput.cpp).
BindingsHold ==
  /\ part = "dinput" => /\ DInput!TypeOK
                        /\ DInput!CountsUsers
                        /\ DInput!EffectsOfDevices
                        /\ DInput!IndexInRange
                        /\ DInput!BoundToWhatWasMeant

\* Sound reaches the side that asked for it, as it was set: each player's voice
\* is on their own channel and packets hold what was asked for, nothing is
\* recorded while closed or lost without need, each channel plays and answers
\* at its own volume, rates are those the guest set, also after a saved state;
\* and the frames of a PulseAudio source are heard once and in order while
\* callbacks, reads and resets interleave (audiodev-pulse.cpp:313).
SoundAsSet ==
  /\ part = "mic" => /\ Mic!TypeOK
                     /\ Mic!ModeHasSources
                     /\ Mic!CapturesOnlyOpen
                     /\ Mic!LossNeedsOther
                     /\ Mic!OwnChannel
                     /\ Mic!PacketFits
                     /\ Mic!RatesFollow
  /\ part = "controls" => /\ Controls!TypeOK
                          /\ Controls!HeardAsSent
                          /\ Controls!VolumesAnswer
  /\ part = "rates" => /\ HeadsetRates!TypeOK
                       /\ HeadsetRates!RatesFollow
  /\ part = "buffers" => /\ Buffers!TypeOK
                         /\ Buffers!DeliveredInOrder
                         /\ Buffers!ReadsWhatItFound

\* Step by step: writing back a volume that was read changes nothing, a louder
\* one is never stored as a lower one, and setting one channel leaves the
\* others; frames go out in order, and a recording disappears only in a buffer
\* that was overrun or replaced (usb-mic-singstar.cpp:484, audiodev-
\* pulse.cpp:763).
VolumesAndFramesKept ==
  /\ Volumes!WriteBackKeeps
  /\ Volumes!LouderIsLouder
  /\ Controls!AnswersWhatWasSet
  /\ HeadsetRates!MicInOrder
  /\ Buffers!LostOnlyToOverrun

\* Threads and what they use: a device has one reading thread, joined before
\* its object is used again; nothing runs on a deleted object; interfaces,
\* streams and libraries are used only while they are there; and a thread that
\* ended by itself owns no mutex (evdev.cpp:583, audiodev-pulse.h:77).  A device
\* of Windows, which may be lost again and again, leaks nothing and runs when it
\* was started and only then, but for what the code does not do: a sink leaks
\* what it held when it was lost and is not started when it is made anew, a
\* source that is lost while it is stopped starts again when it is back, and a
\* thread that has to be killed may leave the mutex abandoned
\* (audiodev-wasapi.cpp:81, 180, 319, 719).
ThreadsOwn ==
  /\ part = "thread" => /\ Thread!TypeOK
                        /\ Thread!OneReader
                        /\ Thread!ObjectStandsForThread
  /\ part = "wasapi_source" => /\ WasapiSource!TypeOK
                               /\ WasapiSource!EndedOwnsNothing
                               /\ WasapiSource!DeletedIsQuiet
                               /\ WasapiSource!UsesWhatItHas
                               /\ WasapiSource!LeaksOnlyTheLost
                               /\ WasapiSource!RunsWhenWanted
                               /\ WasapiSource!StopsWhenWanted
  /\ part = "wasapi_sink" => /\ WasapiSink!TypeOK
                             /\ WasapiSink!EndedOwnsNothing
                             /\ WasapiSink!DeletedIsQuiet
                             /\ WasapiSink!UsesWhatItHas
                             /\ WasapiSink!LeaksOnlyTheLost
                             /\ WasapiSink!RunsWhenWanted
                             /\ WasapiSink!StopsWhenWanted
  /\ part = "pulse_source" => /\ PulseSourceDevice!TypeOK
                              /\ PulseSourceDevice!CallbackHasStream
                              /\ PulseSourceDevice!NothingLeft
                              /\ PulseSourceDevice!OnlyDestructorStands
                              /\ PulseSourceDevice!StartedRuns
  /\ part = "pulse_sink" => /\ PulseSink!TypeOK
                            /\ PulseSink!CallbackHasStream
                            /\ PulseSink!NothingLeft
                            /\ PulseSink!OnlyDestructorStands
                            /\ PulseSink!StartedRuns
  /\ part = "library" => /\ Library!TypeOK
                         /\ Library!UsedIsLoaded
                         /\ Library!CountCovers
                         /\ Library!WholeOrNothing

\* Loading a saved state reads the device of the packet from the array of the
\* ports' devices only at an index it has: "USB packet has invalid device
\* index?" (USB.cpp:600) is asked after the array was read.
LoadedIndexInBounds == part = "life" => Life!IndexInBounds
=============================================================================
