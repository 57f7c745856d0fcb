------------------------------- MODULE UsbDesc --------------------------------
(***************************************************************************)
(* The standard requests a device answers through usb_desc_handle_control, *)
(* and the state they keep: the configuration, the alternate setting of    *)
(* each interface, the endpoint table of the USB core, and what the device *)
(* itself was told (set_interface, which the microphones listen to).       *)
(***************************************************************************)
EXTENDS Integers, Sequences, FiniteSets, Descriptors

CONSTANTS
  Names,          \* the devices that may be plugged in
  Values,         \* the configuration values a guest asks for
  Alts            \* the alternate settings a guest asks for

NamesAreDevices == Names \subseteq DOMAIN Devices

VARIABLES
  name,           \* the device plugged in
  conf,           \* its configuration, parsed when it was created
  configured,     \* dev->config is set (every device has one configuration)
  configuration,  \* dev->configuration
  ninterfaces,    \* dev->ninterfaces
  altsetting,     \* dev->altsetting
  ifaces,         \* dev->ifaces: the number and setting each entry points to
  endpoints,      \* dev->ep_in and dev->ep_out: the entries with a type
  intf,           \* s->f.intf of the device: the last setting it was told
  reply           \* the answer to the last request

core == <<configured, configuration, ninterfaces, altsetting, ifaces, endpoints, intf>>
device == <<name, conf>>
vars == <<device, core, reply>>

\* The entries of altsetting and ifaces a guest's requests reach here.
Slots == 0..2

NULL == 0
Stall == [answer |-> "stall"]
Ok(value) == [answer |-> "ok", value |-> value]

ConfigurationValue == 1

----------------------------------------------------------------------------

\* usb_desc_find_interface: the index in ifs of an interface's setting, or 0.
Find(nif, alt) ==
  LET found == {k \in DOMAIN conf.ifs :
                  conf.ifs[k].desc.number = nif /\ conf.ifs[k].desc.alt = alt}
  IN  IF found = {} THEN 0 ELSE CHOOSE k \in found : \A j \in found : k <= j

\* usb_desc_ep_init after usb_ep_init: the table is emptied, then every interface
\* that has a setting puts its first bNumEndpoints endpoints in.
EndpointsOf(n, ifs) ==
  UNION {LET i == conf.ifs[ifs[k]] IN
           {[pid |-> i.eps[e].desc.pid, nr |-> i.eps[e].desc.nr, type |-> i.eps[e].desc.type,
             ifnum |-> i.desc.number, size |-> i.eps[e].desc.size] :
                e \in 1..i.desc.endpoints}
         : k \in {j \in 0..(n - 1) : ifs[j] # NULL}}

\* Mutant of Told: the device is told the setting it leaves.
ToldOld(alt) == IF Devices[name].hears THEN altsetting[1] ELSE intf

\* usb_device_set_interface: most devices have no set_interface.
Told(alt) == IF Devices[name].hears THEN alt ELSE intf

\* Mutant of SetInterfaceIn: the endpoint table is not made again.
SetInterfaceOnly(s, i, alt) ==
  IF Find(i, alt) = 0
    THEN s
    ELSE [s EXCEPT !.altsetting[i] = alt, !.ifaces[i] = Find(i, alt),
                   !.intf = IF s.altsetting[i] # alt THEN Told(alt) ELSE s.intf]

\* usb_desc_set_interface of interface i on state s, which is left as it is when there
\* is no such setting. The device is told when the setting is another one.
SetInterfaceIn(s, i, alt) ==
  IF Find(i, alt) = 0
    THEN s
    ELSE LET ifs == [s.ifaces EXCEPT ![i] = Find(i, alt)] IN
         [altsetting |-> [s.altsetting EXCEPT ![i] = alt],
          ifaces |-> ifs,
          endpoints |-> EndpointsOf(s.n, ifs),
          intf |-> IF s.altsetting[i] # alt THEN Told(alt) ELSE s.intf,
          n |-> s.n]

Now == [altsetting |-> altsetting, ifaces |-> ifaces, endpoints |-> endpoints, intf |-> intf,
        n |-> ninterfaces]

Become(s) ==
  /\ altsetting' = s.altsetting
  /\ ifaces' = s.ifaces
  /\ endpoints' = s.endpoints
  /\ intf' = s.intf

\* The entries past the interfaces are cleared, and nobody is told.
ClearedFrom(s, n) ==
  [s EXCEPT !.altsetting = [i \in Slots |-> IF i < n THEN @[i] ELSE 0],
            !.ifaces = [i \in Slots |-> IF i < n THEN @[i] ELSE NULL]]

\* Setting 0 of the first n interfaces, one after the other.
AllToZero(s, n) == FoldLeft(LAMBDA t, i : SetInterfaceIn(t, i - 1, 0), s, [i \in 1..n |-> i])

\* usb_desc_set_config: a value no configuration has leaves the configuration as it is,
\* sets the interfaces back all the same, and succeeds.
SetConfig(value) ==
  LET n == CASE value = 0 -> 0
             [] value = ConfigurationValue -> conf.interfaces
             [] OTHER -> ninterfaces
  IN  /\ ninterfaces' = n
      /\ configuration' = IF value \in {0, ConfigurationValue} THEN value ELSE configuration
      /\ configured' = CASE value = 0 -> FALSE
                         [] value = ConfigurationValue -> TRUE
                         [] OTHER -> configured
      /\ Become(ClearedFrom(AllToZero([Now EXCEPT !.n = n], n), n))

----------------------------------------------------------------------------

Init ==
  /\ name \in Names
  /\ conf = Parsed(Devices[name].table)
  /\ configured = FALSE
  /\ configuration = 0
  /\ ninterfaces = 0
  /\ altsetting = [i \in Slots |-> 0]
  /\ ifaces = [i \in Slots |-> NULL]
  /\ endpoints = {}
  /\ intf = 0
  /\ reply = Stall

SetConfiguration ==
  \E v \in Values :
    /\ SetConfig(v)
    /\ reply' = Ok(v)
    /\ UNCHANGED device

\* The port's attach handler of every device is usb_desc_attach.
Attach ==
  /\ SetConfig(0)
  /\ reply' = Stall
  /\ UNCHANGED device

GetConfiguration ==
  /\ reply' = [answer |-> "configuration", value |-> IF configured THEN ConfigurationValue ELSE 0]
  /\ UNCHANGED <<device, core>>

\* usb_desc_set_interface finds nothing when the device is not configured.
SetInterface ==
  \E i \in Slots, alt \in Alts :
    /\ IF configured /\ Find(i, alt) # 0
         THEN Become(SetInterfaceIn(Now, i, alt)) /\ reply' = Ok(alt)
         ELSE UNCHANGED core /\ reply' = Stall
    /\ UNCHANGED <<device, configured, configuration, ninterfaces>>

GetInterface ==
  \E i \in Slots :
    /\ reply' = IF i < ninterfaces
                  THEN [answer |-> "setting", index |-> i, value |-> altsetting[i]]
                  ELSE Stall
    /\ UNCHANGED <<device, core>>

\* GET_DESCRIPTOR of the configuration, cut to the length the guest asks for.
GetDescriptor ==
  LET descs == Rebuilt(conf) IN
  \E length \in {9, 255, 1023} :
    /\ reply' = [answer |-> "descriptors", total |-> descs[1].total, descs |-> descs,
                 bytes |-> IF Bytes(descs) > length THEN length ELSE Bytes(descs)]
    /\ UNCHANGED <<device, core>>

Next ==
  \/ SetConfiguration
  \/ Attach
  \/ GetConfiguration
  \/ SetInterface
  \/ GetInterface
  \/ GetDescriptor

Spec == Init /\ [][Next]_vars

----------------------------------------------------------------------------
(* Properties *)

\* Every variable has its type.
TypeOK ==
  /\ name \in Names
  /\ configured \in BOOLEAN
  /\ configuration \in {0, ConfigurationValue}
  /\ ninterfaces \in 0..3
  /\ altsetting \in [Slots -> Alts]
  /\ ifaces \in [Slots -> {NULL} \cup DOMAIN conf.ifs]
  /\ endpoints \subseteq [pid : {"in", "out"}, nr : 1..15, ifnum : Slots, size : 0..1023,
                          type : {"isochronous", "bulk", "interrupt"}]
  /\ intf \in Alts
  /\ reply.answer \in {"stall", "ok", "configuration", "setting", "descriptors"}

\* Each interface of the configuration has a setting, the one altsetting names, and no
\* entry past the interfaces is left from before: usb_desc_ep_init walks the entries, and
\* GET_INTERFACE answers from altsetting.
SettingsChosen ==
  \A i \in Slots :
    IF i < ninterfaces
      THEN /\ ifaces[i] # NULL
           /\ conf.ifs[ifaces[i]].desc.number = i
           /\ conf.ifs[ifaces[i]].desc.alt = altsetting[i]
      ELSE ifaces[i] = NULL /\ altsetting[i] = 0

\* In a configured device the endpoint table holds the endpoints of the settings chosen,
\* under the interface they belong to, and no endpoint of a setting left.
EndpointsFollow ==
  configured => endpoints = EndpointsOf(ninterfaces, ifaces)

\* usb_desc_ep_init indexes eps up to bNumEndpoints, which the table's author counted by
\* hand: it is the number of endpoints parsed, every interface number below bNumInterfaces
\* has a setting 0, and no two endpoints of settings chosen together share an address.
TableConsistent ==
  /\ ~conf.failed /\ ~conf.taking
  /\ \A k \in DOMAIN conf.ifs : conf.ifs[k].desc.endpoints = Len(conf.ifs[k].eps)
  /\ \A i \in 0..(conf.interfaces - 1) : Find(i, 0) # 0
  /\ \A e, f \in endpoints : e.pid = f.pid /\ e.nr = f.nr => e = f

\* What the guest reads parses to the configuration the device works with, in the number
\* of bytes the table declares and the header announces, and a guest that reads nine bytes
\* first and then the announced total gets everything.
GuestSeesConfiguration ==
  reply.answer = "descriptors" =>
    /\ Parsed(reply.descs) = conf
    /\ reply.total = Devices[name].table[1].total
    /\ reply.bytes <= reply.total
    /\ reply.bytes < reply.total => reply.bytes \in {9, 255}

\* 9.4.2 of the USB specification, as the comment of usb_desc_handle_control has it: 0 is
\* returned if the device is unconfigured, otherwise bConfigurationValue. The answer is
\* that of the last SET_CONFIGURATION that named a configuration or none.
ConfigurationAnswered ==
  /\ configuration = 0 <=> ~configured
  /\ reply.answer = "configuration" => reply.value = configuration

\* In a device that stays configured, a change of an interface's setting is told to the
\* device in the same step, if it listens.
SettingTold ==
  [][\A i \in Slots :
       configured /\ configured' /\ altsetting'[i] # altsetting[i] /\ Devices[name].hears
         => intf' = altsetting'[i]]_vars

\* The only step after which a listening device works with another setting than the
\* core's is one that leaves the device unconfigured.
OnlyClearingLosesTrack ==
  [][intf = altsetting[1] /\ intf' # altsetting'[1] /\ Devices[name].hears => ~configured']_vars

===============================================================================
