------------------------------ MODULE HostProofs ------------------------------
(***************************************************************************)
(* What is proved of the parts of MCHost, whatever the constants are: the  *)
(* devices of the plugin belong to one port each and survive failures      *)
(* and saved states, the dialogs show and save what was picked, bindings   *)
(* keep to the devices they were made for, a device has one thread that    *)
(* reads it, and a library is loaded as long as somebody uses it.  The     *)
(* proofs about one audio device are in WasapiDevice and PulseDevice, and  *)
(* are used here for the source and for the sink.                          *)
(***************************************************************************)
EXTENDS MCHost, FiniteSetTheorems, TLAPS
-----------------------------------------------------------------------------
(* The pads of DirectInput.                                                *)

\* An instance has operators on finite sets of its own: they are the same.
LEMMA PadsFinite == \A S : DInput!IsFiniteSet(S) <=> IsFiniteSet(S)
BY DEF DInput!IsFiniteSet, IsFiniteSet
LEMMA PadsCardinality == \A S : DInput!Cardinality(S) = Cardinality(S)
BY DEF DInput!Cardinality, Cardinality

\* As long as every list is the first one, the list is that one whenever it
\* is in use, and a control that is mapped is mapped into it.
PadsPlace(im, in) ==
  im.type # "MT_NONE" => in # None /\ im.index \in DOMAIN in /\ in[im.index] = im.of
PadsPlaces ==
  ~changed => /\ ~refused /\ (refCount # 0 => g_pJoysticks = known)
              /\ \A p \in PadPorts, c \in PadControls : PadsPlace(g_Controls[p][c], known)
PadsIInv ==
  /\ DInput!TypeOK /\ DInput!CountsUsers /\ DInput!EffectsOfDevices
  /\ DInput!IndexInRange /\ PadsPlaces

\* What is assumed of the constants.
LEMMA PadsConstantTypes ==
  /\ IsFiniteSet(PadPorts) /\ None \notin PadPorts /\ None \notin PadTypes /\ None \notin PadControls
  /\ IsFiniteSet(PadDevices) /\ None \notin PadDevices
  /\ \A n \in 0..Cardinality(PadDevices) : None \notin [1..n -> PadDevices]
  /\ PadSteering \in PadFiltered /\ PadFiltered \subseteq PadControls
  /\ PadJoysticks \subseteq PadDevices /\ PadPulled \subseteq PadDevices
  /\ PadSupports \in [PadDevices -> SUBSET PadEffects] /\ PadListens \in Nat
BY DInputAssumption, PadsFinite, PadsCardinality DEF DInput!DInputPadConstants

\* A list names devices at its places, and is not None.
LEMMA PadsLists ==
  \A s \in DInput!AllLists :
    /\ s # None
    /\ \A i \in DOMAIN s : i \in 1..Cardinality(PadDevices) /\ s[i] \in PadDevices
<1> SUFFICES ASSUME NEW D \in SUBSET PadDevices, NEW s \in DInput!Lists(D)
             PROVE  /\ s # None
                    /\ \A i \in DOMAIN s : i \in 1..Cardinality(PadDevices) /\ s[i] \in PadDevices
  BY DEF DInput!AllLists
<1>1. Cardinality(D) \in Nat /\ Cardinality(PadDevices) \in Nat /\ Cardinality(D) <= Cardinality(PadDevices)
  BY PadsConstantTypes, FS_Subset, FS_CardinalityType
<1>2. s \in [1..Cardinality(D) -> D]
  BY PadsCardinality DEF DInput!Lists
<1>3. s \in [1..Cardinality(D) -> PadDevices] /\ Cardinality(D) \in 0..Cardinality(PadDevices)
  BY <1>1, <1>2
<1>4. s # None
  BY <1>3, PadsConstantTypes
<1> QED BY <1>1, <1>3, <1>4

LEMMA PadsEmpty == <<>> \in DInput!AllLists
<1>1. DInput!Cardinality({}) = 0
  BY FS_EmptySet, PadsCardinality
<1>2. <<>> \in [1..0 -> {}]
  OBVIOUS
<1>3. <<>> \in DInput!Lists({})
  BY <1>1, <1>2 DEF DInput!Lists
<1> QED BY <1>3 DEF DInput!AllLists

\* The list after somebody came to use it.
LEMMA PadsListed ==
  ASSUME PadsIInv, DInput!InitDirectInput
  PROVE  /\ refCount' \in Nat /\ g_pJoysticks' \in DInput!AllLists
         /\ known' \in DInput!AllLists \cup {None} /\ changed' \in BOOLEAN /\ refused' \in BOOLEAN
         /\ refCount' <= refCount + 1 /\ (~refused' => ~refused /\ refCount' = refCount + 1)
         /\ refCount' = 0 => g_pJoysticks' = <<>>
         /\ refCount = 0 => \A p \in PadPorts : FFB[p] = None /\ playing[p] = {}
         /\ refCount # 0 => g_pJoysticks' = g_pJoysticks
         /\ ~changed' => /\ ~changed /\ ~refused' /\ g_pJoysticks' = known' /\ known' # None
                         /\ \A p \in PadPorts, c \in PadControls : PadsPlace(g_Controls[p][c], known')
<1>1. DInput!TypeOK /\ DInput!CountsUsers /\ DInput!EffectsOfDevices /\ PadsPlaces
  BY DEF PadsIInv
<1> USE <1>1, PadsLists
<1>2. refCount \in Nat /\ g_pJoysticks \in DInput!AllLists /\ known \in DInput!AllLists \cup {None}
      /\ changed \in BOOLEAN /\ refused \in BOOLEAN /\ attached \subseteq PadDevices
  BY DEF DInput!TypeOK
<1>3. refCount = 0 => g_pJoysticks = <<>>
  BY DEF DInput!CountsUsers
<1>4. refCount = 0 => \A p \in PadPorts : FFB[p] = None /\ playing[p] = {}
  BY <1>3 DEF DInput!EffectsOfDevices
<1>5. \A s \in DInput!Lists(attached) : s \in DInput!AllLists
  BY <1>2 DEF DInput!AllLists
<1>6. CASE refCount > 0 /\ refCount' = refCount + 1 /\ UNCHANGED <<g_pJoysticks, known, changed, refused>>
  BY <1>2, <1>6 DEF PadsPlaces, PadsPlace
<1>7. CASE /\ refCount = 0 /\ refCount' = 1 /\ g_pJoysticks' \in DInput!Lists(attached)
           /\ known' = (IF known = None THEN g_pJoysticks' ELSE known)
           /\ changed' = (changed \/ known' # g_pJoysticks') /\ UNCHANGED refused
  <2>1. g_pJoysticks' \in DInput!AllLists /\ g_pJoysticks' # None
    BY <1>5, <1>7
  <2>2. known' \in DInput!AllLists \cup {None} /\ known' # None /\ (known # None => known' = known)
    BY <1>2, <1>7, <2>1
  <2>3. ~changed' => ~changed /\ g_pJoysticks' = known'
    BY <1>7
  <2>4. ~changed' => \A p \in PadPorts, c \in PadControls : PadsPlace(g_Controls[p][c], known')
    BY <2>2, <2>3 DEF PadsPlaces, PadsPlace
  <2>5. ~changed' => ~refused'
    BY <1>7, <2>3 DEF PadsPlaces
  <2> QED BY <1>2, <1>4, <1>7, <2>1, <2>2, <2>3, <2>4, <2>5
<1>8. CASE refCount = 0 /\ refused' = TRUE /\ changed' = TRUE /\ UNCHANGED <<refCount, g_pJoysticks, known>>
  BY <1>2, <1>3, <1>4, <1>8
<1> QED BY <1>6, <1>7, <1>8 DEF DInput!InitDirectInput

\* In a list that has a device at all, no mapping of a control points behind its end.
LEMMA PadsWithin ==
  ASSUME NEW im \in DInput!Mappings, NEW s \in DInput!AllLists, s # <<>>, PadsPlace(im, s)
  PROVE  ~DInput!Beyond(im, s)
<1>1. PICK n \in Nat : s \in [1..n -> PadDevices]
  <2>1. PICK D \in SUBSET PadDevices : s \in DInput!Lists(D)
    BY DEF DInput!AllLists
  <2>2. s \in [1..Cardinality(D) -> D] /\ Cardinality(D) \in Nat
    BY <2>1, PadsCardinality, PadsConstantTypes, FS_Subset, FS_CardinalityType DEF DInput!Lists
  <2> QED BY <2>2
<1>2. 1 \in DOMAIN s
  <2>1. CASE n = 0
    BY <1>1, <2>1
  <2>2. CASE n # 0
    BY <1>1, <2>2
  <2> QED BY <2>1, <2>2
<1>3. CASE im.type = "MT_NONE"
  BY <1>2, <1>3 DEF DInput!Mappings, DInput!Mapping, DInput!Unmapped, DInput!Default, DInput!Beyond
<1>4. CASE im.type # "MT_NONE"
  BY <1>4 DEF PadsPlace, DInput!Beyond
<1> QED BY <1>3, <1>4

LEMMA PadsKinds == \A im \in DInput!Mappings : im.type \in DInput!Kinds
<1> SUFFICES ASSUME NEW im \in DInput!Mappings PROVE im.type \in DInput!Kinds
  OBVIOUS
<1>1. CASE im \in {DInput!Unmapped, DInput!Default}
  BY <1>1 DEF DInput!Mapping, DInput!Unmapped, DInput!Default, DInput!Kinds
<1>2. ASSUME NEW i \in 1..DInput!Cardinality(PadDevices), NEW kind \in {"MT_AXIS", "MT_BUTTON"},
             NEW d \in PadDevices, im = DInput!Mapping(i, kind, d)
      PROVE  im.type \in DInput!Kinds
  BY <1>2 DEF DInput!Mapping, DInput!Kinds
<1> QED BY <1>1, <1>2 DEF DInput!Mappings

LEMMA PadsMapped ==
  \A i \in 1..Cardinality(PadDevices), kind \in {"MT_AXIS", "MT_BUTTON"}, d \in PadDevices :
    DInput!Mapping(i, kind, d) \in DInput!Mappings
BY PadsCardinality DEF DInput!Mappings

\* What is loaded is a place of the list for the device that was saved, or what was there.
LEMMA PadsLoaded ==
  ASSUME PadsIInv, NEW p \in PadPorts, NEW t \in PadTypes, NEW s \in DInput!AllLists, NEW c \in PadControls
  PROVE  LET im == DInput!LoadDInputConfig(p, t, s)[c]
         IN im \in DInput!Mappings /\ (im = g_Controls[p][c] \/ PadsPlace(im, s))
<1> DEFINE saved == dinput_ini[t][p][c]
           at == {i \in DOMAIN s : s[i] = saved.guid}
           im == DInput!LoadDInputConfig(p, t, s)[c]
<1>1. /\ g_Controls[p][c] \in DInput!Mappings
      /\ saved \in [guid : PadDevices \cup {None}, type : DInput!Kinds]
  BY DEF PadsIInv, DInput!TypeOK
<1>2. im = IF at # {} /\ saved.type # "MT_NONE"
           THEN DInput!Mapping(CHOOSE i \in at : TRUE, saved.type, saved.guid) ELSE g_Controls[p][c]
  BY DEF DInput!LoadDInputConfig
<1>3. CASE at # {} /\ saved.type # "MT_NONE"
  <2> DEFINE i == CHOOSE i \in at : TRUE
  <2>1. i \in at
    BY <1>3
  <2>2. i \in 1..Cardinality(PadDevices) /\ i \in DOMAIN s /\ s[i] = saved.guid /\ s[i] \in PadDevices /\ s # None
    BY <2>1, PadsLists
  <2>3. saved.type \in {"MT_AXIS", "MT_BUTTON"}
    BY <1>1, <1>3 DEF DInput!Kinds
  <2>4. im = DInput!Mapping(i, saved.type, saved.guid)
    BY <1>2, <1>3
  <2>5. im \in DInput!Mappings
    BY <2>2, <2>3, <2>4, PadsMapped
  <2>6. PadsPlace(im, s)
    BY <2>2, <2>4 DEF PadsPlace, DInput!Mapping
  <2> QED BY <2>5, <2>6
<1>4. CASE ~(at # {} /\ saved.type # "MT_NONE")
  BY <1>1, <1>2, <1>4
<1> QED BY <1>3, <1>4

\* Somebody who comes: settings are loaded, and effects created.
LEMMA PadsStarted ==
  ASSUME PadsIInv, NEW p \in PadPorts, NEW t \in PadTypes, DInput!InitDI(p, t)
  PROVE  /\ g_Controls' \in [PadPorts -> [PadControls -> DInput!Mappings]]
         /\ FFB' \in [PadPorts -> PadDevices \cup {None}] /\ playing' \in [PadPorts -> SUBSET PadEffects]
         /\ failed' \in BOOLEAN
         /\ DInput!EffectsOfDevices' /\ DInput!IndexInRange' /\ PadsPlaces'
<1> DEFINE now == g_pJoysticks'
           loaded == DInput!LoadDInputConfig(p, t, now)
           im == g_Controls'[p][PadSteering]
<1>1. /\ g_Controls \in [PadPorts -> [PadControls -> DInput!Mappings]]
      /\ FFB \in [PadPorts -> PadDevices \cup {None}] /\ playing \in [PadPorts -> SUBSET PadEffects]
      /\ DInput!EffectsOfDevices /\ DInput!IndexInRange
  BY DEF PadsIInv, DInput!TypeOK
<1>2. DInput!InitDirectInput /\ g_Controls' = [g_Controls EXCEPT ![p] = loaded]
      /\ DInput!FindFFDevice(p, im, now)
  BY DEF DInput!InitDI
<1>3. /\ now \in DInput!AllLists
      /\ refCount = 0 => \A q \in PadPorts : FFB[q] = None /\ playing[q] = {}
      /\ refCount # 0 => now = g_pJoysticks
      /\ ~changed' => /\ ~changed /\ ~refused' /\ now = known' /\ known' # None
                      /\ \A q \in PadPorts, c \in PadControls : PadsPlace(g_Controls[q][c], known')
  BY <1>2, PadsListed
<1>4. \A c \in PadControls : loaded[c] \in DInput!Mappings /\ (loaded[c] = g_Controls[p][c] \/ PadsPlace(loaded[c], now))
  BY <1>3, PadsLoaded
<1>5. g_Controls' \in [PadPorts -> [PadControls -> DInput!Mappings]]
  <2>1. loaded \in [PadControls -> DInput!Mappings]
    <3>1. loaded = [c \in PadControls |-> loaded[c]]
      BY DEF DInput!LoadDInputConfig
    <3> HIDE DEF loaded
    <3> QED BY <1>4, <3>1
  <2> HIDE DEF loaded
  <2> QED BY <1>1, <1>2, <2>1
<1>6. ~changed' => \A q \in PadPorts, c \in PadControls : PadsPlace(g_Controls'[q][c], known')
  <2> HIDE DEF loaded
  <2> SUFFICES ASSUME ~changed', NEW q \in PadPorts, NEW c \in PadControls
               PROVE  PadsPlace(g_Controls'[q][c], known')
    OBVIOUS
  <2>1. PadsPlace(g_Controls[q][c], known') /\ now = known'
    BY <1>3
  <2>2. g_Controls'[q] = IF q = p THEN loaded ELSE g_Controls[q]
    BY <1>1, <1>2
  <2> QED BY <1>4, <2>1, <2>2
<1>7. PadsPlaces'
  BY <1>3, <1>6 DEF PadsPlaces
<1>8. failed' \in BOOLEAN /\ DInput!IndexInRange'
  <2>1. failed' = DInput!Beyond(im, now)
    BY <1>2 DEF DInput!FindFFDevice
  <2>2. failed' \in BOOLEAN
    BY <2>1 DEF DInput!Beyond
  <2>3. im \in DInput!Mappings
    BY <1>5, PadsConstantTypes
  <2>4. ASSUME ~changed', known' # <<>> PROVE ~failed'
    <3>1. PadsPlace(im, now) /\ now # <<>>
      BY <1>3, <1>6, <2>4, PadsConstantTypes
    <3> HIDE DEF im, now
    <3> QED BY <1>3, <2>1, <2>3, <3>1, PadsWithin
  <2> QED BY <2>2, <2>4 DEF DInput!IndexInRange
<1>9. /\ FFB' \in [PadPorts -> PadDevices \cup {None}] /\ playing' \in [PadPorts -> SUBSET PadEffects]
      /\ DInput!EffectsOfDevices'
  <2>0. \A q \in PadPorts :
          /\ FFB[q] # None => \E i \in DOMAIN now : now[i] = FFB[q]
          /\ playing[q] # {} => FFB[q] # None /\ playing[q] \subseteq PadSupports[FFB[q]]
    BY <1>1, <1>3 DEF DInput!EffectsOfDevices
  <2>1. CASE UNCHANGED <<FFB, playing>>
    BY <1>1, <2>0, <2>1 DEF DInput!EffectsOfDevices
  <2>2. CASE im # DInput!Unmapped /\ ~failed' /\ DInput!CreateFFB(p, now[im.index])
    <3> DEFINE d == now[im.index]
    <3>1. im.index \in DOMAIN now
      BY <1>2, <2>2 DEF DInput!FindFFDevice, DInput!Beyond
    <3>2. d \in PadDevices /\ d # None
      BY <1>3, <3>1, PadsLists, PadsConstantTypes
    <3>3. FFB' = [FFB EXCEPT ![p] = d] /\ playing' = [playing EXCEPT ![p] = {"constant"} \cap PadSupports[d]]
      BY <2>2 DEF DInput!CreateFFB
    <3>4. \E i \in DOMAIN now : now[i] = d
      BY <3>1
    <3>5. PadSupports[d] \subseteq PadEffects
      BY <3>2, PadsConstantTypes
    <3> HIDE DEF d, im
    <3>6. FFB' \in [PadPorts -> PadDevices \cup {None}] /\ playing' \in [PadPorts -> SUBSET PadEffects]
      BY <1>1, <3>2, <3>3, <3>5
    <3>7. DInput!EffectsOfDevices'
      BY <1>1, <2>0, <3>2, <3>3, <3>4 DEF DInput!EffectsOfDevices
    <3> QED BY <3>6, <3>7
  <2> QED BY <1>2, <2>1, <2>2 DEF DInput!FindFFDevice, DInput!effects
<1> QED BY <1>5, <1>7, <1>8, <1>9

\* Somebody who leaves.
LEMMA PadsFreed ==
  ASSUME PadsIInv, NEW n \in Nat, DInput!Free(n), UNCHANGED g_Controls
  PROVE  /\ refCount' = (IF n < refCount THEN refCount - n ELSE 0) /\ refCount' \in Nat
         /\ g_pJoysticks' \in DInput!AllLists /\ (refCount' = 0 => g_pJoysticks' = <<>>)
         /\ known' = known /\ changed' = changed /\ refused' = refused
         /\ FFB' \in [PadPorts -> PadDevices \cup {None}] /\ playing' \in [PadPorts -> SUBSET PadEffects]
         /\ DInput!EffectsOfDevices' /\ PadsPlaces'
<1>1. /\ refCount \in Nat /\ g_pJoysticks \in DInput!AllLists
      /\ FFB \in [PadPorts -> PadDevices \cup {None}] /\ playing \in [PadPorts -> SUBSET PadEffects]
      /\ DInput!EffectsOfDevices /\ PadsPlaces /\ (refCount = 0 => g_pJoysticks = <<>>)
  BY DEF PadsIInv, DInput!TypeOK, DInput!CountsUsers
<1>2. refCount' = (IF n < refCount THEN refCount - n ELSE 0) /\ refCount' \in Nat
      /\ known' = known /\ changed' = changed /\ refused' = refused
  BY <1>1 DEF DInput!Free
<1>3. CASE refCount # 0 /\ refCount' = 0
  <2>1. FFB' = [p \in PadPorts |-> None] /\ playing' = [p \in PadPorts |-> {}] /\ g_pJoysticks' = <<>>
    BY <1>3 DEF DInput!Free, DInput!ReleaseFFB
  <2>2. DInput!EffectsOfDevices'
    BY <2>1 DEF DInput!EffectsOfDevices
  <2>3. PadsPlaces'
    BY <1>1, <1>2, <1>3 DEF PadsPlaces
  <2> QED BY <1>2, <2>1, <2>2, <2>3, PadsEmpty
<1>4. CASE ~(refCount # 0 /\ refCount' = 0)
  <2>1. UNCHANGED <<FFB, playing, g_pJoysticks>>
    BY <1>4 DEF DInput!Free, DInput!effects
  <2>2. DInput!EffectsOfDevices'
    BY <1>1, <2>1 DEF DInput!EffectsOfDevices
  <2>3. PadsPlaces'
    BY <1>1, <1>2, <1>4, <2>1 DEF PadsPlaces
  <2> QED BY <1>1, <1>2, <1>4, <2>1, <2>2, <2>3
<1> QED BY <1>3, <1>4

\* Who uses the list.
LEMMA PadsOpened ==
  /\ IsFiniteSet(DInput!Opened) /\ DInput!Opened \subseteq PadPorts
  /\ Cardinality(DInput!Opened) \in Nat /\ Cardinality(PadPorts) \in Nat
  /\ Cardinality(DInput!Opened) <= Cardinality(PadPorts)
  /\ Cardinality(DInput!Opened) = 0 <=> DInput!Opened = {}
  /\ DInput!Users = Cardinality(DInput!Opened) + (IF dinput_dialog = DInput!NoDialog THEN 0 ELSE 1)
<1>1. DInput!Opened \subseteq PadPorts
  BY DEF DInput!Opened
<1>2. DInput!Users = Cardinality(DInput!Opened) + (IF dinput_dialog = DInput!NoDialog THEN 0 ELSE 1)
  BY PadsCardinality DEF DInput!Users
<1> QED BY <1>1, <1>2, PadsConstantTypes, FS_Subset, FS_CardinalityType, FS_EmptySet

\* Whoever uses the list finds what is mapped in it.
LEMMA PadsUsed ==
  ASSUME PadsIInv, ~changed, known # <<>>, NEW p \in PadPorts, NEW c \in PadControls,
         dinput_dialog # DInput!NoDialog \/ \E q \in PadPorts : open[q] # None
  PROVE  ~DInput!Beyond(g_Controls[p][c], g_pJoysticks)
<1>1. ~refused /\ (refCount # 0 => g_pJoysticks = known) /\ PadsPlace(g_Controls[p][c], known)
  BY DEF PadsIInv, PadsPlaces
<1>2. DInput!Users # 0
  BY PadsOpened DEF DInput!Opened
<1>3. g_pJoysticks = known
  BY <1>1, <1>2 DEF PadsIInv, DInput!CountsUsers
<1>4. g_Controls[p][c] \in DInput!Mappings /\ g_pJoysticks \in DInput!AllLists
  BY DEF PadsIInv, DInput!TypeOK
<1> QED BY <1>1, <1>3, <1>4, PadsWithin

LEMMA PadsOpen ==
  ASSUME PadsIInv, NEW p \in PadPorts, NEW t \in PadTypes, DInput!Open(p, t)
  PROVE  PadsIInv'
<1>1. /\ dinput_dialog = DInput!NoDialog /\ open[p] = None /\ DInput!InitDI(p, t)
      /\ open' = [open EXCEPT ![p] = t]
      /\ UNCHANGED <<attached, dinput_ini, dinput_dialog, listening, CID, listens>>
  BY DEF DInput!Open, DInput!Closed
<1>2. DInput!TypeOK /\ DInput!CountsUsers
  BY DEF PadsIInv
<1>3. DInput!InitDirectInput
  BY <1>1 DEF DInput!InitDI
<1>4. open' \in [PadPorts -> PadTypes \cup {None}]
  BY <1>1, <1>2 DEF DInput!TypeOK
<1>5. DInput!TypeOK'
  BY <1>1, <1>2, <1>3, <1>4, PadsListed, PadsStarted DEF DInput!TypeOK
<1>6. DInput!Users' = DInput!Users + 1
  <2>1. DInput!Opened' = DInput!Opened \cup {p} /\ p \notin DInput!Opened
    BY <1>1, <1>2, PadsConstantTypes DEF DInput!Opened, DInput!TypeOK
  <2>2. Cardinality(DInput!Opened') = Cardinality(DInput!Opened) + 1
    BY <2>1, PadsOpened, FS_AddElement
  <2>3. DInput!Users' = Cardinality(DInput!Opened') + (IF dinput_dialog' = DInput!NoDialog THEN 0 ELSE 1)
    BY PadsCardinality DEF DInput!Users
  <2> QED BY <1>1, <2>2, <2>3, PadsOpened
<1>7. DInput!Users \in Nat
  BY PadsOpened
<1>8. DInput!CountsUsers'
  BY <1>2, <1>3, <1>5, <1>6, <1>7, PadsListed DEF DInput!CountsUsers, DInput!TypeOK
<1> QED BY <1>1, <1>5, <1>8, PadsStarted DEF PadsIInv

LEMMA PadsInitDialog ==
  ASSUME PadsIInv, NEW p \in PadPorts, NEW t \in PadTypes, DInput!InitDialog(p, t)
  PROVE  PadsIInv'
<1>1. /\ dinput_dialog = DInput!NoDialog /\ dinput_dialog' = [port |-> p, type |-> t] /\ DInput!InitDI(p, t)
      /\ UNCHANGED <<attached, dinput_ini, open, listening, CID, listens>>
  BY DEF DInput!InitDialog, DInput!Closed
<1>2. DInput!TypeOK /\ DInput!CountsUsers
  BY DEF PadsIInv
<1>3. DInput!InitDirectInput
  BY <1>1 DEF DInput!InitDI
<1>4. dinput_dialog' \in [port : PadPorts, type : PadTypes] /\ dinput_dialog' # DInput!NoDialog
  BY <1>1, PadsConstantTypes DEF DInput!NoDialog
<1>5. DInput!TypeOK'
  BY <1>1, <1>2, <1>3, <1>4, PadsListed, PadsStarted DEF DInput!TypeOK
<1>6. DInput!Users' = DInput!Users + 1 /\ DInput!Users \in Nat
  <2>1. DInput!Opened' = DInput!Opened
    BY <1>1 DEF DInput!Opened
  <2>2. DInput!Users' = Cardinality(DInput!Opened') + (IF dinput_dialog' = DInput!NoDialog THEN 0 ELSE 1)
    BY PadsCardinality DEF DInput!Users
  <2> QED BY <1>1, <1>4, <2>1, <2>2, PadsOpened
<1>7. DInput!CountsUsers'
  BY <1>2, <1>3, <1>5, <1>6, PadsListed DEF DInput!CountsUsers, DInput!TypeOK
<1> QED BY <1>1, <1>5, <1>7, PadsStarted DEF PadsIInv

LEMMA PadsClose ==
  ASSUME PadsIInv, DInput!Close
  PROVE  PadsIInv'
<1>1. /\ dinput_dialog = DInput!NoDialog /\ open' = [p \in PadPorts |-> None]
      /\ UNCHANGED <<attached, g_Controls, dinput_ini, dinput_dialog, listening, CID, listens, failed>>
  BY DEF DInput!Close, DInput!Closed
<1>2. PICK n \in Cardinality(DInput!Opened)..Cardinality(PadPorts) : DInput!Free(n)
  BY PadsCardinality DEF DInput!Close
<1>3. n \in Nat /\ n >= Cardinality(DInput!Opened) /\ DInput!Users = Cardinality(DInput!Opened)
  BY <1>1, <1>2, PadsOpened
<1>4. DInput!TypeOK /\ DInput!CountsUsers /\ DInput!IndexInRange
  BY DEF PadsIInv
<1>5. refCount' = 0
  <2>1. refCount \in Nat /\ refCount <= DInput!Users
    BY <1>4 DEF DInput!TypeOK, DInput!CountsUsers
  <2> QED BY <1>1, <1>2, <1>3, <2>1, PadsFreed, PadsOpened
<1>6. DInput!Users' = 0
  <2>1. DInput!Opened' = {}
    BY <1>1 DEF DInput!Opened
  <2>2. DInput!Users' = Cardinality(DInput!Opened') + (IF dinput_dialog' = DInput!NoDialog THEN 0 ELSE 1)
    BY PadsCardinality DEF DInput!Users
  <2> QED BY <1>1, <2>1, <2>2, FS_EmptySet
<1>7. DInput!CountsUsers'
  BY <1>1, <1>2, <1>3, <1>5, <1>6, PadsFreed DEF DInput!CountsUsers
<1>8. DInput!TypeOK'
  BY <1>1, <1>2, <1>3, <1>4, PadsFreed DEF DInput!TypeOK
<1>9. DInput!IndexInRange'
  BY <1>1, <1>2, <1>3, <1>4, PadsFreed DEF DInput!IndexInRange
<1> QED BY <1>1, <1>2, <1>3, <1>7, <1>8, <1>9, PadsFreed DEF PadsIInv

LEMMA PadsLeave ==
  ASSUME PadsIInv, dinput_dialog # DInput!NoDialog, DInput!Free(1), dinput_dialog' = DInput!NoDialog,
         UNCHANGED <<attached, g_Controls, open, listening, CID, listens>>,
         dinput_ini' \in [PadTypes -> [PadPorts -> [PadControls ->
                             [guid : PadDevices \cup {None}, type : DInput!Kinds]]]],
         failed' \in BOOLEAN, DInput!IndexInRange'
  PROVE  PadsIInv'
<1>1. DInput!TypeOK /\ DInput!CountsUsers
  BY DEF PadsIInv
<1>2. DInput!Users' = DInput!Users - 1 /\ DInput!Users \in Nat /\ DInput!Users > 0
  <2>1. DInput!Opened' = DInput!Opened
    BY DEF DInput!Opened
  <2>2. DInput!Users' = Cardinality(DInput!Opened') + (IF dinput_dialog' = DInput!NoDialog THEN 0 ELSE 1)
    BY PadsCardinality DEF DInput!Users
  <2> QED BY <2>1, <2>2, PadsOpened
<1>3. DInput!CountsUsers'
  <2>1. refCount \in Nat /\ refCount <= DInput!Users /\ (~refused => refCount = DInput!Users)
    BY <1>1 DEF DInput!TypeOK, DInput!CountsUsers
  <2>2. refCount' = (IF 1 < refCount THEN refCount - 1 ELSE 0) /\ refused' = refused
        /\ (refCount' = 0 => g_pJoysticks' = <<>>)
    BY PadsFreed
  <2>3. refCount' <= DInput!Users' /\ (~refused' => refCount' = DInput!Users')
    BY <1>2, <2>1, <2>2
  <2> QED BY <2>2, <2>3 DEF DInput!CountsUsers
<1>4. DInput!TypeOK'
  BY <1>1, PadsFreed DEF DInput!TypeOK
<1> QED BY <1>3, <1>4, PadsFreed DEF PadsIInv

LEMMA PadsCancel ==
  ASSUME PadsIInv, DInput!Cancel
  PROVE  PadsIInv'
<1>1. /\ dinput_dialog # DInput!NoDialog /\ DInput!Free(1) /\ dinput_dialog' = DInput!NoDialog
      /\ UNCHANGED <<attached, g_Controls, dinput_ini, open, listening, CID, listens, failed>>
  BY DEF DInput!Cancel, DInput!FreeDirectInput
<1>2. known' = known /\ changed' = changed
  BY <1>1, PadsFreed
<1>3. DInput!IndexInRange'
  BY <1>1, <1>2 DEF PadsIInv, DInput!IndexInRange
<1>4. failed' \in BOOLEAN /\ dinput_ini' \in [PadTypes -> [PadPorts -> [PadControls ->
                             [guid : PadDevices \cup {None}, type : DInput!Kinds]]]]
  BY <1>1 DEF PadsIInv, DInput!TypeOK
<1> QED BY <1>1, <1>3, <1>4, PadsLeave

LEMMA PadsOk ==
  ASSUME PadsIInv, DInput!Ok
  PROVE  PadsIInv'
<1> DEFINE p == dinput_dialog.port
           t == dinput_dialog.type
<1>1. /\ dinput_dialog # DInput!NoDialog /\ DInput!Free(1) /\ dinput_dialog' = DInput!NoDialog
      /\ failed' = \E c \in PadControls : DInput!Beyond(g_Controls[p][c], g_pJoysticks)
      /\ dinput_ini' = IF failed' THEN dinput_ini
                       ELSE [dinput_ini EXCEPT ![t][p] = DInput!SaveDInputConfig(p)]
      /\ UNCHANGED <<attached, g_Controls, open, listening, CID, listens>>
  BY DEF DInput!Ok, DInput!FreeDirectInput
<1>2. p \in PadPorts /\ t \in PadTypes
  BY <1>1 DEF PadsIInv, DInput!TypeOK
<1>3. known' = known /\ changed' = changed
  BY <1>1, PadsFreed
<1>4. failed' \in BOOLEAN
  BY <1>1
<1>5. DInput!IndexInRange'
  BY <1>1, <1>2, <1>3, PadsUsed DEF DInput!IndexInRange
<1>6. dinput_ini' \in [PadTypes -> [PadPorts -> [PadControls ->
                             [guid : PadDevices \cup {None}, type : DInput!Kinds]]]]
  <2>1. dinput_ini \in [PadTypes -> [PadPorts -> [PadControls ->
                             [guid : PadDevices \cup {None}, type : DInput!Kinds]]]]
        /\ g_pJoysticks \in DInput!AllLists
    BY DEF PadsIInv, DInput!TypeOK
  <2>2. ASSUME ~failed'
        PROVE  DInput!SaveDInputConfig(p) \in [PadControls -> [guid : PadDevices \cup {None}, type : DInput!Kinds]]
    <3> DEFINE Saved(im) == IF im = DInput!Unmapped THEN DInput!NotSaved
                            ELSE [guid |-> g_pJoysticks[im.index], type |-> im.type]
    <3>1. ASSUME NEW c \in PadControls
          PROVE  Saved(g_Controls[p][c]) \in [guid : PadDevices \cup {None}, type : DInput!Kinds]
      <4> DEFINE im == g_Controls[p][c]
      <4>1. im \in DInput!Mappings
        BY <1>2 DEF PadsIInv, DInput!TypeOK
      <4>2. im.type \in DInput!Kinds
        BY <4>1, PadsKinds
      <4>3. CASE im = DInput!Unmapped
        BY <4>3 DEF DInput!NotSaved, DInput!Kinds
      <4>4. CASE im # DInput!Unmapped
        <5>1. im.index \in DOMAIN g_pJoysticks
          BY <1>1, <2>2, <4>4 DEF DInput!Beyond
        <5>2. g_pJoysticks[im.index] \in PadDevices
          BY <2>1, <5>1, PadsLists
        <5> QED BY <4>2, <4>4, <5>2
      <4> QED BY <4>3, <4>4
    <3>2. DInput!SaveDInputConfig(p) = [c \in PadControls |-> Saved(g_Controls[p][c])]
      BY DEF DInput!SaveDInputConfig
    <3> HIDE DEF Saved
    <3> QED BY <3>1, <3>2
  <2> QED BY <1>1, <1>2, <2>1, <2>2
<1> QED BY <1>1, <1>4, <1>5, <1>6, PadsLeave

\* A force for a port is one of the effects that were created for it.
LEMMA PadsForced ==
  ASSUME PadsIInv, NEW p \in PadPorts, NEW kind, UNCHANGED <<FFB, g_pJoysticks>>,
         DInput!SetForce(p, kind) \/ DInput!DisableForce(p, kind)
  PROVE  playing' \in [PadPorts -> SUBSET PadEffects] /\ DInput!EffectsOfDevices'
<1>1. /\ FFB \in [PadPorts -> PadDevices \cup {None}] /\ playing \in [PadPorts -> SUBSET PadEffects]
      /\ DInput!EffectsOfDevices
  BY DEF PadsIInv, DInput!TypeOK
<1>2. FFB[p] # None => PadSupports[FFB[p]] \subseteq PadEffects
  BY <1>1, PadsConstantTypes
<1>3. CASE DInput!SetForce(p, kind)
  <2>1. playing' = [playing EXCEPT ![p] =
                      IF FFB[p] = None THEN playing[p] ELSE playing[p] \cup ({kind} \cap PadSupports[FFB[p]])]
    BY <1>3 DEF DInput!SetForce
  <2> QED BY <1>1, <1>2, <2>1 DEF DInput!EffectsOfDevices
<1>4. CASE DInput!DisableForce(p, kind)
  <2>1. playing' = [playing EXCEPT ![p] = playing[p] \ {kind}]
    BY <1>4 DEF DInput!DisableForce
  <2> QED BY <1>1, <2>1 DEF DInput!EffectsOfDevices
<1> QED BY <1>3, <1>4

LEMMA PadsTokenOut ==
  ASSUME PadsIInv, NEW p \in PadPorts, DInput!TokenOut(p)
  PROVE  PadsIInv'
<1>1. /\ open[p] # None
      /\ \/ (\E kind \in PadEffects : DInput!SetForce(p, kind) \/ DInput!DisableForce(p, kind)) /\ UNCHANGED failed
         \/ failed' = DInput!Beyond(g_Controls[p][PadSteering], g_pJoysticks) /\ UNCHANGED playing
      /\ UNCHANGED <<attached, refCount, g_pJoysticks, known, changed, refused, FFB, g_Controls, dinput_ini,
                      open, dinput_dialog, listening, CID, listens>>
  BY DEF DInput!TokenOut, DInput!list
<1>2. DInput!TypeOK /\ DInput!CountsUsers /\ DInput!EffectsOfDevices /\ DInput!IndexInRange /\ PadsPlaces
  BY DEF PadsIInv
<1>3. playing' \in [PadPorts -> SUBSET PadEffects] /\ DInput!EffectsOfDevices'
  <2>1. CASE UNCHANGED playing
    BY <1>1, <1>2, <2>1 DEF DInput!TypeOK, DInput!EffectsOfDevices
  <2> QED BY <1>1, <2>1, PadsForced
<1>4. failed' \in BOOLEAN /\ DInput!IndexInRange'
  <2>1. CASE UNCHANGED failed
    BY <1>1, <1>2, <2>1 DEF DInput!TypeOK, DInput!IndexInRange
  <2>2. CASE failed' = DInput!Beyond(g_Controls[p][PadSteering], g_pJoysticks)
    <3>1. failed' \in BOOLEAN
      BY <2>2 DEF DInput!Beyond
    <3> QED BY <1>1, <2>2, <3>1, PadsUsed, PadsConstantTypes DEF DInput!IndexInRange
  <2> QED BY <1>1, <2>1, <2>2
<1>5. DInput!TypeOK'
  BY <1>1, <1>2, <1>3, <1>4 DEF DInput!TypeOK
<1>6. DInput!CountsUsers' /\ PadsPlaces'
  <2>1. DInput!Users' = DInput!Users
    BY <1>1 DEF DInput!Users, DInput!Opened
  <2> QED BY <1>1, <1>2, <2>1 DEF DInput!CountsUsers, PadsPlaces
<1> QED BY <1>3, <1>4, <1>5, <1>6 DEF PadsIInv

\* The controls of the dialog are mapped elsewhere, each to a place of the list or to none.
LEMMA PadsRemapped ==
  ASSUME PadsIInv, dinput_dialog # DInput!NoDialog,
         UNCHANGED <<attached, refCount, g_pJoysticks, known, changed, refused, dinput_ini, open, dinput_dialog,
                     listens, failed>>,
         FFB' \in [PadPorts -> PadDevices \cup {None}], playing' \in [PadPorts -> SUBSET PadEffects],
         DInput!EffectsOfDevices', listening' \in BOOLEAN, CID' \in PadControls \cup {None},
         listening' => CID' # None,
         NEW m \in [PadControls -> DInput!Mappings], g_Controls' = [g_Controls EXCEPT ![dinput_dialog.port] = m],
         ~changed => \A c \in PadControls : PadsPlace(m[c], known)
  PROVE  PadsIInv'
<1>1. DInput!TypeOK /\ DInput!CountsUsers /\ DInput!IndexInRange /\ PadsPlaces
  BY DEF PadsIInv
<1>2. dinput_dialog.port \in PadPorts /\ g_Controls \in [PadPorts -> [PadControls -> DInput!Mappings]]
  BY <1>1 DEF DInput!TypeOK
<1>3. DInput!TypeOK'
  <2>1. g_Controls' \in [PadPorts -> [PadControls -> DInput!Mappings]]
    BY <1>2
  <2> QED BY <1>1, <2>1 DEF DInput!TypeOK
<1>4. DInput!CountsUsers' /\ DInput!IndexInRange'
  <2>1. DInput!Users' = DInput!Users
    BY DEF DInput!Users, DInput!Opened
  <2> QED BY <1>1, <2>1 DEF DInput!CountsUsers, DInput!IndexInRange
<1>5. PadsPlaces'
  <2>1. \A q \in PadPorts : g_Controls'[q] = IF q = dinput_dialog.port THEN m ELSE g_Controls[q]
    BY <1>2
  <2> QED BY <1>1, <2>1 DEF PadsPlaces
<1> QED BY <1>3, <1>4, <1>5 DEF PadsIInv

LEMMA PadsMapsTo ==
  ASSUME PadsIInv, dinput_dialog # DInput!NoDialog, NEW m, DInput!Remap(m),
         \A c \in DOMAIN m : m[c] \in {DInput!Unmapped, DInput!Default}
  PROVE  \E t \in [PadControls -> DInput!Mappings] :
           /\ g_Controls' = [g_Controls EXCEPT ![dinput_dialog.port] = t]
           /\ ~changed => \A c \in PadControls : PadsPlace(t[c], known)
<1> DEFINE p == dinput_dialog.port
           t == [c \in PadControls |-> IF c \in DOMAIN m THEN m[c] ELSE g_Controls[p][c]]
<1>1. p \in PadPorts /\ g_Controls \in [PadPorts -> [PadControls -> DInput!Mappings]]
  BY DEF PadsIInv, DInput!TypeOK
<1>2. \A c \in DOMAIN m : m[c] \in DInput!Mappings /\ m[c].type = "MT_NONE"
  BY DEF DInput!Mappings, DInput!Mapping, DInput!Unmapped, DInput!Default
<1>3. t \in [PadControls -> DInput!Mappings]
  BY <1>1, <1>2
<1>4. g_Controls' = [g_Controls EXCEPT ![p] = t]
  BY DEF DInput!Remap
<1>5. ~changed => \A c \in PadControls : PadsPlace(t[c], known)
  BY <1>1, <1>2 DEF PadsIInv, PadsPlaces, PadsPlace
<1> HIDE DEF t
<1> QED BY <1>3, <1>4, <1>5

LEMMA PadsDeleteControl ==
  ASSUME PadsIInv, NEW cs \in SUBSET PadControls, DInput!DeleteControl(cs)
  PROVE  PadsIInv'
<1>1. /\ dinput_dialog # DInput!NoDialog /\ DInput!Remap([c \in cs |-> DInput!Unmapped]) /\ CID' \in cs
      /\ UNCHANGED <<attached, refCount, g_pJoysticks, known, changed, refused, FFB, playing, dinput_ini, open,
                     dinput_dialog, listening, listens, failed>>
  BY DEF DInput!DeleteControl, DInput!list, DInput!effects
<1>2. PICK t \in [PadControls -> DInput!Mappings] :
           /\ g_Controls' = [g_Controls EXCEPT ![dinput_dialog.port] = t]
           /\ ~changed => \A c \in PadControls : PadsPlace(t[c], known)
  BY <1>1, PadsMapsTo
<1>3. CID' \in PadControls /\ CID' # None
  BY <1>1, PadsConstantTypes
<1>4. /\ FFB' \in [PadPorts -> PadDevices \cup {None}] /\ playing' \in [PadPorts -> SUBSET PadEffects]
      /\ DInput!EffectsOfDevices' /\ listening' \in BOOLEAN
  BY <1>1 DEF PadsIInv, DInput!TypeOK, DInput!EffectsOfDevices
<1> QED BY <1>1, <1>2, <1>3, <1>4, PadsRemapped

LEMMA PadsApplyFilter ==
  ASSUME PadsIInv, NEW cs \in SUBSET PadControls, DInput!ApplyFilter(cs)
  PROVE  PadsIInv'
<1> DEFINE bare == {c \in cs : g_Controls[dinput_dialog.port][c] = DInput!Unmapped}
<1>1. /\ dinput_dialog # DInput!NoDialog /\ DInput!Remap([c \in bare |-> DInput!Default])
      /\ UNCHANGED <<attached, refCount, g_pJoysticks, known, changed, refused, FFB, playing, dinput_ini, open,
                     dinput_dialog, listening, CID, listens, failed>>
  BY DEF DInput!ApplyFilter, DInput!list, DInput!effects
<1> HIDE DEF bare
<1>2. PICK t \in [PadControls -> DInput!Mappings] :
           /\ g_Controls' = [g_Controls EXCEPT ![dinput_dialog.port] = t]
           /\ ~changed => \A c \in PadControls : PadsPlace(t[c], known)
  BY <1>1, PadsMapsTo
<1>3. /\ FFB' \in [PadPorts -> PadDevices \cup {None}] /\ playing' \in [PadPorts -> SUBSET PadEffects]
      /\ DInput!EffectsOfDevices' /\ listening' \in BOOLEAN
      /\ CID' \in PadControls \cup {None} /\ (listening' => CID' # None)
  BY <1>1 DEF PadsIInv, DInput!TypeOK, DInput!EffectsOfDevices
<1> QED BY <1>1, <1>2, <1>3, PadsRemapped

\* A control that is found is mapped to its place, and its effects are created there.
LEMMA PadsFindControl ==
  ASSUME PadsIInv, NEW i \in DOMAIN g_pJoysticks, NEW kind \in {"MT_AXIS", "MT_BUTTON"}, DInput!FindControl(i, kind)
  PROVE  PadsIInv'
<1> DEFINE p == dinput_dialog.port
           d == g_pJoysticks[i]
           t == [g_Controls[p] EXCEPT ![CID] = DInput!Mapping(i, kind, d)]
<1>1. /\ dinput_dialog # DInput!NoDialog /\ listening /\ listening' = FALSE
      /\ g_Controls' = [g_Controls EXCEPT ![p] = t]
      /\ DInput!CreateFFB(p, d) \/ UNCHANGED <<FFB, playing>>
      /\ UNCHANGED <<attached, refCount, g_pJoysticks, known, changed, refused, dinput_ini, open,
                     dinput_dialog, CID, listens, failed>>
  BY DEF DInput!FindControl, DInput!list, DInput!effects
<1>2. DInput!TypeOK /\ DInput!CountsUsers /\ DInput!EffectsOfDevices /\ PadsPlaces
  BY DEF PadsIInv
<1>3. p \in PadPorts /\ CID \in PadControls /\ g_Controls[p] \in [PadControls -> DInput!Mappings]
  BY <1>1, <1>2 DEF DInput!TypeOK
<1>4. i \in 1..Cardinality(PadDevices) /\ d \in PadDevices /\ d # None
  BY <1>2, PadsLists, PadsConstantTypes DEF DInput!TypeOK
<1>5. DInput!Mapping(i, kind, d) \in DInput!Mappings
  BY <1>4, PadsMapped
<1>6. t \in [PadControls -> DInput!Mappings]
  BY <1>3, <1>5
<1>7. ~changed => \A c \in PadControls : PadsPlace(t[c], known)
  <2> SUFFICES ASSUME ~changed, NEW c \in PadControls PROVE PadsPlace(t[c], known)
    OBVIOUS
  <2>1. refCount # 0
    BY <1>2 DEF DInput!CountsUsers
  <2>2. g_pJoysticks = known /\ PadsPlace(g_Controls[p][c], known) /\ known # None
    BY <1>2, <1>3, <2>1, PadsLists DEF PadsPlaces, DInput!TypeOK
  <2>3. PadsPlace(DInput!Mapping(i, kind, d), known)
    BY <2>2 DEF PadsPlace, DInput!Mapping
  <2>4. t[c] = IF c = CID THEN DInput!Mapping(i, kind, d) ELSE g_Controls[p][c]
    BY <1>3
  <2> HIDE DEF t
  <2> QED BY <2>2, <2>3, <2>4
<1>8. /\ FFB' \in [PadPorts -> PadDevices \cup {None}] /\ playing' \in [PadPorts -> SUBSET PadEffects]
      /\ DInput!EffectsOfDevices'
  <2>1. FFB \in [PadPorts -> PadDevices \cup {None}] /\ playing \in [PadPorts -> SUBSET PadEffects]
    BY <1>2 DEF DInput!TypeOK
  <2>2. CASE UNCHANGED <<FFB, playing>>
    BY <1>1, <1>2, <2>1, <2>2 DEF DInput!EffectsOfDevices
  <2>3. CASE DInput!CreateFFB(p, d)
    <3>1. FFB' = [FFB EXCEPT ![p] = d] /\ playing' = [playing EXCEPT ![p] = {"constant"} \cap PadSupports[d]]
      BY <2>3 DEF DInput!CreateFFB
    <3>2. PadSupports[d] \subseteq PadEffects /\ \E j \in DOMAIN g_pJoysticks : g_pJoysticks[j] = d
      BY <1>4, PadsConstantTypes
    <3> HIDE DEF d, p
    <3>3. FFB' \in [PadPorts -> PadDevices \cup {None}] /\ playing' \in [PadPorts -> SUBSET PadEffects]
      BY <1>3, <1>4, <2>1, <3>1, <3>2
    <3>4. DInput!EffectsOfDevices'
      BY <1>1, <1>2, <1>3, <1>4, <2>1, <3>1, <3>2 DEF DInput!EffectsOfDevices
    <3> QED BY <3>3, <3>4
  <2> QED BY <1>1, <2>2, <2>3
<1>9. CID' \in PadControls \cup {None} /\ CID' # None /\ listening' \in BOOLEAN
  BY <1>1, <1>3, PadsConstantTypes
<1> HIDE DEF t
<1> QED BY <1>1, <1>6, <1>7, <1>8, <1>9, PadsRemapped

\* What changes at most who listens, what is attached and what plays.
LEMMA PadsElse ==
  ASSUME PadsIInv,
         UNCHANGED <<refCount, g_pJoysticks, known, changed, refused, FFB, g_Controls, dinput_ini, open, dinput_dialog>>,
         attached' \subseteq PadDevices, listening' \in BOOLEAN, CID' \in PadControls \cup {None},
         listening' => CID' # None, listens' \in 0..PadListens, failed' \in BOOLEAN, DInput!IndexInRange',
         playing' \in [PadPorts -> SUBSET PadEffects], DInput!EffectsOfDevices'
  PROVE  PadsIInv'
<1>1. DInput!TypeOK /\ DInput!CountsUsers /\ PadsPlaces
  BY DEF PadsIInv
<1>2. DInput!TypeOK'
  BY <1>1 DEF DInput!TypeOK
<1>3. DInput!CountsUsers' /\ PadsPlaces'
  <2>1. DInput!Users' = DInput!Users
    BY DEF DInput!Users, DInput!Opened
  <2> QED BY <1>1, <2>1 DEF DInput!CountsUsers, PadsPlaces
<1> QED BY <1>2, <1>3 DEF PadsIInv

LEMMA PadsTestForce ==
  ASSUME PadsIInv, DInput!TestForce
  PROVE  PadsIInv'
<1> DEFINE p == dinput_dialog.port
           im == g_Controls[p][PadSteering]
<1>1. /\ dinput_dialog # DInput!NoDialog /\ failed' = DInput!Beyond(im, g_pJoysticks)
      /\ DInput!SetForce(p, "constant") \/ UNCHANGED playing
      /\ UNCHANGED <<attached, refCount, g_pJoysticks, known, changed, refused, FFB, g_Controls, dinput_ini, open,
                     dinput_dialog, listening, CID, listens>>
  BY DEF DInput!TestForce, DInput!list
<1>2. DInput!TypeOK /\ DInput!EffectsOfDevices
  BY DEF PadsIInv
<1>3. p \in PadPorts
  BY <1>1, <1>2 DEF DInput!TypeOK
<1>4. playing' \in [PadPorts -> SUBSET PadEffects] /\ DInput!EffectsOfDevices'
  <2>1. CASE UNCHANGED playing
    BY <1>1, <1>2, <2>1 DEF DInput!TypeOK, DInput!EffectsOfDevices
  <2> QED BY <1>1, <1>3, <2>1, PadsForced
<1>5. failed' \in BOOLEAN /\ DInput!IndexInRange'
  <2>1. failed' \in BOOLEAN
    BY <1>1 DEF DInput!Beyond
  <2> QED BY <1>1, <1>3, <2>1, PadsUsed, PadsConstantTypes DEF DInput!IndexInRange
<1>6. attached' \subseteq PadDevices /\ listening' \in BOOLEAN /\ CID' \in PadControls \cup {None}
      /\ (listening' => CID' # None) /\ listens' \in 0..PadListens
  BY <1>1, <1>2 DEF DInput!TypeOK
<1> QED BY <1>1, <1>4, <1>5, <1>6, PadsElse

LEMMA PadsListens ==
  ASSUME PadsIInv, (\E c \in PadControls : DInput!StartListen(c)) \/ DInput!ListenTimeout
                   \/ (\E d \in PadPulled : DInput!Pull(d)) \/ UNCHANGED DInput!vars
  PROVE  PadsIInv'
<1>1. DInput!TypeOK /\ DInput!EffectsOfDevices /\ DInput!IndexInRange
  BY DEF PadsIInv
<1>2. UNCHANGED <<refCount, g_pJoysticks, known, changed, refused, FFB, playing, g_Controls, dinput_ini, open,
                  dinput_dialog, failed>>
  BY DEF DInput!StartListen, DInput!ListenTimeout, DInput!Pull, DInput!vars, DInput!list, DInput!effects
<1>3. attached' \subseteq PadDevices /\ listening' \in BOOLEAN /\ CID' \in PadControls \cup {None}
      /\ (listening' => CID' # None) /\ listens' \in 0..PadListens
  <2>1. /\ attached \subseteq PadDevices /\ listening \in BOOLEAN /\ CID \in PadControls \cup {None}
        /\ (listening => CID # None) /\ listens \in 0..PadListens
    BY <1>1 DEF DInput!TypeOK
  <2>2. ASSUME NEW c \in PadControls, DInput!StartListen(c)
        PROVE  listens' \in 0..PadListens /\ CID' = c /\ listening' = TRUE /\ attached' = attached /\ c # None
    BY <2>1, <2>2, PadsConstantTypes DEF DInput!StartListen
  <2>3. ASSUME NEW d \in PadPulled, DInput!Pull(d)
        PROVE  attached' \subseteq PadDevices /\ UNCHANGED <<listening, CID, listens>>
    BY <2>1, <2>3, PadsConstantTypes DEF DInput!Pull
  <2>4. CASE DInput!ListenTimeout
    BY <2>1, <2>4 DEF DInput!ListenTimeout
  <2>5. CASE UNCHANGED DInput!vars
    BY <2>1, <2>5 DEF DInput!vars
  <2>6. CASE \E c \in PadControls : DInput!StartListen(c)
    BY <2>1, <2>2, <2>6
  <2>7. CASE \E d \in PadPulled : DInput!Pull(d)
    BY <2>1, <2>3, <2>7
  <2> QED BY <2>4, <2>5, <2>6, <2>7
<1>4. /\ failed' \in BOOLEAN /\ DInput!IndexInRange'
      /\ playing' \in [PadPorts -> SUBSET PadEffects] /\ DInput!EffectsOfDevices'
  BY <1>1, <1>2 DEF DInput!TypeOK, DInput!IndexInRange, DInput!EffectsOfDevices
<1> QED BY <1>2, <1>3, <1>4, PadsElse

LEMMA PadsStep1 ==
  ASSUME PadsIInv, [DInput!Next]_(DInput!vars)
  PROVE  PadsIInv'
<1> USE PadsConstantTypes
<1>1. CASE UNCHANGED DInput!vars
  BY <1>1, PadsListens
<1>2. CASE DInput!Dialog
  <2>1. CASE \E p \in PadPorts, t \in PadTypes : DInput!InitDialog(p, t)
    BY <2>1, PadsInitDialog
  <2>2. CASE DInput!Assign \/ DInput!ListenTimeout
    BY <2>2, PadsListens DEF DInput!Assign
  <2>3. CASE DInput!Delete
    BY <2>3, PadsDeleteControl DEF DInput!Delete
  <2>4. CASE \E i \in DOMAIN g_pJoysticks, kind \in {"MT_AXIS", "MT_BUTTON"} : DInput!FindControl(i, kind)
    BY <2>4, PadsFindControl
  <2>5. CASE (\E c \in PadFiltered : DInput!ApplyFilter({c})) \/ DInput!ApplyFilter(PadFiltered)
    BY <2>5, PadsApplyFilter
  <2>6. CASE DInput!TestForce
    BY <2>6, PadsTestForce
  <2>7. CASE DInput!Ok
    BY <2>7, PadsOk
  <2>8. CASE DInput!Cancel
    BY <2>8, PadsCancel
  <2> QED BY <1>2, <2>1, <2>2, <2>3, <2>4, <2>5, <2>6, <2>7, <2>8 DEF DInput!Dialog
<1>3. CASE \E p \in PadPorts : \E t \in PadTypes : DInput!Open(p, t)
  BY <1>3, PadsOpen
<1>4. CASE \E p \in PadPorts : DInput!TokenOut(p)
  BY <1>4, PadsTokenOut
<1>5. CASE DInput!Close
  BY <1>5, PadsClose
<1>6. CASE \E d \in PadPulled : DInput!Pull(d)
  BY <1>6, PadsListens
<1> QED BY <1>1, <1>2, <1>3, <1>4, <1>5, <1>6 DEF DInput!Next

LEMMA PadsBegin == DInput!Init => PadsIInv
<1> SUFFICES ASSUME DInput!Init PROVE PadsIInv
  OBVIOUS
<1>1. /\ refCount = 0 /\ g_pJoysticks = <<>> /\ known = None /\ changed = FALSE /\ refused = FALSE /\ failed = FALSE
      /\ g_Controls = [p \in PadPorts |-> [c \in PadControls |-> DInput!Unmapped]]
      /\ FFB = [p \in PadPorts |-> None] /\ playing = [p \in PadPorts |-> {}]
      /\ dinput_ini = [t \in PadTypes |-> [p \in PadPorts |-> [c \in PadControls |-> DInput!NotSaved]]]
      /\ open = [p \in PadPorts |-> None] /\ dinput_dialog = DInput!NoDialog
      /\ listening = FALSE /\ CID = None /\ listens = 0 /\ attached = PadDevices
  BY DEF DInput!Init
<1>2. DInput!Unmapped \in DInput!Mappings /\ DInput!Unmapped.type = "MT_NONE"
  BY DEF DInput!Mappings, DInput!Mapping, DInput!Unmapped
<1>3. DInput!NotSaved \in [guid : PadDevices \cup {None}, type : DInput!Kinds]
  BY DEF DInput!NotSaved, DInput!Kinds
<1>4. DInput!TypeOK
  <2>1. g_Controls \in [PadPorts -> [PadControls -> DInput!Mappings]]
    BY <1>1, <1>2
  <2>2. dinput_ini \in [PadTypes -> [PadPorts -> [PadControls -> [guid : PadDevices \cup {None}, type : DInput!Kinds]]]]
    BY <1>1, <1>3
  <2>3. known \in DInput!AllLists \cup {None} /\ g_pJoysticks \in DInput!AllLists
    BY <1>1, PadsEmpty
  <2>4. FFB \in [PadPorts -> PadDevices \cup {None}] /\ playing \in [PadPorts -> SUBSET PadEffects]
        /\ open \in [PadPorts -> PadTypes \cup {None}]
    BY <1>1
  <2>5. listens \in 0..PadListens
    BY <1>1, PadsConstantTypes
  <2> QED BY <1>1, <2>1, <2>2, <2>3, <2>4, <2>5 DEF DInput!TypeOK
<1>5. DInput!CountsUsers
  <2>1. DInput!Opened = {}
    BY <1>1 DEF DInput!Opened
  <2> QED BY <1>1, <2>1, PadsOpened DEF DInput!CountsUsers
<1>6. DInput!EffectsOfDevices /\ DInput!IndexInRange
  BY <1>1 DEF DInput!EffectsOfDevices, DInput!IndexInRange
<1>7. PadsPlaces
  BY <1>1, <1>2 DEF PadsPlaces, PadsPlace
<1> QED BY <1>4, <1>5, <1>6, <1>7 DEF PadsIInv

LEMMA PadsKept == PadsIInv => DInput!BoundToWhatWasMeant
<1> SUFFICES ASSUME PadsIInv, ~changed, NEW p \in PadPorts, NEW c \in PadControls,
                    refCount # 0, g_Controls[p][c].type # "MT_NONE"
             PROVE  /\ ~DInput!Beyond(g_Controls[p][c], g_pJoysticks)
                    /\ g_pJoysticks[g_Controls[p][c].index] = g_Controls[p][c].of
  BY DEF DInput!BoundToWhatWasMeant
<1> QED BY DEF PadsIInv, PadsPlaces, PadsPlace, DInput!Beyond

\* What OK saves names the devices that were meant.
LEMMA PadsSaved ==
  ASSUME PadsIInv, DInput!Ok, ~changed, NEW p \in PadPorts, NEW t \in PadTypes, NEW c \in PadControls,
         dinput_dialog = [port |-> p, type |-> t], g_Controls[p][c].type # "MT_NONE"
  PROVE  dinput_ini'[t][p][c] = [guid |-> g_Controls[p][c].of, type |-> g_Controls[p][c].type]
<1> DEFINE im == g_Controls[p][c]
<1>1. /\ dinput_dialog # DInput!NoDialog
      /\ failed' = \E x \in PadControls : DInput!Beyond(g_Controls[p][x], g_pJoysticks)
      /\ dinput_ini' = IF failed' THEN dinput_ini
                       ELSE [dinput_ini EXCEPT ![t][p] = DInput!SaveDInputConfig(p)]
  BY DEF DInput!Ok
<1>2. ~refused /\ (refCount # 0 => g_pJoysticks = known) /\ PadsPlace(im, known)
  BY DEF PadsIInv, PadsPlaces
<1>3. im.index \in DOMAIN known /\ known[im.index] = im.of
  BY <1>2 DEF PadsPlace
<1>4. known # <<>>
  BY <1>3
<1>5. failed' = FALSE
  BY <1>1, <1>4, PadsUsed
<1>6. g_pJoysticks = known
  <2>1. DInput!Users # 0
    BY <1>1, PadsOpened
  <2> QED BY <1>2, <2>1 DEF PadsIInv, DInput!CountsUsers
<1>7. im # DInput!Unmapped
  BY DEF DInput!Unmapped, DInput!Mapping
<1>8. DInput!SaveDInputConfig(p)[c] = [guid |-> g_pJoysticks[im.index], type |-> im.type]
  BY <1>7 DEF DInput!SaveDInputConfig
<1>9. dinput_ini'[t][p] = DInput!SaveDInputConfig(p)
  BY <1>1, <1>5 DEF PadsIInv, DInput!TypeOK
<1> QED BY <1>3, <1>6, <1>8, <1>9

-----------------------------------------------------------------------------
(* The thread that reads an input device.                                  *)

\* A thread that is alive is the one of the object, and whoever starts another
\* has joined it.
ThreadIInv ==
  /\ Thread!TypeOK /\ Thread!ObjectStandsForThread
  /\ thread_main = "open" => opens < ThreadOpens
  /\ thread_main \in {"check", "join", "spawn"} => opens > 0

LEMMA ThreadStep1 ==
  ASSUME ThreadIInv, [Thread!Next]_(Thread!vars)
  PROVE  ThreadIInv'
<1> USE ThreadAssumption DEF ThreadIInv, Thread!TypeOK, Thread!ObjectStandsForThread, Thread!Alive, Thread!Ids,
        Thread!InputThreadAssumption
<1>1. CASE UNCHANGED Thread!vars
  BY <1>1 DEF Thread!vars
<1>2. CASE Thread!OpenBegin
  BY <1>2 DEF Thread!OpenBegin
<1>3. CASE Thread!OpenFails
  BY <1>3 DEF Thread!OpenFails
<1>4. CASE Thread!OpenHandle
  <2>1. opens' \in 0 .. ThreadOpens /\ opens' > 0
    BY <1>4 DEF Thread!OpenHandle
  <2> QED BY <1>4, <2>1 DEF Thread!OpenHandle
<1>5. CASE Thread!CheckRunning
  <2>1. CASE thread_running
    BY <1>5, <2>1 DEF Thread!CheckRunning, Thread!Return0
  <2>2. CASE ~thread_running
    BY <1>5, <2>2 DEF Thread!CheckRunning
  <2> QED BY <2>1, <2>2
<1>6. CASE Thread!Join
  BY <1>6 DEF Thread!Join
<1>7. CASE Thread!Spawn
  BY <1>7 DEF Thread!Spawn, Thread!Return0
<1>8. CASE Thread!Close
  <2>1. told' \in BOOLEAN
    BY <1>8, Zenon DEF Thread!Close
  <2>2. handle' = 0 /\ UNCHANGED <<thread_running, joinable, threads, thread_main, opens>>
    BY <1>8 DEF Thread!Close
  <2> QED BY <2>1, <2>2
<1>9. ASSUME NEW t \in 1 .. ThreadOpens, Thread!Start(t) \/ Thread!Leave(t) \/ Thread!End(t)
      PROVE  ThreadIInv'
  BY <1>9 DEF Thread!Start, Thread!Leave, Thread!End
<1> QED BY <1>1, <1>2, <1>3, <1>4, <1>5, <1>6, <1>7, <1>8, <1>9 DEF Thread!Next, Thread!Main, Thread!Thread

LEMMA ThreadBegins == Thread!Init => ThreadIInv
<1> SUFFICES ASSUME Thread!Init PROVE ThreadIInv
  OBVIOUS
<1>1. handle = 0 /\ joinable = 0 /\ threads = [t \in 1 .. ThreadOpens |-> "none"] /\ thread_main = "idle" /\ opens = 0
  BY DEF Thread!Init, Thread!Ids
<1>2. thread_running \in BOOLEAN /\ told \in BOOLEAN
  BY DEF Thread!Init
<1>3. ThreadOpens \in Nat
  BY ThreadAssumption DEF Thread!InputThreadAssumption
<1> QED BY <1>1, <1>2, <1>3 DEF ThreadIInv, Thread!TypeOK, Thread!ObjectStandsForThread, Thread!Alive, Thread!Ids

LEMMA ThreadKeeps == ThreadIInv => Thread!TypeOK /\ Thread!OneReader /\ Thread!ObjectStandsForThread
<1> SUFFICES ASSUME ThreadIInv PROVE Thread!OneReader
  BY DEF ThreadIInv
<1> DEFINE A == {t \in 1 .. ThreadOpens : Thread!Alive(t)}
<1>1. A \subseteq {joinable}
  BY DEF ThreadIInv, Thread!ObjectStandsForThread, Thread!Ids
<1>2. Cardinality(A) <= Cardinality({joinable}) /\ Cardinality({joinable}) = 1 /\ Cardinality(A) \in Nat
  <2>1. IsFiniteSet({joinable}) /\ Cardinality({joinable}) = 1 /\ A \in SUBSET {joinable}
    BY <1>1, FS_Singleton
  <2> HIDE DEF A
  <2>2. IsFiniteSet(A) /\ Cardinality(A) <= Cardinality({joinable})
    BY <2>1, FS_Subset
  <2> QED BY <2>1, <2>2, FS_CardinalityType
<1>3. Thread!Cardinality(A) = Cardinality(A)
  BY DEF Thread!Cardinality, Cardinality
<1> QED BY <1>2, <1>3 DEF Thread!OneReader, Thread!Ids

-----------------------------------------------------------------------------
(* libpulse and its users.                                                 *)

LEMMA LibraryCardinality == \A S : Library!Cardinality(S) = Cardinality(S)
BY DEF Library!Cardinality, Cardinality

LEMMA LibraryTypes ==
  /\ IsFiniteSet(LibUsers) /\ LibObjects \in Nat \ {0} /\ LibFunctions \in Nat \ {0, 1}
  /\ LibInstalled \subseteq 0..LibFunctions /\ LibMaxCount \in Nat
BY LibraryAssumption DEF Library!PulseLibraryConstants, Library!IsFiniteSet, IsFiniteSet

\* A library that is whole counts every user, the devices among them, and is
\* loaded while there is one; of any other there is no user, and nothing is left
\* loaded.
Holders == {d \in LibUsers : stage[d] # "none"}
Counts ==
  IF installed = LibFunctions
  THEN /\ refCntPulse >= Cardinality(alive) + (IF library_dialog = "open" THEN 1 ELSE 0) + Cardinality(Holders)
       /\ IF refCntPulse = 0 THEN library_loaded = 0 /\ ~pulse_handle
                             ELSE library_loaded = LibFunctions /\ pulse_handle
  ELSE /\ library_loaded = 0 /\ ~pulse_handle /\ alive = {} /\ library_dialog = "closed"
       /\ installed # 0 => refCntPulse = 0
LibraryIInv ==
  /\ Library!TypeOK /\ Library!UsedIsLoaded /\ Counts
  /\ \A o \in alive : stage[o[1]] # "none" /\ o[2] <= made[o[1]]

LEMMA LibraryTyped ==
  ASSUME LibraryIInv
  PROVE  /\ Counts /\ pulse_handle \in BOOLEAN
         /\ installed \in 0..LibFunctions /\ refCntPulse \in Nat /\ LibFunctions \in Nat /\ LibFunctions > 1
<1>1. Counts /\ Library!TypeOK
  BY DEF LibraryIInv
<1>2. installed \in LibInstalled /\ refCntPulse \in 0 .. LibMaxCount + 1 /\ pulse_handle \in BOOLEAN
  BY <1>1 DEF Library!TypeOK
<1>3. installed \in 0..LibFunctions /\ refCntPulse \in Nat
  BY <1>2, LibraryTypes
<1>4. LibFunctions \in Nat /\ LibFunctions > 1
  BY LibraryTypes
<1> QED BY <1>1, <1>2, <1>3, <1>4

LEMMA LibrarySets ==
  ASSUME LibraryIInv
  PROVE  /\ IsFiniteSet(alive) /\ IsFiniteSet(Holders)
         /\ Cardinality(alive) \in Nat /\ Cardinality(Holders) \in Nat
         /\ alive # {} => Cardinality(alive) > 0
         /\ Holders # {} => Cardinality(Holders) > 0
<1>1. IsFiniteSet(LibUsers \X (1..LibObjects))
  <2>1. IsFiniteSet(1..LibObjects)
    BY LibraryTypes, FS_Interval
  <2> QED BY <2>1, LibraryTypes, FS_Product
<1>2. alive \subseteq LibUsers \X (1..LibObjects) /\ Holders \subseteq LibUsers
  BY DEF LibraryIInv, Library!TypeOK, Holders
<1> QED BY <1>1, <1>2, LibraryTypes, FS_Subset, FS_CardinalityType, FS_EmptySet

\* What loading and unloading do to the count.
LEMMA LibraryLoads ==
  ASSUME LibraryIInv, NEW l, l = Library!DynLoadPulse(Library!Library)
  PROVE  /\ l.count \in {refCntPulse, refCntPulse + 1} /\ l.handle \in BOOLEAN /\ l.ok \in BOOLEAN
         /\ l.ok <=> installed = LibFunctions
         /\ l.loaded = (IF l.ok THEN LibFunctions ELSE 0) /\ (l.handle <=> l.ok)
         /\ l.ok => l.count = refCntPulse + 1
         /\ installed \notin {0, LibFunctions} => l.count = 0
<1>0. Counts /\ pulse_handle \in BOOLEAN
  BY LibraryTyped
<1>1. installed \in 0..LibFunctions /\ refCntPulse \in Nat /\ LibFunctions \in Nat /\ LibFunctions > 1
  BY LibraryTyped
<1>2. refCntPulse = 0 => library_loaded = 0 /\ ~pulse_handle
  BY <1>0, <1>1, LibrarySets DEF Counts
<1>3. CASE pulse_handle /\ library_loaded = LibFunctions
  <2>1. l = [handle |-> pulse_handle, loaded |-> library_loaded, count |-> refCntPulse + 1, ok |-> TRUE]
    BY <1>3 DEF Library!DynLoadPulse, Library!Library
  <2>2. installed = LibFunctions
    BY <1>0, <1>1, <1>3 DEF Counts
  <2> QED BY <1>0, <1>1, <1>3, <2>1, <2>2
<1>4. CASE ~(pulse_handle /\ library_loaded = LibFunctions) /\ installed = 0
  <2>1. l = [handle |-> FALSE, loaded |-> library_loaded, count |-> refCntPulse + 1, ok |-> FALSE]
    BY <1>4 DEF Library!DynLoadPulse, Library!Library
  <2>2. library_loaded = 0
    BY <1>0, <1>1, <1>4 DEF Counts
  <2> QED BY <1>0, <1>1, <1>4, <2>1, <2>2
<1>5. CASE ~(pulse_handle /\ library_loaded = LibFunctions) /\ installed = LibFunctions
  <2>1. l.handle = TRUE /\ l.loaded = installed /\ l.count = refCntPulse + 1 /\ l.ok = TRUE
    BY <1>0, <1>1, <1>5 DEF Library!DynLoadPulse, Library!Library
  <2> QED BY <1>0, <1>1, <1>5, <2>1
<1>6. CASE installed \notin {0, LibFunctions}
  <2>1. refCntPulse = 0 /\ library_loaded = 0 /\ ~pulse_handle
    BY <1>0, <1>1, <1>6 DEF Counts
  <2>2. l.handle = FALSE /\ l.loaded = 0 /\ l.count = 0 /\ l.ok = FALSE
    BY <1>0, <1>1, <1>6, <2>1 DEF Library!DynLoadPulse, Library!Library, Library!DynUnloadPulse
  <2> QED BY <1>0, <1>1, <1>6, <2>1, <2>2
<1> QED BY <1>3, <1>4, <1>5, <1>6

LEMMA LibraryUnloads ==
  ASSUME LibraryIInv, NEW l, l = Library!DynUnloadPulse(Library!Library)
  PROVE  /\ l.handle \in BOOLEAN /\ l.count \in 0..refCntPulse
         /\ installed = LibFunctions =>
              /\ l.count = (IF refCntPulse = 0 THEN 0 ELSE refCntPulse - 1)
              /\ IF l.count = 0 THEN l.loaded = 0 /\ ~l.handle ELSE l.loaded = LibFunctions /\ l.handle
         /\ installed # LibFunctions => l.count = refCntPulse /\ l.loaded = 0 /\ ~l.handle
<1>0. Counts /\ pulse_handle \in BOOLEAN
  BY LibraryTyped
<1>1. refCntPulse \in Nat /\ LibFunctions \in Nat /\ LibFunctions > 1
  BY LibraryTyped
<1>2. CASE (~pulse_handle /\ library_loaded < LibFunctions) \/ refCntPulse = 0
  <2>1. l = Library!Library
    BY <1>2 DEF Library!DynUnloadPulse, Library!Library
  <2>2. l.handle = pulse_handle /\ l.count = refCntPulse /\ l.loaded = library_loaded
    BY <2>1 DEF Library!Library
  <2> QED BY <1>0, <1>1, <1>2, <2>2 DEF Counts
<1>3. CASE (pulse_handle \/ library_loaded = LibFunctions) /\ refCntPulse > 1
  <2>1. l.handle = pulse_handle /\ l.count = refCntPulse - 1 /\ l.loaded = library_loaded
    BY <1>0, <1>1, <1>3 DEF Library!DynUnloadPulse, Library!Library
  <2> QED BY <1>0, <1>1, <1>3, <2>1 DEF Counts
<1>4. CASE (pulse_handle \/ library_loaded = LibFunctions) /\ refCntPulse = 1
  <2>1. l.handle = FALSE /\ l.count = 0 /\ l.loaded = 0
    BY <1>0, <1>1, <1>4 DEF Library!DynUnloadPulse, Library!Library
  <2>2. l.handle \in BOOLEAN /\ ~l.handle
    BY <2>1
  <2>3. installed = LibFunctions
    BY <1>0, <1>1, <1>4 DEF Counts
  <2> QED BY <1>1, <1>4, <2>1, <2>2, <2>3
<1>5. library_loaded \in {0, LibFunctions}
  BY <1>0, <1>1 DEF Counts
<1> QED BY <1>0, <1>1, <1>2, <1>3, <1>4, <1>5

\* The library after a load, and after an unload, which needs somebody to count.
LEMMA LibraryLoaded ==
  ASSUME LibraryIInv, Library!Counted, Library!Become(Library!DynLoadPulse(Library!Library)), UNCHANGED installed,
         NEW a \in Nat, NEW h \in Nat, NEW w \in Nat, a + w + h <= refCntPulse + 1 \/ installed # LibFunctions
  PROVE  /\ pulse_handle' \in BOOLEAN /\ library_loaded' \in 0..LibFunctions /\ refCntPulse' \in 0 .. LibMaxCount + 1
         /\ installed' = LibFunctions =>
              refCntPulse' >= a + w + h /\ refCntPulse' > 0 /\ library_loaded' = LibFunctions /\ pulse_handle'
         /\ installed' # LibFunctions =>
              library_loaded' = 0 /\ ~pulse_handle' /\ (installed' # 0 => refCntPulse' = 0)
<1> DEFINE l == Library!DynLoadPulse(Library!Library)
<1>1. pulse_handle' = l.handle /\ library_loaded' = l.loaded /\ refCntPulse' = l.count
  BY DEF Library!Become
<1>2. /\ l.count \in {refCntPulse, refCntPulse + 1} /\ l.handle \in BOOLEAN /\ l.ok \in BOOLEAN
      /\ l.ok <=> installed = LibFunctions
      /\ l.loaded = (IF l.ok THEN LibFunctions ELSE 0) /\ (l.handle <=> l.ok)
      /\ l.ok => l.count = refCntPulse + 1
      /\ installed \notin {0, LibFunctions} => l.count = 0
  BY LibraryLoads
<1>3. refCntPulse \in Nat /\ LibFunctions \in Nat /\ LibMaxCount \in Nat /\ refCntPulse < LibMaxCount
  BY LibraryTyped, LibraryTypes DEF Library!Counted
<1> HIDE DEF l
<1>4. pulse_handle' \in BOOLEAN
  BY <1>1, <1>2
<1>5. library_loaded' \in 0..LibFunctions /\ refCntPulse' \in 0 .. LibMaxCount + 1
  BY <1>1, <1>2, <1>3
<1>6. CASE installed = LibFunctions
  BY <1>1, <1>2, <1>3, <1>4, <1>5, <1>6
<1>7. CASE installed # LibFunctions
  BY <1>1, <1>2, <1>3, <1>4, <1>5, <1>7
<1> QED BY <1>6, <1>7

LEMMA LibraryUnloaded ==
  ASSUME LibraryIInv, Library!Become(Library!DynUnloadPulse(Library!Library)), UNCHANGED installed,
         NEW a \in Nat, NEW h \in Nat, NEW w \in Nat, a + w + h < refCntPulse \/ installed # LibFunctions
  PROVE  /\ pulse_handle' \in BOOLEAN /\ library_loaded' \in 0..LibFunctions /\ refCntPulse' \in 0 .. LibMaxCount + 1
         /\ installed' = LibFunctions =>
              /\ refCntPulse' >= a + w + h
              /\ IF refCntPulse' = 0 THEN library_loaded' = 0 /\ ~pulse_handle'
                                     ELSE library_loaded' = LibFunctions /\ pulse_handle'
         /\ installed' # LibFunctions =>
              library_loaded' = 0 /\ ~pulse_handle' /\ (installed' # 0 => refCntPulse' = 0)
<1> DEFINE l == Library!DynUnloadPulse(Library!Library)
<1>1. pulse_handle' = l.handle /\ library_loaded' = l.loaded /\ refCntPulse' = l.count
  BY DEF Library!Become
<1>2. /\ l.handle \in BOOLEAN /\ l.count \in 0..refCntPulse
      /\ installed = LibFunctions =>
           /\ l.count = (IF refCntPulse = 0 THEN 0 ELSE refCntPulse - 1)
           /\ IF l.count = 0 THEN l.loaded = 0 /\ ~l.handle ELSE l.loaded = LibFunctions /\ l.handle
      /\ installed # LibFunctions => l.count = refCntPulse /\ l.loaded = 0 /\ ~l.handle
  BY LibraryUnloads
<1>3. refCntPulse \in 0 .. LibMaxCount + 1 /\ LibFunctions \in Nat /\ LibMaxCount \in Nat
  BY LibraryTypes DEF LibraryIInv, Library!TypeOK
<1>4. installed # LibFunctions /\ installed # 0 => refCntPulse = 0
  BY LibraryTyped DEF Counts
<1> HIDE DEF l
<1>5. pulse_handle' \in BOOLEAN
  BY <1>1, <1>2
<1>6. CASE installed = LibFunctions
  BY <1>1, <1>2, <1>3, <1>5, <1>6
<1>7. CASE installed # LibFunctions
  BY <1>1, <1>2, <1>3, <1>4, <1>5, <1>7
<1> QED BY <1>6, <1>7

LEMMA LibraryStep1 ==
  ASSUME LibraryIInv, [Library!Next]_(Library!vars)
  PROVE  LibraryIInv'
<1> DEFINE W == IF library_dialog = "open" THEN 1 ELSE 0
           Typed == /\ pulse_handle' \in BOOLEAN /\ library_loaded' \in 0..LibFunctions
                    /\ refCntPulse' \in 0 .. LibMaxCount + 1
           ObjectsAre(a, m, st) ==
             /\ a \subseteq LibUsers \X (1..LibObjects)
             /\ m \in [LibUsers -> 0..LibObjects]
             /\ st \in [LibUsers -> {"none", "init", "objects", "destroy"}]
             /\ \A o \in a : st[o[1]] # "none" /\ o[2] <= m[o[1]]
           UsedWell(u) == u \in {"nothing", "function"}
<1>1. /\ installed \in LibInstalled /\ library_dialog \in {"closed", "open"} /\ UsedWell(used)
      /\ ObjectsAre(alive, made, stage) /\ Counts /\ W \in {0, 1}
  BY DEF LibraryIInv, Library!TypeOK, Library!UsedIsLoaded
<1>2. /\ pulse_handle \in BOOLEAN /\ library_loaded \in 0..LibFunctions /\ refCntPulse \in 0 .. LibMaxCount + 1
      /\ refCntPulse \in Nat /\ LibFunctions > 1 /\ LibFunctions \in Nat
  BY LibraryTyped, LibraryTypes DEF LibraryIInv, Library!TypeOK
<1>3. /\ IsFiniteSet(alive) /\ IsFiniteSet(Holders) /\ Cardinality(alive) \in Nat /\ Cardinality(Holders) \in Nat
  BY LibrarySets
<1>4. /\ installed = LibFunctions => refCntPulse >= Cardinality(alive) + W + Cardinality(Holders)
      /\ installed = LibFunctions /\ refCntPulse # 0 => library_loaded = LibFunctions
      /\ installed # LibFunctions => alive = {} /\ library_dialog = "closed"
  BY <1>1 DEF Counts
\* What remains to be shown of a step.
<1>5. ASSUME Typed, UNCHANGED installed, library_dialog' \in {"closed", "open"}, UsedWell(used'),
             ObjectsAre(alive', made', stage'), Counts'
      PROVE  LibraryIInv'
  BY <1>1, <1>5 DEF LibraryIInv, Library!TypeOK, Library!UsedIsLoaded
<1>6. CASE UNCHANGED <<installed, pulse_handle, library_loaded, refCntPulse, alive, library_dialog>>
           /\ UsedWell(used') /\ ObjectsAre(alive', made', stage') /\ Holders' = Holders
  <2>1. Counts'
    BY <1>1, <1>6 DEF Counts
  <2> QED BY <1>1, <1>2, <1>5, <1>6, <2>1
<1> HIDE DEF UsedWell
<1>7. CASE UNCHANGED Library!vars
  BY <1>1, <1>6, <1>7 DEF Library!vars, Holders
<1>8. ASSUME NEW d \in LibUsers, Library!CreateDevice(d) PROVE LibraryIInv'
  <2>1. /\ stage[d] = "none" /\ stage' = [stage EXCEPT ![d] = "init"] /\ made' = [made EXCEPT ![d] = 0]
        /\ UNCHANGED <<installed, alive, library_dialog, used>>
    BY <1>8 DEF Library!CreateDevice
  <2>2. ObjectsAre(alive', made', stage')
    BY <1>1, <2>1, LibraryTypes
  <2>3. Holders' = Holders \cup {d} /\ d \notin Holders
    BY <1>1, <2>1 DEF Holders
  <2>4. Cardinality(Holders') = Cardinality(Holders) + 1
    BY <1>3, <2>3, FS_AddElement
  <2>5. Typed /\ (installed' = LibFunctions =>
                    /\ refCntPulse' >= Cardinality(alive) + W + (Cardinality(Holders) + 1)
                    /\ refCntPulse' > 0 /\ library_loaded' = LibFunctions /\ pulse_handle')
              /\ (installed' # LibFunctions =>
                    library_loaded' = 0 /\ ~pulse_handle' /\ (installed' # 0 => refCntPulse' = 0))
    <3>1. Cardinality(Holders) + 1 \in Nat /\ W \in Nat
          /\ (Cardinality(alive) + W + (Cardinality(Holders) + 1) <= refCntPulse + 1 \/ installed # LibFunctions)
      BY <1>2, <1>3, <1>4
    <3> QED BY <1>3, <1>8, <2>1, <3>1, LibraryLoaded DEF Library!CreateDevice
  <2>6. Counts'
    BY <1>3, <1>4, <2>1, <2>4, <2>5 DEF Counts
  <2> QED BY <1>1, <1>5, <2>1, <2>2, <2>5, <2>6
<1>9. ASSUME NEW d \in LibUsers, Library!NewObject(d) PROVE LibraryIInv'
  <2> DEFINE o == <<d, made[d] + 1>>
  <2>1. /\ stage[d] = "init" /\ made[d] < LibObjects /\ made' = [made EXCEPT ![d] = made[d] + 1]
        /\ UNCHANGED <<installed, stage, library_dialog, used>>
    BY <1>9 DEF Library!NewObject
  <2>2. Holders' = Holders /\ made[d] \in 0..LibObjects /\ LibObjects \in Nat
    BY <1>1, <2>1, LibraryTypes DEF Holders
  <2>3. ObjectsAre(alive, made', stage') /\ ObjectsAre(alive \cup {o}, made', stage') /\ o \notin alive
    BY <1>1, <2>1, <2>2
  <2>4. CASE UNCHANGED <<pulse_handle, library_loaded, refCntPulse, alive>>
    BY <1>1, <1>6, <2>1, <2>2, <2>3, <2>4
  <2>5. ASSUME Library!Become(Library!DynLoadPulse(Library!Library)), NEW a \in Nat, a <= Cardinality(alive) + 1
        PROVE  /\ Typed
               /\ installed' = LibFunctions =>
                    /\ refCntPulse' >= a + W + Cardinality(Holders)
                    /\ refCntPulse' > 0 /\ library_loaded' = LibFunctions /\ pulse_handle'
               /\ installed' # LibFunctions =>
                    library_loaded' = 0 /\ ~pulse_handle' /\ (installed' # 0 => refCntPulse' = 0)
    <3>1. W \in Nat /\ (a + W + Cardinality(Holders) <= refCntPulse + 1 \/ installed # LibFunctions)
      BY <1>2, <1>3, <1>4, <2>5
    <3> QED BY <1>3, <1>9, <2>1, <2>5, <3>1, LibraryLoaded DEF Library!NewObject
  <2>6. CASE Library!Become(Library!DynLoadPulse(Library!Library)) /\ UNCHANGED alive
    <3>1. Typed /\ Counts'
      BY <1>3, <1>4, <2>1, <2>2, <2>5, <2>6 DEF Counts
    <3> QED BY <1>1, <1>5, <2>1, <2>3, <2>6, <3>1
  <2>7. CASE /\ Library!DynLoadPulse(Library!Library).ok
             /\ Library!Become(Library!DynLoadPulse(Library!Library)) /\ alive' = alive \cup {o}
    <3>1. installed = LibFunctions
      BY <2>7, LibraryLoads
    <3>2. Cardinality(alive') = Cardinality(alive) + 1
      BY <1>3, <2>3, <2>7, FS_AddElement
    <3>3. Typed /\ Counts'
      BY <1>3, <1>4, <2>1, <2>2, <2>5, <2>7, <3>1, <3>2 DEF Counts
    <3> QED BY <1>1, <1>5, <2>1, <2>3, <2>7, <3>3
  <2>8. made'[d] = made[d] + 1
    BY <1>1, <2>1
  <2> QED BY <1>9, <2>4, <2>6, <2>7, <2>8 DEF Library!NewObject
<1>10. ASSUME NEW d \in LibUsers, Library!Created(d) \/ Library!Destroy(d) PROVE LibraryIInv'
  <2>1. /\ UNCHANGED <<installed, pulse_handle, library_loaded, refCntPulse, made, alive, library_dialog, used>>
        /\ stage[d] # "none" /\ \E x \in {"objects", "destroy"} : stage' = [stage EXCEPT ![d] = x]
    BY <1>10 DEF Library!Created, Library!Destroy
  <2>2. Holders' = Holders /\ ObjectsAre(alive', made', stage')
    BY <1>1, <2>1 DEF Holders
  <2> QED BY <1>1, <1>6, <2>1, <2>2
<1>11. ASSUME NEW d \in LibUsers, Library!Use(d) PROVE LibraryIInv'
  <2>1. /\ UNCHANGED <<installed, pulse_handle, library_loaded, refCntPulse, stage, made, alive, library_dialog>>
        /\ alive # {} /\ used' = Library!Call
    BY <1>11 DEF Library!Use, Library!Of
  <2>2. UsedWell(used')
    <3>1. library_loaded = LibFunctions
      BY <1>2, <1>3, <1>4, <2>1, LibrarySets
    <3> QED BY <2>1, <3>1 DEF Library!Call, UsedWell
  <2> QED BY <1>1, <1>6, <2>1, <2>2 DEF Holders
<1>12. ASSUME NEW d \in LibUsers, Library!DeleteObject(d) PROVE LibraryIInv'
  <2>1. PICK o \in alive : alive' = alive \ {o}
    BY <1>12 DEF Library!DeleteObject, Library!Of
  <2>2. UNCHANGED <<installed, stage, made, library_dialog>> /\ used' = Library!Call
    BY <1>12 DEF Library!DeleteObject
  <2>3. /\ Cardinality(alive') = Cardinality(alive) - 1 /\ Cardinality(alive) > 0
        /\ installed = LibFunctions /\ library_loaded = LibFunctions
    <3>1. alive # {} /\ Cardinality(alive) > 0
      BY <2>1, LibrarySets
    <3>2. installed = LibFunctions /\ refCntPulse # 0
      BY <1>1, <1>2, <1>3, <1>4, <3>1
    <3>3. Cardinality(alive \ {o}) = Cardinality(alive) - 1
      BY <1>3, FS_RemoveElement
    <3> QED BY <1>4, <2>1, <3>1, <3>2, <3>3
  <2>4. UsedWell(used') /\ ObjectsAre(alive', made', stage') /\ Holders' = Holders
    BY <1>1, <2>1, <2>2, <2>3 DEF Library!Call, UsedWell, Holders
  <2>5. Typed /\ refCntPulse' >= (Cardinality(alive) - 1) + W + Cardinality(Holders)
        /\ IF refCntPulse' = 0 THEN library_loaded' = 0 /\ ~pulse_handle'
                               ELSE library_loaded' = LibFunctions /\ pulse_handle'
    <3>1. Cardinality(alive) - 1 \in Nat /\ W \in Nat /\ (Cardinality(alive) - 1) + W + Cardinality(Holders) < refCntPulse
      BY <1>2, <1>3, <1>4, <2>3
    <3> QED BY <1>3, <1>12, <2>2, <2>3, <3>1, LibraryUnloaded DEF Library!DeleteObject
  <2>6. Counts'
    BY <1>3, <2>2, <2>3, <2>4, <2>5 DEF Counts
  <2> QED BY <1>1, <1>5, <2>2, <2>4, <2>5, <2>6
<1>13. ASSUME NEW d \in LibUsers, Library!Deinit(d) PROVE LibraryIInv'
  <2>1. /\ stage[d] = "destroy" /\ Library!Of(d) = {} /\ stage' = [stage EXCEPT ![d] = "none"]
        /\ UNCHANGED <<installed, made, alive, library_dialog, used>>
    BY <1>13 DEF Library!Deinit
  <2>2. ObjectsAre(alive', made', stage') /\ Holders' = Holders \ {d} /\ d \in Holders
    BY <1>1, <2>1 DEF Holders, Library!Of
  <2>3. Cardinality(Holders') = Cardinality(Holders) - 1 /\ Cardinality(Holders) > 0
    BY <1>3, <2>2, LibrarySets, FS_RemoveElement
  <2>4. /\ Typed
        /\ installed' = LibFunctions =>
             /\ refCntPulse' >= Cardinality(alive) + W + (Cardinality(Holders) - 1)
             /\ IF refCntPulse' = 0 THEN library_loaded' = 0 /\ ~pulse_handle'
                                    ELSE library_loaded' = LibFunctions /\ pulse_handle'
        /\ installed' # LibFunctions =>
             library_loaded' = 0 /\ ~pulse_handle' /\ (installed' # 0 => refCntPulse' = 0)
    <3>1. Cardinality(Holders) - 1 \in Nat /\ W \in Nat
          /\ (Cardinality(alive) + W + (Cardinality(Holders) - 1) < refCntPulse \/ installed # LibFunctions)
      BY <1>2, <1>3, <1>4, <2>3
    <3> QED BY <1>3, <1>13, <2>1, <3>1, LibraryUnloaded DEF Library!Deinit
  <2>5. Counts'
    BY <1>3, <1>4, <2>1, <2>3, <2>4 DEF Counts
  <2> QED BY <1>1, <1>5, <2>1, <2>2, <2>4, <2>5
<1>14. CASE Library!OpenDialog
  <2> DEFINE ok == Library!DynLoadPulse(Library!Library).ok
  <2>1. /\ library_dialog = "closed" /\ library_dialog' = (IF ok THEN "open" ELSE "closed")
        /\ UNCHANGED <<installed, stage, made, alive, used>>
    BY <1>14 DEF Library!OpenDialog
  <2>2. ok <=> installed = LibFunctions
    BY LibraryLoads
  <2>3. /\ Typed
        /\ installed' = LibFunctions =>
             /\ refCntPulse' >= Cardinality(alive) + 1 + Cardinality(Holders)
             /\ refCntPulse' > 0 /\ library_loaded' = LibFunctions /\ pulse_handle'
        /\ installed' # LibFunctions =>
             library_loaded' = 0 /\ ~pulse_handle' /\ (installed' # 0 => refCntPulse' = 0)
    <3>1. 1 \in Nat /\ (Cardinality(alive) + 1 + Cardinality(Holders) <= refCntPulse + 1 \/ installed # LibFunctions)
      BY <1>2, <1>3, <1>4
    <3> QED BY <1>3, <1>14, <2>1, <3>1, LibraryLoaded DEF Library!OpenDialog
  <2>4. Holders' = Holders /\ ObjectsAre(alive', made', stage') /\ library_dialog' \in {"closed", "open"}
    BY <1>1, <2>1 DEF Holders
  <2> HIDE DEF ok
  <2>5. Counts'
    BY <1>3, <1>4, <2>1, <2>2, <2>3, <2>4 DEF Counts
  <2> QED BY <1>1, <1>5, <2>1, <2>3, <2>4, <2>5
<1>15. CASE Library!CloseDialog
  <2>1. /\ library_dialog = "open" /\ library_dialog' = "closed" /\ used' = Library!Call
        /\ UNCHANGED <<installed, stage, made, alive>>
    BY <1>15 DEF Library!CloseDialog
  <2>2. installed = LibFunctions /\ refCntPulse >= Cardinality(alive) + 1 + Cardinality(Holders)
        /\ library_loaded = LibFunctions
    BY <1>2, <1>3, <1>4, <2>1
  <2>3. UsedWell(used') /\ ObjectsAre(alive', made', stage') /\ Holders' = Holders
    BY <1>1, <2>1, <2>2 DEF Library!Call, UsedWell, Holders
  <2>4. Typed /\ refCntPulse' >= Cardinality(alive) + 0 + Cardinality(Holders)
        /\ IF refCntPulse' = 0 THEN library_loaded' = 0 /\ ~pulse_handle'
                               ELSE library_loaded' = LibFunctions /\ pulse_handle'
    <3>1. 0 \in Nat /\ Cardinality(alive) + 0 + Cardinality(Holders) < refCntPulse
      BY <1>2, <1>3, <2>2
    <3> QED BY <1>3, <1>15, <2>1, <2>2, <3>1, LibraryUnloaded DEF Library!CloseDialog
  <2>5. Counts'
    BY <1>3, <2>1, <2>2, <2>3, <2>4 DEF Counts
  <2> QED BY <1>1, <1>5, <2>1, <2>3, <2>4, <2>5
<1> QED BY <1>7, <1>8, <1>9, <1>10, <1>11, <1>12, <1>13, <1>14, <1>15 DEF Library!Next, Library!Device

LEMMA LibraryBegins == Library!Init => LibraryIInv
<1> SUFFICES ASSUME Library!Init PROVE LibraryIInv
  OBVIOUS
<1>1. /\ installed \in LibInstalled /\ pulse_handle = FALSE /\ library_loaded = 0 /\ refCntPulse = 0
      /\ stage = [d \in LibUsers |-> "none"] /\ made = [d \in LibUsers |-> 0] /\ alive = {}
      /\ library_dialog = "closed" /\ used = "nothing"
  BY DEF Library!Init
<1>2. Holders = {}
  BY <1>1 DEF Holders
<1>3. Library!TypeOK
  <2>1. library_loaded \in 0..LibFunctions /\ refCntPulse \in 0 .. LibMaxCount + 1 /\ 0 \in 0..LibObjects
    BY <1>1, LibraryTypes
  <2>2. pulse_handle \in BOOLEAN
    BY <1>1
  <2> QED BY <1>1, <2>1, <2>2 DEF Library!TypeOK
<1>4. Counts
  BY <1>1, <1>2, FS_EmptySet DEF Counts
<1> QED BY <1>1, <1>3, <1>4 DEF LibraryIInv, Library!UsedIsLoaded

LEMMA LibraryKeeps ==
  LibraryIInv => Library!TypeOK /\ Library!UsedIsLoaded /\ Library!CountCovers /\ Library!WholeOrNothing
<1> SUFFICES ASSUME LibraryIInv PROVE Library!CountCovers /\ Library!WholeOrNothing
  BY DEF LibraryIInv
<1>1. Counts /\ refCntPulse \in Nat /\ LibFunctions > 1 /\ LibFunctions \in Nat
  BY LibraryTyped
<1>2. Cardinality(alive) \in Nat /\ Cardinality(Holders) \in Nat
  BY LibrarySets
<1>3. Library!CountCovers
  <2>1. Library!Users = Cardinality(alive) + (IF library_dialog = "open" THEN 1 ELSE 0)
    BY LibraryCardinality DEF Library!Users
  <2>2. CASE installed = LibFunctions
    BY <1>1, <1>2, <2>1, <2>2 DEF Counts, Library!CountCovers
  <2>3. CASE installed # LibFunctions
    BY <1>1, <1>2, <2>1, <2>3, FS_EmptySet DEF Counts, Library!CountCovers
  <2> QED BY <2>2, <2>3
<1>4. Library!WholeOrNothing
  BY <1>1 DEF Counts, Library!WholeOrNothing
<1> QED BY <1>3, <1>4

-----------------------------------------------------------------------------
(* The life of the plugin.                                                 *)

\* What a board is made of.  A device that was freed has no type.
LifeRecords == [type : LifeTypes \cup {None}, opens : Nat, data : LifeData \cup {Life!Garbage}]
LifeBits == SUBSET {"CCS"}
LifeBoards == [heap : [LifeObjects -> LifeRecords], dev : [Life!Ports -> LifeObjects \cup {Null}],
               port : [Life!Ports -> [dev : LifeObjects \cup {Null}, ctrl : LifeBits]],
               ep : [obj : LifeObjects \cup {Null, Life!Lost}, kind : Life!Kinds \cup {"none"}]]
LifeChoices == [Life!Ports -> LifeTypes \cup {None}]
\* Every device belongs to one port, the root hub agrees, and the packet's
\* endpoint is one of a port's device or lost.
LifeOwned(b) ==
  /\ b \in LifeBoards
  /\ \A p \in Life!Ports : b.port[p].dev = b.dev[p]
  /\ \A o \in LifeObjects : IF \E p \in Life!Ports : b.dev[p] = o THEN b.heap[o].type \in LifeTypes
                            ELSE b.heap[o] = Life!Freed
  /\ b.dev[0] = b.dev[1] => b.dev[0] = Null
  /\ b.ep.obj \in LifeObjects => \E p \in Life!Ports : b.ep.obj = b.dev[p]
LifeAt(b, p) == b.heap[b.dev[p]]
LifeOpens(b, p, n) == b.dev[p] # Null => LifeAt(b, p).opens = n
LifeShows(b, p) == "CCS" \in b.port[p].ctrl <=> b.dev[p] # Null
\* The endpoint stays, or is lost with its device.
LifeEp(b, c) == c.ep = b.ep \/ (b.ep.obj \in LifeObjects /\ c.ep = Life!LostEp)
\* A function that works on one port leaves the other.
LifeSame(b, c, p) ==
  /\ LifeEp(b, c)
  /\ \A q \in Life!Ports \ {p} : /\ c.dev[q] = b.dev[q] /\ c.port[q] = b.port[q]
                                 /\ b.dev[q] # Null => LifeAt(c, q) = LifeAt(b, q)

LEMMA LifeConstantTypes ==
  /\ Null \notin LifeObjects /\ Life!Lost \notin LifeObjects /\ Null # Life!Lost
  /\ None \notin LifeTypes /\ LifeData # {} /\ Life!Garbage \notin LifeData
  /\ Life!Ports = {0, 1} /\ LifeReattached \subseteq LifeTypes
  /\ LifeConfs \subseteq LifeChoices /\ LifeDriven \subseteq Life!Ports
BY LifeAssumption DEF Life!PluginLifeConstants, Life!Ports, LifeChoices

\* There is room for a device beside the other port's.
LEMMA LifeRoom == \A x : \E o \in LifeObjects : o # x
<1> SUFFICES ASSUME NEW x, \A o \in LifeObjects : o = x PROVE FALSE
  OBVIOUS
<1>1. IsFiniteSet(LifeObjects) /\ Cardinality(LifeObjects) >= 2
  BY LifeAssumption DEF Life!PluginLifeConstants, Life!IsFiniteSet, IsFiniteSet, Life!Cardinality, Cardinality
<1>2. IsFiniteSet({x}) /\ Cardinality({x}) = 1
  BY FS_Singleton
<1>3. Cardinality(LifeObjects) <= Cardinality({x})
  BY <1>2, FS_Subset
<1>4. Cardinality(LifeObjects) \in Nat
  BY <1>1, FS_CardinalityType
<1> QED BY <1>1, <1>2, <1>3, <1>4

LEMMA LifeBoardIs ==
  ASSUME NEW b \in LifeBoards
  PROVE  b = [heap |-> b.heap, dev |-> b.dev, port |-> b.port, ep |-> b.ep]
BY DEF LifeBoards

\* The device of one port and what the root hub says of it change.
LEMMA LifeChangeOne ==
  ASSUME NEW b, LifeOwned(b), NEW p \in Life!Ports, b.dev[p] # Null,
         NEW r \in LifeRecords, r.type \in LifeTypes, NEW ctrl \in LifeBits,
         NEW c, c = [heap |-> [b.heap EXCEPT ![b.dev[p]] = r], dev |-> b.dev,
                     port |-> [b.port EXCEPT ![p] = [dev |-> b.dev[p], ctrl |-> ctrl]], ep |-> b.ep]
  PROVE  /\ LifeOwned(c) /\ LifeSame(b, c, p) /\ c.dev = b.dev /\ c.ep = b.ep
         /\ LifeAt(c, p) = r /\ c.port[p].ctrl = ctrl
<1> USE LifeConstantTypes
<1> DEFINE o == b.dev[p]
           at == [dev |-> o, ctrl |-> ctrl]
<1>1. o \in LifeObjects /\ at \in [dev : LifeObjects \cup {Null}, ctrl : LifeBits]
  BY DEF LifeOwned, LifeBoards
<1>2. /\ c.heap = [b.heap EXCEPT ![o] = r] /\ c.port = [b.port EXCEPT ![p] = at]
      /\ c.dev = b.dev /\ c.ep = b.ep /\ c \in LifeBoards
  BY <1>1 DEF LifeOwned, LifeBoards
<1>3. /\ c.heap[o] = r /\ c.port[p] = at
      /\ \A x \in LifeObjects : x # o => c.heap[x] = b.heap[x]
      /\ \A q \in Life!Ports : q # p => c.port[q] = b.port[q]
  BY <1>1, <1>2 DEF LifeOwned, LifeBoards
<1>4. LifeOwned(c)
  BY <1>1, <1>2, <1>3 DEF LifeOwned
<1> QED BY <1>1, <1>2, <1>3, <1>4 DEF LifeSame, LifeEp, LifeAt, LifeOwned, LifeBoards

LEMMA LifeOpenOne ==
  ASSUME NEW b, LifeOwned(b), NEW p \in Life!Ports, NEW c, c = Life!OpenDevice(b, p), LifeOpens(b, p, 0)
  PROVE  /\ LifeOwned(c) /\ LifeSame(b, c, p) /\ c.dev = b.dev /\ c.port = b.port /\ c.ep = b.ep
         /\ b.dev[p] # Null => LifeAt(c, p) = [LifeAt(b, p) EXCEPT !.opens = 1]
<1> USE LifeConstantTypes
<1>1. CASE b.dev[p] = Null
  BY <1>1 DEF Life!OpenDevice, LifeSame, LifeEp
<1>2. CASE b.dev[p] # Null
  <2> DEFINE o == b.dev[p]
             r == [b.heap[o] EXCEPT !.opens = 1]
  <2>1. o \in LifeObjects /\ b.heap[o] \in LifeRecords /\ b.heap[o].opens = 0 /\ b.heap[o].type \in LifeTypes
    BY <1>2 DEF LifeOwned, LifeBoards, LifeOpens, LifeAt
  <2>2. r \in LifeRecords /\ r.type \in LifeTypes
    BY <2>1 DEF LifeRecords
  <2>3. c = [b EXCEPT !.heap = [b.heap EXCEPT ![o] = r]]
    BY <1>2, <2>1 DEF Life!OpenDevice, LifeOwned, LifeBoards, LifeRecords
  <2> HIDE DEF r
  <2>4. b.port = [b.port EXCEPT ![p] = [dev |-> o, ctrl |-> b.port[p].ctrl]] /\ b.port[p].ctrl \in LifeBits
    BY DEF LifeOwned, LifeBoards
  <2>5. c = [heap |-> [b.heap EXCEPT ![o] = r], dev |-> b.dev, port |-> b.port, ep |-> b.ep]
    <3>1. b = [heap |-> b.heap, dev |-> b.dev, port |-> b.port, ep |-> b.ep]
      BY LifeBoardIs DEF LifeOwned
    <3> QED BY <2>3, <3>1
  <2>6. LifeOwned(c) /\ LifeSame(b, c, p) /\ c.dev = b.dev /\ LifeAt(c, p) = r
    BY <1>2, <2>2, <2>4, <2>5, LifeChangeOne
  <2> QED BY <2>2, <2>5, <2>6 DEF LifeAt, r
<1> QED BY <1>1, <1>2

LEMMA LifeCloseOne ==
  ASSUME NEW b, LifeOwned(b), NEW p \in Life!Ports, NEW c, c = Life!CloseDevice(b, p)
  PROVE  /\ LifeOwned(c) /\ LifeSame(b, c, p) /\ c.dev = b.dev /\ c.port = b.port /\ c.ep = b.ep
         /\ b.dev[p] # Null => LifeAt(c, p) = [LifeAt(b, p) EXCEPT !.opens = 0]
<1> USE LifeConstantTypes
<1>1. CASE b.dev[p] = Null
  BY <1>1 DEF Life!CloseDevice, LifeSame, LifeEp
<1>2. CASE b.dev[p] # Null
  <2> DEFINE o == b.dev[p]
             r == [b.heap[o] EXCEPT !.opens = 0]
  <2>1. o \in LifeObjects /\ b.heap[o] \in LifeRecords /\ b.heap[o].type \in LifeTypes
    BY <1>2 DEF LifeOwned, LifeBoards
  <2>2. r \in LifeRecords /\ r.type \in LifeTypes
    BY <2>1 DEF LifeRecords
  <2>3. c = [b EXCEPT !.heap = [b.heap EXCEPT ![o] = r]]
    BY <1>2, <2>1 DEF Life!CloseDevice, LifeOwned, LifeBoards, LifeRecords
  <2> HIDE DEF r
  <2>4. b.port = [b.port EXCEPT ![p] = [dev |-> o, ctrl |-> b.port[p].ctrl]] /\ b.port[p].ctrl \in LifeBits
    BY DEF LifeOwned, LifeBoards
  <2>5. c = [heap |-> [b.heap EXCEPT ![o] = r], dev |-> b.dev, port |-> b.port, ep |-> b.ep]
    <3>1. b = [heap |-> b.heap, dev |-> b.dev, port |-> b.port, ep |-> b.ep]
      BY LifeBoardIs DEF LifeOwned
    <3> QED BY <2>3, <3>1
  <2>6. LifeOwned(c) /\ LifeSame(b, c, p) /\ c.dev = b.dev /\ LifeAt(c, p) = r
    BY <1>2, <2>2, <2>4, <2>5, LifeChangeOne
  <2> QED BY <2>2, <2>5, <2>6 DEF LifeAt, r
<1> QED BY <1>1, <1>2

LEMMA LifeDestroyOne ==
  ASSUME NEW b, LifeOwned(b), NEW p \in Life!Ports, NEW c, c = Life!DestroyDevice(b, p)
  PROVE  /\ LifeOwned(c) /\ LifeSame(b, c, p)
         /\ c.dev[p] = Null /\ c.port[p].ctrl = b.port[p].ctrl
<1> USE LifeConstantTypes
<1> DEFINE o == b.dev[p]
           u == Life!Unrealize(b, o)
           rest == [b.port EXCEPT ![p] = [b.port[p] EXCEPT !.dev = Null]]
<1>1. c = [u EXCEPT !.port[p].dev = Null, !.dev[p] = Null]
  BY DEF Life!DestroyDevice, LifeOwned
<1>2. /\ u \in LifeBoards /\ u.dev = b.dev /\ u.port = b.port
      /\ u.ep = IF o # Null /\ b.ep.obj = o THEN Life!LostEp ELSE b.ep
      /\ o # Null => u.heap[o] = Life!Freed
      /\ \A x \in LifeObjects : x # o => u.heap[x] = b.heap[x]
  <2>1. /\ Life!Freed \in LifeRecords
        /\ Life!LostEp \in [obj : LifeObjects \cup {Null, Life!Lost}, kind : Life!Kinds \cup {"none"}]
    BY DEF Life!Freed, LifeRecords, Life!Garbage, Life!LostEp
  <2>2. CASE o = Null
    BY <2>2 DEF Life!Unrealize, LifeOwned
  <2>3. CASE o # Null
    <3> DEFINE ep2 == IF b.ep.obj = o THEN Life!LostEp ELSE b.ep
               heap2 == [b.heap EXCEPT ![o] = Life!Freed]
    <3>1. o \in LifeObjects
      BY <2>3 DEF LifeOwned, LifeBoards
    <3>2. u = [[b EXCEPT !.heap = heap2] EXCEPT !.ep = ep2]
      <4>1. b.ep = [b EXCEPT !.heap = heap2].ep
        BY LifeBoardIs DEF LifeOwned
      <4> QED BY <2>3, <4>1 DEF Life!Unrealize
    <3>3. b = [heap |-> b.heap, dev |-> b.dev, port |-> b.port, ep |-> b.ep]
      BY LifeBoardIs DEF LifeOwned
    <3> HIDE DEF ep2, heap2, u
    <3>4. u = [heap |-> heap2, dev |-> b.dev, port |-> b.port, ep |-> ep2]
      BY <3>2, <3>3
    <3> QED BY <2>1, <2>3, <3>1, <3>4 DEF LifeOwned, LifeBoards, heap2, ep2
  <2> QED BY <2>2, <2>3
<1>3. c = [heap |-> u.heap, dev |-> [b.dev EXCEPT ![p] = Null], port |-> rest, ep |-> u.ep]
  <2>1. u = [heap |-> u.heap, dev |-> b.dev, port |-> b.port, ep |-> u.ep]
    BY <1>2, LifeBoardIs
  <2>2. [b.port EXCEPT ![p].dev = Null] = rest
    BY DEF LifeOwned, LifeBoards
  <2> HIDE DEF u
  <2>3. [u EXCEPT !.port[p].dev = Null] = [heap |-> u.heap, dev |-> b.dev, port |-> rest, ep |-> u.ep]
    BY <1>2, <2>1, <2>2
  <2>4. c = [[u EXCEPT !.port[p].dev = Null] EXCEPT !.dev[p] = Null]
    BY <1>1
  <2> HIDE DEF rest
  <2> QED BY <2>3, <2>4
<1>4. rest \in [Life!Ports -> [dev : LifeObjects \cup {Null}, ctrl : LifeBits]]
      /\ rest[p].dev = Null /\ rest[p].ctrl = b.port[p].ctrl /\ \A q \in Life!Ports : q # p => rest[q] = b.port[q]
  BY DEF LifeOwned, LifeBoards
<1> HIDE DEF u
<1>5. /\ c \in LifeBoards /\ c.heap = u.heap /\ c.ep = u.ep /\ c.port = rest /\ c.dev = [b.dev EXCEPT ![p] = Null]
  BY <1>2, <1>3, <1>4 DEF LifeBoards
<1>6. c.dev[p] = Null /\ \A q \in Life!Ports : q # p => c.dev[q] = b.dev[q]
  BY <1>2, <1>5 DEF LifeBoards, LifeOwned
<1> HIDE DEF rest
<1>7. LifeOwned(c)
  <2>1. c.ep.obj \in LifeObjects => \E q \in Life!Ports : c.ep.obj = c.dev[q]
    BY <1>2, <1>5, <1>6 DEF LifeOwned, Life!LostEp
  <2> QED BY <1>2, <1>4, <1>5, <1>6, <2>1 DEF LifeOwned
<1>8. LifeSame(b, c, p)
  <2>1. LifeEp(b, c)
    BY <1>2, <1>5 DEF LifeEp, LifeOwned, LifeBoards
  <2> QED BY <1>2, <1>4, <1>5, <1>6, <2>1 DEF LifeSame, LifeEp, LifeAt, LifeOwned, LifeBoards
<1> QED BY <1>4, <1>5, <1>6, <1>7, <1>8

\* A new device is attached to a port that is empty.
LifeMade(b, type, p, fails) == Life!Attach(Life!CreateDevice(b, type, p, p \in fails), p, FALSE)
LifeLoaded(b, type, p, fails) ==
  Life!Attach(Life!CreateDevice(b, type, p, p \in fails), p, type \notin LifeReattached)
LEMMA LifeMakeOne ==
  ASSUME NEW b, LifeOwned(b), NEW p \in Life!Ports, b.dev[p] = Null, NEW type \in LifeTypes \cup {None},
         NEW fails, NEW c, c = LifeMade(b, type, p, fails) \/ c = LifeLoaded(b, type, p, fails)
  PROVE  /\ LifeOwned(c) /\ LifeSame(b, c, p)
         /\ c.dev[p] = Null <=> type = None \/ p \in fails
         /\ c.dev[p] = Null => c.port[p] = b.port[p]
         /\ c.dev[p] # Null => /\ LifeAt(c, p).type = type /\ LifeAt(c, p).opens = 0
                               /\ "CCS" \in c.port[p].ctrl
<1> USE LifeConstantTypes
<1>1. CASE type = None \/ p \in fails
  <2>1. [b EXCEPT !.dev[p] = Null] = b
    <3>1. b \in LifeBoards /\ [b.dev EXCEPT ![p] = Null] = b.dev
      BY DEF LifeOwned, LifeBoards
    <3> QED BY <3>1 DEF LifeBoards
  <2>2. c = [b EXCEPT !.port[p].dev = Null]
    BY <1>1, <2>1, Zenon DEF LifeMade, LifeLoaded, Life!CreateDevice, Life!Attach, LifeOwned
  <2>3. c = b
    BY <2>2 DEF LifeOwned, LifeBoards
  <2> QED BY <1>1, <2>3 DEF LifeSame, LifeEp
<1>2. CASE ~(type = None \/ p \in fails)
  <2> DEFINE o == CHOOSE x \in LifeObjects : b.heap[x] = Life!Freed
             d == CHOOSE d \in LifeData : TRUE
             born == Life!Born(type, d)
             at == [dev |-> o, ctrl |-> b.port[p].ctrl \cup {"CCS"}]
  <2>1. o \in LifeObjects /\ b.heap[o] = Life!Freed
    <3>1. PICK q \in Life!Ports : q # p /\ Life!Ports = {p, q}
      OBVIOUS
    <3>2. PICK x \in LifeObjects : x # b.dev[q]
      BY LifeRoom
    <3>3. b.heap[x] = Life!Freed
      BY <3>1, <3>2 DEF LifeOwned
    <3> QED BY <3>2, <3>3
  <2>2. d \in LifeData
    OBVIOUS
  <2> HIDE DEF o, d
  <2>3. o # Null /\ \A q \in Life!Ports : b.dev[q] # o
    BY <2>1 DEF LifeOwned, Life!Freed
  <2>4. Life!CreateDevice(b, type, p, p \in fails)
          = [b EXCEPT !.heap[o] = Life!Born(type, d), !.dev[p] = o]
    BY <1>2 DEF Life!CreateDevice, o, d
  <2> DEFINE e == [b EXCEPT !.heap[o] = Life!Born(type, d), !.dev[p] = o]
             i == [e EXCEPT !.port[p].dev = o]
  <2>5. /\ e \in LifeBoards /\ e.port = b.port /\ e.ep = b.ep
        /\ e.heap = [b.heap EXCEPT ![o] = Life!Born(type, d)] /\ e.dev = [b.dev EXCEPT ![p] = o]
    <3>1. Life!Born(type, d) \in LifeRecords
      BY <1>2, <2>2 DEF LifeRecords, Life!Born
    <3> QED BY <2>1, <3>1 DEF LifeOwned, LifeBoards
  <2>6. e.dev[p] = o /\ e.port[p].dev = Null
    BY <2>5 DEF LifeOwned, LifeBoards
  <2> HIDE DEF e
  <2>7. c = Life!UsbAttach(i, p)
    BY <2>3, <2>4, <2>6, Zenon DEF LifeMade, LifeLoaded, Life!Attach, e
  <2>8. /\ i \in LifeBoards /\ i.heap = e.heap /\ i.dev = e.dev /\ i.ep = e.ep
        /\ i.port = [b.port EXCEPT ![p].dev = o]
    BY <2>1, <2>5 DEF LifeBoards
  <2>9. i.port[p] = [dev |-> o, ctrl |-> b.port[p].ctrl]
    BY <2>8 DEF LifeOwned, LifeBoards
  <2> HIDE DEF i
  <2>10. c = [i EXCEPT !.port = [i.port EXCEPT ![p] = at]]
    <3>1. i.port[p].ctrl = b.port[p].ctrl
      BY <2>9
    <3>2. [i.port[p] EXCEPT !.ctrl = b.port[p].ctrl \cup {"CCS"}] = at
      BY <2>9
    <3> QED BY <2>7, <2>8, <3>1, <3>2 DEF Life!UsbAttach, LifeBoards
  <2>11. born \in LifeRecords /\ at \in [dev : LifeObjects \cup {Null}, ctrl : LifeBits]
    <3>1. b.port[p].ctrl \in LifeBits
      BY DEF LifeOwned, LifeBoards
    <3> QED BY <1>2, <2>1, <2>2, <3>1 DEF LifeRecords, LifeBits, Life!Born
  <2>12. /\ c \in LifeBoards /\ c.ep = b.ep
         /\ c.heap = [b.heap EXCEPT ![o] = born] /\ c.dev = [b.dev EXCEPT ![p] = o] /\ c.port = [b.port EXCEPT ![p] = at]
    <3>1. i = [heap |-> i.heap, dev |-> i.dev, port |-> i.port, ep |-> i.ep]
      BY <2>8, LifeBoardIs
    <3>2. i.heap = [b.heap EXCEPT ![o] = born]
      BY <2>5, <2>8
    <3>3. [i.port EXCEPT ![p] = at] = [b.port EXCEPT ![p] = at]
      BY <2>8 DEF LifeOwned, LifeBoards
    <3>4. c = [heap |-> [b.heap EXCEPT ![o] = born], dev |-> [b.dev EXCEPT ![p] = o],
               port |-> [b.port EXCEPT ![p] = at], ep |-> b.ep]
      BY <2>5, <2>8, <2>10, <3>1, <3>2, <3>3
    <3> QED BY <2>1, <2>11, <3>4 DEF LifeOwned, LifeBoards
  <2>13. /\ c.heap[o] = born /\ c.dev[p] = o /\ c.port[p] = at
         /\ \A q \in Life!Ports : q # p => c.dev[q] = b.dev[q] /\ c.port[q] = b.port[q]
         /\ \A x \in LifeObjects : x # o => c.heap[x] = b.heap[x]
    BY <2>1, <2>12, ZenonT(40) DEF LifeOwned, LifeBoards
  <2>14. LifeOwned(c)
    <3>1. born.type \in LifeTypes
      BY <1>2 DEF Life!Born
    <3>2. c.ep.obj \in LifeObjects => \E q \in Life!Ports : c.ep.obj = c.dev[q]
      BY <2>12, <2>13 DEF LifeOwned
    <3> HIDE DEF born
    <3> QED BY <2>1, <2>3, <2>12, <2>13, <3>1, <3>2 DEF LifeOwned
  <2>15. LifeSame(b, c, p)
    BY <2>1, <2>3, <2>12, <2>13 DEF LifeSame, LifeEp, LifeAt, LifeOwned, LifeBoards
  <2> QED BY <1>2, <2>3, <2>13, <2>14, <2>15 DEF LifeAt, Life!Born
<1> QED BY <1>1, <1>2

LEMMA LifeMakeLoaded ==
  ASSUME NEW b, LifeOwned(b), NEW p \in Life!Ports, b.dev[p] = Null, NEW type \in LifeTypes \cup {None},
         NEW fails, NEW c, c = LifeLoaded(b, type, p, fails)
  PROVE  /\ LifeOwned(c) /\ LifeSame(b, c, p)
         /\ c.dev[p] = Null <=> type = None \/ p \in fails
         /\ c.dev[p] = Null => c.port[p] = b.port[p]
         /\ c.dev[p] # Null => /\ LifeAt(c, p).type = type /\ LifeAt(c, p).opens = 0
                               /\ "CCS" \in c.port[p].ctrl
BY LifeMakeOne

LEMMA LifeReplaceOne ==
  ASSUME NEW b, LifeOwned(b), NEW p \in Life!Ports, b.dev[p] = Null, NEW cs \in LifeChoices,
         NEW fails \in SUBSET Life!Ports, NEW c, c = Life!Replace(b, p, cs, fails)
  PROVE  /\ LifeOwned(c) /\ LifeSame(b, c, p)
         /\ c.dev[p] = Null <=> cs[p] = None \/ p \in fails
         /\ c.dev[p] = Null => c.port[p] = b.port[p]
         /\ c.dev[p] # Null => LifeAt(c, p).type = cs[p] /\ "CCS" \in c.port[p].ctrl
         /\ LifeOpens(c, p, IF usb_opened THEN 1 ELSE 0)
<1> DEFINE fresh == LifeMade(b, cs[p], p, fails)
<1>1. cs[p] \in LifeTypes \cup {None}
  BY DEF LifeChoices
<1>2. /\ LifeOwned(fresh) /\ LifeSame(b, fresh, p)
      /\ fresh.dev[p] = Null <=> cs[p] = None \/ p \in fails
      /\ fresh.dev[p] = Null => fresh.port[p] = b.port[p]
      /\ fresh.dev[p] # Null => /\ LifeAt(fresh, p).type = cs[p] /\ LifeAt(fresh, p).opens = 0
                               /\ "CCS" \in fresh.port[p].ctrl
  BY <1>1, LifeMakeOne
<1>3. c = IF usb_opened THEN Life!OpenDevice(fresh, p) ELSE fresh
  BY DEF Life!Replace, LifeMade
<1> HIDE DEF fresh
<1>4. CASE ~usb_opened
  BY <1>2, <1>3, <1>4 DEF LifeOpens
<1>5. CASE usb_opened
  <2>1. LifeOpens(fresh, p, 0)
    BY <1>2 DEF LifeOpens
  <2>2. /\ LifeOwned(c) /\ LifeSame(fresh, c, p) /\ c.dev = fresh.dev /\ c.port = fresh.port
        /\ fresh.dev[p] # Null => LifeAt(c, p) = [LifeAt(fresh, p) EXCEPT !.opens = 1]
    BY <1>2, <1>3, <1>5, <2>1, LifeOpenOne
  <2>3. fresh.dev[p] # Null => LifeAt(fresh, p) \in LifeRecords
    BY <1>2 DEF LifeOwned, LifeBoards, LifeAt
  <2>4. fresh.dev[p] # Null => LifeAt(c, p).opens = 1 /\ LifeAt(c, p).type = LifeAt(fresh, p).type
    BY <2>2, <2>3 DEF LifeRecords
  <2>5. LifeSame(b, c, p)
    BY <1>2, <2>2 DEF LifeSame, LifeEp
  <2> QED BY <1>2, <1>5, <2>2, <2>4, <2>5 DEF LifeOpens
<1> QED BY <1>4, <1>5

LEMMA LifeDestroyAll ==
  ASSUME NEW b, LifeOwned(b), NEW c, c = Life!DestroyDevices(b)
  PROVE  /\ LifeOwned(c) /\ LifeEp(b, c)
         /\ \A p \in Life!Ports : c.dev[p] = Null /\ c.port[p].ctrl = b.port[p].ctrl
<1> USE LifeConstantTypes
<1>1. PICK b1 : b1 = Life!CloseDevice(b, 0)
  OBVIOUS
<1>2. LifeOwned(b1) /\ LifeSame(b, b1, 0) /\ b1.port = b.port
  BY <1>1, LifeCloseOne
<1>3. PICK b2 : b2 = Life!DestroyDevice(b1, 0)
  OBVIOUS
<1>4. LifeOwned(b2) /\ LifeSame(b1, b2, 0) /\ b2.dev[0] = Null /\ b2.port[0].ctrl = b1.port[0].ctrl
  BY <1>2, <1>3, LifeDestroyOne
<1>5. PICK b3 : b3 = Life!CloseDevice(b2, 1)
  OBVIOUS
<1>6. LifeOwned(b3) /\ LifeSame(b2, b3, 1) /\ b3.port = b2.port
  BY <1>4, <1>5, LifeCloseOne
<1>7. c = Life!DestroyDevice(b3, 1)
  BY <1>1, <1>3, <1>5 DEF Life!DestroyDevices
<1>8. LifeOwned(c) /\ LifeSame(b3, c, 1) /\ c.dev[1] = Null /\ c.port[1].ctrl = b3.port[1].ctrl
  BY <1>6, <1>7, LifeDestroyOne
<1> QED BY <1>2, <1>4, <1>6, <1>8 DEF LifeSame, LifeEp

LEMMA LifeCreateAll ==
  ASSUME NEW b, LifeOwned(b), NEW cs \in LifeChoices, NEW fails \in SUBSET Life!Ports,
         NEW c, c = Life!Created(b, cs, fails)
  PROVE  /\ LifeOwned(c) /\ LifeEp(b, c)
         /\ \A p \in Life!Ports : /\ c.dev[p] = Null <=> cs[p] = None \/ p \in fails
                                  /\ c.dev[p] = Null => c.port[p].ctrl = b.port[p].ctrl
                                  /\ c.dev[p] # Null => LifeAt(c, p).type = cs[p] /\ "CCS" \in c.port[p].ctrl
                                  /\ LifeOpens(c, p, IF usb_opened THEN 1 ELSE 0)
<1> USE LifeConstantTypes
<1>1. PICK b1 : b1 = Life!DestroyDevices(b)
  OBVIOUS
<1>2. /\ LifeOwned(b1) /\ LifeEp(b, b1) /\ b1.dev[0] = Null /\ b1.dev[1] = Null
      /\ b1.port[0].ctrl = b.port[0].ctrl /\ b1.port[1].ctrl = b.port[1].ctrl
  BY <1>1, LifeDestroyAll
<1>3. PICK b2 : b2 = Life!Replace(b1, 0, cs, fails)
  OBVIOUS
<1>4. /\ LifeOwned(b2) /\ LifeSame(b1, b2, 0)
      /\ b2.dev[0] = Null <=> cs[0] = None \/ 0 \in fails
      /\ b2.dev[0] = Null => b2.port[0] = b1.port[0]
      /\ b2.dev[0] # Null => LifeAt(b2, 0).type = cs[0] /\ "CCS" \in b2.port[0].ctrl
      /\ LifeOpens(b2, 0, IF usb_opened THEN 1 ELSE 0)
  BY <1>2, <1>3, LifeReplaceOne
<1>5. c = Life!Replace(b2, 1, cs, fails)
  BY <1>1, <1>3 DEF Life!Created
<1>6. b2.dev[1] = Null /\ b2.port[1] = b1.port[1]
  BY <1>2, <1>4 DEF LifeSame, LifeEp
<1>7. /\ LifeOwned(c) /\ LifeSame(b2, c, 1)
      /\ c.dev[1] = Null <=> cs[1] = None \/ 1 \in fails
      /\ c.dev[1] = Null => c.port[1] = b2.port[1]
      /\ c.dev[1] # Null => LifeAt(c, 1).type = cs[1] /\ "CCS" \in c.port[1].ctrl
      /\ LifeOpens(c, 1, IF usb_opened THEN 1 ELSE 0)
  BY <1>4, <1>5, <1>6, LifeReplaceOne
<1>8. /\ c.dev[0] = b2.dev[0] /\ c.port[0] = b2.port[0] /\ LifeEp(b, c)
      /\ b2.dev[0] # Null => LifeAt(c, 0) = LifeAt(b2, 0)
  BY <1>2, <1>4, <1>7 DEF LifeSame, LifeEp
<1>9. LifeOpens(c, 0, IF usb_opened THEN 1 ELSE 0)
  BY <1>4, <1>8 DEF LifeOpens
<1> QED BY <1>2, <1>4, <1>6, <1>7, <1>8, <1>9

-----------------------------------------------------------------------------
(* Saved states.                                                           *)

LifeSaves == [index : LifeChoices, size : [Life!Ports -> 0..1], dev : [Life!Ports -> LifeRecords],
              ctrl : [Life!Ports -> LifeBits], owner : 0..2, kind : Life!Kinds \cup {"none"}]
\* What a saved state holds of a port: nothing where there was no device, and as
\* much as the device saves where it was the configured one.
LifeFits(p) ==
  /\ Life!saved.dev[p].type = None <=> Life!saved.dev[p] = Life!Freed
  /\ Life!Sound(p) /\ Life!saved.index[p] # None => Life!saved.size[p] = Life!FreezeSize(Life!saved.index[p])
\* A port before and after one turn of the loop, where the device that is there
\* can be relied on.
LifeFit(b, cs, p) ==
  Life!Sound(p) /\ (cs[p] = Life!saved.index[p] => b.dev[p] = Null \/ LifeAt(b, p).type = cs[p])
LifeGap(b, cs, p, fails) == IF cs[p] = Life!saved.index[p] THEN b.dev[p] = Null ELSE p \in fails
LifeBrought(c, p) ==
  c.dev[p] # Null => /\ LifeOpens(c, p, 1)
                     /\ LifeAt(c, p).type = Life!saved.index[p]
                     /\ Life!saved.index[p] \notin LifeSizeless => LifeAt(c, p).data = Life!saved.dev[p].data

LEMMA LifeAttached ==
  ASSUME NEW b \in LifeBoards, NEW p \in Life!Ports
  PROVE  /\ Life!UsbAttach(b, p) =
              [heap |-> b.heap, dev |-> b.dev, ep |-> b.ep, port |->
                 [b.port EXCEPT ![p] = [dev |-> b.port[p].dev, ctrl |-> b.port[p].ctrl \cup {"CCS"}]]]
         /\ Life!UsbDetach(b, p) =
              [heap |-> b.heap, dev |-> b.dev, ep |-> b.ep, port |->
                 [b.port EXCEPT ![p] = [dev |-> b.port[p].dev, ctrl |-> b.port[p].ctrl \ {"CCS"}]]]
<1>1. b = [heap |-> b.heap, dev |-> b.dev, port |-> b.port, ep |-> b.ep]
  BY LifeBoardIs
<1>2. ASSUME NEW x
      PROVE  [b EXCEPT !.port[p].ctrl = x] = [heap |-> b.heap, dev |-> b.dev, ep |-> b.ep,
               port |-> [b.port EXCEPT ![p] = [dev |-> b.port[p].dev, ctrl |-> x]]]
  <2> DEFINE q == [b.port EXCEPT ![p].ctrl = x]
             r == [b.port EXCEPT ![p] = [dev |-> b.port[p].dev, ctrl |-> x]]
  <2>1. b.port[p] \in [dev : LifeObjects \cup {Null}, ctrl : LifeBits]
    BY DEF LifeBoards
  <2>2. [b.port[p] EXCEPT !.ctrl = x] = [dev |-> b.port[p].dev, ctrl |-> x]
    BY <2>1
  <2>3. q = r
    BY <2>2
  <2>4. [b EXCEPT !.port[p].ctrl = x] = [b EXCEPT !.port = q]
    OBVIOUS
  <2> HIDE DEF q, r
  <2>5. [b EXCEPT !.port = q] = [heap |-> b.heap, dev |-> b.dev, ep |-> b.ep, port |-> q]
    BY <1>1
  <2> QED BY <2>3, <2>4, <2>5 DEF r
<1> QED BY <1>2 DEF Life!UsbAttach, Life!UsbDetach

LEMMA LifeRestoreOne ==
  ASSUME NEW b, LifeOwned(b), NEW p \in Life!Ports, b.dev[p] # Null, Life!saved \in LifeSaves,
         NEW type, NEW c, c = Life!Restored(b, p, type)
  PROVE  /\ LifeOwned(c) /\ LifeSame(b, c, p) /\ c.dev = b.dev
         /\ LifeAt(c, p).type = LifeAt(b, p).type /\ LifeAt(c, p).opens = LifeAt(b, p).opens
         /\ Life!FreezeSize(type) # 0 /\ LifeAt(b, p).type = type => LifeAt(c, p).data = Life!saved.dev[p].data
         /\ "CCS" \in b.port[p].ctrl => "CCS" \in c.port[p].ctrl
<1> USE LifeConstantTypes
<1> DEFINE o == b.dev[p]
           was == Life!saved.dev[p]
           data == IF Life!FreezeSize(type) = 0 THEN b.heap[o].data
                   ELSE IF b.heap[o].type = type THEN was.data ELSE Life!Garbage
           r == [b.heap[o] EXCEPT !.data = data]
           ctrl == b.port[p].ctrl
           ctrl2 == (ctrl \ {"CCS"}) \cup {"CCS"}
           read == [b EXCEPT !.heap[o].data = data]
<1>1. /\ o \in LifeObjects /\ b.heap[o] \in LifeRecords /\ b.heap[o].type \in LifeTypes /\ was \in LifeRecords
      /\ b.port[p] = [dev |-> o, ctrl |-> ctrl] /\ ctrl \in LifeBits
  BY DEF LifeOwned, LifeBoards, LifeSaves
<1>2. data \in LifeData \cup {Life!Garbage}
  BY <1>1 DEF LifeRecords
<1> HIDE DEF data, was
<1>3. /\ r \in LifeRecords /\ r.type = b.heap[o].type /\ r.opens = b.heap[o].opens /\ r.data = data
      /\ ctrl2 \in LifeBits
  BY <1>1, <1>2 DEF LifeRecords, LifeBits
<1> HIDE DEF r
<1> DEFINE h == [b.heap EXCEPT ![o] = r]
<1>4. read = [heap |-> h, dev |-> b.dev, port |-> b.port, ep |-> b.ep]
  <2>1. b = [heap |-> b.heap, dev |-> b.dev, port |-> b.port, ep |-> b.ep]
    BY LifeBoardIs DEF LifeOwned
  <2>2. [b.heap EXCEPT ![o].data = data] = h
    BY DEF r
  <2> HIDE DEF h
  <2> QED BY <2>1, <2>2
<1>5. c = IF type \in LifeReattached THEN Life!UsbAttach(Life!UsbDetach(read, p), p) ELSE read
  BY DEF Life!Restored, data, was
<1> HIDE DEF read
<1>6. CASE type \notin LifeReattached
  <2>1. b.port = [b.port EXCEPT ![p] = [dev |-> o, ctrl |-> ctrl]]
    BY <1>1 DEF LifeOwned, LifeBoards
  <2> HIDE DEF ctrl
  <2>3. LifeOwned(c) /\ LifeSame(b, c, p) /\ c.dev = b.dev /\ LifeAt(c, p) = r /\ c.port[p].ctrl = ctrl
    BY <1>1, <1>3, <1>4, <1>5, <1>6, <2>1, LifeChangeOne
  <2> QED BY <1>3, <2>3 DEF LifeAt, data, was, ctrl
<1>7. CASE type \in LifeReattached
  <2> DEFINE off == [dev |-> o, ctrl |-> ctrl \ {"CCS"}]
             q1 == [b.port EXCEPT ![p] = off]
             q2 == [b.port EXCEPT ![p] = [dev |-> o, ctrl |-> ctrl2]]
             e == [heap |-> h, dev |-> b.dev, port |-> q1, ep |-> b.ep]
  <2>1. Life!UsbDetach(read, p) = e
    <3>1. read \in LifeBoards /\ read.heap = h /\ read.dev = b.dev /\ read.port = b.port /\ read.ep = b.ep
      BY <1>1, <1>3, <1>4 DEF LifeOwned, LifeBoards
    <3>2. b.port[p].dev = o /\ b.port[p].ctrl = ctrl
      BY <1>1
    <3> HIDE DEF h
    <3> QED BY <3>1, <3>2, LifeAttached
  <2>2. Life!UsbAttach(e, p) = [heap |-> h, dev |-> b.dev, port |-> q2, ep |-> b.ep]
    <3>1. off \in [dev : LifeObjects \cup {Null}, ctrl : LifeBits]
      BY <1>1 DEF LifeBits
    <3>2. e \in LifeBoards
      BY <1>1, <1>3, <3>1 DEF LifeOwned, LifeBoards
    <3>3. q1[p] = off /\ [q1 EXCEPT ![p] = [dev |-> o, ctrl |-> ctrl2]] = q2
      BY DEF LifeOwned, LifeBoards
    <3>4. e.heap = h /\ e.dev = b.dev /\ e.port = q1 /\ e.ep = b.ep
      OBVIOUS
    <3>5. e.port[p].dev = o /\ e.port[p].ctrl \cup {"CCS"} = ctrl2
      BY <3>3, <3>4
    <3> HIDE DEF h, q1, q2, e, ctrl2, off
    <3> QED BY <3>2, <3>3, <3>4, <3>5, LifeAttached
  <2> HIDE DEF ctrl2, e
  <2>3. LifeOwned(c) /\ LifeSame(b, c, p) /\ c.dev = b.dev /\ LifeAt(c, p) = r /\ c.port[p].ctrl = ctrl2
    BY <1>1, <1>3, <1>5, <1>7, <2>1, <2>2, LifeChangeOne
  <2> QED BY <1>3, <2>3 DEF LifeAt, data, was, ctrl2
<1> QED BY <1>6, <1>7

\* One turn of the loop that loads the devices.
LEMMA LifeLoadOne ==
  ASSUME NEW b, LifeOwned(b), NEW p \in Life!Ports, LifeOpens(b, p, 0), NEW cs \in LifeChoices, NEW stop \in BOOLEAN,
         Life!saved \in LifeSaves, LifeFits(p), NEW fails,
         NEW n, n = Life!LoadDevice([b |-> b, conf |-> cs, stop |-> stop], p, fails)
  PROVE  /\ n = [b |-> n.b, conf |-> n.conf, stop |-> n.stop] /\ n.stop \in BOOLEAN
         /\ n.conf \in LifeChoices /\ \A q \in Life!Ports \ {p} : n.conf[q] = cs[q]
         /\ LifeOwned(n.b) /\ LifeSame(b, n.b, p)
         /\ LifeOpens(n.b, p, 0) \/ LifeOpens(n.b, p, 1)
         /\ ~stop /\ Life!Sound(p) => ~n.stop
         /\ n.b.dev[p] = Null => n.b.port[p].ctrl = b.port[p].ctrl
         /\ "CCS" \in b.port[p].ctrl => "CCS" \in n.b.port[p].ctrl
         /\ ~stop /\ LifeFit(b, cs, p) =>
              /\ LifeBrought(n.b, p)
              /\ n.b.dev[p] = Null <=> Life!saved.index[p] = None \/ LifeGap(b, cs, p, fails)
<1> USE LifeConstantTypes
<1> DEFINE m == [b |-> b, conf |-> cs, stop |-> stop]
           index == Life!saved.index[p]
           gone == Life!DestroyDevice(b, p)
           b1 == IF index = cs[p] THEN b ELSE IF index = None THEN gone ELSE LifeLoaded(gone, index, p, fails)
           cs1 == IF index = cs[p] \/ index = None THEN cs ELSE [cs EXCEPT ![p] = index]
           k == [b |-> b1, conf |-> cs1, stop |-> stop]
           b2 == Life!Restored(b1, p, index)
           b3 == Life!OpenDevice(b2, p)
<1>1. index \in LifeTypes \cup {None}
  BY DEF LifeSaves, LifeChoices
<1>2. cs1 \in LifeChoices /\ \A q \in Life!Ports \ {p} : cs1[q] = cs[q]
  BY <1>1 DEF LifeChoices
<1>3. index # None => cs1[p] = index
  BY <1>1 DEF LifeChoices
<1>4. LifeOwned(gone) /\ LifeSame(b, gone, p) /\ gone.dev[p] = Null /\ gone.port[p].ctrl = b.port[p].ctrl
  BY LifeDestroyOne
<1> HIDE DEF gone, index
<1>5. /\ LifeOwned(b1) /\ LifeSame(b, b1, p) /\ LifeOpens(b1, p, 0)
      /\ b1.dev[p] = Null => b1.port[p].ctrl = b.port[p].ctrl
      /\ "CCS" \in b.port[p].ctrl => "CCS" \in b1.port[p].ctrl
      /\ LifeFit(b, cs, p) =>
           /\ b1.dev[p] = Null <=> index = None \/ LifeGap(b, cs, p, fails)
           /\ b1.dev[p] # Null => LifeAt(b1, p).type = index
  <2>1. CASE index = cs[p]
    <3>1. b.dev[p] # Null => LifeAt(b, p).type # None
      BY DEF LifeOwned, LifeBoards, LifeAt
    <3> QED BY <2>1, <3>1 DEF LifeSame, LifeEp, LifeFit, LifeGap, index
  <2>2. CASE index # cs[p] /\ index = None
    BY <1>4, <2>2 DEF LifeOpens
  <2>3. CASE index # cs[p] /\ index # None
    <3>0. PICK a : a = LifeLoaded(gone, index, p, fails)
      OBVIOUS
    <3>1. /\ LifeOwned(a) /\ LifeSame(gone, a, p)
          /\ a.dev[p] = Null <=> index = None \/ p \in fails
          /\ a.dev[p] = Null => a.port[p] = gone.port[p]
          /\ a.dev[p] # Null => LifeAt(a, p).type = index /\ LifeAt(a, p).opens = 0 /\ "CCS" \in a.port[p].ctrl
      BY <1>1, <1>4, <3>0, LifeMakeLoaded
    <3>2. b1 = a
      BY <2>3, <3>0
    <3>3. LifeSame(b, a, p)
      BY <1>4, <3>1 DEF LifeSame, LifeEp
    <3> HIDE DEF b1
    <3>4. LifeGap(b, cs, p, fails) <=> p \in fails
      BY <2>3 DEF LifeGap, index
    <3> QED BY <1>4, <2>3, <3>1, <3>2, <3>3, <3>4 DEF LifeOpens
  <2> QED BY <2>1, <2>2, <2>3
<1>6. n = IF stop THEN m
          ELSE IF index = None \/ b1.dev[p] = Null THEN k
          ELSE IF Life!FreezeSize(index) # Life!saved.size[p] THEN [k EXCEPT !.stop = TRUE]
          ELSE [k EXCEPT !.b = b3]
  <2> DEFINE d == IF index = None THEN gone ELSE LifeLoaded(gone, index, p, fails)
             f == [m EXCEPT !.conf[p] = IF index = None THEN @ ELSE index, !.b = d]
             k0 == IF index # cs[p] THEN f ELSE m
  <2>1. index # cs[p] => f = k
    <3> SUFFICES ASSUME index # cs[p] PROVE f = k
      OBVIOUS
    <3>1. [cs EXCEPT ![p] = cs[p]] = cs
      BY DEF LifeChoices
    <3>2. d = b1
      OBVIOUS
    <3>3. [cs EXCEPT ![p] = IF index = None THEN cs[p] ELSE index] = cs1
      BY <3>1
    <3> DEFINE cs2 == [cs EXCEPT ![p] = IF index = None THEN cs[p] ELSE index]
               m1 == [m EXCEPT !.conf[p] = IF index = None THEN @ ELSE index]
    <3>4. m1 = [b |-> b, conf |-> cs2, stop |-> stop]
      OBVIOUS
    <3> HIDE DEF m1, d, b1, cs1, cs2
    <3>5. [m1 EXCEPT !.b = d] = [b |-> d, conf |-> cs2, stop |-> stop]
      BY <3>4
    <3> QED BY <3>2, <3>3, <3>5 DEF m1, cs2
  <2>2. k0 = k
    BY <2>1
  <2>3. n = IF stop THEN m
            ELSE IF index = None \/ k0.b.dev[p] = Null THEN k0
            ELSE IF Life!FreezeSize(index) # Life!saved.size[p] THEN [k0 EXCEPT !.stop = TRUE]
            ELSE [k0 EXCEPT !.b = Life!OpenDevice(Life!Restored(k0.b, p, index), p)]
    BY DEF Life!LoadDevice, LifeLoaded, index, gone
  <2> HIDE DEF k0, b1
  <2> QED BY <2>2, <2>3
<1> HIDE DEF b1, cs1
<1>7. CASE stop
  <2>1. n = m
    BY <1>6, <1>7
  <2>2. n.b = b /\ n.conf = cs /\ n.stop = stop /\ n = [b |-> n.b, conf |-> n.conf, stop |-> n.stop]
    BY <2>1
  <2> HIDE DEF m
  <2>3. LifeSame(b, n.b, p)
    BY <2>2 DEF LifeSame, LifeEp
  <2> QED BY <1>7, <2>2, <2>3
<1>8. CASE ~stop /\ (index = None \/ b1.dev[p] = Null)
  <2>1. n = k
    BY <1>6, <1>8
  <2>2. n.b = b1 /\ n.conf = cs1 /\ n.stop = stop /\ n = [b |-> n.b, conf |-> n.conf, stop |-> n.stop]
    BY <2>1
  <2>3. LifeFit(b, cs, p) => b1.dev[p] = Null
    BY <1>5, <1>8
  <2> QED BY <1>2, <1>5, <1>8, <2>2, <2>3 DEF LifeBrought, index
<1>9. CASE ~stop /\ index # None /\ b1.dev[p] # Null /\ Life!FreezeSize(index) # Life!saved.size[p]
  <2>1. n = [b |-> b1, conf |-> cs1, stop |-> TRUE]
    BY <1>6, <1>9
  <2>2. n.b = b1 /\ n.conf = cs1 /\ n.stop = TRUE /\ n = [b |-> n.b, conf |-> n.conf, stop |-> n.stop]
    BY <2>1
  <2>4. ~Life!Sound(p) /\ ~LifeFit(b, cs, p)
    BY <1>9 DEF LifeFits, LifeFit, index
  <2> QED BY <1>2, <1>5, <2>2, <2>4
<1>10. CASE ~stop /\ index # None /\ b1.dev[p] # Null /\ Life!FreezeSize(index) = Life!saved.size[p]
  <2>1. n = [b |-> b3, conf |-> cs1, stop |-> stop]
    BY <1>6, <1>10
  <2>2. /\ LifeOwned(b2) /\ LifeSame(b1, b2, p) /\ b2.dev = b1.dev
        /\ LifeAt(b2, p).type = LifeAt(b1, p).type /\ LifeAt(b2, p).opens = LifeAt(b1, p).opens
        /\ Life!FreezeSize(index) # 0 /\ LifeAt(b1, p).type = index => LifeAt(b2, p).data = Life!saved.dev[p].data
        /\ "CCS" \in b1.port[p].ctrl => "CCS" \in b2.port[p].ctrl
    BY <1>5, <1>10, LifeRestoreOne
  <2> HIDE DEF b2
  <2>3. LifeOpens(b2, p, 0)
    BY <1>5, <2>2 DEF LifeOpens
  <2>4. /\ LifeOwned(b3) /\ LifeSame(b2, b3, p) /\ b3.dev = b2.dev /\ b3.port = b2.port
        /\ b2.dev[p] # Null => LifeAt(b3, p) = [LifeAt(b2, p) EXCEPT !.opens = 1]
    BY <2>2, <2>3, LifeOpenOne
  <2> HIDE DEF b3
  <2>5. LifeAt(b2, p) \in LifeRecords
    BY <1>10, <2>2 DEF LifeOwned, LifeBoards, LifeAt
  <2>6. LifeAt(b3, p).opens = 1 /\ LifeAt(b3, p).type = LifeAt(b2, p).type /\ LifeAt(b3, p).data = LifeAt(b2, p).data
    BY <1>10, <2>2, <2>4, <2>5 DEF LifeRecords
  <2>7. LifeSame(b, b3, p)
    BY <1>5, <2>2, <2>4 DEF LifeSame, LifeEp
  <2>8. LifeOpens(b3, p, 1)
    BY <2>6 DEF LifeOpens
  <2>9. index \notin LifeSizeless => Life!FreezeSize(index) # 0
    BY DEF Life!FreezeSize
  <2>10. LifeFit(b, cs, p) => LifeBrought(b3, p) /\ ~(index = None \/ LifeGap(b, cs, p, fails))
    BY <1>5, <1>10, <2>2, <2>6, <2>8, <2>9 DEF LifeBrought, index
  <2>11. n.b = b3 /\ n.conf = cs1 /\ n.stop = stop /\ n = [b |-> n.b, conf |-> n.conf, stop |-> n.stop]
    BY <2>1
  <2>12. b3.dev[p] # Null /\ ("CCS" \in b.port[p].ctrl => "CCS" \in b3.port[p].ctrl)
    BY <1>5, <1>10, <2>2, <2>4
  <2> QED BY <1>2, <1>10, <2>4, <2>7, <2>8, <2>10, <2>11, <2>12 DEF index
<1> QED BY <1>7, <1>8, <1>9, <1>10

\* Both turns, on a board whose devices are closed.
LifeRead(b, cs, fails) ==
  Life!LoadDevice(Life!LoadDevice([b |-> b, conf |-> cs, stop |-> FALSE], 0, fails), 1, fails)
LEMMA LifeLoadAll ==
  ASSUME NEW b, LifeOwned(b), \A p \in Life!Ports : LifeOpens(b, p, 0), NEW cs \in LifeChoices,
         Life!saved \in LifeSaves, \A p \in Life!Ports : LifeFits(p), NEW fails, NEW n, n = LifeRead(b, cs, fails)
  PROVE  /\ n.stop \in BOOLEAN /\ n.conf \in LifeChoices /\ LifeOwned(n.b) /\ LifeEp(b, n.b)
         /\ \A p \in Life!Ports : LifeOpens(n.b, p, 0) \/ LifeOpens(n.b, p, 1)
         /\ (\A p \in Life!Ports : Life!Sound(p)) => ~n.stop
         /\ (\A p \in Life!Ports : LifeFit(b, cs, p)) =>
              \A p \in Life!Ports : /\ LifeBrought(n.b, p)
                                    /\ n.b.dev[p] = Null <=> Life!saved.index[p] = None \/ LifeGap(b, cs, p, fails)
         /\ \A p \in Life!Ports : /\ n.b.dev[p] = Null => n.b.port[p].ctrl = b.port[p].ctrl
                                  /\ "CCS" \in b.port[p].ctrl => "CCS" \in n.b.port[p].ctrl
<1> USE LifeConstantTypes
<1> DEFINE After(c, d, ds, p) == /\ LifeBrought(d, p)
                                 /\ d.dev[p] = Null <=> Life!saved.index[p] = None \/ LifeGap(c, ds, p, fails)
           Bits(c, d, p) == /\ d.dev[p] = Null => d.port[p].ctrl = c.port[p].ctrl
                            /\ "CCS" \in c.port[p].ctrl => "CCS" \in d.port[p].ctrl
<1>0. PICK m0 : m0 = [b |-> b, conf |-> cs, stop |-> FALSE]
  OBVIOUS
<1>a. m0.b = b /\ m0.conf = cs /\ ~m0.stop /\ m0.stop \in BOOLEAN /\ m0 = [b |-> m0.b, conf |-> m0.conf, stop |-> m0.stop]
  BY <1>0
<1>1. PICK m : m = Life!LoadDevice(m0, 0, fails)
  OBVIOUS
<1>b. m = Life!LoadDevice([b |-> m0.b, conf |-> m0.conf, stop |-> m0.stop], 0, fails)
  BY <1>a, <1>1
<1>2. /\ m = [b |-> m.b, conf |-> m.conf, stop |-> m.stop] /\ m.stop \in BOOLEAN
      /\ m.conf \in LifeChoices /\ m.conf[1] = cs[1]
      /\ LifeOwned(m.b) /\ LifeSame(b, m.b, 0)
      /\ LifeOpens(m.b, 0, 0) \/ LifeOpens(m.b, 0, 1)
      /\ Life!Sound(0) => ~m.stop
      /\ LifeFit(b, cs, 0) => After(b, m.b, cs, 0)
      /\ Bits(b, m.b, 0)
  BY <1>a, <1>b, LifeLoadOne
<1>3. m.b.dev[1] = b.dev[1] /\ m.b.port[1] = b.port[1] /\ LifeEp(b, m.b)
      /\ (b.dev[1] # Null => LifeAt(m.b, 1) = LifeAt(b, 1)) /\ LifeOpens(m.b, 1, 0)
  BY <1>2 DEF LifeSame, LifeEp, LifeOpens
<1>4. n = Life!LoadDevice([b |-> m.b, conf |-> m.conf, stop |-> m.stop], 1, fails)
  BY <1>0, <1>1, <1>2 DEF LifeRead
<1>5. /\ n.stop \in BOOLEAN
      /\ n.conf \in LifeChoices /\ n.conf[0] = m.conf[0]
      /\ LifeOwned(n.b) /\ LifeSame(m.b, n.b, 1)
      /\ LifeOpens(n.b, 1, 0) \/ LifeOpens(n.b, 1, 1)
      /\ ~m.stop /\ Life!Sound(1) => ~n.stop
      /\ ~m.stop /\ LifeFit(m.b, m.conf, 1) => After(m.b, n.b, m.conf, 1)
      /\ Bits(m.b, n.b, 1)
  BY <1>2, <1>3, <1>4, LifeLoadOne
<1>6. n.b.dev[0] = m.b.dev[0] /\ n.b.port[0] = m.b.port[0] /\ LifeEp(b, n.b)
      /\ (m.b.dev[0] # Null => LifeAt(n.b, 0) = LifeAt(m.b, 0))
  BY <1>3, <1>5 DEF LifeSame, LifeEp
<1>7. LifeOpens(n.b, 0, 0) \/ LifeOpens(n.b, 0, 1)
  BY <1>2, <1>6 DEF LifeOpens
<1>8. ASSUME LifeFit(b, cs, 0), LifeFit(b, cs, 1)
      PROVE  After(b, n.b, cs, 0) /\ After(b, n.b, cs, 1)
  <2>1. ~m.stop /\ After(b, m.b, cs, 0)
    BY <1>2, <1>8 DEF LifeFit
  <2>2. /\ LifeFit(m.b, m.conf, 1)
        /\ LifeGap(m.b, m.conf, 1, fails) <=> LifeGap(b, cs, 1, fails)
    BY <1>2, <1>3, <1>8 DEF LifeFit, LifeGap
  <2>3. After(b, n.b, cs, 1)
    BY <1>5, <2>1, <2>2
  <2>4. After(b, n.b, cs, 0)
    BY <1>6, <2>1 DEF LifeBrought, LifeOpens
  <2> QED BY <2>3, <2>4
<1>9. Bits(b, n.b, 0) /\ Bits(b, n.b, 1)
  BY <1>2, <1>3, <1>5, <1>6
<1> HIDE DEF After, Bits
<1>10. (\A p \in Life!Ports : LifeFit(b, cs, p)) => \A p \in Life!Ports : After(b, n.b, cs, p)
  BY <1>8
<1>11. \A p \in Life!Ports : Bits(b, n.b, p)
  BY <1>9
<1>12. (\A p \in Life!Ports : Life!Sound(p)) => ~n.stop
  BY <1>2, <1>5
<1> QED BY <1>5, <1>6, <1>7, <1>10, <1>11, <1>12 DEF After, Bits
-----------------------------------------------------------------------------
(* The invariant.                                                          *)

LifePlugin ==
  /\ plugin_build \in LifeDialogs /\ ohci \in {"null", "live", "freed"}
  /\ usb_opened \in BOOLEAN /\ configChanged \in BOOLEAN /\ plugin_loaded \in BOOLEAN
  /\ plugin_conf \in LifeChoices /\ plugin_ini \in LifeConfs
  /\ returned \in {"none", "loaded", "size", "packet"}
  /\ usb_opened => ohci = "live"
  /\ ohci = "live" => plugin_loaded
LifeDevices ==
  /\ LifeOwned(Life!Board)
  /\ \A p \in Life!Ports : LifeOpens(Life!Board, p, 0) \/ (usb_opened /\ LifeOpens(Life!Board, p, 1))
  /\ ohci # "live" => \A p \in Life!Ports : Life!Board.dev[p] = Null
LifeDisk == plugin_disk # <<>> => Life!saved \in LifeSaves /\ \A p \in Life!Ports : LifeFits(p)
LifeIInv == LifePlugin /\ LifeDevices /\ LifeDisk

\* What no step may do, and what only loading a state could.
LifeFollows == Life!OpenTogether /\ Life!ShowsDevices /\ Life!PacketPointsToDevice
LifeLoads == Life!LoadsSameDevices /\ Life!RefusesOnlyPackets

LEMMA LifeSetBoard ==
  ASSUME NEW c \in LifeBoards, Life!SetBoard(c)
  PROVE  /\ Life!Board' = c /\ heap' = c.heap /\ usb_device' = c.dev /\ port' = c.port /\ ep' = c.ep
BY LifeBoardIs DEF Life!SetBoard, Life!Board

LEMMA LifeSameBoard ==
  ASSUME UNCHANGED <<heap, usb_device, port, ep>>
  PROVE  Life!Board' = Life!Board
BY DEF Life!Board

LEMMA LifeBoardParts ==
  /\ Life!Board.heap = heap /\ Life!Board.dev = usb_device /\ Life!Board.port = port /\ Life!Board.ep = ep
BY DEF Life!Board

LEMMA LifeBoardNext ==
  /\ Life!Board'.heap = heap' /\ Life!Board'.dev = usb_device' /\ Life!Board'.port = port' /\ Life!Board'.ep = ep'
BY DEF Life!Board

\* The devices that exist are those of the ports.
LEMMA LifeLiving ==
  ASSUME NEW b, LifeOwned(b)
  PROVE  /\ \A o \in LifeObjects : b.heap[o] # Life!Freed <=> \E p \in Life!Ports : b.dev[p] = o
         /\ (\A o \in {x \in LifeObjects : b.heap[x] # Life!Freed} : b.heap[o].opens = 1)
              <=> \A p \in Life!Ports : LifeOpens(b, p, 1)
<1> USE LifeConstantTypes
<1>1. \A o \in LifeObjects : b.heap[o] # Life!Freed <=> \E p \in Life!Ports : b.dev[p] = o
  BY DEF LifeOwned, Life!Freed
<1>2. \A p \in Life!Ports : b.dev[p] # Null => b.dev[p] \in LifeObjects
  BY DEF LifeOwned, LifeBoards
<1> QED BY <1>1, <1>2 DEF LifeOpens, LifeAt

LEMMA LifeStarts == Life!Init => LifeIInv
<1> SUFFICES ASSUME Life!Init PROVE LifeIInv
  OBVIOUS
<1> USE LifeConstantTypes
<1>1. LifePlugin
  BY DEF Life!Init, LifePlugin, Life!Nothing, LifeChoices
<1>2. /\ heap = [o \in LifeObjects |-> Life!Freed] /\ usb_device = [p \in Life!Ports |-> Null]
      /\ port = [p \in Life!Ports |-> [dev |-> Null, ctrl |-> {}]] /\ ep = Life!NoEp /\ plugin_disk = <<>>
  BY DEF Life!Init
<1>3. Life!Board \in LifeBoards
  BY <1>2 DEF Life!Board, LifeBoards, LifeRecords, Life!Freed, LifeBits, Life!NoEp, Life!Kinds
<1>4. LifeDevices
  BY <1>2, <1>3, LifeBoardParts DEF LifeDevices, LifeOwned, LifeOpens, Life!NoEp
<1>5. LifeDisk
  BY <1>2 DEF LifeDisk
<1> QED BY <1>1, <1>4, <1>5 DEF LifeIInv

-----------------------------------------------------------------------------
(* Every action keeps it, and lets the devices follow.                     *)

\* What is left to show of an action that neither saves nor loads a state.
LEMMA LifeKeeps ==
  ASSUME LifeIInv, UNCHANGED <<plugin_disk, plugin_build>>, LifePlugin', returned' = "none",
         NEW c, Life!Board' = c, LifeOwned(c),
         \A p \in Life!Ports : LifeOpens(c, p, 0) \/ (usb_opened' = TRUE /\ LifeOpens(c, p, 1)),
         usb_opened' => \/ \A p \in Life!Ports : LifeOpens(c, p, 1)
                        \/ usb_opened /\ \A p \in Life!Ports : LifeOpens(Life!Board, p, 1) => LifeOpens(c, p, 1),
         ohci' # "live" => \A p \in Life!Ports : c.dev[p] = Null,
         ohci' = "live" => \A p \in Life!Ports : \/ LifeShows(c, p)
                                                 \/ ohci = "live" /\ ~LifeShows(Life!Board, p)
                                                 \/ Life!Board.dev[p] # Null /\ c.dev[p] = Null,
         ohci' = "live" /\ c.ep = Life!LostEp => \/ ohci = "live" /\ Life!Board.ep = Life!LostEp
                                                 \/ configChanged \/ configChanged'
  PROVE  LifeIInv' /\ LifeFollows
<1> USE LifeConstantTypes
<1>1. LifeDevices'
  BY DEF LifeDevices
<1>2. LifeDisk'
  BY DEF LifeIInv, LifeDisk, LifeFits, Life!saved, Life!Sound
<1>3. LifeOwned(Life!Board)
  BY DEF LifeIInv, LifeDevices
<1>4. Life!OpenTogether
  <2>1. Life!AllOpen <=> \A p \in Life!Ports : LifeOpens(Life!Board, p, 1)
    BY <1>3, LifeLiving, LifeBoardParts DEF Life!AllOpen, Life!Alive
  <2>2. (Life!AllOpen)' <=> \A p \in Life!Ports : LifeOpens(c, p, 1)
    BY LifeLiving, LifeBoardNext DEF Life!AllOpen, Life!Alive
  <2> QED BY <2>1, <2>2 DEF Life!OpenTogether
<1>5. Life!ShowsDevices
  <2>1. \A p \in Life!Ports : Life!Shows(p) <=> LifeShows(Life!Board, p)
    BY <1>3, LifeBoardParts DEF Life!Shows, LifeShows, LifeOwned
  <2>2. \A p \in Life!Ports : (Life!Shows(p))' <=> LifeShows(c, p)
    BY LifeBoardNext DEF Life!Shows, LifeShows, LifeOwned
  <2> QED BY <2>1, <2>2, LifeBoardParts, LifeBoardNext DEF Life!ShowsDevices, Life!Read
<1>6. Life!PacketPointsToDevice
  BY LifeBoardParts, LifeBoardNext DEF Life!PacketPointsToDevice, Life!Dangles, Life!Dangling, Life!Read
<1> QED BY <1>1, <1>2, <1>4, <1>5, <1>6 DEF LifeIInv, LifeFollows

LEMMA LifeInit ==
  ASSUME LifeIInv, Life!USBinit, UNCHANGED plugin_build
  PROVE  LifeIInv' /\ LifeFollows
<1> USE LifeConstantTypes
<1>1. /\ ohci # "live" /\ ohci' = "live" /\ usb_opened' = FALSE /\ plugin_loaded' = TRUE
      /\ plugin_conf' \in {plugin_conf, plugin_ini}
      /\ returned' = "none" /\ configChanged' = configChanged /\ plugin_ini' = plugin_ini
      /\ plugin_disk' = plugin_disk /\ plugin_build' = plugin_build
      /\ port' = [p \in Life!Ports |-> [dev |-> Null, ctrl |-> {}]] /\ ep' = Life!NoEp
      /\ heap' = heap /\ usb_device' = usb_device
  BY DEF Life!USBinit, Life!LoadConfig, Life!Calm
<1>2. LifePlugin'
  BY <1>1 DEF LifePlugin, LifeIInv
<1>3. LifeOwned(Life!Board)
  BY DEF LifeIInv, LifeDevices
<1>4. \A p \in Life!Ports : usb_device[p] = Null
  BY <1>1, LifeBoardParts DEF LifeIInv, LifeDevices
<1>5. PICK c : c = [heap |-> heap, dev |-> usb_device, port |-> [p \in Life!Ports |-> [dev |-> Null, ctrl |-> {}]],
                    ep |-> Life!NoEp]
  OBVIOUS
<1>6. Life!Board' = c
  BY <1>1, <1>5 DEF Life!Board
<1>7. /\ c.heap = heap /\ c.dev = usb_device /\ c.port = [p \in Life!Ports |-> [dev |-> Null, ctrl |-> {}]]
      /\ c.ep = Life!NoEp
  BY <1>5
<1>8. LifeOwned(c)
  <2>1. c \in LifeBoards
    BY <1>3, <1>5, LifeBoardParts DEF LifeOwned, LifeBoards, LifeBits, Life!NoEp
  <2> QED BY <1>3, <1>4, <1>7, <2>1, LifeBoardParts DEF LifeOwned, Life!NoEp
<1>9. \A p \in Life!Ports : LifeOpens(c, p, 0) /\ LifeShows(c, p)
  BY <1>4, <1>7 DEF LifeOpens, LifeShows
<1>10. c.ep # Life!LostEp
  BY <1>7 DEF Life!NoEp, Life!LostEp
<1> QED BY <1>1, <1>2, <1>6, <1>8, <1>9, <1>10, LifeKeeps

LEMMA LifeOpenBoth ==
  ASSUME NEW b, LifeOwned(b), \A p \in Life!Ports : LifeOpens(b, p, 0),
         NEW c, c = Life!OpenDevice(Life!OpenDevice(b, 0), 1)
  PROVE  /\ LifeOwned(c) /\ c.ep = b.ep /\ c.dev = b.dev /\ c.port = b.port
         /\ \A p \in Life!Ports : LifeOpens(c, p, 1) /\ (b.dev[p] # Null => LifeAt(c, p).type = LifeAt(b, p).type)
<1> USE LifeConstantTypes
<1>1. PICK m : m = Life!OpenDevice(b, 0)
  OBVIOUS
<1>2. /\ LifeOwned(m) /\ LifeSame(b, m, 0) /\ m.dev = b.dev /\ m.port = b.port /\ m.ep = b.ep
      /\ b.dev[0] # Null => LifeAt(m, 0) = [LifeAt(b, 0) EXCEPT !.opens = 1]
  BY <1>1, LifeOpenOne
<1>3. b.dev[1] # Null => LifeAt(m, 1) = LifeAt(b, 1)
  BY <1>2 DEF LifeSame, LifeEp
<1>4. LifeOpens(m, 1, 0)
  BY <1>2, <1>3 DEF LifeOpens
<1>5. c = Life!OpenDevice(m, 1)
  BY <1>1
<1>6. /\ LifeOwned(c) /\ LifeSame(m, c, 1) /\ c.dev = m.dev /\ c.port = m.port /\ c.ep = m.ep
      /\ m.dev[1] # Null => LifeAt(c, 1) = [LifeAt(m, 1) EXCEPT !.opens = 1]
  BY <1>2, <1>4, <1>5, LifeOpenOne
<1>7. m.dev[0] # Null => LifeAt(c, 0) = LifeAt(m, 0)
  BY <1>6 DEF LifeSame, LifeEp
<1>8. c.ep = b.ep
  BY <1>2, <1>6
<1>9. \A p \in Life!Ports : b.dev[p] # Null => LifeAt(b, p) \in LifeRecords
  BY DEF LifeOwned, LifeBoards, LifeAt
<1>10. \A p \in Life!Ports : b.dev[p] # Null => LifeAt(c, p) = [LifeAt(b, p) EXCEPT !.opens = 1]
  BY <1>2, <1>3, <1>6, <1>7
<1>11. \A p \in Life!Ports : b.dev[p] # Null => LifeAt(c, p).opens = 1 /\ LifeAt(c, p).type = LifeAt(b, p).type
  BY <1>9, <1>10 DEF LifeRecords
<1> QED BY <1>2, <1>6, <1>8, <1>11 DEF LifeOpens

LEMMA LifeCloseBoth ==
  ASSUME NEW b, LifeOwned(b), NEW c, c = Life!CloseDevice(Life!CloseDevice(b, 0), 1)
  PROVE  /\ LifeOwned(c) /\ c.ep = b.ep /\ c.dev = b.dev /\ c.port = b.port
         /\ \A p \in Life!Ports : LifeOpens(c, p, 0) /\ (b.dev[p] # Null => LifeAt(c, p).type = LifeAt(b, p).type)
<1> USE LifeConstantTypes
<1>1. PICK m : m = Life!CloseDevice(b, 0)
  OBVIOUS
<1>2. /\ LifeOwned(m) /\ LifeSame(b, m, 0) /\ m.dev = b.dev /\ m.port = b.port /\ m.ep = b.ep
      /\ b.dev[0] # Null => LifeAt(m, 0) = [LifeAt(b, 0) EXCEPT !.opens = 0]
  BY <1>1, LifeCloseOne
<1>3. b.dev[1] # Null => LifeAt(m, 1) = LifeAt(b, 1)
  BY <1>2 DEF LifeSame, LifeEp
<1>5. c = Life!CloseDevice(m, 1)
  BY <1>1
<1>6. /\ LifeOwned(c) /\ LifeSame(m, c, 1) /\ c.dev = m.dev /\ c.port = m.port /\ c.ep = m.ep
      /\ m.dev[1] # Null => LifeAt(c, 1) = [LifeAt(m, 1) EXCEPT !.opens = 0]
  BY <1>2, <1>5, LifeCloseOne
<1>7. m.dev[0] # Null => LifeAt(c, 0) = LifeAt(m, 0)
  BY <1>6 DEF LifeSame, LifeEp
<1>8. c.ep = b.ep
  BY <1>2, <1>6
<1>9. \A p \in Life!Ports : b.dev[p] # Null => LifeAt(b, p) \in LifeRecords
  BY DEF LifeOwned, LifeBoards, LifeAt
<1>10. \A p \in Life!Ports : b.dev[p] # Null => LifeAt(c, p) = [LifeAt(b, p) EXCEPT !.opens = 0]
  BY <1>2, <1>3, <1>6, <1>7
<1>11. \A p \in Life!Ports : b.dev[p] # Null => LifeAt(c, p).opens = 0 /\ LifeAt(c, p).type = LifeAt(b, p).type
  BY <1>9, <1>10 DEF LifeRecords
<1> QED BY <1>2, <1>6, <1>8, <1>11 DEF LifeOpens

LEMMA LifeOpen ==
  ASSUME LifeIInv, Life!USBopen, UNCHANGED plugin_build
  PROVE  LifeIInv' /\ LifeFollows
<1> USE LifeConstantTypes
<1> DEFINE recreate == configChanged \/ \A p \in Life!Ports : usb_device[p] = Null
<1>1. /\ ohci = "live" /\ usb_opened = FALSE /\ usb_opened' = TRUE /\ configChanged' = FALSE
      /\ returned' = "none" /\ ohci' = ohci /\ plugin_conf' = plugin_conf /\ plugin_loaded' = plugin_loaded
      /\ plugin_ini' = plugin_ini /\ plugin_disk' = plugin_disk /\ plugin_build' = plugin_build
  BY DEF Life!USBopen, LifeIInv, LifePlugin
<1>2. PICK b, c :
        /\ recreate => unmade' \in SUBSET Life!Ports
        /\ b = IF recreate THEN Life!Created(Life!Board, plugin_conf, unmade') ELSE Life!Board
        /\ c = Life!OpenDevice(Life!OpenDevice(b, 0), 1)
        /\ Life!SetBoard(c)
  BY DEF Life!USBopen, Life!Failures
<1>3. LifePlugin'
  BY <1>1 DEF LifePlugin, LifeIInv
<1>4. LifeOwned(Life!Board) /\ plugin_conf \in LifeChoices /\ \A p \in Life!Ports : LifeOpens(Life!Board, p, 0)
  BY <1>1 DEF LifeIInv, LifeDevices, LifePlugin
<1> DEFINE Good == /\ LifeOwned(b) /\ \A p \in Life!Ports : LifeOpens(b, p, 0)
                   /\ \A p \in Life!Ports : \/ LifeShows(b, p) \/ ~LifeShows(Life!Board, p)
                                            \/ Life!Board.dev[p] # Null /\ b.dev[p] = Null
                   /\ b.ep = Life!Board.ep \/ configChanged
<1>5. ASSUME recreate PROVE Good
  <2>1. b = Life!Created(Life!Board, plugin_conf, unmade') /\ unmade' \in SUBSET Life!Ports
    BY <1>2, <1>5
  <2>2. /\ LifeOwned(b) /\ LifeEp(Life!Board, b)
        /\ \A p \in Life!Ports : /\ b.dev[p] = Null => b.port[p].ctrl = Life!Board.port[p].ctrl
                                 /\ b.dev[p] # Null => "CCS" \in b.port[p].ctrl
                                 /\ LifeOpens(b, p, IF usb_opened THEN 1 ELSE 0)
    BY <1>4, <2>1, LifeCreateAll
  <2>3. b.ep = Life!Board.ep \/ configChanged
    <3>1. ASSUME \A p \in Life!Ports : usb_device[p] = Null PROVE Life!Board.ep.obj \notin LifeObjects
      BY <1>4, <3>1, LifeBoardParts DEF LifeOwned
    <3> QED BY <1>5, <2>2, <3>1 DEF LifeEp
  <2>4. \A p \in Life!Ports : LifeOpens(b, p, 0)
    BY <1>1, <2>2
  <2>5. \A p \in Life!Ports : \/ LifeShows(b, p) \/ ~LifeShows(Life!Board, p)
                              \/ Life!Board.dev[p] # Null /\ b.dev[p] = Null
    BY <2>2 DEF LifeShows
  <2> QED BY <2>2, <2>3, <2>4, <2>5
<1>6. ASSUME ~recreate PROVE Good
  BY <1>2, <1>4, <1>6
<1>7. Good
  BY <1>5, <1>6
<1>8. /\ LifeOwned(c) /\ c.ep = b.ep /\ c.dev = b.dev /\ c.port = b.port
      /\ \A p \in Life!Ports : LifeOpens(c, p, 1)
  BY <1>2, <1>7, LifeOpenBoth
<1>9. Life!Board' = c
  BY <1>2, <1>8, LifeSetBoard DEF LifeOwned
<1>10. \A p \in Life!Ports : LifeShows(c, p) <=> LifeShows(b, p)
  BY <1>8 DEF LifeShows
<1> QED BY <1>1, <1>3, <1>7, <1>8, <1>9, <1>10, LifeKeeps

LEMMA LifeClose ==
  ASSUME LifeIInv, Life!USBclose, UNCHANGED plugin_build
  PROVE  LifeIInv' /\ LifeFollows
<1>1. PICK c : c = Life!CloseDevice(Life!CloseDevice(Life!Board, 0), 1) /\ Life!SetBoard(c)
  BY DEF Life!USBclose
<1>2. /\ LifeOwned(c) /\ c.ep = Life!Board.ep /\ c.dev = Life!Board.dev /\ c.port = Life!Board.port
      /\ \A p \in Life!Ports : LifeOpens(c, p, 0)
  BY <1>1, LifeCloseBoth DEF LifeIInv, LifeDevices
<1>3. Life!Board' = c
  BY <1>1, <1>2, LifeSetBoard DEF LifeOwned
<1>4. /\ ohci = "live" /\ usb_opened' = FALSE
      /\ UNCHANGED <<ohci, configChanged, plugin_conf, plugin_loaded, plugin_ini, plugin_disk>> /\ returned' = "none"
  BY DEF Life!USBclose, Life!Calm
<1>5. LifePlugin'
  BY <1>4 DEF LifePlugin, LifeIInv
<1>6. \A p \in Life!Ports : LifeShows(c, p) <=> LifeShows(Life!Board, p)
  BY <1>2 DEF LifeShows
<1> QED BY <1>2, <1>3, <1>4, <1>5, <1>6, LifeKeeps

LEMMA LifeShutdown ==
  ASSUME LifeIInv, Life!USBshutdown, UNCHANGED plugin_build
  PROVE  LifeIInv' /\ LifeFollows
<1>1. PICK c : c = Life!DestroyDevices(Life!Board) /\ Life!SetBoard(c)
  BY DEF Life!USBshutdown
<1>2. LifeOwned(c) /\ \A p \in Life!Ports : c.dev[p] = Null
  BY <1>1, LifeDestroyAll DEF LifeIInv, LifeDevices
<1>3. Life!Board' = c
  BY <1>1, <1>2, LifeSetBoard DEF LifeOwned
<1>4. /\ ohci' = "freed" /\ usb_opened' = FALSE
      /\ UNCHANGED <<configChanged, plugin_conf, plugin_loaded, plugin_ini, plugin_disk>> /\ returned' = "none"
  BY DEF Life!USBshutdown, Life!Calm
<1>5. LifePlugin'
  BY <1>4 DEF LifePlugin, LifeIInv
<1>6. \A p \in Life!Ports : LifeOpens(c, p, 0)
  BY <1>2 DEF LifeOpens
<1> QED BY <1>2, <1>3, <1>4, <1>5, <1>6, LifeKeeps

LEMMA LifeRestart ==
  ASSUME LifeIInv, Life!Restart, UNCHANGED plugin_build
  PROVE  LifeIInv' /\ LifeFollows
<1>1. /\ ohci = "freed" /\ ohci' = "null" /\ configChanged' = FALSE /\ plugin_conf' = Life!Nothing
      /\ plugin_loaded' = FALSE /\ plugin_ini' \in LifeConfs /\ returned' = "none"
      /\ UNCHANGED <<usb_opened, heap, usb_device, port, ep, plugin_disk>>
  BY DEF Life!Restart, Life!Calm, Life!board
<1>2. Life!Board' = Life!Board
  BY <1>1, LifeSameBoard
<1>3. LifePlugin'
  BY <1>1 DEF LifePlugin, LifeIInv, Life!Nothing, LifeChoices
<1>4. LifeOwned(Life!Board) /\ (\A p \in Life!Ports : Life!Board.dev[p] = Null) /\ usb_opened = FALSE
  BY <1>1 DEF LifeIInv, LifeDevices, LifePlugin
<1>5. \A p \in Life!Ports : LifeOpens(Life!Board, p, 0)
  BY <1>4 DEF LifeOpens
<1> QED BY <1>1, <1>2, <1>3, <1>4, <1>5, LifeKeeps

LEMMA LifeConfigure ==
  ASSUME LifeIInv, Life!Configure, UNCHANGED plugin_build
  PROVE  LifeIInv' /\ LifeFollows
<1> USE LifeConstantTypes
<1> DEFINE now == plugin_build = "windows" /\ ohci # "null"
<1>1. PICK c : /\ now => unmade' \in SUBSET Life!Ports
               /\ c = IF now THEN Life!Created(Life!Board, plugin_ini', unmade') ELSE Life!Board
               /\ Life!SetBoard(c)
  BY DEF Life!Configure, Life!Failures
<1>2. /\ plugin_ini' \in LifeConfs /\ plugin_conf' = plugin_ini'
      /\ ohci # "freed" /\ plugin_loaded' = TRUE /\ configChanged' = TRUE
      /\ returned' = "none" /\ UNCHANGED <<ohci, usb_opened, plugin_disk>>
  BY DEF Life!Configure
<1>3. plugin_ini' \in LifeChoices
  BY <1>2
<1>4. LifePlugin'
  BY <1>2, <1>3 DEF LifePlugin, LifeIInv
<1> DEFINE Good == /\ LifeOwned(c)
                   /\ \A p \in Life!Ports : LifeOpens(c, p, 0) \/ (usb_opened = TRUE /\ LifeOpens(c, p, 1))
                   /\ usb_opened => \A p \in Life!Ports : LifeOpens(Life!Board, p, 1) => LifeOpens(c, p, 1)
                   /\ ohci # "live" => \A p \in Life!Ports : c.dev[p] = Null
                   /\ \A p \in Life!Ports : \/ LifeShows(c, p) \/ ~LifeShows(Life!Board, p)
                                            \/ Life!Board.dev[p] # Null /\ c.dev[p] = Null
<1>5. ASSUME now PROVE Good
  <2>1. /\ c = Life!Created(Life!Board, plugin_ini', unmade') /\ unmade' \in SUBSET Life!Ports
        /\ LifeOwned(Life!Board) /\ usb_opened \in BOOLEAN /\ ohci = "live"
    BY <1>1, <1>2, <1>5 DEF LifeIInv, LifeDevices, LifePlugin
  <2>2. /\ LifeOwned(c)
        /\ \A p \in Life!Ports : /\ c.dev[p] = Null => c.port[p].ctrl = Life!Board.port[p].ctrl
                                 /\ c.dev[p] # Null => "CCS" \in c.port[p].ctrl
                                 /\ LifeOpens(c, p, IF usb_opened THEN 1 ELSE 0)
    BY <1>3, <2>1, LifeCreateAll
  <2>3. \A p \in Life!Ports : \/ LifeShows(c, p) \/ ~LifeShows(Life!Board, p)
                              \/ Life!Board.dev[p] # Null /\ c.dev[p] = Null
    BY <2>2 DEF LifeShows
  <2> QED BY <2>1, <2>2, <2>3
<1>6. ASSUME ~now PROVE Good
  BY <1>1, <1>6 DEF LifeIInv, LifeDevices, LifePlugin
<1>7. Good
  BY <1>5, <1>6
<1>8. Life!Board' = c
  BY <1>1, <1>7, LifeSetBoard DEF LifeOwned
<1>9. ohci = "live" => \A p \in Life!Ports : \/ LifeShows(c, p) \/ (ohci = "live" /\ ~LifeShows(Life!Board, p))
                                             \/ Life!Board.dev[p] # Null /\ c.dev[p] = Null
  BY <1>7
<1> HIDE DEF now
<1> QED BY <1>2, <1>4, <1>7, <1>8, <1>9, LifeKeeps

LEMMA LifeCancelConfigure ==
  ASSUME LifeIInv, Life!CancelConfigure, UNCHANGED plugin_build
  PROVE  LifeIInv' /\ LifeFollows
<1>1. /\ plugin_conf' \in LifeConfs /\ plugin_loaded' = TRUE /\ returned' = "none"
      /\ UNCHANGED <<ohci, usb_opened, configChanged, plugin_ini, heap, usb_device, port, ep, plugin_disk>>
  BY DEF Life!CancelConfigure, Life!Calm, Life!board
<1>2. Life!Board' = Life!Board /\ plugin_conf' \in LifeChoices
  BY <1>1, LifeSameBoard, LifeConstantTypes
<1>3. LifePlugin'
  BY <1>1, <1>2 DEF LifePlugin, LifeIInv
<1>4. /\ LifeOwned(Life!Board)
      /\ \A p \in Life!Ports : LifeOpens(Life!Board, p, 0) \/ (usb_opened' = TRUE /\ LifeOpens(Life!Board, p, 1))
      /\ ohci # "live" => \A p \in Life!Ports : Life!Board.dev[p] = Null
  BY <1>1 DEF LifeIInv, LifeDevices, LifePlugin
<1>5. ohci = "live" => \A p \in Life!Ports : LifeShows(Life!Board, p) \/ (ohci = "live" /\ ~LifeShows(Life!Board, p))
  OBVIOUS
<1> QED BY <1>1, <1>2, <1>3, <1>4, <1>5, LifeKeeps

LEMMA LifeTransfer ==
  ASSUME LifeIInv, NEW p \in Life!Ports, NEW kind \in Life!Kinds, NEW d \in LifeData,
         Life!Transfer(p, kind, d), UNCHANGED plugin_build
  PROVE  LifeIInv' /\ LifeFollows
<1> USE LifeConstantTypes
<1>1. /\ ohci = "live" /\ port[p].dev # Null /\ returned' = "none"
      /\ ep' = [obj |-> port[p].dev, kind |-> kind]
      /\ heap' = [heap EXCEPT ![port[p].dev].data = d]
      /\ UNCHANGED <<plugin_disk, ohci, usb_opened, configChanged, plugin_conf, plugin_loaded, plugin_ini, usb_device, port>>
  BY DEF Life!Transfer, Life!Calm, Life!plugin
<1>2. LifeOwned(Life!Board) /\ LifePlugin'
  BY <1>1 DEF LifeIInv, LifeDevices, LifePlugin
<1> DEFINE o == usb_device[p]
           r == [heap[o] EXCEPT !.data = d]
           ctrl == port[p].ctrl
<1>3. /\ o # Null /\ o \in LifeObjects /\ port[p] = [dev |-> o, ctrl |-> ctrl] /\ port[p].dev = o
      /\ heap[o] \in LifeRecords /\ heap[o].type \in LifeTypes /\ ctrl \in LifeBits
  BY <1>1, <1>2, LifeBoardParts DEF LifeOwned, LifeBoards
<1>4. r \in LifeRecords /\ r.type = heap[o].type /\ r.opens = heap[o].opens
  BY <1>3 DEF LifeRecords
<1>5. heap' = [heap EXCEPT ![o] = r]
  BY <1>1, <1>3
<1>6. port = [port EXCEPT ![p] = [dev |-> o, ctrl |-> ctrl]]
  BY <1>2, <1>3, LifeBoardParts DEF LifeOwned, LifeBoards
<1> HIDE DEF r, ctrl
<1> DEFINE e == [heap |-> [Life!Board.heap EXCEPT ![o] = r], dev |-> Life!Board.dev,
                 port |-> [Life!Board.port EXCEPT ![p] = [dev |-> o, ctrl |-> ctrl]], ep |-> Life!Board.ep]
<1>7. LifeOwned(e) /\ LifeSame(Life!Board, e, p) /\ e.dev = Life!Board.dev /\ LifeAt(e, p) = r /\ e.port[p].ctrl = ctrl
  BY <1>2, <1>3, <1>4, LifeBoardParts, LifeChangeOne
<1>8. PICK c : c = [heap |-> e.heap, dev |-> e.dev, port |-> e.port, ep |-> [obj |-> o, kind |-> kind]]
  OBVIOUS
<1>9. Life!Board' = c
  BY <1>1, <1>3, <1>5, <1>6, <1>8, LifeBoardParts DEF Life!Board
<1> HIDE DEF e
<1>10. c.heap = e.heap /\ c.dev = e.dev /\ c.port = e.port /\ c.ep = [obj |-> o, kind |-> kind]
  BY <1>8
<1>11. LifeOwned(c)
  <2>1. c \in LifeBoards
    BY <1>3, <1>7, <1>8 DEF LifeOwned, LifeBoards
  <2> QED BY <1>7, <1>10, <2>1, LifeBoardParts DEF LifeOwned
<1>12. \A q \in Life!Ports : c.dev[q] # Null => LifeAt(c, q).opens = LifeAt(Life!Board, q).opens
  <2>1. LifeAt(Life!Board, p) = heap[o]
    BY LifeBoardParts DEF LifeAt
  <2>2. \A q \in Life!Ports : LifeAt(c, q) = LifeAt(e, q)
    BY <1>10 DEF LifeAt
  <2> QED BY <1>4, <1>7, <1>10, <2>1, <2>2 DEF LifeSame
<1>13. \A q \in Life!Ports : c.port[q].ctrl = Life!Board.port[q].ctrl
  BY <1>7, <1>10, LifeBoardParts DEF LifeSame, ctrl
<1>14. c.dev = Life!Board.dev
  BY <1>7, <1>10
<1>15. \A q \in Life!Ports : /\ LifeOpens(c, q, 0) <=> LifeOpens(Life!Board, q, 0)
                             /\ LifeOpens(c, q, 1) <=> LifeOpens(Life!Board, q, 1)
                             /\ LifeShows(c, q) <=> LifeShows(Life!Board, q)
  BY <1>12, <1>13, <1>14 DEF LifeOpens, LifeShows
<1>16. c.ep # Life!LostEp
  BY <1>3, <1>10 DEF Life!LostEp
<1>17. \A q \in Life!Ports : LifeOpens(c, q, 0) \/ (usb_opened' = TRUE /\ LifeOpens(c, q, 1))
  BY <1>1, <1>15 DEF LifeIInv, LifeDevices, LifePlugin
<1> QED BY <1>1, <1>2, <1>9, <1>11, <1>15, <1>16, <1>17, LifeKeeps

LEMMA LifeResetHub ==
  ASSUME LifeIInv, Life!ResetHub, UNCHANGED plugin_build
  PROVE  LifeIInv' /\ LifeFollows
<1> USE LifeConstantTypes
<1>1. /\ ohci = "live" /\ returned' = "none"
      /\ port' = [p \in Life!Ports |-> [port[p] EXCEPT !.ctrl = IF port[p].dev = Null THEN {} ELSE {"CCS"}]]
      /\ UNCHANGED <<plugin_disk, ohci, usb_opened, configChanged, plugin_conf, plugin_loaded, plugin_ini, heap, usb_device, ep>>
  BY DEF Life!ResetHub, Life!Calm, Life!plugin
<1>2. LifeOwned(Life!Board) /\ LifePlugin'
  BY <1>1 DEF LifeIInv, LifeDevices, LifePlugin
<1>3. /\ port \in [Life!Ports -> [dev : LifeObjects \cup {Null}, ctrl : LifeBits]]
      /\ \A p \in Life!Ports : port[p].dev = usb_device[p]
  BY <1>2, LifeBoardParts DEF LifeOwned, LifeBoards
<1>4. PICK c : c = [heap |-> heap, dev |-> usb_device, port |-> port', ep |-> ep]
  OBVIOUS
<1>5. c.heap = heap /\ c.dev = usb_device /\ c.port = port' /\ c.ep = ep /\ Life!Board' = c
  BY <1>1, <1>4 DEF Life!Board
<1>6. \A p \in Life!Ports : port'[p].dev = usb_device[p] /\ port'[p].ctrl = IF usb_device[p] = Null THEN {} ELSE {"CCS"}
  <2> SUFFICES ASSUME NEW p \in Life!Ports
               PROVE  port'[p].dev = usb_device[p] /\ port'[p].ctrl = IF usb_device[p] = Null THEN {} ELSE {"CCS"}
    OBVIOUS
  <2>1. port[p].dev = usb_device[p]
    BY <1>3
  <2>2. /\ port[p] \in [dev : LifeObjects \cup {Null}, ctrl : LifeBits]
        /\ port'[p] = [port[p] EXCEPT !.ctrl = IF port[p].dev = Null THEN {} ELSE {"CCS"}]
    BY <1>1, <1>3
  <2>3. port'[p].dev = port[p].dev /\ port'[p].ctrl = IF port[p].dev = Null THEN {} ELSE {"CCS"}
    BY <2>2
  <2> QED BY <2>1, <2>3
<1>7. port' \in [Life!Ports -> [dev : LifeObjects \cup {Null}, ctrl : LifeBits]]
  BY <1>1, <1>3 DEF LifeBits
<1>8. LifeOwned(c)
  <2>1. c \in LifeBoards
    BY <1>2, <1>4, <1>7, LifeBoardParts DEF LifeOwned, LifeBoards
  <2> QED BY <1>2, <1>5, <1>6, <2>1, LifeBoardParts DEF LifeOwned
<1>9. \A p \in Life!Ports : LifeShows(c, p)
  BY <1>5, <1>6 DEF LifeShows
<1>10. \A p \in Life!Ports : LifeAt(c, p) = LifeAt(Life!Board, p) /\ c.dev[p] = Life!Board.dev[p]
  BY <1>5, LifeBoardParts DEF LifeAt
<1>11. \A p \in Life!Ports : /\ LifeOpens(c, p, 0) <=> LifeOpens(Life!Board, p, 0)
                             /\ LifeOpens(c, p, 1) <=> LifeOpens(Life!Board, p, 1)
  BY <1>10 DEF LifeOpens
<1>12. \A p \in Life!Ports : LifeOpens(c, p, 0) \/ (usb_opened' = TRUE /\ LifeOpens(c, p, 1))
  BY <1>1, <1>11 DEF LifeIInv, LifeDevices, LifePlugin
<1>13. c.ep = Life!Board.ep
  BY <1>5, LifeBoardParts
<1> QED BY <1>1, <1>2, <1>5, <1>8, <1>9, <1>11, <1>12, <1>13, LifeKeeps

LEMMA LifeSave ==
  ASSUME LifeIInv, Life!Save, UNCHANGED plugin_build
  PROVE  LifeIInv' /\ LifeFollows
<1> USE LifeConstantTypes
<1> DEFINE index == plugin_conf
           size == [p \in Life!Ports |-> Life!SizeOf(plugin_conf[p], usb_device[p])]
           data(p) == IF plugin_conf[p] = None THEN Life!Garbage
                      ELSE Life!Through(plugin_conf[p], usb_device[p], heap[usb_device[p]].data)
           dev == [p \in Life!Ports |-> IF usb_device[p] = Null THEN Life!Freed
                                        ELSE [heap[usb_device[p]] EXCEPT !.data = data(p)]]
           ctrl == [p \in Life!Ports |-> port[p].ctrl]
<1>1. PICK owner \in Life!Owners, kind \in Life!Kinds \cup {ep.kind} :
        plugin_disk' = <<[index |-> index, size |-> size, dev |-> dev, ctrl |-> ctrl, owner |-> owner,
                          kind |-> kind]>>
  BY DEF Life!Save
<1>2. /\ ohci = "live" /\ usb_opened = TRUE /\ returned' = "none"
      /\ UNCHANGED <<ohci, usb_opened, configChanged, plugin_conf, plugin_loaded, plugin_ini, heap, usb_device, port, ep>>
  BY DEF Life!Save, Life!plugin, Life!board, LifeIInv, LifePlugin
<1>3. LifePlugin' /\ Life!Board' = Life!Board
  BY <1>2, LifeSameBoard DEF LifePlugin, LifeIInv
<1>4. /\ heap \in [LifeObjects -> LifeRecords] /\ usb_device \in [Life!Ports -> LifeObjects \cup {Null}]
      /\ port \in [Life!Ports -> [dev : LifeObjects \cup {Null}, ctrl : LifeBits]]
      /\ ep.kind \in Life!Kinds \cup {"none"} /\ plugin_conf \in LifeChoices
      /\ \A p \in Life!Ports : usb_device[p] # Null => heap[usb_device[p]].type \in LifeTypes
  BY LifeBoardParts DEF LifeIInv, LifeDevices, LifeOwned, LifeBoards, LifePlugin
<1>5. owner \in 0..2 /\ kind \in Life!Kinds \cup {"none"}
  BY <1>1, <1>4 DEF Life!Owners, Life!NoIndex
<1>6. size \in [Life!Ports -> 0..1]
  BY DEF Life!SizeOf, Life!FreezeSize
<1>7. /\ dev \in [Life!Ports -> LifeRecords]
      /\ \A p \in Life!Ports : IF usb_device[p] = Null THEN dev[p] = Life!Freed
                               ELSE dev[p].type = heap[usb_device[p]].type
  <2>1. Life!Freed \in LifeRecords
    BY DEF Life!Freed, LifeRecords
  <2> SUFFICES ASSUME NEW p \in Life!Ports, usb_device[p] # Null
               PROVE  dev[p] \in LifeRecords /\ dev[p].type = heap[usb_device[p]].type
    BY <2>1
  <2>2. heap[usb_device[p]] \in LifeRecords
    BY <1>4
  <2>3. data(p) \in LifeData \cup {Life!Garbage}
    BY <2>2 DEF Life!Through, LifeRecords
  <2>4. dev[p] = [heap[usb_device[p]] EXCEPT !.data = data(p)]
    OBVIOUS
  <2> HIDE DEF dev, data
  <2> QED BY <2>2, <2>3, <2>4 DEF LifeRecords
<1>8. ctrl \in [Life!Ports -> LifeBits]
  BY <1>4
<1>9. /\ Life!saved' = [index |-> index, size |-> size, dev |-> dev, ctrl |-> ctrl, owner |-> owner, kind |-> kind]
      /\ plugin_disk' # <<>>
  BY <1>1 DEF Life!saved
<1> HIDE DEF dev, ctrl
<1>10. ASSUME NEW p \in Life!Ports PROVE LifeFits(p)'
  <2>1. /\ Life!saved'.dev[p] = dev[p] /\ Life!saved'.index[p] = plugin_conf[p]
        /\ Life!saved'.size[p] = Life!SizeOf(plugin_conf[p], usb_device[p])
    BY <1>9
  <2>2. dev[p].type = None <=> dev[p] = Life!Freed
    BY <1>4, <1>7 DEF Life!Freed
  <2>3. dev[p].type = plugin_conf[p] /\ plugin_conf[p] # None =>
          Life!SizeOf(plugin_conf[p], usb_device[p]) = Life!FreezeSize(plugin_conf[p])
    BY <1>7 DEF Life!SizeOf, Life!Freed
  <2> QED BY <2>1, <2>2, <2>3 DEF LifeFits, Life!Sound, Life!FreezeSize
<1> HIDE DEF size
<1>11. LifeDisk'
  BY <1>4, <1>5, <1>6, <1>7, <1>8, <1>9, <1>10 DEF LifeDisk, LifeSaves
<1>12. LifeDevices'
  BY <1>2, <1>3 DEF LifeIInv, LifeDevices
<1>13. LifeFollows
  <2>1. (Life!AllOpen)' <=> Life!AllOpen
    BY <1>2 DEF Life!AllOpen, Life!Alive
  <2>2. \A p \in Life!Ports : (Life!Shows(p))' <=> Life!Shows(p)
    BY <1>2 DEF Life!Shows
  <2> QED BY <1>2, <2>1, <2>2 DEF LifeFollows, Life!OpenTogether, Life!ShowsDevices, Life!PacketPointsToDevice,
             Life!Read, Life!Dangles, Life!Dangling
<1> QED BY <1>3, <1>11, <1>12, <1>13 DEF LifeIInv

LEMMA LifeEmpty ==
  ASSUME NEW b, LifeOwned(b), Life!saved \in LifeSaves, NEW e, e = Life!Emptied(b)
  PROVE  /\ LifeOwned(e) /\ e.ep = Life!NoEp /\ e.dev = b.dev /\ e.heap = b.heap
         /\ \A p \in Life!Ports : e.port[p].ctrl = Life!saved.ctrl[p]
<1> USE LifeConstantTypes
<1> DEFINE ports == [p \in Life!Ports |-> [dev |-> b.port[p].dev, ctrl |-> Life!saved.ctrl[p]]]
<1>1. b = [heap |-> b.heap, dev |-> b.dev, port |-> b.port, ep |-> b.ep]
  BY LifeBoardIs DEF LifeOwned
<1>2. e = [b EXCEPT !.port = ports, !.ep = Life!NoEp]
  BY DEF Life!Emptied
<1> DEFINE b1 == [b EXCEPT !.port = ports]
<1>3. b1 = [heap |-> b.heap, dev |-> b.dev, port |-> ports, ep |-> b.ep]
  BY <1>1
<1>4. e = [heap |-> b.heap, dev |-> b.dev, port |-> ports, ep |-> Life!NoEp]
  <2> HIDE DEF b1, ports
  <2>1. [b1 EXCEPT !.ep = Life!NoEp] = [heap |-> b.heap, dev |-> b.dev, port |-> ports, ep |-> Life!NoEp]
    BY <1>3
  <2> QED BY <1>2, <2>1 DEF b1
<1>5. /\ ports \in [Life!Ports -> [dev : LifeObjects \cup {Null}, ctrl : LifeBits]]
      /\ \A p \in Life!Ports : ports[p].dev = b.port[p].dev /\ ports[p].ctrl = Life!saved.ctrl[p]
  BY DEF LifeOwned, LifeBoards, LifeSaves
<1> HIDE DEF ports
<1>6. e.heap = b.heap /\ e.dev = b.dev /\ e.port = ports /\ e.ep = Life!NoEp
  BY <1>4
<1>7. e \in LifeBoards
  BY <1>4, <1>5 DEF LifeOwned, LifeBoards, Life!NoEp
<1>8. LifeOwned(e)
  BY <1>5, <1>6, <1>7 DEF LifeOwned, Life!NoEp
<1> QED BY <1>5, <1>6, <1>8

\* What loading a state leaves behind.
LifeLeaves(c) ==
  \A p \in Life!Ports : /\ c.dev[p] = Null => c.port[p].ctrl = Life!saved.ctrl[p]
                        /\ "CCS" \in Life!saved.ctrl[p] => "CCS" \in c.port[p].ctrl
LifeBrings(c, cs, fails) ==
  \A p \in Life!Ports : /\ LifeBrought(c, p)
                        /\ c.dev[p] = Null <=> \/ Life!saved.index[p] = None
                                               \/ LifeGap(Life!Board, cs, p, fails)
LEMMA LifeLoadIs ==
  ASSUME LifeIInv, Life!Load
  PROVE  /\ LifeOwned(Life!Board') /\ LifeLeaves(Life!Board')
         /\ \A p \in Life!Ports : LifeOpens(Life!Board', p, 0) \/ LifeOpens(Life!Board', p, 1)
         /\ Life!Board'.ep # Life!LostEp
         /\ plugin_conf' \in LifeChoices /\ returned' \in {"loaded", "size", "packet"}
         /\ (\A p \in Life!Ports : Life!Sound(p)) => returned' # "size"
         /\ returned' = "packet" => Life!saved.owner = Life!NoIndex \/ Life!Board'.dev[Life!saved.owner] = Null
         /\ Life!Trusted => LifeBrings(Life!Board', plugin_conf, unmade')
<1> USE LifeConstantTypes
<1>1. PICK k, e, n :
        /\ k = Life!CloseDevice(Life!CloseDevice(Life!Board, 0), 1)
        /\ e = Life!Emptied(k)
        /\ n = LifeRead(e, plugin_conf, unmade')
        /\ plugin_conf' = n.conf
        /\ IF n.stop THEN Life!SetBoard(n.b) /\ returned' = "size" ELSE Life!LoadPacket(n)
  BY DEF Life!Load, LifeRead
<1>2. ohci = "live" /\ usb_opened /\ plugin_disk # <<>>
  BY DEF Life!Load
<1>3. /\ LifeOwned(Life!Board) /\ Life!saved \in LifeSaves /\ plugin_conf \in LifeChoices
      /\ \A p \in Life!Ports : LifeFits(p)
  BY <1>2 DEF LifeIInv, LifeDevices, LifeDisk, LifePlugin
<1>4. /\ LifeOwned(k) /\ k.dev = Life!Board.dev /\ \A p \in Life!Ports : LifeOpens(k, p, 0)
      /\ \A p \in Life!Ports : Life!Board.dev[p] # Null => LifeAt(k, p).type = LifeAt(Life!Board, p).type
  BY <1>1, <1>3, LifeCloseBoth
<1>5. /\ LifeOwned(e) /\ e.ep = Life!NoEp /\ e.dev = k.dev /\ e.heap = k.heap
      /\ \A p \in Life!Ports : e.port[p].ctrl = Life!saved.ctrl[p]
  BY <1>1, <1>3, <1>4, LifeEmpty
<1>6. \A p \in Life!Ports : LifeAt(e, p) = LifeAt(k, p) /\ LifeOpens(e, p, 0)
  BY <1>4, <1>5 DEF LifeAt, LifeOpens
<1>7. /\ n.stop \in BOOLEAN /\ n.conf \in LifeChoices /\ LifeOwned(n.b) /\ LifeEp(e, n.b)
      /\ \A p \in Life!Ports : LifeOpens(n.b, p, 0) \/ LifeOpens(n.b, p, 1)
      /\ (\A p \in Life!Ports : Life!Sound(p)) => ~n.stop
      /\ (\A p \in Life!Ports : LifeFit(e, plugin_conf, p)) =>
           \A p \in Life!Ports :
             /\ LifeBrought(n.b, p)
             /\ n.b.dev[p] = Null <=> Life!saved.index[p] = None \/ LifeGap(e, plugin_conf, p, unmade')
      /\ \A p \in Life!Ports : /\ n.b.dev[p] = Null => n.b.port[p].ctrl = e.port[p].ctrl
                               /\ "CCS" \in e.port[p].ctrl => "CCS" \in n.b.port[p].ctrl
  BY <1>1, <1>3, <1>5, <1>6, LifeLoadAll
<1>8. Life!Trusted => \A p \in Life!Ports : LifeFit(e, plugin_conf, p)
  <2> SUFFICES ASSUME Life!Trusted, NEW p \in Life!Ports PROVE LifeFit(e, plugin_conf, p)
    OBVIOUS
  <2>1. Life!Sound(p) /\ Life!Settled(p)
    BY DEF Life!Trusted
  <2>2. e.dev[p] = usb_device[p] /\ (usb_device[p] # Null => LifeAt(e, p).type = heap[usb_device[p]].type)
    BY <1>4, <1>5, <1>6, LifeBoardParts DEF LifeAt
  <2> QED BY <2>1, <2>2 DEF LifeFit, Life!Settled
<1>9. \A p \in Life!Ports : LifeGap(e, plugin_conf, p, unmade') <=> LifeGap(Life!Board, plugin_conf, p, unmade')
  BY <1>4, <1>5 DEF LifeGap
<1>10. Life!Trusted => LifeBrings(n.b, plugin_conf, unmade')
  BY <1>7, <1>8, <1>9 DEF LifeBrings
<1>11. LifeLeaves(n.b)
  BY <1>5, <1>7 DEF LifeLeaves
<1>12. n.b \in LifeBoards /\ n.b.ep = Life!NoEp
  BY <1>5, <1>7 DEF LifeOwned, LifeEp, Life!NoEp
<1> DEFINE At(c) == c.heap = n.b.heap /\ c.dev = n.b.dev /\ c.port = n.b.port
<1>13. ASSUME NEW c \in LifeBoards, At(c), c.ep.obj \in LifeObjects => \E p \in Life!Ports : c.ep.obj = c.dev[p]
       PROVE  /\ LifeOwned(c) /\ LifeLeaves(c) /\ \A p \in Life!Ports : LifeOpens(c, p, 0) \/ LifeOpens(c, p, 1)
              /\ Life!Trusted => LifeBrings(c, plugin_conf, unmade')
  <2>1. LifeOwned(c)
    BY <1>7, <1>13 DEF LifeOwned
  <2>2. \A p \in Life!Ports : LifeAt(c, p) = LifeAt(n.b, p)
    BY <1>13 DEF LifeAt
  <2>3. \A p \in Life!Ports : LifeOpens(c, p, 0) \/ LifeOpens(c, p, 1)
    BY <1>7, <1>13, <2>2 DEF LifeOpens
  <2>4. LifeLeaves(c)
    BY <1>11, <1>13 DEF LifeLeaves
  <2> QED BY <1>10, <1>13, <2>1, <2>2, <2>3, <2>4 DEF LifeBrings, LifeBrought, LifeOpens
<1>14. Life!LostEp # Life!NoEp
  BY DEF Life!LostEp, Life!NoEp
<1>15. CASE n.stop
  <2>1. Life!Board' = n.b /\ returned' = "size"
    BY <1>1, <1>12, <1>15, LifeSetBoard
  <2> QED BY <1>1, <1>7, <1>10, <1>11, <1>12, <1>14, <1>15, <2>1
<1>16. CASE ~n.stop
  <2> DEFINE owner == Life!saved.owner
             valid == owner # Life!NoIndex
             found == valid /\ n.b.dev[owner] # Null
             refound == Life!Refound(n.b, owner, Life!saved.kind)
             c == [heap |-> n.b.heap, dev |-> n.b.dev, port |-> n.b.port, ep |-> refound]
  <2>1. Life!LoadPacket(n)
    BY <1>1, <1>16
  <2>2. owner \in 0..2
    BY <1>3 DEF LifeSaves
  <2>3. /\ Life!SetBoard(IF found THEN [n.b EXCEPT !.ep = refound] ELSE n.b)
        /\ returned' \in IF found THEN {"loaded"} ELSE IF valid THEN {"packet"} ELSE {"packet", "loaded"}
    BY <2>1 DEF Life!LoadPacket
  <2>4. CASE found
    <3>1. n.b = [heap |-> n.b.heap, dev |-> n.b.dev, port |-> n.b.port, ep |-> n.b.ep]
      BY <1>12, LifeBoardIs
    <3>2. [n.b EXCEPT !.ep = refound] = c
      <4> HIDE DEF refound
      <4> QED BY <3>1
    <3>3. owner \in Life!Ports
      BY <2>2, <2>4 DEF Life!NoIndex
    <3>4. n.b.dev[owner] \in LifeObjects
      BY <1>12, <2>4, <3>3 DEF LifeBoards
    <3>5. refound \in {Life!NoEp, [obj |-> n.b.dev[owner], kind |-> "in"]}
      BY DEF Life!Refound
    <3> HIDE DEF refound
    <3>6. /\ refound \in [obj : LifeObjects \cup {Null, Life!Lost}, kind : Life!Kinds \cup {"none"}]
          /\ refound # Life!LostEp /\ (refound.obj \in LifeObjects => refound.obj = n.b.dev[owner])
      BY <3>4, <3>5 DEF Life!NoEp, Life!LostEp, Life!Kinds
    <3>7. c \in LifeBoards /\ At(c) /\ c.ep = refound
      BY <1>12, <3>6 DEF LifeBoards
    <3>8. c.ep.obj \in LifeObjects => \E p \in Life!Ports : c.ep.obj = c.dev[p]
      BY <3>3, <3>6, <3>7
    <3>9. Life!SetBoard(c) /\ returned' = "loaded"
      BY <2>3, <2>4, <3>2
    <3> HIDE DEF c
    <3>10. Life!Board' = c
      BY <3>7, <3>9, LifeSetBoard
    <3> QED BY <1>1, <1>7, <1>13, <3>6, <3>7, <3>8, <3>9, <3>10
  <2>5. CASE ~found
    <3>1. Life!SetBoard(n.b) /\ returned' \in {"packet", "loaded"}
      BY <2>3, <2>5
    <3>2. Life!Board' = n.b
      BY <1>12, <3>1, LifeSetBoard
    <3> QED BY <1>1, <1>7, <1>10, <1>11, <1>12, <1>14, <2>5, <3>1, <3>2
  <2> QED BY <2>4, <2>5
<1> QED BY <1>7, <1>15, <1>16

LEMMA LifeLoad ==
  ASSUME LifeIInv, Life!Load, UNCHANGED plugin_build
  PROVE  LifeIInv' /\ LifeFollows /\ LifeLoads
<1> USE LifeConstantTypes
<1>1. /\ ohci = "live" /\ usb_opened = TRUE /\ plugin_disk # <<>>
      /\ UNCHANGED <<ohci, usb_opened, configChanged, plugin_loaded, plugin_ini, plugin_disk>>
  BY DEF Life!Load, LifeIInv, LifePlugin
<1>2. PICK c : c = Life!Board'
  OBVIOUS
<1>3. /\ LifeOwned(c) /\ LifeLeaves(c) /\ \A p \in Life!Ports : LifeOpens(c, p, 0) \/ LifeOpens(c, p, 1)
      /\ c.ep # Life!LostEp
      /\ plugin_conf' \in LifeChoices /\ returned' \in {"loaded", "size", "packet"}
      /\ (\A p \in Life!Ports : Life!Sound(p)) => returned' # "size"
      /\ returned' = "packet" => Life!saved.owner = Life!NoIndex \/ c.dev[Life!saved.owner] = Null
      /\ Life!Trusted => LifeBrings(c, plugin_conf, unmade')
  BY <1>2, LifeLoadIs
<1>4. /\ c.heap = heap' /\ c.dev = usb_device' /\ c.port = port' /\ c.ep = ep'
  BY <1>2, LifeBoardNext
<1>5. LifeIInv'
  <2>1. LifePlugin'
    BY <1>1, <1>3 DEF LifeIInv, LifePlugin
  <2>2. LifeDevices'
    BY <1>1, <1>2, <1>3 DEF LifeDevices
  <2>3. LifeDisk'
    BY <1>1 DEF LifeIInv, LifeDisk, LifeFits, Life!saved, Life!Sound
  <2> QED BY <2>1, <2>2, <2>3 DEF LifeIInv
<1>6. \A p \in Life!Ports : Life!Missing(p) <=> LifeGap(Life!Board, plugin_conf, p, unmade')
  BY LifeBoardParts DEF Life!Missing, LifeGap
<1>7. ASSUME Life!Trusted, NEW p \in Life!Ports
      PROVE  /\ LifeBrought(c, p) /\ Life!saved.dev[p].type = Life!saved.index[p]
             /\ c.dev[p] = Null <=> Life!saved.index[p] = None \/ Life!Missing(p)
             /\ Life!saved.index[p] = None <=> Life!saved.dev[p] = Life!Freed
  BY <1>1, <1>3, <1>6, <1>7 DEF LifeBrings, Life!Trusted, Life!Sound, LifeIInv, LifeDisk, LifeFits
<1>8. Life!OpenTogether
  <2>1. Life!Trusted => \A p \in Life!Ports : LifeOpens(c, p, 1)
    BY <1>7 DEF LifeBrought, LifeOpens
  <2>2. (Life!AllOpen)' <=> \A p \in Life!Ports : LifeOpens(c, p, 1)
    BY <1>3, <1>4, LifeLiving DEF Life!AllOpen, Life!Alive
  <2> QED BY <1>3, <2>1, <2>2 DEF Life!OpenTogether, Life!Read
<1>9. Life!ShowsDevices
  <2> SUFFICES ASSUME NEW p \in Life!Ports, Life!Trusted, Life!SavedShows(p), ~Life!Missing(p)
               PROVE  (Life!Shows(p))'
    BY <1>3 DEF Life!ShowsDevices, Life!Read
  <2>1. c.dev[p] = Null <=> Life!saved.dev[p] = Life!Freed
    BY <1>7
  <2>2. "CCS" \in c.port[p].ctrl <=> c.dev[p] # Null
    BY <1>3, <2>1 DEF LifeLeaves, Life!SavedShows
  <2>3. c.port[p].dev = c.dev[p]
    BY <1>3 DEF LifeOwned
  <2> QED BY <1>4, <2>2, <2>3 DEF Life!Shows
<1>10. Life!PacketPointsToDevice
  BY <1>3, <1>4 DEF Life!PacketPointsToDevice, Life!Dangles, Life!Dangling
<1>11. Life!LoadsSameDevices
  <2> SUFFICES ASSUME Life!Trusted, NEW p \in Life!Ports
               PROVE  /\ c.dev[p] = Null <=> Life!saved.dev[p] = Life!Freed \/ Life!Missing(p)
                      /\ c.dev[p] # Null =>
                           /\ LifeAt(c, p).type = Life!saved.dev[p].type
                           /\ Life!saved.dev[p].type \in LifeSizeless \/ LifeAt(c, p).data = Life!saved.dev[p].data
    BY <1>4 DEF Life!LoadsSameDevices, LifeAt
  <2> QED BY <1>7 DEF LifeBrought
<1>12. Life!RefusesOnlyPackets
  BY <1>3, <1>4 DEF Life!RefusesOnlyPackets
<1> QED BY <1>5, <1>8, <1>9, <1>10, <1>11, <1>12 DEF LifeFollows, LifeLoads

\* Every step keeps the invariant, lets the devices follow, and loads what was saved.
LEMMA LifeNext ==
  ASSUME LifeIInv, Life!Next
  PROVE  LifeIInv' /\ LifeFollows /\ LifeLoads
<1>1. UNCHANGED plugin_build /\ (Life!Host \/ Life!Guest)
  BY DEF Life!Next
<1>2. CASE Life!Load
  BY <1>1, <1>2, LifeLoad
<1>3. ASSUME ~Life!Load PROVE returned' = "none"
  <2>1. Life!Calm => returned' = "none"
    BY DEF Life!Calm
  <2>2. CASE Life!Guest
    BY <2>1, <2>2 DEF Life!Guest, Life!ResetHub, Life!Transfer
  <2>3. CASE Life!Host
    BY <1>3, <2>1, <2>3 DEF Life!Host, Life!USBinit, Life!USBopen, Life!USBclose, Life!USBshutdown, Life!Restart,
       Life!Configure, Life!CancelConfigure, Life!Save
  <2> QED BY <1>1, <2>2, <2>3
<1>4. ASSUME ~Life!Load PROVE LifeLoads
  BY <1>3, <1>4 DEF LifeLoads, Life!LoadsSameDevices, Life!RefusesOnlyPackets, Life!Read
<1>5. ASSUME ~Life!Load PROVE LifeIInv' /\ LifeFollows
  <2>1. CASE Life!Host
    BY <1>1, <1>5, <2>1, LifeInit, LifeOpen, LifeClose, LifeShutdown, LifeRestart, LifeConfigure, LifeCancelConfigure,
       LifeSave DEF Life!Host
  <2>2. CASE Life!Guest
    BY <1>1, <2>2, LifeConstantTypes, LifeResetHub, LifeTransfer DEF Life!Guest
  <2> QED BY <1>1, <2>1, <2>2
<1> QED BY <1>2, <1>4, <1>5

LEMMA LifeNextKeeps ==
  ASSUME LifeIInv, [Life!Next]_(Life!vars)
  PROVE  LifeIInv'
<1>1. CASE UNCHANGED Life!vars
  <2>1. UNCHANGED <<plugin_build, ohci, usb_opened, configChanged, plugin_conf, plugin_loaded, plugin_ini, heap, usb_device,
                    port, ep, plugin_disk, returned>>
    BY <1>1 DEF Life!vars, Life!plugin, Life!board, Life!outcome
  <2>2. Life!Board' = Life!Board
    BY <2>1, LifeSameBoard
  <2>3. LifePlugin' /\ LifeDevices'
    BY <2>1, <2>2 DEF LifeIInv, LifePlugin, LifeDevices
  <2>4. LifeDisk'
    BY <2>1 DEF LifeIInv, LifeDisk, LifeFits, Life!saved, Life!Sound
  <2> QED BY <2>3, <2>4 DEF LifeIInv
<1> QED BY <1>1, LifeNext

LEMMA LifeKept == LifeIInv => Life!TypeOK /\ Life!OwnedOnce /\ Life!ClosedTogether
<1> SUFFICES ASSUME LifeIInv PROVE Life!TypeOK /\ Life!OwnedOnce /\ Life!ClosedTogether
  OBVIOUS
<1> USE LifeConstantTypes
<1>1. /\ heap \in [LifeObjects -> LifeRecords] /\ usb_device \in [Life!Ports -> LifeObjects \cup {Null}]
      /\ port \in [Life!Ports -> [dev : LifeObjects \cup {Null}, ctrl : LifeBits]]
      /\ \A p \in Life!Ports : port[p].dev = usb_device[p]
      /\ usb_device[0] = usb_device[1] => usb_device[0] = Null
  BY LifeBoardParts DEF LifeIInv, LifeDevices, LifeOwned, LifeBoards
<1>2. \A o \in LifeObjects : \/ \E p \in Life!Ports : usb_device[p] = o /\ heap[o].type \in LifeTypes
                             \/ heap[o] = Life!Freed
  BY LifeBoardParts DEF LifeIInv, LifeDevices, LifeOwned
<1>3. \A p \in Life!Ports : usb_device[p] # Null =>
        heap[usb_device[p]].opens = 0 \/ (usb_opened /\ heap[usb_device[p]].opens = 1)
  BY LifeBoardParts DEF LifeIInv, LifeDevices, LifeOpens, LifeAt
<1>4. \A o \in LifeObjects : o \in Life!Alive <=> \E p \in Life!Ports : usb_device[p] = o
  BY LifeLiving, LifeBoardParts DEF Life!Alive, LifeIInv, LifeDevices
<1>5. Life!Alive \subseteq LifeObjects
  BY DEF Life!Alive
<1>6. \A o \in Life!Alive : /\ heap[o].type \in LifeTypes
                            /\ heap[o].opens = 0 \/ (usb_opened /\ heap[o].opens = 1)
  BY <1>2, <1>3, <1>4, <1>5 DEF Life!Alive
<1>7. Life!TypeOK
  <2>1. \A p \in Life!Ports : port[p].ctrl \subseteq {"CCS"}
    BY <1>1 DEF LifeBits
  <2>2. \A o \in Life!Alive : heap[o].type \in LifeTypes /\ heap[o].opens \in 0..1
    BY <1>6
  <2> QED BY <1>1, <2>1, <2>2 DEF LifeIInv, LifePlugin, LifeChoices, Life!TypeOK
<1>8. Life!OwnedOnce
  <2>1. Life!Alive = {usb_device[p] : p \in Life!Ports} \ {Null}
    BY <1>1, <1>4, <1>5
  <2> QED BY <1>1, <2>1 DEF Life!OwnedOnce
<1>9. Life!ClosedTogether
  BY <1>6 DEF Life!ClosedTogether
<1> QED BY <1>7, <1>8, <1>9

-----------------------------------------------------------------------------
(* The dialog that picks a device.                                         *)

ConfigNames == {Config!Absent} \cup {ConfigApis[t][i] : t \in ConfigTypes, i \in 1..2}
ConfigDesk(apis, subs, t, api, sub) ==
  [apis |-> apis, subs |-> subs, shown |-> [dev |-> t, api |-> api, sub |-> sub]]
ConfigChoices == [ConfigTypes -> ConfigNames]
ConfigSubs == [ConfigTypes -> Int]

LEMMA ConfigConstantTypes ==
  /\ Config!NoType \notin ConfigTypes /\ ConfigBuilds \subseteq {"gtk", "windows"}
  /\ \A t \in ConfigTypes :
       /\ Len(ConfigApis[t]) \in 1..2 /\ (Len(ConfigApis[t]) = 2 => ConfigApis[t][1] # ConfigApis[t][2])
       /\ ~Config!IsValidAPI(t, Config!Absent) /\ ConfigSubtypes[t] \in Nat
  /\ \A f \in ConfigFiles : Config!FileFits(f)
BY ConfigAssumption DEF Config!ConfigDialogConstants

LEMMA ConfigApiNames ==
  ASSUME NEW t \in ConfigTypes
  PROVE  /\ \A i \in 1..Len(ConfigApis[t]) : /\ ConfigApis[t][i] \in ConfigNames /\ Config!IsValidAPI(t, ConfigApis[t][i])
                                             /\ Config!Nth(t, ConfigApis[t][i]) = i
         /\ \A api : /\ Config!Nth(t, api) \in 1..Len(ConfigApis[t])
                     /\ Config!IsValidAPI(t, api) => ConfigApis[t][Config!Nth(t, api)] = api /\ api \in ConfigNames
                     /\ ~Config!IsValidAPI(t, api) => Config!Nth(t, api) = 1
<1> USE ConfigConstantTypes
<1> DEFINE n == Len(ConfigApis[t])
<1>1. n \in 1..2 /\ (n = 2 => ConfigApis[t][1] # ConfigApis[t][2])
  OBVIOUS
<1> HIDE DEF n
<1>2. \A i \in 1..n : i \in 1..2 /\ ConfigApis[t][i] \in ConfigNames
  BY <1>1 DEF ConfigNames
<1>3. \A api : Config!IsValidAPI(t, api) <=> \E i \in 1..n : ConfigApis[t][i] = api
  BY DEF Config!IsValidAPI, n
<1>4. \A api : /\ Config!Nth(t, api) \in 1..n
               /\ Config!IsValidAPI(t, api) => ConfigApis[t][Config!Nth(t, api)] = api
               /\ ~Config!IsValidAPI(t, api) => Config!Nth(t, api) = 1
  <2> TAKE api
  <2> DEFINE x == CHOOSE i \in 1..n : ConfigApis[t][i] = api
  <2>1. CASE Config!IsValidAPI(t, api)
    <3>1. Config!Nth(t, api) = x
      BY <2>1 DEF Config!Nth, n
    <3>2. x \in 1..n /\ ConfigApis[t][x] = api
      BY <1>3, <2>1
    <3> QED BY <2>1, <3>1, <3>2
  <2>2. CASE ~Config!IsValidAPI(t, api)
    <3>1. Config!Nth(t, api) = 1
      BY <2>2 DEF Config!Nth
    <3> QED BY <1>1, <2>2, <3>1
  <2> QED BY <2>1, <2>2
<1>5. \A i, j \in 1..n : ConfigApis[t][i] = ConfigApis[t][j] => i = j
  <2>1. CASE n = 1
    BY <2>1
  <2>2. CASE n = 2
    BY <1>1, <2>2
  <2> QED BY <1>1, <2>1, <2>2
<1> QED BY <1>2, <1>3, <1>4, <1>5 DEF n

LEMMA ConfigDeskIs ==
  ASSUME NEW A, NEW S, NEW t, NEW a, NEW s, NEW d, d = ConfigDesk(A, S, t, a, s)
  PROVE  /\ d.shown.dev = t /\ d.shown.api = a /\ d.shown.sub = s /\ d.apis = A /\ d.subs = S
         /\ \A i : [d EXCEPT !.shown.api = i] = ConfigDesk(A, S, t, i, s)
         /\ \A n : [d EXCEPT !.shown.sub = n] = ConfigDesk(A, S, t, a, n)
         /\ \A x : [d EXCEPT !.apis[t] = x] = ConfigDesk([A EXCEPT ![t] = x], S, t, a, s)
         /\ \A x : [d EXCEPT !.subs[t] = x] = ConfigDesk(A, [S EXCEPT ![t] = x], t, a, s)
BY DEF ConfigDesk

ConfigTake(A, t, i) == [A EXCEPT ![t] = ConfigApis[t][i]]
LEMMA ConfigApiCleared ==
  ASSUME NEW A, NEW S, NEW t, NEW a, NEW s
  PROVE  Config!apiChanged(ConfigDesk(A, S, t, a, s), 0) = ConfigDesk(A, S, t, 0, s)
<1> DEFINE d == ConfigDesk(A, S, t, a, s)
<1>1. d.shown.dev = t /\ d.shown.api = a /\ [d EXCEPT !.shown.api = 0] = ConfigDesk(A, S, t, 0, s)
  BY ConfigDeskIs
<1>2. a = 0 => d = ConfigDesk(A, S, t, 0, s)
  OBVIOUS
<1> HIDE DEF d
<1>3. Config!apiChanged(d, 0) = ConfigDesk(A, S, t, 0, s)
  BY <1>1, <1>2 DEF Config!apiChanged
<1> QED BY <1>3 DEF d

LEMMA ConfigApiSame ==
  ASSUME NEW A, NEW S, NEW t, NEW s, NEW i
  PROVE  Config!apiChanged(ConfigDesk(A, S, t, i, s), i) = ConfigDesk(A, S, t, i, s)
<1> DEFINE d == ConfigDesk(A, S, t, i, s)
<1>1. d.shown.api = i
  BY ConfigDeskIs
<1> HIDE DEF d
<1>2. Config!apiChanged(d, i) = d
  BY <1>1 DEF Config!apiChanged
<1> QED BY <1>2 DEF d

LEMMA ConfigApiPicked ==
  ASSUME NEW A, NEW S, NEW t \in ConfigTypes, NEW a, NEW s, NEW i \in 1..2, a # i
  PROVE  Config!apiChanged(ConfigDesk(A, S, t, a, s), i) = ConfigDesk(ConfigTake(A, t, i), S, t, i, s)
<1> DEFINE d == ConfigDesk(A, S, t, a, s)
           e == [d EXCEPT !.shown.api = i]
<1>1. d.shown.dev = t /\ d.shown.api = a /\ e = ConfigDesk(A, S, t, i, s) /\ t # Config!NoType
  BY ConfigDeskIs, ConfigConstantTypes
<1> HIDE DEF e
<1>2. [e EXCEPT !.apis[t] = ConfigApis[t][i]] = ConfigDesk([A EXCEPT ![t] = ConfigApis[t][i]], S, t, i, s)
  BY <1>1 DEF ConfigDesk
<1> HIDE DEF d
<1>3. Config!apiChanged(d, i) = [e EXCEPT !.apis[t] = ConfigApis[t][i]]
  BY <1>1 DEF Config!apiChanged, e
<1> QED BY <1>2, <1>3 DEF d, ConfigTake

ConfigPut(S, t, n) == [S EXCEPT ![t] = n]
LEMMA ConfigSubtypeSame ==
  ASSUME NEW A, NEW S, NEW t, NEW a, NEW n
  PROVE  Config!subtypeChanged(ConfigDesk(A, S, t, a, n), n) = ConfigDesk(A, S, t, a, n)
<1> DEFINE d == ConfigDesk(A, S, t, a, n)
<1>1. d.shown.sub = n
  BY ConfigDeskIs
<1> HIDE DEF d
<1>2. Config!subtypeChanged(d, n) = d
  BY <1>1 DEF Config!subtypeChanged
<1> QED BY <1>2 DEF d

LEMMA ConfigSubtypePicked ==
  ASSUME NEW A, NEW S, NEW t \in ConfigTypes, NEW a, NEW s, NEW n, s # n
  PROVE  Config!subtypeChanged(ConfigDesk(A, S, t, a, s), n) = ConfigDesk(A, ConfigPut(S, t, n), t, a, n)
<1> DEFINE d == ConfigDesk(A, S, t, a, s)
           e == [d EXCEPT !.shown.sub = n]
<1>1. d.shown.dev = t /\ d.shown.sub = s /\ e = ConfigDesk(A, S, t, a, n) /\ t # Config!NoType
  BY ConfigDeskIs, ConfigConstantTypes
<1> HIDE DEF e
<1>2. [e EXCEPT !.subs[t] = n] = ConfigDesk(A, [S EXCEPT ![t] = n], t, a, n)
  BY <1>1 DEF ConfigDesk
<1> HIDE DEF d
<1>3. Config!subtypeChanged(d, n) = [e EXCEPT !.subs[t] = n]
  BY <1>1 DEF Config!subtypeChanged, e
<1> QED BY <1>2, <1>3 DEF d, ConfigPut

LEMMA ConfigSubtypeNone ==
  ASSUME NEW A, NEW S, NEW a, NEW s, NEW n
  PROVE  Config!subtypeChanged(ConfigDesk(A, S, Config!NoType, a, s), n) = ConfigDesk(A, S, Config!NoType, a, n)
<1> DEFINE d == ConfigDesk(A, S, Config!NoType, a, s)
           e == [d EXCEPT !.shown.sub = n]
<1>1. d.shown.dev = Config!NoType /\ d.shown.sub = s /\ e = ConfigDesk(A, S, Config!NoType, a, n)
  BY ConfigDeskIs
<1>2. s = n => d = ConfigDesk(A, S, Config!NoType, a, n)
  OBVIOUS
<1> HIDE DEF e, d
<1>3. Config!subtypeChanged(d, n) = ConfigDesk(A, S, Config!NoType, a, n)
  BY <1>1, <1>2 DEF Config!subtypeChanged, e
<1> QED BY <1>3 DEF d

\* The list of GTK ends at the API that is chosen, or that the file names.
LEMMA ConfigFillsApis ==
  ASSUME NEW A \in ConfigChoices, NEW S, NEW t \in ConfigTypes, NEW a, NEW s, NEW f
  PROVE  LET api == IF A[t] # Config!Absent THEN A[t] ELSE f.api[t]
             n == Config!Nth(t, api)
         IN Config!populateApiWidget(ConfigDesk(A, S, t, a, s), f)
              = ConfigDesk(ConfigTake(A, t, n), S, t, n, s)
<1> USE ConfigConstantTypes
<1> DEFINE api == IF A[t] # Config!Absent THEN A[t] ELSE f.api[t]
           n == Config!Nth(t, api)
           len == Len(ConfigApis[t])
           d == ConfigDesk(A, S, t, a, s)
           bare == ConfigDesk(A, S, t, 0, s)
           A1 == ConfigTake(A, t, 1)
           first == ConfigDesk(A1, S, t, 1, s)
<1>1. d.shown.dev = t /\ d.apis = A /\ t # Config!NoType
  BY ConfigDeskIs
<1>2. Config!apiChanged(d, 0) = bare
  BY ConfigApiCleared
<1>3. Config!apiChanged(bare, 1) = first
  BY ConfigApiPicked
<1>4. Config!populateApiWidget(d, f)
        = IF ConfigApis[t][len] = api THEN Config!apiChanged(first, len) ELSE first
  BY <1>1, <1>2, <1>3 DEF Config!populateApiWidget
<1>5. len = 2 => Config!apiChanged(first, len) = ConfigDesk(ConfigTake(A1, t, len), S, t, len, s)
  BY ConfigApiPicked
<1>6. len = 1 => Config!apiChanged(first, len) = first
  BY ConfigApiSame
<1>7. ConfigTake(A1, t, len) = ConfigTake(A, t, len)
  BY DEF ConfigChoices, ConfigTake
<1>8. n = IF ConfigApis[t][len] = api THEN len ELSE 1
  <2>1. ConfigApis[t][len] = api => n = len
    BY ConfigApiNames
  <2>2. ConfigApis[t][len] # api => n = 1
    <3>1. n \in 1..len /\ (n # 1 => ConfigApis[t][n] = api)
      BY ConfigApiNames
    <3>2. len \in 1..2
      OBVIOUS
    <3> HIDE DEF n, api, len
    <3> QED BY <3>1, <3>2
  <2> QED BY <2>1, <2>2
<1>9. len \in 1..2
  OBVIOUS
<1> HIDE DEF n, api, len, d, first
<1>10. Config!populateApiWidget(d, f) = ConfigDesk(ConfigTake(A, t, n), S, t, n, s)
  <2>1. CASE ConfigApis[t][len] # api
    BY <1>4, <1>8, <2>1 DEF first
  <2>2. CASE ConfigApis[t][len] = api /\ len = 1
    BY <1>4, <1>6, <1>8, <2>2 DEF first
  <2>3. CASE ConfigApis[t][len] = api /\ len = 2
    BY <1>4, <1>5, <1>7, <1>8, <2>3
  <2> QED BY <1>9, <2>1, <2>2, <2>3
<1> QED BY <1>10 DEF n, api, d

ConfigFits(t, sub) == sub = Config!Unset \/ Config!HasSubtype(t, sub)
ConfigShowsSub(S, t, s) ==
  IF ConfigSubtypes[t] > 0 THEN s \in 0..ConfigSubtypes[t] - 1 /\ S[t] = s ELSE s = -1 /\ ConfigFits(t, S[t])
LEMMA ConfigFillsSubtypes ==
  ASSUME NEW A, NEW S \in ConfigSubs, NEW t \in ConfigTypes, NEW a, NEW s, NEW f,
         ConfigFits(t, S[t]), ConfigFits(t, f.sub[t])
  PROVE  \E S2, n :
           /\ S2 \in ConfigSubs
           /\ Config!populateSubtypeWidget(ConfigDesk(A, S, t, a, s), f) = ConfigDesk(A, S2, t, a, n)
           /\ \A u \in ConfigTypes : u # t => S2[u] = S[u]
           /\ ConfigShowsSub(S2, t, n)
           /\ ConfigSubtypes[t] > 0 => n = Config!OrFirst(f.sub[t])
<1> USE ConfigConstantTypes
<1> DEFINE sel == Config!OrFirst(f.sub[t])
           seen(b) == IF f.sub[t] = Config!Unset THEN [b EXCEPT !.subs[t] = sel] ELSE b
           d == ConfigDesk(A, S, t, a, s)
           Fine(S3) == S3 \in ConfigSubs /\ (\A u \in ConfigTypes : u # t => S3[u] = S[u])
                       /\ (ConfigSubtypes[t] = 0 => ConfigFits(t, S3[t]))
<1>1. d.shown.dev = t /\ t # Config!NoType
  BY ConfigDeskIs
<1>2. PICK b : b = Config!subtypeChanged(d, -1)
  OBVIOUS
<1> HIDE DEF d
<1>3. Config!populateSubtypeWidget(d, f)
        = IF sel \in 0..ConfigSubtypes[t] - 1 THEN Config!subtypeChanged(seen(b), sel) ELSE seen(b)
  BY <1>1, <1>2 DEF Config!populateSubtypeWidget
<1>4. PICK Sb : b = ConfigDesk(A, Sb, t, a, -1) /\ Fine(Sb)
  <2>1. CASE s = -1
    <3>1. b = ConfigDesk(A, S, t, a, -1)
      BY <1>2, <2>1, ConfigSubtypeSame DEF d
    <3> QED BY <3>1
  <2>2. CASE s # -1
    <3>1. PICK m : m = -1
      OBVIOUS
    <3>2. b = ConfigDesk(A, ConfigPut(S, t, m), t, a, m)
      BY <1>2, <2>2, <3>1, ConfigSubtypePicked DEF d
    <3>3. Fine(ConfigPut(S, t, m))
      BY <3>1 DEF ConfigPut, ConfigSubs, ConfigFits, Config!HasSubtype
    <3> QED BY <3>1, <3>2, <3>3
  <2> QED BY <2>1, <2>2
<1>5. sel \in Int /\ (ConfigSubtypes[t] > 0 => sel \in 0..ConfigSubtypes[t] - 1)
      /\ (f.sub[t] = Config!Unset => sel = 0) /\ (ConfigSubtypes[t] = 0 => sel \notin 0..ConfigSubtypes[t] - 1)
  BY DEF Config!OrFirst, ConfigFits, Config!HasSubtype, Config!Unset
<1> HIDE DEF sel
<1>6. PICK Sk : seen(b) = ConfigDesk(A, Sk, t, a, -1) /\ Fine(Sk)
  <2>1. CASE f.sub[t] = Config!Unset
    <3>1. seen(b) = ConfigDesk(A, [Sb EXCEPT ![t] = sel], t, a, -1)
      BY <1>4, <2>1 DEF ConfigDesk
    <3>2. Fine([Sb EXCEPT ![t] = sel])
      BY <1>4, <1>5, <2>1 DEF ConfigSubs, ConfigFits, Config!HasSubtype
    <3> QED BY <3>1, <3>2
  <2>2. CASE f.sub[t] # Config!Unset
    BY <1>4, <2>2
  <2> QED BY <2>1, <2>2
<1> HIDE DEF seen
<1>7. CASE ConfigSubtypes[t] > 0
  <2>1. PICK m : m = -1
    OBVIOUS
  <2>2. m # sel
    BY <1>5, <1>7, <2>1
  <2>3. Config!subtypeChanged(seen(b), sel) = ConfigDesk(A, ConfigPut(Sk, t, sel), t, a, sel)
    BY <1>6, <2>1, <2>2, ConfigSubtypePicked
  <2>4. Config!populateSubtypeWidget(d, f) = ConfigDesk(A, ConfigPut(Sk, t, sel), t, a, sel)
    BY <1>3, <1>5, <1>7, <2>3
  <2>5. Fine(ConfigPut(Sk, t, sel)) /\ ConfigPut(Sk, t, sel)[t] = sel
    BY <1>5, <1>6, <1>7 DEF ConfigPut, ConfigSubs
  <2>6. ConfigShowsSub(ConfigPut(Sk, t, sel), t, sel)
    BY <1>5, <1>7, <2>5 DEF ConfigShowsSub
  <2> QED BY <2>4, <2>5, <2>6 DEF d, sel
<1>8. CASE ConfigSubtypes[t] = 0
  <2>1. Config!populateSubtypeWidget(d, f) = ConfigDesk(A, Sk, t, a, -1)
    BY <1>3, <1>5, <1>6, <1>8
  <2>2. ConfigShowsSub(Sk, t, -1)
    BY <1>6, <1>8 DEF ConfigShowsSub
  <2> QED BY <1>6, <1>8, <2>1, <2>2 DEF d
<1> QED BY <1>7, <1>8

\* What filling the lists leaves behind.
ConfigFilled(A, S, t, f, A2, S2, i, n) ==
  /\ A2 \in ConfigChoices /\ S2 \in ConfigSubs /\ i \in 0..2 /\ n \in Int
  /\ \A u \in ConfigTypes : u # t => A2[u] = A[u] /\ S2[u] = S[u]
  /\ t \in ConfigTypes =>
       /\ i \in 1..Len(ConfigApis[t]) /\ ConfigFits(t, S2[t])
       /\ IF settings_build = "gtk"
          THEN /\ i = Config!Nth(t, IF A[t] # Config!Absent THEN A[t] ELSE f.api[t])
               /\ A2[t] = ConfigApis[t][i]
               /\ ConfigShowsSub(S2, t, n)
               /\ ConfigSubtypes[t] > 0 => n = Config!OrFirst(f.sub[t])
          ELSE /\ i = Config!Nth(t, f.api[t])
               /\ A2[t] = IF f.api[t] = Config!Absent THEN ConfigApis[t][1] ELSE A[t]

LEMMA ConfigTakes ==
  ASSUME NEW A \in ConfigChoices, NEW t \in ConfigTypes, NEW i \in 1..Len(ConfigApis[t])
  PROVE  /\ ConfigTake(A, t, i) \in ConfigChoices /\ ConfigTake(A, t, i)[t] = ConfigApis[t][i]
         /\ \A u \in ConfigTypes : u # t => ConfigTake(A, t, i)[u] = A[u]
<1>1. ConfigApis[t][i] \in ConfigNames
  BY ConfigApiNames
<1> QED BY <1>1 DEF ConfigTake, ConfigChoices

LEMMA ConfigShowsFits ==
  ASSUME NEW S, NEW t \in ConfigTypes, NEW s, ConfigShowsSub(S, t, s)
  PROVE  ConfigFits(t, S[t]) /\ s \in Int
BY ConfigConstantTypes DEF ConfigShowsSub, ConfigFits, Config!HasSubtype

LEMMA ConfigPopulates ==
  ASSUME NEW A \in ConfigChoices, NEW S \in ConfigSubs, NEW t \in ConfigTypes \cup {Config!NoType}, NEW a, NEW s, NEW f,
         t \in ConfigTypes => ConfigFits(t, S[t]) /\ ConfigFits(t, f.sub[t]),
         NEW c, c = Config!Populate(ConfigDesk(A, S, t, a, s), f)
  PROVE  \E A2, S2, i, n : c = ConfigDesk(A2, S2, t, i, n) /\ ConfigFilled(A, S, t, f, A2, S2, i, n)
<1> USE ConfigConstantTypes
<1> DEFINE d == ConfigDesk(A, S, t, a, s)
<1>1. d.shown.dev = t
  BY ConfigDeskIs
<1>2. CASE settings_build = "gtk" /\ t \in ConfigTypes
  <2> DEFINE i == Config!Nth(t, IF A[t] # Config!Absent THEN A[t] ELSE f.api[t])
             A2 == ConfigTake(A, t, i)
  <2>1. c = Config!populateSubtypeWidget(Config!populateApiWidget(d, f), f)
    BY <1>2 DEF Config!Populate
  <2>2. Config!populateApiWidget(d, f) = ConfigDesk(A2, S, t, i, s)
    BY <1>2, ConfigFillsApis
  <2>3. i \in 1..Len(ConfigApis[t])
    BY <1>2, ConfigApiNames
  <2> HIDE DEF i, d
  <2>4. A2 \in ConfigChoices /\ A2[t] = ConfigApis[t][i] /\ \A u \in ConfigTypes : u # t => A2[u] = A[u]
    BY <1>2, <2>3, ConfigTakes
  <2> HIDE DEF A2
  <2>5. PICK S2, n :
           /\ S2 \in ConfigSubs
           /\ c = ConfigDesk(A2, S2, t, i, n)
           /\ \A u \in ConfigTypes : u # t => S2[u] = S[u]
           /\ ConfigShowsSub(S2, t, n)
           /\ ConfigSubtypes[t] > 0 => n = Config!OrFirst(f.sub[t])
    BY <1>2, <2>1, <2>2, ConfigFillsSubtypes
  <2>6. ConfigFits(t, S2[t]) /\ n \in Int /\ i \in 0..2
    <3>1. Len(ConfigApis[t]) \in 1..2
      BY <1>2
    <3>2. \A len \in 1..2 : \A j \in 1..len : j \in 0..2
      OBVIOUS
    <3>3. i \in 0..2
      BY <2>3, <3>1, <3>2
    <3> QED BY <1>2, <2>5, <3>3, ConfigShowsFits
  <2>7. ConfigFilled(A, S, t, f, A2, S2, i, n)
    BY <1>2, <2>3, <2>4, <2>5, <2>6 DEF ConfigFilled, i
  <2> QED BY <2>5, <2>7
<1>3. CASE settings_build = "gtk" /\ t = Config!NoType
  <2>1. c = Config!populateSubtypeWidget(Config!populateApiWidget(d, f), f)
    BY <1>3 DEF Config!Populate
  <2>2. Config!populateApiWidget(d, f) = ConfigDesk(A, S, t, 0, s)
    <3>1. Config!apiChanged(d, 0) = ConfigDesk(A, S, t, 0, s)
      BY ConfigApiCleared
    <3> HIDE DEF d
    <3> QED BY <1>1, <1>3, <3>1 DEF Config!populateApiWidget
  <2>3. Config!populateSubtypeWidget(ConfigDesk(A, S, t, 0, s), f) = ConfigDesk(A, S, t, 0, -1)
    <3> DEFINE e == ConfigDesk(A, S, t, 0, s)
    <3>1. PICK m : m = -1
      OBVIOUS
    <3>2. Config!subtypeChanged(e, m) = ConfigDesk(A, S, t, 0, m)
      BY <1>3, ConfigSubtypeNone
    <3>3. e.shown.dev = t
      BY ConfigDeskIs
    <3> HIDE DEF e
    <3>4. Config!populateSubtypeWidget(e, f) = ConfigDesk(A, S, t, 0, -1)
      BY <1>3, <3>1, <3>2, <3>3 DEF Config!populateSubtypeWidget
    <3> QED BY <3>4 DEF e
  <2>4. c = ConfigDesk(A, S, t, 0, -1)
    BY <2>1, <2>2, <2>3
  <2>5. ConfigFilled(A, S, t, f, A, S, 0, -1)
    BY <1>3 DEF ConfigFilled
  <2> QED BY <2>4, <2>5
<1>4. CASE settings_build # "gtk"
  <2>1. c = Config!PopulateSubType(Config!PopulateAPIs(d, f), f)
    BY <1>4 DEF Config!Populate
  <2>2. CASE t = Config!NoType
    <3>1. Config!PopulateAPIs(d, f) = ConfigDesk(A, S, t, 0, s)
      <4>1. [d EXCEPT !.shown.api = 0] = ConfigDesk(A, S, t, 0, s)
        BY ConfigDeskIs
      <4> HIDE DEF d
      <4> QED BY <1>1, <2>2, <4>1 DEF Config!PopulateAPIs
    <3>2. PICK e : e = ConfigDesk(A, S, t, 0, s)
      OBVIOUS
    <3>3. e.shown.dev = t /\ [e EXCEPT !.shown.sub = -1] = ConfigDesk(A, S, t, 0, -1)
      BY <3>2, ConfigDeskIs
    <3>4. Config!PopulateSubType(e, f) = ConfigDesk(A, S, t, 0, -1)
      BY <2>2, <3>3 DEF Config!PopulateSubType
    <3>5. c = ConfigDesk(A, S, t, 0, -1)
      BY <2>1, <3>1, <3>2, <3>4
    <3>6. ConfigFilled(A, S, t, f, A, S, 0, -1)
      BY <2>2 DEF ConfigFilled
    <3> QED BY <3>5, <3>6
  <2>3. CASE t \in ConfigTypes
    <3> DEFINE i == Config!Nth(t, f.api[t])
               x == IF f.api[t] = Config!Absent THEN ConfigApis[t][1] ELSE A[t]
               A2 == [A EXCEPT ![t] = x]
               sel == Config!OrFirst(f.sub[t])
               y == IF f.sub[t] = Config!Unset THEN sel ELSE S[t]
               S2 == [S EXCEPT ![t] = y]
               n == IF sel \in 0..ConfigSubtypes[t] - 1 THEN sel ELSE -1
    <3>1. i \in 1..Len(ConfigApis[t]) /\ i \in 0..2
      BY <2>3, ConfigApiNames
    <3>2. x \in ConfigNames
      <4>1. A[t] \in ConfigNames
        BY <2>3 DEF ConfigChoices
      <4>2. ConfigApis[t][1] \in ConfigNames
        BY <2>3, ConfigApiNames
      <4> QED BY <4>1, <4>2
    <3>3. sel \in Int /\ ConfigFits(t, y) /\ y \in Int
      BY <2>3 DEF Config!OrFirst, ConfigFits, Config!HasSubtype, Config!Unset, ConfigSubs
    <3> HIDE DEF i, x, sel, y
    <3>4. A2 \in ConfigChoices /\ A2[t] = x /\ \A u \in ConfigTypes : u # t => A2[u] = A[u]
      BY <2>3, <3>2 DEF ConfigChoices
    <3>5. S2 \in ConfigSubs /\ S2[t] = y /\ \A u \in ConfigTypes : u # t => S2[u] = S[u]
      BY <2>3, <3>3 DEF ConfigSubs
    <3>6. PICK e : e = ConfigDesk(A2, S, t, i, s)
      OBVIOUS
    <3>7. Config!PopulateAPIs(d, f) = e
      <4>1. Config!PopulateAPIs(d, f) = [d EXCEPT !.apis[t] = IF f.api[t] = Config!Absent THEN ConfigApis[t][1] ELSE @,
                                                     !.shown.api = Config!Nth(t, f.api[t])]
        <5> HIDE DEF d
        <5> QED BY <1>1, <2>3 DEF Config!PopulateAPIs
      <4>2. Config!PopulateAPIs(d, f) = [d EXCEPT !.apis[t] = x, !.shown.api = i]
        <5>1. d.apis[t] = A[t]
          BY ConfigDeskIs
        <5> HIDE DEF d
        <5> QED BY <4>1, <5>1 DEF x, i
      <4> DEFINE d1 == [d EXCEPT !.apis[t] = x]
      <4>3. d1 = ConfigDesk(A2, S, t, a, s)
        BY DEF ConfigDesk
      <4>4. Config!PopulateAPIs(d, f) = [d1 EXCEPT !.shown.api = i]
        BY <4>2
      <4> HIDE DEF d1, A2
      <4>5. [d1 EXCEPT !.shown.api = i] = ConfigDesk(A2, S, t, i, s)
        BY <4>3 DEF ConfigDesk
      <4> QED BY <3>6, <4>4, <4>5
    <3>8. c = ConfigDesk(A2, S2, t, i, n)
      <4>1. e.shown.dev = t /\ e.subs[t] = S[t]
        BY <3>6, ConfigDeskIs
      <4>2. Config!PopulateSubType(e, f) = [e EXCEPT !.subs[t] = IF f.sub[t] = Config!Unset THEN Config!OrFirst(f.sub[t]) ELSE @,
                                                        !.shown.sub = n]
        BY <2>3, <4>1 DEF Config!PopulateSubType, sel
      <4>3. Config!PopulateSubType(e, f) = [e EXCEPT !.subs[t] = y, !.shown.sub = n]
        BY <4>1, <4>2 DEF y, sel
      <4> DEFINE e1 == [e EXCEPT !.subs[t] = y]
      <4> HIDE DEF A2, n
      <4>4. e1 = ConfigDesk(A2, S2, t, i, s)
        BY <3>6 DEF ConfigDesk
      <4>5. Config!PopulateSubType(e, f) = [e1 EXCEPT !.shown.sub = n]
        BY <4>3
      <4> HIDE DEF e1, S2
      <4>6. [e1 EXCEPT !.shown.sub = n] = ConfigDesk(A2, S2, t, i, n)
        BY <4>4 DEF ConfigDesk
      <4> QED BY <2>1, <3>7, <4>5, <4>6
    <3>9. ConfigFilled(A, S, t, f, A2, S2, i, n)
      <4>1. n \in Int
        BY <3>3
      <4> HIDE DEF A2, S2, n
      <4> QED BY <1>4, <2>3, <3>1, <3>3, <3>4, <3>5, <4>1 DEF ConfigFilled, i, x
    <3> QED BY <3>8, <3>9
  <2> QED BY <2>2, <2>3
<1> QED BY <1>2, <1>3, <1>4

-----------------------------------------------------------------------------
(* What holds of the settings.                                             *)

\* The choices not saved yet, beside the file: what the user picked is among them
\* in GTK, and in Windows they are what was picked or what the file holds.
ConfigKnows(b, A, S, pk, f) ==
  /\ A \in ConfigChoices /\ S \in ConfigSubs /\ pk \in ConfigChoices /\ Config!FileFits(f)
  /\ \A t \in ConfigTypes :
       /\ A[t] = Config!Absent \/ Config!IsValidAPI(t, A[t])
       /\ ConfigFits(t, S[t])
       /\ IF b = "gtk" THEN pk[t] # Config!Absent => A[t] = pk[t]
          ELSE A[t] # Config!Absent => A[t] \in {pk[t], ConfigApis[t][Config!Nth(t, f.api[t])]}
\* An API that is gone has been replaced once the settings are read.
ConfigGone(A, f) ==
  \A t \in ConfigTypes : f.api[t] = Config!Absent \/ Config!IsValidAPI(t, f.api[t]) \/ A[t] # Config!Absent
ConfigFresh(A, S, pk) ==
  \A t \in ConfigTypes : A[t] = Config!Absent /\ S[t] = Config!Unset /\ pk[t] = Config!Absent
\* What was accepted is in the file, and in the settings.
ConfigWrote(f, acc) ==
  /\ acc.dev \in ConfigTypes \cup {Config!NoType} /\ f.port = acc.dev
  /\ acc.dev \in ConfigTypes => /\ acc.api \in 1..Len(ConfigApis[acc.dev])
                                /\ f.api[acc.dev] = ConfigApis[acc.dev][acc.api]
                                /\ ConfigShowsSub(f.sub, acc.dev, acc.sub)
ConfigHolds(A, S, c, acc) ==
  /\ c = acc.dev
  /\ acc.dev \in ConfigTypes => /\ A[acc.dev] = ConfigApis[acc.dev][acc.api]
                                /\ ConfigShowsSub(S, acc.dev, acc.sub)
\* What the lists show is what accepting would save.
ConfigOnShow(b, A, S, pk, f, t, api, sub) ==
  t \in ConfigTypes =>
    /\ api \in 1..Len(ConfigApis[t])
    /\ IF b = "gtk" THEN A[t] = ConfigApis[t][api] /\ ConfigShowsSub(S, t, sub)
       ELSE (IF A[t] = Config!Absent THEN f.api[t] ELSE A[t]) \in {ConfigApis[t][api], pk[t]}
ConfigFlags ==
  /\ settings_build \in {"gtk", "windows"} /\ settings_conf \in ConfigTypes \cup {Config!NoType}
  /\ settings_loaded \in BOOLEAN /\ settings_dialog \in BOOLEAN /\ followed \in BOOLEAN
  /\ settings_dialog => settings_loaded
  /\ ciniFile = settings_disk
  /\ shown \in [dev : ConfigTypes \cup {Config!NoType}, api : 0..2, sub : Int]
ConfigIInv ==
  /\ ConfigFlags
  /\ ConfigKnows(settings_build, changedAPIs, changedSubtype, picked, settings_disk)
  /\ settings_loaded => ConfigGone(changedAPIs, settings_disk)
  /\ ~settings_loaded => ConfigFresh(changedAPIs, changedSubtype, picked)
  /\ settings_build = "gtk" /\ followed =>
       /\ ConfigWrote(settings_disk, accepted)
       /\ settings_loaded => ConfigHolds(changedAPIs, changedSubtype, settings_conf, accepted)
       /\ settings_dialog => Config!SameChoice(shown, accepted)
  /\ settings_dialog => ConfigOnShow(settings_build, changedAPIs, changedSubtype, picked, settings_disk,
                                     shown.dev, shown.api, shown.sub)

LEMMA ConfigBegins == Config!Init => ConfigIInv
<1> SUFFICES ASSUME Config!Init PROVE ConfigIInv
  OBVIOUS
<1> USE ConfigConstantTypes
<1>1. /\ settings_build \in ConfigBuilds /\ settings_disk \in ConfigFiles /\ ciniFile = settings_disk
      /\ settings_conf = Config!NoType /\ settings_loaded = FALSE /\ settings_dialog = FALSE /\ followed = FALSE
      /\ changedAPIs = [t \in ConfigTypes |-> Config!Absent] /\ changedSubtype = [t \in ConfigTypes |-> Config!Unset]
      /\ picked = [t \in ConfigTypes |-> Config!Absent]
      /\ shown = [dev |-> Config!NoType, api |-> 0, sub |-> -1]
  BY DEF Config!Init, Config!Blank
<1>2. ConfigFlags
  <2>1. settings_build \in {"gtk", "windows"}
    BY <1>1
  <2>2. shown \in [dev : ConfigTypes \cup {Config!NoType}, api : 0..2, sub : Int]
    <3>1. -1 \in Int /\ 0 \in 0..2 /\ Config!NoType \in ConfigTypes \cup {Config!NoType}
      OBVIOUS
    <3>2. PICK x \in Int : x = -1
      BY <3>1
    <3>3. shown = [dev |-> Config!NoType, api |-> 0, sub |-> x]
      BY <1>1, <3>2
    <3> QED BY <3>1, <3>3
  <2> QED BY <1>1, <2>1, <2>2 DEF ConfigFlags
<1>3. changedAPIs \in ConfigChoices /\ picked \in ConfigChoices /\ changedSubtype \in ConfigSubs
  BY <1>1 DEF ConfigChoices, ConfigSubs, ConfigNames, Config!Unset
<1>4. ConfigKnows(settings_build, changedAPIs, changedSubtype, picked, settings_disk)
  BY <1>1, <1>3 DEF ConfigKnows, ConfigFits
<1>5. ConfigFresh(changedAPIs, changedSubtype, picked)
  BY <1>1 DEF ConfigFresh
<1> QED BY <1>1, <1>2, <1>4, <1>5 DEF ConfigIInv

LEMMA ConfigDeskNow ==
  ASSUME ConfigFlags
  PROVE  Config!Desk = ConfigDesk(changedAPIs, changedSubtype, shown.dev, shown.api, shown.sub)
<1>1. shown = [dev |-> shown.dev, api |-> shown.api, sub |-> shown.sub]
  BY DEF ConfigFlags
<1> QED BY <1>1 DEF Config!Desk, ConfigDesk

\* Reading the configuration for the first time takes the settings from the file.
LEMMA ConfigReads ==
  ASSUME ConfigIInv
  PROVE  \E A, S :
           /\ Config!LoadConfig = ConfigDesk(A, S, shown.dev, shown.api, shown.sub)
           /\ ConfigKnows(settings_build, A, S, picked, settings_disk) /\ ConfigGone(A, settings_disk)
           /\ settings_build = "gtk" /\ followed =>
                ConfigHolds(A, S, IF settings_loaded THEN settings_conf ELSE settings_disk.port, accepted)
<1> USE ConfigConstantTypes
<1>1. Config!Desk = ConfigDesk(changedAPIs, changedSubtype, shown.dev, shown.api, shown.sub)
  BY ConfigDeskNow DEF ConfigIInv
<1>2. CASE settings_loaded
  <2>1. Config!LoadConfig = Config!Desk
    BY <1>2 DEF Config!LoadConfig
  <2> QED BY <1>1, <1>2, <2>1 DEF ConfigIInv
<1>3. CASE ~settings_loaded /\ settings_disk.port = Config!NoType
  <2>1. Config!LoadConfig = Config!Desk
    BY <1>3 DEF Config!LoadConfig
  <2>2. ConfigGone(changedAPIs, settings_disk)
    BY <1>3 DEF ConfigIInv, ConfigGone, ConfigKnows, Config!FileFits
  <2>3. settings_build = "gtk" /\ followed => ConfigHolds(changedAPIs, changedSubtype, settings_disk.port, accepted)
    BY <1>3 DEF ConfigIInv, ConfigWrote, ConfigHolds
  <2> QED BY <1>1, <1>3, <2>1, <2>2, <2>3 DEF ConfigIInv
<1>4. CASE ~settings_loaded /\ settings_disk.port # Config!NoType
  <2> DEFINE t == settings_disk.port
             i == Config!Nth(t, settings_disk.api[t])
             n == Config!OrFirst(settings_disk.sub[t])
             A == ConfigTake(changedAPIs, t, i)
             S == [changedSubtype EXCEPT ![t] = n]
  <2>1. /\ t \in ConfigTypes /\ ConfigFits(t, settings_disk.sub[t]) /\ Config!FileFits(settings_disk)
        /\ changedAPIs \in ConfigChoices /\ changedSubtype \in ConfigSubs
        /\ ConfigKnows(settings_build, changedAPIs, changedSubtype, picked, settings_disk)
        /\ ConfigFresh(changedAPIs, changedSubtype, picked)
    BY <1>4 DEF ConfigIInv, ConfigKnows, Config!FileFits, ConfigFits
  <2>2. i \in 1..Len(ConfigApis[t]) /\ Config!IsValidAPI(t, ConfigApis[t][i]) /\ ConfigApis[t][i] # Config!Absent
    BY <2>1, ConfigApiNames
  <2>3. n \in Int /\ ConfigFits(t, n) /\ (settings_disk.sub[t] # Config!Unset => n = settings_disk.sub[t])
    BY <2>1 DEF Config!OrFirst, ConfigFits, Config!HasSubtype, Config!Unset
  <2>4. Config!LoadConfig = [Config!Desk EXCEPT !.apis[t] = ConfigApis[t][i], !.subs[t] = n]
    BY <1>4 DEF Config!LoadConfig
  <2>5. i = Config!Nth(t, settings_disk.api[t]) /\ n = Config!OrFirst(settings_disk.sub[t])
    OBVIOUS
  <2> HIDE DEF i, n
  <2>6. Config!LoadConfig = ConfigDesk(A, S, shown.dev, shown.api, shown.sub)
    <3> DEFINE d == Config!Desk
               d1 == [d EXCEPT !.apis[t] = ConfigApis[t][i]]
    <3>1. d1 = ConfigDesk(A, changedSubtype, shown.dev, shown.api, shown.sub)
      <4> HIDE DEF d
      <4> QED BY <1>1 DEF ConfigDesk, ConfigTake, d
    <3>2. Config!LoadConfig = [d1 EXCEPT !.subs[t] = n]
      BY <2>4
    <3> HIDE DEF d1, A
    <3>3. [d1 EXCEPT !.subs[t] = n] = ConfigDesk(A, S, shown.dev, shown.api, shown.sub)
      BY <3>1 DEF ConfigDesk
    <3> QED BY <3>2, <3>3
  <2>7. A \in ConfigChoices /\ A[t] = ConfigApis[t][i] /\ \A u \in ConfigTypes : u # t => A[u] = changedAPIs[u]
    BY <2>1, <2>2, ConfigTakes
  <2>8. S \in ConfigSubs /\ S[t] = n /\ \A u \in ConfigTypes : u # t => S[u] = changedSubtype[u]
    BY <2>1, <2>3 DEF ConfigSubs
  <2> HIDE DEF A, S
  <2>9. ConfigKnows(settings_build, A, S, picked, settings_disk)
    BY <2>1, <2>2, <2>3, <2>5, <2>7, <2>8 DEF ConfigKnows, ConfigFresh
  <2>10. ConfigGone(A, settings_disk)
    BY <2>1, <2>2, <2>7 DEF ConfigGone, Config!FileFits
  <2>11. ASSUME settings_build = "gtk", followed PROVE ConfigHolds(A, S, t, accepted)
    <3>1. ConfigWrote(settings_disk, accepted)
      BY <2>11 DEF ConfigIInv
    <3>2. accepted.dev = t /\ i = accepted.api
      BY <2>1, <2>5, <3>1, ConfigApiNames DEF ConfigWrote
    <3>3. ConfigShowsSub(S, t, accepted.sub)
      BY <2>1, <2>3, <2>8, <3>1, <3>2 DEF ConfigWrote, ConfigShowsSub, Config!Unset
    <3> QED BY <2>7, <3>2, <3>3 DEF ConfigHolds
  <2> QED BY <1>4, <2>6, <2>9, <2>10, <2>11
<1> QED BY <1>2, <1>3, <1>4

\* Filling the lists keeps what holds of the settings, and what the lists then
\* show is what is chosen.
LEMMA ConfigFillKeeps ==
  ASSUME NEW A, NEW S, NEW f, NEW t \in ConfigTypes \cup {Config!NoType}, NEW A2, NEW S2, NEW i, NEW n,
         settings_build \in {"gtk", "windows"},
         ConfigKnows(settings_build, A, S, picked, f), ConfigGone(A, f), ConfigFilled(A, S, t, f, A2, S2, i, n)
  PROVE  /\ ConfigKnows(settings_build, A2, S2, picked, f) /\ ConfigGone(A2, f)
         /\ ConfigOnShow(settings_build, A2, S2, picked, f, t, i, n)
<1> USE ConfigConstantTypes
<1>1. /\ A \in ConfigChoices /\ S \in ConfigSubs /\ A2 \in ConfigChoices /\ S2 \in ConfigSubs
      /\ picked \in ConfigChoices /\ Config!FileFits(f)
  BY DEF ConfigKnows, ConfigFilled
<1>2. CASE t \notin ConfigTypes
  <2>1. \A u \in ConfigTypes : A2[u] = A[u] /\ S2[u] = S[u]
    BY <1>2 DEF ConfigFilled
  <2>2. ConfigKnows(settings_build, A2, S2, picked, f) /\ ConfigGone(A2, f)
    BY <1>1, <2>1 DEF ConfigKnows, ConfigGone
  <2> QED BY <1>2, <2>2 DEF ConfigOnShow
<1>3. CASE t \in ConfigTypes
  <2>1. /\ \A u \in ConfigTypes : u # t => A2[u] = A[u] /\ S2[u] = S[u]
        /\ i \in 1..Len(ConfigApis[t]) /\ ConfigFits(t, S2[t])
    BY <1>3 DEF ConfigFilled
  <2>2. A[t] = Config!Absent \/ Config!IsValidAPI(t, A[t])
    BY <1>3 DEF ConfigKnows
  <2>3. ConfigApis[t][i] \in ConfigNames /\ Config!IsValidAPI(t, ConfigApis[t][i]) /\ ConfigApis[t][i] # Config!Absent
    BY <1>3, <2>1, ConfigApiNames
  <2>4. CASE settings_build = "gtk"
    <3>1. A2[t] = ConfigApis[t][i] /\ ConfigShowsSub(S2, t, n) /\ (A[t] # Config!Absent => i = Config!Nth(t, A[t]))
      BY <1>3, <2>4 DEF ConfigFilled
    <3>2. A[t] # Config!Absent => A2[t] = A[t]
      BY <1>3, <2>2, <3>1, ConfigApiNames
    <3>3. ConfigKnows("gtk", A2, S2, picked, f)
      BY <1>1, <1>3, <2>1, <2>3, <2>4, <3>1, <3>2 DEF ConfigKnows
    <3>4. ConfigGone(A2, f)
      BY <2>1, <2>3, <3>1 DEF ConfigGone
    <3>5. ConfigOnShow("gtk", A2, S2, picked, f, t, i, n)
      BY <2>1, <3>1 DEF ConfigOnShow
    <3> QED BY <2>4, <3>3, <3>4, <3>5
  <2>5. CASE settings_build = "windows"
    <3>1. i = Config!Nth(t, f.api[t]) /\ A2[t] = IF f.api[t] = Config!Absent THEN ConfigApis[t][1] ELSE A[t]
      BY <1>3, <2>5 DEF ConfigFilled
    <3>2. f.api[t] = Config!Absent => i = 1
      BY <1>3, <3>1, ConfigApiNames
    <3>3. A[t] # Config!Absent => A[t] \in {picked[t], ConfigApis[t][i]}
      BY <1>3, <2>5, <3>1 DEF ConfigKnows
    <3>4. A2[t] = Config!Absent \/ Config!IsValidAPI(t, A2[t])
      BY <2>2, <2>3, <3>1, <3>2
    <3>5. A2[t] # Config!Absent => A2[t] \in {picked[t], ConfigApis[t][i]}
      BY <3>1, <3>2, <3>3
    <3>6. ConfigKnows("windows", A2, S2, picked, f)
      BY <1>1, <1>3, <2>1, <2>5, <3>1, <3>4, <3>5 DEF ConfigKnows
    <3>7. A[t] # Config!Absent => A2[t] # Config!Absent
      BY <2>3, <3>1, <3>2
    <3>8. ConfigGone(A2, f)
      BY <1>3, <2>1, <3>7 DEF ConfigGone
    <3>9. A2[t] = Config!Absent => f.api[t] = ConfigApis[t][i]
      <4>1. A2[t] = Config!Absent => f.api[t] # Config!Absent /\ A[t] = Config!Absent
        BY <2>3, <3>1, <3>2
      <4>2. A2[t] = Config!Absent => Config!IsValidAPI(t, f.api[t])
        BY <1>3, <4>1 DEF ConfigGone
      <4> QED BY <1>3, <3>1, <4>2, ConfigApiNames
    <3>10. ConfigOnShow("windows", A2, S2, picked, f, t, i, n)
      BY <2>1, <3>5, <3>9 DEF ConfigOnShow
    <3> QED BY <2>5, <3>6, <3>8, <3>10
  <2> QED BY <2>4, <2>5
<1> QED BY <1>2, <1>3

\* In GTK the lists then show what was accepted last, if nothing was picked since.
LEMMA ConfigFillShows ==
  ASSUME NEW A, NEW S, NEW f, NEW t, NEW A2, NEW S2, NEW i, NEW n, NEW acc,
         settings_build = "gtk", ConfigFilled(A, S, t, f, A2, S2, i, n),
         ConfigWrote(f, acc), ConfigHolds(A, S, t, acc)
  PROVE  /\ ConfigHolds(A2, S2, t, acc) /\ t = acc.dev
         /\ t \in ConfigTypes => i = acc.api /\ n = acc.sub
<1> USE ConfigConstantTypes
<1>1. t = acc.dev
  BY DEF ConfigHolds
<1>2. CASE t \in ConfigTypes
  <2>1. /\ A[t] = ConfigApis[t][acc.api] /\ acc.api \in 1..Len(ConfigApis[t]) /\ ConfigShowsSub(f.sub, t, acc.sub)
    BY <1>1, <1>2 DEF ConfigHolds, ConfigWrote
  <2>2. A[t] # Config!Absent /\ Config!Nth(t, A[t]) = acc.api
    BY <1>2, <2>1, ConfigApiNames
  <2>3. /\ i = acc.api /\ A2[t] = ConfigApis[t][i] /\ ConfigShowsSub(S2, t, n)
        /\ ConfigSubtypes[t] > 0 => n = Config!OrFirst(f.sub[t])
    BY <1>2, <2>2 DEF ConfigFilled
  <2>4. ConfigSubtypes[t] > 0 => f.sub[t] = acc.sub /\ acc.sub \in 0..ConfigSubtypes[t] - 1
    BY <1>2, <2>1 DEF ConfigShowsSub
  <2>5. ConfigSubtypes[t] > 0 => n = acc.sub
    BY <1>2, <2>3, <2>4 DEF Config!OrFirst, Config!Unset
  <2>6. n = acc.sub
    BY <1>2, <2>1, <2>3, <2>5 DEF ConfigShowsSub
  <2> QED BY <1>1, <2>3, <2>6 DEF ConfigHolds
<1>3. CASE t \notin ConfigTypes
  BY <1>1, <1>3 DEF ConfigHolds
<1> QED BY <1>2, <1>3

-----------------------------------------------------------------------------
(* Its steps.                                                              *)

LEMMA ConfigOpens == ASSUME ConfigIInv, Config!OpenDialog, settings_build' = settings_build PROVE ConfigIInv'
<1> USE ConfigConstantTypes
<1> DEFINE t == IF settings_loaded THEN settings_conf ELSE settings_disk.port
<1>1. /\ ConfigFlags /\ ConfigKnows(settings_build, changedAPIs, changedSubtype, picked, settings_disk)
      /\ settings_build \in {"gtk", "windows"}
      /\ settings_build = "gtk" /\ followed => ConfigWrote(settings_disk, accepted)
  BY DEF ConfigIInv, ConfigFlags
<1>2. t \in ConfigTypes \cup {Config!NoType} /\ Config!FileFits(settings_disk)
  BY <1>1 DEF ConfigFlags, ConfigKnows, Config!FileFits
<1>3. /\ ciniFile' = settings_disk /\ settings_loaded' = TRUE /\ settings_conf' = t /\ settings_dialog' = TRUE
      /\ settings_disk' = settings_disk /\ accepted' = accepted /\ picked' = picked /\ followed' = followed
  BY DEF Config!OpenDialog, Config!ReadConfig
<1>4. PICK A, S :
        /\ Config!LoadConfig = ConfigDesk(A, S, shown.dev, shown.api, shown.sub)
        /\ ConfigKnows(settings_build, A, S, picked, settings_disk) /\ ConfigGone(A, settings_disk)
        /\ settings_build = "gtk" /\ followed => ConfigHolds(A, S, t, accepted)
  BY ConfigReads
<1> DEFINE d == [Config!LoadConfig EXCEPT !.shown = [Config!Blank EXCEPT !.dev = t]]
<1>5. Config!SetDesk(Config!Populate(d, settings_disk))
  BY DEF Config!OpenDialog
<1>6. PICK x \in Int : x = -1
  <2>1. -1 \in Int
    OBVIOUS
  <2> QED BY <2>1
<1>7. A \in ConfigChoices /\ S \in ConfigSubs
  BY <1>4 DEF ConfigKnows
<1>8. t \in ConfigTypes => ConfigFits(t, S[t]) /\ ConfigFits(t, settings_disk.sub[t])
  BY <1>2, <1>4 DEF ConfigKnows, Config!FileFits, ConfigFits
<1> HIDE DEF t
<1>9. d = ConfigDesk(A, S, t, 0, x)
  <2>1. [Config!Blank EXCEPT !.dev = t] = [dev |-> t, api |-> 0, sub |-> x]
    BY <1>6 DEF Config!Blank
  <2> QED BY <1>4, <2>1 DEF ConfigDesk
<1> HIDE DEF d
<1>10. PICK A2, S2, i, n :
         /\ Config!Populate(d, settings_disk) = ConfigDesk(A2, S2, t, i, n)
         /\ ConfigFilled(A, S, t, settings_disk, A2, S2, i, n)
  <2> DEFINE e == Config!Populate(ConfigDesk(A, S, t, 0, x), settings_disk)
  <2>1. e = Config!Populate(ConfigDesk(A, S, t, 0, x), settings_disk) /\ e = Config!Populate(d, settings_disk)
    BY <1>9
  <2>2. PICK zero : zero = 0
    OBVIOUS
  <2>3. e = Config!Populate(ConfigDesk(A, S, t, zero, x), settings_disk)
    BY <2>1, <2>2
  <2> HIDE DEF e
  <2> QED BY <1>2, <1>7, <1>8, <2>1, <2>3, ConfigPopulates
<1>11. i \in 0..2 /\ n \in Int
  BY <1>10 DEF ConfigFilled
<1>12. /\ changedAPIs' = A2 /\ changedSubtype' = S2 /\ shown'.dev = t /\ shown'.api = i /\ shown'.sub = n
       /\ shown' \in [dev : ConfigTypes \cup {Config!NoType}, api : 0..2, sub : Int]
  <2>1. Config!SetDesk(ConfigDesk(A2, S2, t, i, n))
    BY <1>5, <1>10
  <2> QED BY <1>2, <1>11, <2>1 DEF Config!SetDesk, ConfigDesk
<1>13. /\ ConfigKnows(settings_build, A2, S2, picked, settings_disk) /\ ConfigGone(A2, settings_disk)
       /\ ConfigOnShow(settings_build, A2, S2, picked, settings_disk, t, i, n)
  BY <1>1, <1>2, <1>4, <1>10, ConfigFillKeeps
<1>14. settings_build = "gtk" /\ followed =>
         /\ ConfigHolds(A2, S2, t, accepted) /\ t = accepted.dev
         /\ t \in ConfigTypes => i = accepted.api /\ n = accepted.sub
  BY <1>1, <1>4, <1>10, ConfigFillShows
<1>15. ConfigFlags'
  BY <1>1, <1>2, <1>3, <1>12 DEF ConfigFlags
<1>16. settings_build = "gtk" /\ followed => Config!SameChoice(shown', accepted)
  BY <1>2, <1>12, <1>14 DEF Config!SameChoice
<1>17. settings_build' = "gtk" /\ followed' =>
         /\ ConfigWrote(settings_disk', accepted')
         /\ settings_loaded' => ConfigHolds(changedAPIs', changedSubtype', settings_conf', accepted')
         /\ settings_dialog' => Config!SameChoice(shown', accepted')
  BY <1>1, <1>3, <1>12, <1>14, <1>16
<1>18. /\ ConfigKnows(settings_build', changedAPIs', changedSubtype', picked', settings_disk')
       /\ ConfigGone(changedAPIs', settings_disk')
       /\ ConfigOnShow(settings_build', changedAPIs', changedSubtype', picked', settings_disk',
                       shown'.dev, shown'.api, shown'.sub)
  BY <1>3, <1>12, <1>13
<1> QED BY <1>3, <1>15, <1>17, <1>18 DEF ConfigIInv

LEMMA ConfigPicksDevice ==
  ASSUME ConfigIInv, NEW t \in ConfigTypes \cup {Config!NoType}, Config!PickDevice(t), settings_build' = settings_build
  PROVE  ConfigIInv'
<1> USE ConfigConstantTypes
<1>1. /\ ConfigFlags /\ ConfigKnows(settings_build, changedAPIs, changedSubtype, picked, settings_disk)
      /\ settings_build \in {"gtk", "windows"} /\ settings_dialog = TRUE /\ settings_loaded = TRUE
      /\ ConfigGone(changedAPIs, settings_disk) /\ ciniFile = settings_disk /\ Config!FileFits(settings_disk)
  BY DEF ConfigIInv, ConfigFlags, Config!PickDevice, ConfigKnows
<1>2. /\ settings_disk' = settings_disk /\ ciniFile' = settings_disk /\ settings_loaded' = TRUE /\ settings_dialog' = TRUE
      /\ accepted' = accepted /\ picked' = picked /\ followed' = FALSE
      /\ settings_conf' \in ConfigTypes \cup {Config!NoType}
  BY <1>1 DEF Config!PickDevice, ConfigFlags
<1> DEFINE d == [Config!Desk EXCEPT !.shown.dev = t]
<1>3. Config!SetDesk(Config!Populate(d, settings_disk))
  BY <1>1 DEF Config!PickDevice
<1>4. changedAPIs \in ConfigChoices /\ changedSubtype \in ConfigSubs
  BY <1>1 DEF ConfigKnows
<1>5. t \in ConfigTypes => ConfigFits(t, changedSubtype[t]) /\ ConfigFits(t, settings_disk.sub[t])
  BY <1>1 DEF ConfigKnows, Config!FileFits, ConfigFits
<1>6. d = ConfigDesk(changedAPIs, changedSubtype, t, shown.api, shown.sub)
  BY <1>1, ConfigDeskNow DEF ConfigDesk
<1> HIDE DEF d
<1>7. PICK A2, S2, i, n :
        /\ Config!Populate(d, settings_disk) = ConfigDesk(A2, S2, t, i, n)
        /\ ConfigFilled(changedAPIs, changedSubtype, t, settings_disk, A2, S2, i, n)
  BY <1>4, <1>5, <1>6, ConfigPopulates
<1>8. i \in 0..2 /\ n \in Int
  BY <1>7 DEF ConfigFilled
<1>9. /\ changedAPIs' = A2 /\ changedSubtype' = S2 /\ shown'.dev = t /\ shown'.api = i /\ shown'.sub = n
      /\ shown' \in [dev : ConfigTypes \cup {Config!NoType}, api : 0..2, sub : Int]
  <2>1. Config!SetDesk(ConfigDesk(A2, S2, t, i, n))
    BY <1>3, <1>7
  <2> QED BY <1>8, <2>1 DEF Config!SetDesk, ConfigDesk
<1>10. /\ ConfigKnows(settings_build, A2, S2, picked, settings_disk) /\ ConfigGone(A2, settings_disk)
       /\ ConfigOnShow(settings_build, A2, S2, picked, settings_disk, t, i, n)
  BY <1>1, <1>7, ConfigFillKeeps
<1>11. ConfigFlags'
  BY <1>1, <1>2, <1>9 DEF ConfigFlags
<1>12. /\ ConfigKnows(settings_build', changedAPIs', changedSubtype', picked', settings_disk')
       /\ ConfigGone(changedAPIs', settings_disk')
       /\ ConfigOnShow(settings_build', changedAPIs', changedSubtype', picked', settings_disk',
                       shown'.dev, shown'.api, shown'.sub)
  BY <1>2, <1>9, <1>10
<1> QED BY <1>2, <1>11, <1>12 DEF ConfigIInv

LEMMA ConfigPicksApi ==
  ASSUME ConfigIInv, NEW i \in 1..2, Config!PickApi(i), settings_build' = settings_build
  PROVE  ConfigIInv'
<1> USE ConfigConstantTypes
<1> DEFINE t == shown.dev
           A == ConfigTake(changedAPIs, t, i)
           pk == ConfigTake(picked, t, i)
<1>1. /\ ConfigFlags /\ ConfigKnows(settings_build, changedAPIs, changedSubtype, picked, settings_disk)
      /\ settings_build \in {"gtk", "windows"} /\ settings_dialog = TRUE /\ settings_loaded = TRUE
      /\ ConfigGone(changedAPIs, settings_disk)
      /\ ConfigOnShow(settings_build, changedAPIs, changedSubtype, picked, settings_disk, t, shown.api, shown.sub)
  BY DEF ConfigIInv, ConfigFlags, Config!PickApi
<1>2. t \in ConfigTypes /\ i \in 1..Len(ConfigApis[t]) /\ shown.api # i
  BY <1>1 DEF ConfigFlags, Config!PickApi
<1>3. /\ settings_disk' = settings_disk /\ ciniFile' = settings_disk /\ settings_loaded' = TRUE /\ settings_dialog' = TRUE
      /\ accepted' = accepted /\ followed' = FALSE /\ settings_conf' = settings_conf /\ picked' = pk
  BY <1>1 DEF Config!PickApi, ConfigFlags, ConfigTake
<1>4. changedAPIs \in ConfigChoices /\ picked \in ConfigChoices /\ changedSubtype \in ConfigSubs /\ i \in 0..2
  BY <1>1 DEF ConfigKnows
<1>5. Config!apiChanged(Config!Desk, i) = ConfigDesk(A, changedSubtype, t, i, shown.sub)
  BY <1>1, <1>2, ConfigDeskNow, ConfigApiPicked
<1>6. Config!SetDesk(Config!apiChanged(Config!Desk, i))
  BY DEF Config!PickApi
<1>7. A \in ConfigChoices /\ A[t] = ConfigApis[t][i] /\ \A u \in ConfigTypes : u # t => A[u] = changedAPIs[u]
  BY <1>2, <1>4, ConfigTakes
<1>8. pk \in ConfigChoices /\ pk[t] = ConfigApis[t][i] /\ \A u \in ConfigTypes : u # t => pk[u] = picked[u]
  BY <1>2, <1>4, ConfigTakes
<1>9. ConfigApis[t][i] # Config!Absent /\ Config!IsValidAPI(t, ConfigApis[t][i])
  BY <1>2, ConfigApiNames
<1>10. t \in ConfigTypes \cup {Config!NoType} /\ shown.sub \in Int
  BY <1>1 DEF ConfigFlags
<1> HIDE DEF A, pk
<1>11. /\ changedAPIs' = A /\ changedSubtype' = changedSubtype
       /\ shown' = [dev |-> t, api |-> i, sub |-> shown.sub]
  BY <1>5, <1>6 DEF Config!SetDesk, ConfigDesk
<1> HIDE DEF t
<1>12. /\ shown'.dev = t /\ shown'.api = i /\ shown'.sub = shown.sub
       /\ shown' \in [dev : ConfigTypes \cup {Config!NoType}, api : 0..2, sub : Int]
  BY <1>4, <1>10, <1>11
<1>13. ConfigKnows(settings_build, A, changedSubtype, pk, settings_disk)
  BY <1>1, <1>7, <1>8, <1>9 DEF ConfigKnows
<1>14. ConfigGone(A, settings_disk)
  BY <1>1, <1>7, <1>9 DEF ConfigGone
<1>15. ConfigOnShow(settings_build, A, changedSubtype, pk, settings_disk, t, i, shown.sub)
  BY <1>1, <1>2, <1>7, <1>8, <1>9 DEF ConfigOnShow
<1>16. ConfigFlags'
  BY <1>1, <1>3, <1>12 DEF ConfigFlags
<1>17. /\ ConfigKnows(settings_build', changedAPIs', changedSubtype', picked', settings_disk')
       /\ ConfigGone(changedAPIs', settings_disk')
       /\ ConfigOnShow(settings_build', changedAPIs', changedSubtype', picked', settings_disk',
                       shown'.dev, shown'.api, shown'.sub)
  BY <1>3, <1>11, <1>12, <1>13, <1>14, <1>15
<1> QED BY <1>3, <1>16, <1>17 DEF ConfigIInv

LEMMA ConfigPicksSubtype ==
  ASSUME ConfigIInv, NEW n, Config!PickSubtype(n), settings_build' = settings_build
  PROVE  ConfigIInv'
<1> USE ConfigConstantTypes
<1> DEFINE t == shown.dev
           S == ConfigPut(changedSubtype, t, n)
<1>1. /\ ConfigFlags /\ ConfigKnows(settings_build, changedAPIs, changedSubtype, picked, settings_disk)
      /\ settings_build \in {"gtk", "windows"} /\ settings_dialog = TRUE /\ settings_loaded = TRUE
      /\ ConfigGone(changedAPIs, settings_disk)
      /\ ConfigOnShow(settings_build, changedAPIs, changedSubtype, picked, settings_disk, t, shown.api, shown.sub)
  BY DEF ConfigIInv, ConfigFlags, Config!PickSubtype
<1>2. t \in ConfigTypes /\ n \in 0..ConfigSubtypes[t] - 1 /\ shown.sub # n
  BY <1>1 DEF ConfigFlags, Config!PickSubtype
<1>3. /\ settings_disk' = settings_disk /\ ciniFile' = settings_disk /\ settings_loaded' = TRUE /\ settings_dialog' = TRUE
      /\ accepted' = accepted /\ followed' = FALSE /\ settings_conf' = settings_conf /\ picked' = picked
  BY <1>1 DEF Config!PickSubtype, ConfigFlags
<1>4. changedSubtype \in ConfigSubs /\ n \in Int /\ ConfigSubtypes[t] > 0
  BY <1>1, <1>2 DEF ConfigKnows
<1>5. Config!subtypeChanged(Config!Desk, n) = ConfigDesk(changedAPIs, S, t, shown.api, n)
  BY <1>1, <1>2, ConfigDeskNow, ConfigSubtypePicked
<1>6. Config!SetDesk(Config!subtypeChanged(Config!Desk, n))
  BY DEF Config!PickSubtype
<1>7. S \in ConfigSubs /\ S[t] = n /\ \A u \in ConfigTypes : u # t => S[u] = changedSubtype[u]
  BY <1>2, <1>4 DEF ConfigPut, ConfigSubs
<1>8. ConfigFits(t, n)
  BY <1>2 DEF ConfigFits, Config!HasSubtype
<1>9. t \in ConfigTypes \cup {Config!NoType} /\ shown.api \in 0..2
  BY <1>1 DEF ConfigFlags
<1> HIDE DEF S
<1>10. /\ changedAPIs' = changedAPIs /\ changedSubtype' = S
       /\ shown' = [dev |-> t, api |-> shown.api, sub |-> n]
  BY <1>5, <1>6 DEF Config!SetDesk, ConfigDesk
<1> HIDE DEF t
<1>11. /\ shown'.dev = t /\ shown'.api = shown.api /\ shown'.sub = n
       /\ shown' \in [dev : ConfigTypes \cup {Config!NoType}, api : 0..2, sub : Int]
  BY <1>4, <1>9, <1>10
<1>12. ConfigKnows(settings_build, changedAPIs, S, picked, settings_disk)
  BY <1>1, <1>7, <1>8 DEF ConfigKnows
<1>13. ConfigShowsSub(S, t, n)
  BY <1>2, <1>4, <1>7 DEF ConfigShowsSub
<1>14. ConfigOnShow(settings_build, changedAPIs, S, picked, settings_disk, t, shown.api, n)
  BY <1>1, <1>2, <1>13 DEF ConfigOnShow
<1>15. ConfigFlags'
  BY <1>1, <1>3, <1>11 DEF ConfigFlags
<1>16. /\ ConfigKnows(settings_build', changedAPIs', changedSubtype', picked', settings_disk')
       /\ ConfigGone(changedAPIs', settings_disk')
       /\ ConfigOnShow(settings_build', changedAPIs', changedSubtype', picked', settings_disk',
                       shown'.dev, shown'.api, shown'.sub)
  BY <1>1, <1>3, <1>10, <1>11, <1>12, <1>14
<1> QED BY <1>3, <1>15, <1>16 DEF ConfigIInv

\* What accepting writes.
LEMMA ConfigWrites ==
  ASSUME ConfigIInv, Config!Accept
  PROVE  /\ ConfigKnows(settings_build, changedAPIs, changedSubtype, picked, settings_disk')
         /\ ConfigGone(changedAPIs, settings_disk')
         /\ settings_disk'.port = shown.dev /\ ciniFile' = settings_disk'
         /\ \A u \in ConfigTypes :
              /\ settings_disk'.api[u] = IF changedAPIs[u] = Config!Absent THEN settings_disk.api[u] ELSE changedAPIs[u]
              /\ settings_disk'.sub[u] = IF changedSubtype[u] = Config!Unset THEN settings_disk.sub[u]
                                         ELSE changedSubtype[u]
<1> USE ConfigConstantTypes
<1>1. /\ ConfigFlags /\ ConfigKnows(settings_build, changedAPIs, changedSubtype, picked, settings_disk)
      /\ settings_build \in {"gtk", "windows"}
      /\ ConfigGone(changedAPIs, settings_disk) /\ ciniFile = settings_disk /\ Config!FileFits(settings_disk)
      /\ shown.dev \in ConfigTypes \cup {Config!NoType}
  BY DEF ConfigIInv, ConfigFlags, Config!Accept, ConfigKnows
<1>2. /\ settings_disk'.port = shown.dev /\ ciniFile' = settings_disk'
      /\ \A u \in ConfigTypes :
           /\ settings_disk'.api[u] = IF changedAPIs[u] = Config!Absent THEN settings_disk.api[u] ELSE changedAPIs[u]
           /\ settings_disk'.sub[u] = IF changedSubtype[u] = Config!Unset THEN settings_disk.sub[u] ELSE changedSubtype[u]
  BY <1>1 DEF Config!Accept, Config!SaveConfig
<1> DEFINE f == settings_disk'
<1> HIDE DEF f
<1>3. /\ f.port = shown.dev
      /\ \A u \in ConfigTypes :
           /\ f.api[u] = IF changedAPIs[u] = Config!Absent THEN settings_disk.api[u] ELSE changedAPIs[u]
           /\ f.sub[u] = IF changedSubtype[u] = Config!Unset THEN settings_disk.sub[u] ELSE changedSubtype[u]
  BY <1>2 DEF f
<1>4. \A u \in ConfigTypes : f.api[u] = Config!Absent \/ Config!IsValidAPI(u, f.api[u])
  BY <1>1, <1>3 DEF ConfigKnows, ConfigGone
<1>5. Config!FileFits(f)
  BY <1>1, <1>3, <1>4 DEF ConfigKnows, ConfigFits, Config!FileFits
<1>6. \A u \in ConfigTypes : changedAPIs[u] # Config!Absent => changedAPIs[u] = ConfigApis[u][Config!Nth(u, f.api[u])]
  BY <1>3, <1>4, ConfigApiNames
<1>7. ConfigKnows(settings_build, changedAPIs, changedSubtype, picked, f)
  BY <1>1, <1>5, <1>6 DEF ConfigKnows
<1>8. ConfigGone(changedAPIs, f)
  BY <1>4 DEF ConfigGone
<1> QED BY <1>2, <1>7, <1>8 DEF f

LEMMA ConfigAccepts == ASSUME ConfigIInv, Config!Accept, settings_build' = settings_build PROVE ConfigIInv'
<1> USE ConfigConstantTypes
<1> DEFINE t == shown.dev
           f == settings_disk'
<1>1. /\ ConfigFlags /\ ConfigKnows(settings_build, changedAPIs, changedSubtype, picked, settings_disk)
      /\ settings_dialog = TRUE /\ settings_loaded = TRUE /\ t \in ConfigTypes \cup {Config!NoType}
      /\ ConfigOnShow(settings_build, changedAPIs, changedSubtype, picked, settings_disk, t, shown.api, shown.sub)
  BY DEF ConfigIInv, ConfigFlags, Config!Accept
<1>2. /\ settings_dialog' = FALSE /\ settings_conf' = t /\ accepted' = shown /\ followed' = TRUE /\ settings_loaded' = TRUE
      /\ changedAPIs' = changedAPIs /\ changedSubtype' = changedSubtype /\ shown' = shown /\ picked' = picked
  BY <1>1 DEF Config!Accept
<1>3. /\ ConfigKnows(settings_build, changedAPIs, changedSubtype, picked, f) /\ ConfigGone(changedAPIs, f)
      /\ f.port = t /\ ciniFile' = f
      /\ \A u \in ConfigTypes :
           /\ f.api[u] = IF changedAPIs[u] = Config!Absent THEN settings_disk.api[u] ELSE changedAPIs[u]
           /\ f.sub[u] = IF changedSubtype[u] = Config!Unset THEN settings_disk.sub[u] ELSE changedSubtype[u]
  BY ConfigWrites
<1> HIDE DEF f
<1>4. ASSUME settings_build = "gtk" PROVE ConfigWrote(f, shown) /\ ConfigHolds(changedAPIs, changedSubtype, t, shown)
  <2>1. ASSUME t \in ConfigTypes
        PROVE  /\ shown.api \in 1..Len(ConfigApis[t]) /\ changedAPIs[t] = ConfigApis[t][shown.api]
               /\ ConfigShowsSub(changedSubtype, t, shown.sub)
    BY <1>1, <1>4, <2>1 DEF ConfigOnShow
  <2>2. ASSUME t \in ConfigTypes PROVE f.api[t] = ConfigApis[t][shown.api] /\ ConfigShowsSub(f.sub, t, shown.sub)
    <3>1. ConfigApis[t][shown.api] # Config!Absent
      BY <2>1, <2>2, ConfigApiNames
    <3>2. ConfigFits(t, f.sub[t])
      BY <1>3, <2>2 DEF ConfigKnows, Config!FileFits, ConfigFits
    <3>3. ConfigShowsSub(changedSubtype, t, shown.sub)
      BY <2>1, <2>2
    <3>4. ConfigSubtypes[t] > 0 => changedSubtype[t] = shown.sub /\ shown.sub \in 0..ConfigSubtypes[t] - 1
      BY <2>2, <3>3 DEF ConfigShowsSub
    <3>5. ConfigSubtypes[t] > 0 => changedSubtype[t] # Config!Unset
      BY <3>4 DEF Config!Unset
    <3>6. ConfigSubtypes[t] > 0 => f.sub[t] = shown.sub
      BY <1>3, <2>2, <3>4, <3>5
    <3>7. ConfigShowsSub(f.sub, t, shown.sub)
      BY <2>2, <3>2, <3>3, <3>4, <3>6 DEF ConfigShowsSub
    <3> QED BY <1>3, <2>1, <2>2, <3>1, <3>7
  <2>3. ConfigWrote(f, shown)
    BY <1>1, <1>3, <2>1, <2>2 DEF ConfigWrote
  <2>4. ConfigHolds(changedAPIs, changedSubtype, t, shown)
    BY <2>1 DEF ConfigHolds
  <2> QED BY <2>3, <2>4
<1>5. ConfigFlags'
  BY <1>1, <1>2, <1>3 DEF ConfigFlags, f
<1>6. /\ ConfigKnows(settings_build', changedAPIs', changedSubtype', picked', f)
      /\ ConfigGone(changedAPIs', f)
      /\ settings_build' = "gtk" => ConfigWrote(f, accepted') /\ ConfigHolds(changedAPIs', changedSubtype', settings_conf', accepted')
  BY <1>2, <1>3, <1>4
<1> QED BY <1>2, <1>5, <1>6 DEF ConfigIInv, f

LEMMA ConfigCancels == ASSUME ConfigIInv, Config!Cancel, settings_build' = settings_build PROVE ConfigIInv'
<1>1. /\ settings_dialog' = FALSE /\ followed' = FALSE /\ settings_dialog = TRUE
      /\ settings_disk' = settings_disk /\ ciniFile' = ciniFile /\ settings_conf' = settings_conf
      /\ changedAPIs' = changedAPIs /\ changedSubtype' = changedSubtype /\ settings_loaded' = settings_loaded
      /\ shown' = shown /\ accepted' = accepted /\ picked' = picked
  BY DEF Config!Cancel, Config!settings
<1>2. settings_loaded = TRUE /\ ConfigFlags
  BY <1>1 DEF ConfigIInv, ConfigFlags
<1>3. ConfigFlags'
  BY <1>1, <1>2 DEF ConfigFlags
<1>4. /\ ConfigKnows(settings_build', changedAPIs', changedSubtype', picked', settings_disk')
      /\ ConfigGone(changedAPIs', settings_disk')
  BY <1>1, <1>2 DEF ConfigIInv
<1> QED BY <1>1, <1>2, <1>3, <1>4 DEF ConfigIInv

LEMMA ConfigCreates == ASSUME ConfigIInv, Config!CreateDevice, settings_build' = settings_build PROVE ConfigIInv'
<1> USE ConfigConstantTypes
<1> DEFINE t == IF settings_loaded THEN settings_conf ELSE settings_disk.port
<1>1. /\ ConfigFlags /\ settings_dialog = FALSE
      /\ settings_build = "gtk" /\ followed => ConfigWrote(settings_disk, accepted)
      /\ Config!FileFits(settings_disk)
  BY DEF ConfigIInv, ConfigFlags, Config!CreateDevice, ConfigKnows
<1>2. /\ ciniFile' = settings_disk /\ settings_loaded' = TRUE /\ settings_conf' = t /\ settings_dialog' = FALSE
      /\ settings_disk' = settings_disk /\ accepted' = accepted /\ picked' = picked /\ followed' = followed
      /\ Config!SetDesk(Config!LoadConfig)
  BY <1>1 DEF Config!CreateDevice, Config!ReadConfig
<1>3. PICK A, S :
        /\ Config!LoadConfig = ConfigDesk(A, S, shown.dev, shown.api, shown.sub)
        /\ ConfigKnows(settings_build, A, S, picked, settings_disk) /\ ConfigGone(A, settings_disk)
        /\ settings_build = "gtk" /\ followed => ConfigHolds(A, S, t, accepted)
  BY ConfigReads
<1>4. t \in ConfigTypes \cup {Config!NoType}
  BY <1>1 DEF ConfigFlags, Config!FileFits
<1> HIDE DEF t
<1>5. changedAPIs' = A /\ changedSubtype' = S /\ shown' = [dev |-> shown.dev, api |-> shown.api, sub |-> shown.sub]
  BY <1>2, <1>3 DEF Config!SetDesk, ConfigDesk
<1>6. shown' = shown
  BY <1>1, <1>5 DEF ConfigFlags
<1>7. ConfigFlags'
  BY <1>1, <1>2, <1>4, <1>6 DEF ConfigFlags
<1>8. /\ ConfigKnows(settings_build', changedAPIs', changedSubtype', picked', settings_disk')
      /\ ConfigGone(changedAPIs', settings_disk')
      /\ settings_build' = "gtk" /\ followed' =>
           /\ ConfigWrote(settings_disk', accepted')
           /\ ConfigHolds(changedAPIs', changedSubtype', settings_conf', accepted')
  BY <1>1, <1>2, <1>3, <1>5
<1> QED BY <1>2, <1>7, <1>8 DEF ConfigIInv

LEMMA ConfigRestarts == ASSUME ConfigIInv, Config!Restart, settings_build' = settings_build PROVE ConfigIInv'
<1> USE ConfigConstantTypes
<1>1. /\ settings_dialog = FALSE /\ settings_dialog' = FALSE /\ settings_conf' = Config!NoType /\ settings_loaded' = FALSE
      /\ changedAPIs' = [t \in ConfigTypes |-> Config!Absent] /\ changedSubtype' = [t \in ConfigTypes |-> Config!Unset]
      /\ picked' = [t \in ConfigTypes |-> Config!Absent] /\ shown' = Config!Blank
      /\ settings_disk' = settings_disk /\ ciniFile' = ciniFile /\ accepted' = accepted /\ followed' = followed
  BY DEF Config!Restart, ConfigIInv, ConfigFlags
<1>2. ConfigFlags
  BY DEF ConfigIInv
<1>3. shown' \in [dev : ConfigTypes \cup {Config!NoType}, api : 0..2, sub : Int]
  <2>1. -1 \in Int /\ 0 \in 0..2 /\ Config!NoType \in ConfigTypes \cup {Config!NoType}
    OBVIOUS
  <2>2. PICK x \in Int : x = -1
    BY <2>1
  <2>3. shown' = [dev |-> Config!NoType, api |-> 0, sub |-> x]
    BY <1>1, <2>2 DEF Config!Blank
  <2> QED BY <2>1, <2>3
<1>4. ConfigFlags'
  BY <1>1, <1>2, <1>3 DEF ConfigFlags
<1>5. changedAPIs' \in ConfigChoices /\ picked' \in ConfigChoices /\ changedSubtype' \in ConfigSubs
  BY <1>1 DEF ConfigChoices, ConfigSubs, ConfigNames, Config!Unset
<1>6. Config!FileFits(settings_disk)
  BY DEF ConfigIInv, ConfigKnows
<1>7. ConfigKnows(settings_build', changedAPIs', changedSubtype', picked', settings_disk')
  BY <1>1, <1>5, <1>6 DEF ConfigKnows, ConfigFits
<1>8. ConfigFresh(changedAPIs', changedSubtype', picked')
  BY <1>1 DEF ConfigFresh
<1>9. settings_build' = "gtk" /\ followed' => ConfigWrote(settings_disk', accepted')
  BY <1>1 DEF ConfigIInv
<1> QED BY <1>1, <1>4, <1>7, <1>8, <1>9 DEF ConfigIInv

LEMMA ConfigNextKeeps == ASSUME ConfigIInv, [Config!Next]_(Config!vars) PROVE ConfigIInv'
<1>1. CASE Config!Next
  <2>1. settings_build' = settings_build
    BY <1>1 DEF Config!Next
  <2>2. CASE Config!Pick
    <3>1. CASE \E t \in ConfigTypes \cup {Config!NoType} : Config!PickDevice(t)
      BY <2>1, <3>1, ConfigPicksDevice
    <3>2. CASE \E i \in 1..2 : Config!PickApi(i)
      BY <2>1, <3>2, ConfigPicksApi
    <3>3. CASE \E t \in ConfigTypes : \E s \in 0..ConfigSubtypes[t] - 1 : Config!PickSubtype(s)
      BY <2>1, <3>3, ConfigPicksSubtype
    <3> QED BY <2>2, <3>1, <3>2, <3>3 DEF Config!Pick
  <2>3. CASE Config!OpenDialog
    BY <2>1, <2>3, ConfigOpens
  <2>4. CASE Config!Accept
    BY <2>1, <2>4, ConfigAccepts
  <2>5. CASE Config!Cancel
    BY <2>1, <2>5, ConfigCancels
  <2>6. CASE Config!CreateDevice
    BY <2>1, <2>6, ConfigCreates
  <2>7. CASE Config!Restart
    BY <2>1, <2>7, ConfigRestarts
  <2> QED BY <1>1, <2>2, <2>3, <2>4, <2>5, <2>6, <2>7 DEF Config!Next
<1>2. CASE UNCHANGED Config!vars
  <2>1. /\ settings_build' = settings_build /\ settings_disk' = settings_disk /\ ciniFile' = ciniFile
        /\ settings_conf' = settings_conf /\ changedAPIs' = changedAPIs /\ changedSubtype' = changedSubtype
        /\ settings_loaded' = settings_loaded /\ settings_dialog' = settings_dialog /\ shown' = shown
        /\ accepted' = accepted /\ picked' = picked /\ followed' = followed
    BY <1>2 DEF Config!vars, Config!settings
  <2> QED BY <2>1 DEF ConfigIInv, ConfigFlags, Config!SameChoice
<1> QED BY <1>1, <1>2

\* What the run checks of its states.
LEMMA ConfigKept ==
  ASSUME ConfigIInv
  PROVE  Config!TypeOK /\ (settings_build = "gtk" => Config!ShowsWhatWasAccepted)
<1> USE ConfigConstantTypes
<1>1. ConfigFlags /\ ConfigKnows(settings_build, changedAPIs, changedSubtype, picked, settings_disk)
  BY DEF ConfigIInv
<1>2. \A t \in ConfigTypes : changedSubtype[t] \in {Config!Unset} \cup -1..ConfigSubtypes[t]
  <2> TAKE t \in ConfigTypes
  <2>1. changedSubtype[t] = Config!Unset \/ Config!HasSubtype(t, changedSubtype[t])
    BY <1>1 DEF ConfigKnows, ConfigFits
  <2>2. Config!HasSubtype(t, changedSubtype[t]) => changedSubtype[t] \in -1..ConfigSubtypes[t]
    BY DEF Config!HasSubtype
  <2> QED BY <2>1, <2>2
<1>3. \A t \in ConfigTypes : changedAPIs[t] = Config!Absent \/ Config!IsValidAPI(t, changedAPIs[t])
  BY <1>1 DEF ConfigKnows
<1>4. settings_conf \in ConfigTypes \cup {Config!NoType} /\ shown.dev \in ConfigTypes \cup {Config!NoType}
      /\ settings_loaded \in BOOLEAN /\ settings_dialog \in BOOLEAN /\ followed \in BOOLEAN
  BY <1>1 DEF ConfigFlags
<1>5. Config!TypeOK
  BY <1>2, <1>3, <1>4 DEF Config!TypeOK
<1> QED BY <1>5 DEF ConfigIInv, Config!ShowsWhatWasAccepted

\* What the run checks of its steps.
LEMMA ConfigStepsKeep ==
  ASSUME ConfigIInv, Config!Next
  PROVE  /\ Config!SavesSeen
         /\ settings_build = "gtk" => Config!MakesAccepted /\ Config!SavesPicked
<1> USE ConfigConstantTypes
<1>1. CASE Config!Accept
  <2> DEFINE f == settings_disk'
             t == shown.dev
  <2>1. /\ ConfigFlags /\ ConfigKnows(settings_build, changedAPIs, changedSubtype, picked, settings_disk)
        /\ t \in ConfigTypes \cup {Config!NoType} /\ settings_build \in {"gtk", "windows"}
        /\ ConfigOnShow(settings_build, changedAPIs, changedSubtype, picked, settings_disk, t, shown.api, shown.sub)
    BY <1>1 DEF ConfigIInv, ConfigFlags, Config!Accept
  <2>2. \A u \in ConfigTypes :
          f.api[u] = IF changedAPIs[u] = Config!Absent THEN settings_disk.api[u] ELSE changedAPIs[u]
    BY <1>1, ConfigWrites
  <2>3. device' = device
    BY <1>1 DEF Config!Accept
  <2> HIDE DEF f
  <2>4. ASSUME t # Config!NoType PROVE f.api[t] \in {ConfigApis[t][shown.api], picked[t]}
    <3>1. t \in ConfigTypes /\ shown.api \in 1..Len(ConfigApis[t])
      BY <2>1, <2>4 DEF ConfigOnShow
    <3>2. ConfigApis[t][shown.api] # Config!Absent
      BY <3>1, ConfigApiNames
    <3>3. CASE settings_build = "gtk"
      BY <2>1, <2>2, <3>1, <3>2, <3>3 DEF ConfigOnShow
    <3>4. CASE settings_build = "windows"
      BY <2>1, <2>2, <3>1, <3>4 DEF ConfigOnShow
    <3> QED BY <2>1, <3>3, <3>4
  <2>5. ASSUME settings_build = "gtk", NEW u \in ConfigTypes, picked[u] # Config!Absent PROVE f.api[u] = picked[u]
    BY <2>1, <2>2, <2>5 DEF ConfigKnows
  <2>6. settings_build = "gtk" => Config!SavesPicked
    BY <2>5 DEF Config!SavesPicked, f
  <2> QED BY <2>3, <2>4, <2>6 DEF Config!SavesSeen, Config!MakesAccepted, f
<1>2. CASE Config!CreateDevice
  <2> DEFINE t == IF settings_loaded THEN settings_conf ELSE settings_disk.port
  <2>1. /\ settings_disk' = settings_disk /\ followed' = followed
        /\ device' = IF t = Config!NoType \/ ~Config!IsValidAPI(t, settings_disk.api[t]) THEN Config!NoDevice
                     ELSE [dev |-> t, api |-> settings_disk.api[t], sub |-> Config!GetSelectedSubtype(Config!LoadConfig, t)]
    BY <1>2 DEF Config!CreateDevice
  <2>2. PICK A, S :
          /\ Config!LoadConfig = ConfigDesk(A, S, shown.dev, shown.api, shown.sub)
          /\ settings_build = "gtk" /\ followed => ConfigHolds(A, S, t, accepted)
    BY ConfigReads
  <2>3. t \in ConfigTypes \cup {Config!NoType}
    BY DEF ConfigIInv, ConfigFlags, ConfigKnows, Config!FileFits
  <2> HIDE DEF t
  <2>4. ASSUME settings_build = "gtk", followed, device'.dev # Config!NoType
        PROVE  /\ device'.dev = accepted.dev /\ device'.api = ConfigApis[accepted.dev][accepted.api]
               /\ ConfigSubtypes[accepted.dev] > 0 => device'.sub = accepted.sub
    <3>1. ConfigWrote(settings_disk, accepted) /\ ConfigHolds(A, S, t, accepted)
      BY <2>2, <2>4 DEF ConfigIInv
    <3>2. device'.dev = t /\ device'.api = settings_disk.api[t] /\ t # Config!NoType
          /\ device'.sub = Config!GetSelectedSubtype(Config!LoadConfig, t)
      BY <2>1, <2>4 DEF Config!NoDevice
    <3>3. t \in ConfigTypes /\ t = accepted.dev
      BY <2>3, <3>1, <3>2 DEF ConfigHolds
    <3>4. settings_disk.api[t] = ConfigApis[t][accepted.api] /\ ConfigShowsSub(S, t, accepted.sub)
      BY <3>1, <3>3 DEF ConfigWrote, ConfigHolds
    <3>5. device'.sub = Config!OrFirst(S[t])
      BY <2>2, <3>2 DEF Config!GetSelectedSubtype, ConfigDesk
    <3>6. ConfigSubtypes[t] > 0 => S[t] = accepted.sub /\ accepted.sub \in 0..ConfigSubtypes[t] - 1
      BY <3>4 DEF ConfigShowsSub
    <3>7. ConfigSubtypes[t] > 0 => device'.sub = accepted.sub
      BY <3>3, <3>5, <3>6 DEF Config!OrFirst, Config!Unset
    <3> QED BY <3>2, <3>3, <3>4, <3>7
  <2>5. settings_build = "gtk" => Config!MakesAccepted
    BY <2>1, <2>4 DEF Config!MakesAccepted
  <2> QED BY <2>1, <2>5 DEF Config!SavesSeen, Config!SavesPicked
<1>3. CASE Config!Restart
  <2>1. settings_disk' = settings_disk /\ device'.dev = Config!NoType
    BY <1>3 DEF Config!Restart, Config!NoDevice
  <2> QED BY <2>1 DEF Config!SavesSeen, Config!MakesAccepted, Config!SavesPicked
<1>4. CASE settings_disk' = settings_disk /\ device' = device
  BY <1>4 DEF Config!SavesSeen, Config!MakesAccepted, Config!SavesPicked
<1>5. Config!OpenDialog \/ Config!Cancel \/ Config!Pick => settings_disk' = settings_disk /\ device' = device
  BY DEF Config!OpenDialog, Config!Cancel, Config!Pick, Config!PickDevice, Config!PickApi, Config!PickSubtype
<1> QED BY <1>1, <1>2, <1>3, <1>4, <1>5 DEF Config!Next

-----------------------------------------------------------------------------
(* The dialogs of the audio devices.                                       *)

SoundsDevices == SoundsSources \cup SoundsSinks
\* The list of a direction names devices of that direction.
SoundsList(dir, s) ==
  /\ Len(s) \in Nat /\ DOMAIN s = 1..Len(s)
  /\ \A i \in 1..Len(s) : s[i] \in Sounds!All(dir)
\* What the user left alone is on show as it is set.
SoundsIInv ==
  /\ Sounds!TypeOK /\ Sounds!TextIsSaved
  /\ DOMAIN listed = Sounds!Directions /\ \A d \in Sounds!Directions : SoundsList(d, listed[d])
  /\ DOMAIN active = Sounds!Slots /\ DOMAIN slider = Sounds!Directions /\ DOMAIN text = Sounds!Directions
  /\ devices_dialog # "open" => \A s \in Sounds!Slots : active[s] = 0
  /\ devices_dialog = "open" =>
       \A s \in Sounds!Slots \ touched : active[s] = Sounds!Populate(file.device[s], listed[Sounds!Of(s)])

LEMMA SoundsConstantTypes ==
  /\ SoundsBuilds \subseteq {"gtk", "windows"} /\ SoundsMaxLength \in Nat \ {0} /\ SoundsLengths \subseteq Nat
  /\ IsFiniteSet(SoundsSources) /\ IsFiniteSet(SoundsSinks) /\ "" \notin SoundsSources \cup SoundsSinks
<1>1. \A S : Sounds!IsFiniteSet(S) <=> IsFiniteSet(S)
  BY DEF Sounds!IsFiniteSet, IsFiniteSet
<1> QED BY <1>1, SoundsAssumption DEF Sounds!AudioDialogConstants, Sounds!Missing

LEMMA SoundsDirs ==
  /\ \A s \in Sounds!Slots : Sounds!Of(s) \in Sounds!Directions
  /\ \A d \in Sounds!Directions : IsFiniteSet(Sounds!All(d)) /\ Sounds!Missing \notin Sounds!All(d)
BY SoundsConstantTypes DEF Sounds!Slots, Sounds!Directions, Sounds!Of, Sounds!All, Sounds!Missing

\* A list of all the devices that are there, once each.
LEMMA SoundsAsked ==
  ASSUME NEW dir \in Sounds!Directions
  PROVE  SoundsList(dir, Sounds!Ask(dir))
<1> DEFINE S == devices_system \cap Sounds!All(dir)
           n == Cardinality(S)
<1>1. IsFiniteSet(S)
  BY SoundsDirs, FS_Subset
<1>2. n \in Nat /\ ExistsBijection(1..n, S)
  BY <1>1, FS_CardinalityType
<1>3. Sounds!Cardinality(S) = n
  BY DEF Sounds!Cardinality, Cardinality
<1> HIDE DEF n
<1>4. \E g \in [1..n -> S] : Sounds!Range(g) = S
  <2>1. PICK g \in [1..n -> S] : \A y \in S : \E x \in 1..n : g[x] = y
    BY <1>2 DEF ExistsBijection, Bijection, Surjection
  <2>2. Sounds!Range(g) = S
    BY <2>1 DEF Sounds!Range
  <2> QED BY <2>2
<1>5. Sounds!Ask(dir) = CHOOSE g \in [1..n -> S] : Sounds!Range(g) = S
  BY <1>3 DEF Sounds!Ask, Sounds!Order
<1>6. Sounds!Ask(dir) \in [1..n -> S]
  BY <1>4, <1>5
<1>7. Len(Sounds!Ask(dir)) = n
  BY <1>2, <1>6
<1> QED BY <1>2, <1>6, <1>7 DEF SoundsList

LEMMA SoundsPopulates ==
  ASSUME NEW dir \in Sounds!Directions, NEW s, SoundsList(dir, s), NEW name
  PROVE  /\ Sounds!Populate(name, s) \in 0..Len(s)
         /\ name \in Sounds!Range(s) => Sounds!Populate(name, s) > 0 /\ s[Sounds!Populate(name, s)] = name
         /\ name = Sounds!Missing => Sounds!Populate(name, s) = 0
<1> DEFINE x == CHOOSE i \in 1..Len(s) : s[i] = name
<1>1. Len(s) \in Nat /\ DOMAIN s = 1..Len(s) /\ \A i \in 1..Len(s) : s[i] \in Sounds!All(dir)
  BY DEF SoundsList
<1>2. CASE \E i \in 1..Len(s) : s[i] = name
  <2>1. Sounds!Populate(name, s) = x
    BY <1>2 DEF Sounds!Populate
  <2>2. x \in 1..Len(s) /\ s[x] = name
    BY <1>2
  <2>3. name # Sounds!Missing
    BY <1>1, <2>2, SoundsDirs
  <2> QED BY <1>1, <2>1, <2>2, <2>3
<1>3. CASE ~\E i \in 1..Len(s) : s[i] = name
  <2>1. Sounds!Populate(name, s) = 0
    BY <1>3 DEF Sounds!Populate
  <2>2. name \notin Sounds!Range(s)
    BY <1>1, <1>3 DEF Sounds!Range
  <2> QED BY <1>1, <2>1, <2>2
<1> QED BY <1>2, <1>3

LEMMA SoundsBegins == Sounds!Init => SoundsIInv
<1> SUFFICES ASSUME Sounds!Init PROVE SoundsIInv
  OBVIOUS
<1>1. /\ devices_system \subseteq SoundsDevices /\ devices_dialog = "closed" /\ listed = Sounds!NoLists
      /\ active = Sounds!NoneActive /\ slider = Sounds!Shortest /\ text = Sounds!Shortest
      /\ \A s \in Sounds!Slots : file.device[s] = Sounds!Missing
      /\ \A d \in Sounds!Directions : file.length[d] = Sounds!Unset
  BY DEF Sounds!Init, SoundsDevices
<1>2. /\ DOMAIN listed = Sounds!Directions /\ \A d \in Sounds!Directions : listed[d] = <<>>
      /\ DOMAIN active = Sounds!Slots /\ \A s \in Sounds!Slots : active[s] = 0
      /\ DOMAIN slider = Sounds!Directions /\ DOMAIN text = Sounds!Directions
      /\ \A d \in Sounds!Directions : slider[d] = 1 /\ text[d] = 1
  BY <1>1 DEF Sounds!NoLists, Sounds!NoneActive, Sounds!Shortest
<1>3. \A d \in Sounds!Directions : SoundsList(d, listed[d])
  BY <1>2 DEF SoundsList
<1>4. 1 \in 1..SoundsMaxLength /\ \A n \in Nat : 0 \in 0..n
  <2>1. SoundsMaxLength \in Nat \ {0}
    BY SoundsConstantTypes
  <2> QED BY <2>1
<1>5. Sounds!TypeOK
  BY <1>1, <1>2, <1>3, <1>4, SoundsDirs DEF Sounds!TypeOK, SoundsList, SoundsDevices
<1>6. Sounds!TextIsSaved
  BY <1>1 DEF Sounds!TextIsSaved
<1> QED BY <1>1, <1>2, <1>3, <1>5, <1>6 DEF SoundsIInv

\* Lists that are shown are lists of the directions, and show what is set.
LEMMA SoundsShown ==
  ASSUME SoundsIInv, NEW lists, Sounds!Show(lists),
         DOMAIN lists = Sounds!Directions, \A d \in Sounds!Directions : SoundsList(d, lists[d])
  PROVE  SoundsIInv'
<1>1. SoundsMaxLength \in Nat \ {0}
  BY SoundsConstantTypes
<1>2. /\ listed' = lists /\ devices_dialog' = "open" /\ touched' = {} /\ devices_system' = devices_system /\ file' = file
      /\ active' = [s \in Sounds!Slots |-> Sounds!Populate(file.device[s], lists[Sounds!Of(s)])]
      /\ slider' = [d \in Sounds!Directions |-> Sounds!Ranged(Sounds!Loaded(d))]
      /\ text' = [d \in Sounds!Directions |-> Sounds!Ranged(Sounds!Loaded(d))]
  BY DEF Sounds!Show
<1>3. \A n \in Int : Sounds!Ranged(n) \in 1..SoundsMaxLength
  BY <1>1 DEF Sounds!Ranged
<1>4. \A d \in Sounds!Directions : Sounds!Loaded(d) \in Int
  <2>1. \A d \in Sounds!Directions : file.length[d] \in 1..SoundsMaxLength \cup {Sounds!Unset}
    BY DEF SoundsIInv, Sounds!TypeOK
  <2> QED BY <2>1 DEF Sounds!Loaded
<1>5. \A d \in Sounds!Directions : slider'[d] \in 1..SoundsMaxLength /\ text'[d] = slider'[d]
  BY <1>2, <1>3, <1>4
<1>6. \A s \in Sounds!Slots : active'[s] \in 0..Len(lists[Sounds!Of(s)])
  BY <1>2, SoundsDirs, SoundsPopulates
<1>7. Sounds!TypeOK'
  BY <1>2, <1>5, <1>6 DEF SoundsIInv, Sounds!TypeOK
<1>8. Sounds!TextIsSaved'
  BY <1>5 DEF Sounds!TextIsSaved
<1>9. /\ DOMAIN listed' = Sounds!Directions /\ \A d \in Sounds!Directions : SoundsList(d, listed'[d])
      /\ DOMAIN active' = Sounds!Slots /\ DOMAIN slider' = Sounds!Directions /\ DOMAIN text' = Sounds!Directions
  BY <1>2
<1>10. \A s \in Sounds!Slots \ touched' : active'[s] = Sounds!Populate(file'.device[s], listed'[Sounds!Of(s)])
  BY <1>2
<1> QED BY <1>2, <1>7, <1>8, <1>9, <1>10 DEF SoundsIInv

\* A dialog that is closed shows nothing.
LEMMA SoundsCloses ==
  ASSUME SoundsIInv, Sounds!Close, devices_system' = devices_system,
         \A s \in Sounds!Slots : file'.device[s] \in Sounds!All(Sounds!Of(s)) \cup {Sounds!Missing},
         \A d \in Sounds!Directions : file'.length[d] \in 1..SoundsMaxLength \cup {Sounds!Unset}
  PROVE  SoundsIInv'
<1>1. 1 \in 1..SoundsMaxLength /\ \A n \in Nat : 0 \in 0..n
  <2>1. SoundsMaxLength \in Nat \ {0}
    BY SoundsConstantTypes
  <2> QED BY <2>1
<1>2. /\ devices_dialog' = "closed" /\ listed' = Sounds!NoLists /\ active' = Sounds!NoneActive
      /\ slider' = Sounds!Shortest /\ text' = Sounds!Shortest
  BY DEF Sounds!Close
<1>3. /\ DOMAIN listed' = Sounds!Directions /\ \A d \in Sounds!Directions : listed'[d] = <<>>
      /\ DOMAIN active' = Sounds!Slots /\ \A s \in Sounds!Slots : active'[s] = 0
      /\ DOMAIN slider' = Sounds!Directions /\ DOMAIN text' = Sounds!Directions
      /\ \A d \in Sounds!Directions : slider'[d] = 1 /\ text'[d] = 1
  BY <1>2 DEF Sounds!NoLists, Sounds!NoneActive, Sounds!Shortest
<1>4. \A d \in Sounds!Directions : SoundsList(d, listed'[d])
  BY <1>3 DEF SoundsList
<1>5. Sounds!TypeOK'
  BY <1>1, <1>2, <1>3, <1>4, SoundsDirs DEF SoundsIInv, Sounds!TypeOK, SoundsList
<1>6. Sounds!TextIsSaved'
  BY <1>2 DEF Sounds!TextIsSaved
<1> QED BY <1>2, <1>3, <1>4, <1>5, <1>6 DEF SoundsIInv

\* What is chosen is on the list, or nothing.
LEMMA SoundsChosen ==
  ASSUME SoundsIInv, NEW s \in Sounds!Slots
  PROVE  /\ Sounds!Chosen(s) \in Sounds!All(Sounds!Of(s)) \cup {Sounds!Missing}
         /\ Sounds!Chosen(s) \in {Sounds!Missing} \cup Sounds!Range(listed[Sounds!Of(s)])
         /\ Sounds!Chosen(s) = Sounds!Missing <=> active[s] = 0
<1> DEFINE L == listed[Sounds!Of(s)]
<1>1. active[s] \in 0..Len(L) /\ SoundsList(Sounds!Of(s), L)
  BY SoundsDirs DEF SoundsIInv, Sounds!TypeOK
<1>2. Len(L) \in Nat /\ DOMAIN L = 1..Len(L) /\ \A i \in 1..Len(L) : L[i] \in Sounds!All(Sounds!Of(s))
  BY <1>1 DEF SoundsList
<1>3. Sounds!Chosen(s) = IF active[s] > 0 THEN L[active[s]] ELSE Sounds!Missing
  BY DEF Sounds!Chosen
<1>4. Sounds!Missing \notin Sounds!All(Sounds!Of(s))
  BY SoundsDirs
<1> HIDE DEF L
<1>5. CASE active[s] = 0
  BY <1>3, <1>5
<1>6. CASE active[s] # 0
  <2>1. active[s] \in 1..Len(L) /\ active[s] > 0
    BY <1>1, <1>2, <1>6
  <2>2. Sounds!Chosen(s) = L[active[s]] /\ L[active[s]] \in Sounds!Range(L)
    BY <1>2, <1>3, <2>1 DEF Sounds!Range
  <2> QED BY <1>2, <1>4, <1>6, <2>1, <2>2 DEF L
<1> QED BY <1>5, <1>6 DEF L

\* A pick and a length change one entry.
LEMMA SoundsPicks ==
  ASSUME SoundsIInv, NEW s \in Sounds!Slots, NEW i, Sounds!Pick(s, i) PROVE SoundsIInv'
<1>1. /\ devices_dialog = "open" /\ devices_dialog' = "open" /\ i \in 0..Len(listed[Sounds!Of(s)])
      /\ active' = [active EXCEPT ![s] = i] /\ touched' = touched \cup {s}
      /\ devices_system' = devices_system /\ file' = file /\ listed' = listed /\ slider' = slider /\ text' = text
  BY DEF Sounds!Pick
<1>2. DOMAIN active = Sounds!Slots
  BY DEF SoundsIInv
<1>3. DOMAIN active' = Sounds!Slots /\ active'[s] = i /\ \A r \in Sounds!Slots : r # s => active'[r] = active[r]
  BY <1>1, <1>2
<1>4. Sounds!TypeOK'
  BY <1>1, <1>3 DEF SoundsIInv, Sounds!TypeOK
<1>5. Sounds!TextIsSaved'
  BY <1>1 DEF SoundsIInv, Sounds!TextIsSaved
<1> QED BY <1>1, <1>3, <1>4, <1>5 DEF SoundsIInv

LEMMA SoundsLengthens ==
  ASSUME SoundsIInv, NEW d \in Sounds!Directions, NEW n, NEW m \in 1..SoundsMaxLength, n = m \/ (n = 0 /\ m = 1),
         slider' = [slider EXCEPT ![d] = m], text' = [text EXCEPT ![d] = n],
         UNCHANGED <<devices_system, file, devices_dialog, listed, active, touched>>
  PROVE  SoundsIInv'
<1>1. DOMAIN slider = Sounds!Directions /\ DOMAIN text = Sounds!Directions
  BY DEF SoundsIInv
<1>2. /\ DOMAIN slider' = Sounds!Directions /\ DOMAIN text' = Sounds!Directions /\ slider'[d] = m /\ text'[d] = n
      /\ \A e \in Sounds!Directions : e # d => slider'[e] = slider[e] /\ text'[e] = text[e]
  BY <1>1
<1>3. Sounds!TypeOK'
  BY <1>2 DEF SoundsIInv, Sounds!TypeOK
<1>4. Sounds!TextIsSaved'
  BY <1>2 DEF SoundsIInv, Sounds!TextIsSaved
<1> QED BY <1>2, <1>3, <1>4 DEF SoundsIInv

LEMMA SoundsNextKeeps == ASSUME SoundsIInv, [Sounds!Next]_(Sounds!vars) PROVE SoundsIInv'
<1>1. CASE UNCHANGED Sounds!vars
  BY <1>1 DEF Sounds!vars, SoundsIInv, Sounds!TypeOK, Sounds!TextIsSaved
<1>2. ASSUME NEW d \in SoundsSources \cup SoundsSinks, Sounds!Plug(d) PROVE SoundsIInv'
  <2>1. devices_system' \subseteq SoundsSources \cup SoundsSinks
    BY <1>2 DEF Sounds!Plug, SoundsIInv, Sounds!TypeOK
  <2>2. UNCHANGED <<file, devices_dialog, listed, active, slider, text, touched>>
    BY <1>2 DEF Sounds!Plug
  <2> QED BY <2>1, <2>2 DEF SoundsIInv, Sounds!TypeOK, Sounds!TextIsSaved
<1>3. ASSUME Sounds!Begin PROVE SoundsIInv'
  BY <1>3 DEF Sounds!Begin, SoundsIInv, Sounds!TypeOK, Sounds!TextIsSaved
<1>4. ASSUME Sounds!GotSources PROVE SoundsIInv'
  <2>1. /\ devices_dialog = "sources" /\ devices_dialog' = "sinks"
        /\ listed' = [listed EXCEPT !["source"] = Sounds!Ask("source")]
        /\ UNCHANGED <<devices_system, file, active, slider, text, touched>>
    BY <1>4 DEF Sounds!GotSources
  <2>2. PICK src1 \in Sounds!Directions : src1 = "source"
    BY DEF Sounds!Directions
  <2>3. SoundsList(src1, Sounds!Ask(src1))
    BY SoundsAsked
  <2>4. DOMAIN listed' = Sounds!Directions /\ \A d \in Sounds!Directions : SoundsList(d, listed'[d])
    BY <2>1, <2>2, <2>3 DEF SoundsIInv
  <2>5. \A s \in Sounds!Slots : active'[s] = 0 /\ active'[s] \in 0..Len(listed'[Sounds!Of(s)])
    <3>1. \A d \in Sounds!Directions : Len(listed'[d]) \in Nat
      BY <2>4 DEF SoundsList
    <3>2. \A s \in Sounds!Slots : active'[s] = 0
      BY <2>1 DEF SoundsIInv
    <3>3. \A n \in Nat : 0 \in 0..n
      OBVIOUS
    <3> QED BY <3>1, <3>2, <3>3, SoundsDirs
  <2>6. Sounds!TypeOK'
    BY <2>1, <2>5 DEF SoundsIInv, Sounds!TypeOK
  <2>7. Sounds!TextIsSaved'
    BY <2>1 DEF Sounds!TextIsSaved
  <2> QED BY <2>1, <2>4, <2>5, <2>6, <2>7 DEF SoundsIInv
<1>5. ASSUME Sounds!GotSinks PROVE SoundsIInv'
  <2> DEFINE lists == [listed EXCEPT !["sink"] = Sounds!Ask("sink")]
  <2>1. Sounds!Show(lists)
    BY <1>5 DEF Sounds!GotSinks
  <2>2. PICK snk \in Sounds!Directions : snk = "sink"
    BY DEF Sounds!Directions
  <2>3. SoundsList(snk, Sounds!Ask(snk))
    BY SoundsAsked
  <2>4. DOMAIN lists = Sounds!Directions /\ \A d \in Sounds!Directions : SoundsList(d, lists[d])
    BY <2>2, <2>3 DEF SoundsIInv
  <2> HIDE DEF lists
  <2> QED BY <2>1, <2>4, SoundsShown
<1>6. ASSUME Sounds!AskFails \/ Sounds!Cancel PROVE SoundsIInv'
  BY <1>6, SoundsCloses DEF Sounds!AskFails, Sounds!Cancel, SoundsIInv, Sounds!TypeOK
<1>7. ASSUME Sounds!InitDialog PROVE SoundsIInv'
  <2> DEFINE lists == [d \in Sounds!Directions |-> Sounds!Ask(d)]
  <2>1. Sounds!Show(lists)
    BY <1>7 DEF Sounds!InitDialog
  <2>2. DOMAIN lists = Sounds!Directions /\ \A d \in Sounds!Directions : SoundsList(d, lists[d])
    BY SoundsAsked
  <2> HIDE DEF lists
  <2> QED BY <2>1, <2>2, SoundsShown
<1>8. ASSUME NEW s \in Sounds!Slots, NEW i, Sounds!Pick(s, i) PROVE SoundsIInv'
  BY <1>8, SoundsPicks
<1>9. ASSUME NEW d \in Sounds!Directions, NEW n \in 1..SoundsMaxLength, Sounds!Scroll(d, n) PROVE SoundsIInv'
  BY <1>9, SoundsLengthens DEF Sounds!Scroll
<1>10. ASSUME NEW d \in Sounds!Directions, NEW n \in SoundsLengths, Sounds!Type(d, n) PROVE SoundsIInv'
  <2>1. n \in Nat /\ SoundsMaxLength \in Nat \ {0}
    BY SoundsConstantTypes
  <2> DEFINE x == IF n > SoundsMaxLength THEN SoundsMaxLength ELSE n
             m == Sounds!Ranged(n)
  <2>2. m \in 1..SoundsMaxLength /\ (x = m \/ (x = 0 /\ m = 1))
    BY <2>1 DEF Sounds!Ranged
  <2>3. /\ slider' = [slider EXCEPT ![d] = m] /\ text' = [text EXCEPT ![d] = x]
        /\ UNCHANGED <<devices_system, file, devices_dialog, listed, active, touched>>
    BY <1>10 DEF Sounds!Type
  <2> HIDE DEF x, m
  <2> QED BY <2>2, <2>3, SoundsLengthens
<1>11. ASSUME NEW failures, Sounds!Accept(failures) PROVE SoundsIInv'
  <2>1. /\ Sounds!Close /\ devices_system' = devices_system
        /\ \A s \in Sounds!Slots : file'.device[s] = IF s \in failures THEN file.device[s] ELSE Sounds!Chosen(s)
        /\ \A d \in Sounds!Directions : file'.length[d] = IF d \in failures THEN file.length[d] ELSE slider[d]
    BY <1>11 DEF Sounds!Accept
  <2>2. \A s \in Sounds!Slots : file'.device[s] \in Sounds!All(Sounds!Of(s)) \cup {Sounds!Missing}
    BY <2>1, SoundsChosen DEF SoundsIInv, Sounds!TypeOK
  <2>3. \A d \in Sounds!Directions : file'.length[d] \in 1..SoundsMaxLength \cup {Sounds!Unset}
    BY <2>1 DEF SoundsIInv, Sounds!TypeOK
  <2> QED BY <2>1, <2>2, <2>3, SoundsCloses
<1>12. ASSUME Sounds!User PROVE SoundsIInv'
  BY <1>6, <1>8, <1>9, <1>10, <1>11, <1>12 DEF Sounds!User
<1> QED BY <1>1, <1>2, <1>3, <1>4, <1>5, <1>6, <1>7, <1>12 DEF Sounds!Next

\* What the run checks of its steps.
LEMMA SoundsStepsKeep ==
  ASSUME SoundsIInv, Sounds!Next
  PROVE  Sounds!ClosingKeeps /\ Sounds!SavesListed
<1>1. CASE file' = file
  BY <1>1 DEF Sounds!ClosingKeeps, Sounds!SavesListed
<1>2. ASSUME NEW failures, Sounds!Accept(failures), NEW s \in Sounds!Slots
      PROVE  /\ s \notin touched /\ file.device[s] \in {Sounds!Missing} \cup Sounds!Range(listed[Sounds!Of(s)]) =>
                  file'.device[s] = file.device[s]
             /\ file'.device[s] # file.device[s] =>
                  /\ file'.device[s] \in {Sounds!Missing} \cup Sounds!Range(listed[Sounds!Of(s)])
                  /\ file'.device[s] = Sounds!Missing <=> active[s] = 0
  <2> DEFINE L == listed[Sounds!Of(s)]
             x == file.device[s]
             y == file'.device[s]
  <2>1. y = IF s \in failures THEN x ELSE Sounds!Chosen(s)
    BY <1>2 DEF Sounds!Accept
  <2>2. CASE s \in failures
    BY <2>1, <2>2
  <2>3. CASE s \notin failures
    <3>1. y = Sounds!Chosen(s) /\ Sounds!Chosen(s) = IF active[s] > 0 THEN L[active[s]] ELSE Sounds!Missing
      BY <2>1, <2>3 DEF Sounds!Chosen
    <3>2. ASSUME s \notin touched, x \in {Sounds!Missing} \cup Sounds!Range(L) PROVE y = x
      <4>1. active[s] = Sounds!Populate(x, L) /\ SoundsList(Sounds!Of(s), L) /\ Sounds!Of(s) \in Sounds!Directions
        BY <1>2, <3>2, SoundsDirs DEF SoundsIInv, Sounds!Accept
      <4> HIDE DEF L, x, y
      <4>2. x \in Sounds!Range(L) => active[s] > 0 /\ L[active[s]] = x
        BY <4>1, SoundsPopulates
      <4>3. x = Sounds!Missing => active[s] = 0
        BY <4>1, SoundsPopulates
      <4> QED BY <3>1, <3>2, <4>2, <4>3
    <3>3. y \in {Sounds!Missing} \cup Sounds!Range(L) /\ (y = Sounds!Missing <=> active[s] = 0)
      BY <3>1, SoundsChosen
    <3> QED BY <3>2, <3>3
  <2> QED BY <2>2, <2>3
<1>3. (\E failures \in Sounds!Failures : Sounds!Accept(failures)) \/ file' = file
  BY DEF Sounds!Next, Sounds!Plug, Sounds!Begin, Sounds!GotSources, Sounds!GotSinks, Sounds!Show, Sounds!AskFails,
     Sounds!InitDialog, Sounds!User, Sounds!Pick, Sounds!Scroll, Sounds!Type, Sounds!Cancel
<1> QED BY <1>1, <1>2, <1>3 DEF Sounds!ClosingKeeps, Sounds!SavesListed

-----------------------------------------------------------------------------
(* The parts put together: a component runs in its own part, where no other *)
(* touches what it has.                                                     *)

LEMMA RunsAlone ==
  ASSUME [Next]_vars
  PROVE  /\ part' = part
         /\ part = "life" => [Life!Next]_(Life!vars)
         /\ part = "config" => [Config!Next]_(Config!vars)
         /\ part = "dinput" => [DInput!Next]_(DInput!vars)
         /\ part = "sounds" => [Sounds!Next]_(Sounds!vars)
         /\ part = "thread" => [Thread!Next]_(Thread!vars)
         /\ part = "wasapi_source" => [WasapiSource!Next]_(WasapiSource!vars)
         /\ part = "wasapi_sink" => [WasapiSink!Next]_(WasapiSink!vars)
         /\ part = "pulse_source" => [PulseSourceDevice!Next]_(PulseSourceDevice!vars)
         /\ part = "pulse_sink" => [PulseSink!Next]_(PulseSink!vars)
         /\ part = "library" => [Library!Next]_(Library!vars)
<1>1. CASE UNCHANGED vars
  BY <1>1 DEF vars, dinputVars, DInput!vars, DInput!list, DInput!effects, threadVars, Thread!vars, wasapiVars,
     WasapiSource!vars, WasapiSource!thread, WasapiSource!flags, WasapiSource!sound, WasapiSource!past,
     WasapiSink!vars, WasapiSink!thread, WasapiSink!flags, WasapiSink!sound, WasapiSink!past, pulseVars,
     PulseSourceDevice!vars, PulseSourceDevice!locks, PulseSourceDevice!world, PulseSourceDevice!pulse,
     PulseSourceDevice!flags, PulseSink!vars, PulseSink!locks, PulseSink!world, PulseSink!pulse, PulseSink!flags,
     libraryVars, Library!vars, pluginVars, Life!vars, Life!plugin, Life!board, Life!outcome, settingsVars, Config!vars,
     Config!settings, devicesVars, Sounds!vars
<1>2. CASE Next
  BY <1>2 DEF Next, LifeStep, ConfigStep, DInputStep, MicStep, VolumesStep, ControlsStep, HeadsetRatesStep,
     SoundsStep, BuffersStep, ThreadStep, WasapiSourceStep, WasapiSinkStep, PulseSourceDeviceStep, PulseSinkStep,
     LibraryStep
<1> QED BY <1>1, <1>2

\* The variables of a part that does not run stay as they are.
LEMMA RestStays ==
  ASSUME [Next]_vars
  PROVE  /\ part # "life" => UNCHANGED pluginVars
         /\ part # "config" => UNCHANGED Config!vars /\ UNCHANGED settingsVars
         /\ part # "dinput" => UNCHANGED DInput!vars
         /\ part # "sounds" => UNCHANGED Sounds!vars
<1>1. CASE UNCHANGED vars
  BY <1>1 DEF vars, dinputVars, DInput!vars, DInput!list, DInput!effects, settingsVars, Config!vars, Config!settings,
     devicesVars, Sounds!vars
<1>2. CASE Next
  BY <1>2 DEF Next, LifeStep, ConfigStep, DInputStep, MicStep, VolumesStep, ControlsStep, HeadsetRatesStep,
     SoundsStep, BuffersStep, ThreadStep, WasapiSourceStep, WasapiSinkStep, PulseSourceDeviceStep, PulseSinkStep,
     LibraryStep, dinputVars, DInput!vars, DInput!list, DInput!effects, settingsVars, Config!vars, Config!settings,
     devicesVars, Sounds!vars
<1> QED BY <1>1, <1>2

\* The pads of DirectInput, for every set of ports, controls and devices: the
\* list is counted and there while it is used, effects go before their devices,
\* nobody reads behind its end, and a control in use is at the device that was
\* meant for as long as every list is the first one.
THEOREM BindingsStay == Spec => []BindingsHold
<1> DEFINE I == part = "dinput" => PadsIInv
<1>1. Init => I
  BY PadsBegin DEF Init
<1>2. I /\ [Next]_vars => I'
  BY RunsAlone, PadsStep1
<1>3. I => BindingsHold
  BY PadsKept DEF BindingsHold, PadsIInv
<1> QED BY <1>1, <1>2, <1>3, PTL DEF Spec

\* Threads and what they use, for every number of opens, of losses and of users,
\* every rate and every library: an input device has one reading thread, joined
\* before another is started; a sound device's threads, of either direction, use
\* interfaces, streams and locks only while they have them, leave nothing when
\* the device is deleted, and run when they were started; what a lost device of
\* Windows leaks, restarts and leaves locked is exactly what the properties say;
\* and libpulse is loaded whenever anybody uses it.
THEOREM ThreadsStay == Spec => []ThreadsOwn
<1> DEFINE I == /\ part = "thread" => ThreadIInv
                /\ part = "wasapi_source" => WasapiSource!IInv
                /\ part = "wasapi_sink" => WasapiSink!IInv
                /\ part = "pulse_source" => PulseSourceDevice!IInv
                /\ part = "pulse_sink" => PulseSink!IInv
                /\ part = "library" => LibraryIInv
<1>1. Init => I
  BY ThreadBegins, WasapiSource!DeviceBegins, WasapiSink!DeviceBegins, PulseSourceDevice!DeviceBegins,
     PulseSink!DeviceBegins, LibraryBegins, WasapiSourceAssumption, WasapiSinkAssumption, PulseSourceAssumption,
     PulseSinkAssumption DEF Init
<1>2. I /\ [Next]_vars => I'
  <2> SUFFICES ASSUME I, [Next]_vars PROVE I'
    OBVIOUS
  <2>1. part = "thread" => ThreadIInv'
    BY RunsAlone, ThreadStep1
  <2>2. part = "wasapi_source" => WasapiSource!IInv'
    BY RunsAlone, WasapiSource!DeviceStep, WasapiSourceAssumption
  <2>3. part = "wasapi_sink" => WasapiSink!IInv'
    BY RunsAlone, WasapiSink!DeviceStep, WasapiSinkAssumption
  <2>4. part = "pulse_source" => PulseSourceDevice!IInv'
    BY RunsAlone, PulseSourceDevice!DeviceStep, PulseSourceAssumption
  <2>5. part = "pulse_sink" => PulseSink!IInv'
    BY RunsAlone, PulseSink!DeviceStep, PulseSinkAssumption
  <2>6. part = "library" => LibraryIInv'
    BY RunsAlone, LibraryStep1
  <2> QED BY RunsAlone, <2>1, <2>2, <2>3, <2>4, <2>5, <2>6
<1>3. I => ThreadsOwn
  <2> SUFFICES ASSUME I PROVE ThreadsOwn
    OBVIOUS
  <2>1. part = "thread" => Thread!TypeOK /\ Thread!OneReader /\ Thread!ObjectStandsForThread
    BY ThreadKeeps
  <2>2. part = "wasapi_source" =>
          /\ WasapiSource!TypeOK /\ WasapiSource!EndedOwnsNothing /\ WasapiSource!DeletedIsQuiet
          /\ WasapiSource!UsesWhatItHas /\ WasapiSource!LeaksOnlyTheLost
          /\ WasapiSource!RunsWhenWanted /\ WasapiSource!StopsWhenWanted
    BY WasapiSource!DeviceKeeps, WasapiSourceAssumption
  <2>3. part = "wasapi_sink" =>
          /\ WasapiSink!TypeOK /\ WasapiSink!EndedOwnsNothing /\ WasapiSink!DeletedIsQuiet
          /\ WasapiSink!UsesWhatItHas /\ WasapiSink!LeaksOnlyTheLost
          /\ WasapiSink!RunsWhenWanted /\ WasapiSink!StopsWhenWanted
    BY WasapiSink!DeviceKeeps, WasapiSinkAssumption
  <2>4. part = "pulse_source" =>
          /\ PulseSourceDevice!TypeOK /\ PulseSourceDevice!CallbackHasStream /\ PulseSourceDevice!NothingLeft
          /\ PulseSourceDevice!OnlyDestructorStands /\ PulseSourceDevice!StartedRuns
    BY PulseSourceDevice!DeviceKeeps
  <2>5. part = "pulse_sink" =>
          /\ PulseSink!TypeOK /\ PulseSink!CallbackHasStream /\ PulseSink!NothingLeft
          /\ PulseSink!OnlyDestructorStands /\ PulseSink!StartedRuns
    BY PulseSink!DeviceKeeps
  <2>6. part = "library" => /\ Library!TypeOK /\ Library!UsedIsLoaded /\ Library!CountCovers /\ Library!WholeOrNothing
    BY LibraryKeeps
  <2> QED BY <2>1, <2>2, <2>3, <2>4, <2>5, <2>6 DEF ThreadsOwn
<1> QED BY <1>1, <1>2, <1>3, PTL DEF Spec

\* What the plugin holds, what is configured and what the dialogs show agree, for
\* every set of device types, APIs, files and configurations: every device belongs
\* to one port and is closed while the plugin is, also when devices fail to be
\* made, are replaced or come from a saved state that is given up half-way; and a
\* dialog opened again shows what was accepted in it.
THEOREM HostStaysAgreed == Spec => []HostAgrees
<1> DEFINE I == /\ part = "life" => LifeIInv
                /\ part = "config" => ConfigIInv
                /\ part = "sounds" => SoundsIInv
<1>1. Init => I
  BY LifeStarts, ConfigBegins, SoundsBegins DEF Init
<1>2. I /\ [Next]_vars => I'
  BY RunsAlone, LifeNextKeeps, ConfigNextKeeps, SoundsNextKeeps
<1>3. I => HostAgrees
  BY LifeKept, ConfigKept DEF HostAgrees, SoundsIInv
<1> QED BY <1>1, <1>2, <1>3, PTL DEF Spec

\* A step of the plugin's life, or one that leaves it alone.
LEMMA LifeSteps ==
  ASSUME part = "life" => LifeIInv, [Next]_vars
  PROVE  /\ [part = "life" => LifeFollows]_pluginVars
         /\ [part = "life" => LifeLoads]_pluginVars
<1>1. CASE part = "life"
  <2>1. Life!Next \/ UNCHANGED pluginVars
    BY <1>1, RunsAlone DEF pluginVars, Life!vars, Life!plugin, Life!board, Life!outcome
  <2> QED BY <1>1, <2>1, LifeNext
<1>2. CASE part # "life"
  BY <1>2
<1> QED BY <1>1, <1>2

\* What hangs on a device follows it, for every set of device types, whichever
\* fail to be made: opening the plugin opens every device, ports show what they
\* hold, and the packet in flight comes to point to a device that was freed only
\* where devices are made anew for another configuration.
THEOREM DevicesAreFollowed == Spec => DevicesFollow
<1> DEFINE I == part = "life" => LifeIInv
           Open == part = "life" => Life!OpenTogether
           Show == part = "life" => Life!ShowsDevices
           Point == part = "life" => Life!PacketPointsToDevice
<1>1. Init => I
  BY LifeStarts DEF Init
<1>2. I /\ [Next]_vars => I'
  BY RunsAlone, LifeNextKeeps
<1>3. I /\ [Next]_vars => [Open]_pluginVars /\ [Show]_pluginVars /\ [Point]_pluginVars
  BY LifeSteps DEF LifeFollows
<1> QED BY <1>1, <1>2, <1>3, PTL DEF Spec, DevicesFollow

\* A state that the plugin saved is loaded, for every set of device types, every
\* configuration and whatever cannot be made: each port whose device can be
\* trusted to be the configured one holds a device of the type it had with the
\* data it had, or none where there was none or none can be made, and only a
\* packet without a device stands in the way.
THEOREM SavedStatesLoad == Spec => SavedIsLoaded
<1> DEFINE I == part = "life" => LifeIInv
           Loads == part = "life" => Life!LoadsSameDevices
           Refuses == part = "life" => Life!RefusesOnlyPackets
<1>1. Init => I
  BY LifeStarts DEF Init
<1>2. I /\ [Next]_vars => I'
  BY RunsAlone, LifeNextKeeps
<1>3. I /\ [Next]_vars => [Loads]_pluginVars /\ [Refuses]_pluginVars
  BY LifeSteps DEF LifeLoads
<1> QED BY <1>1, <1>2, <1>3, PTL DEF Spec, SavedIsLoaded

\* What the user picked last is what is saved and made, and what the user left
\* alone stays, for every list of APIs, every file and all the devices that come
\* and go; and OK of the pads' dialog saves the devices that were meant.
THEOREM DialogsKeepChoices == Spec => DialogsKeep
<1> DEFINE I == /\ part = "config" => ConfigIInv
                /\ part = "dinput" => PadsIInv
                /\ part = "sounds" => SoundsIInv
           Makes == settings_build = "gtk" => Config!MakesAccepted
           Saves == settings_build = "gtk" => Config!SavesPicked
<1>1. Init => I
  BY ConfigBegins, PadsBegin, SoundsBegins DEF Init
<1>2. I /\ [Next]_vars => I'
  BY RunsAlone, ConfigNextKeeps, PadsStep1, SoundsNextKeeps
<1>3. I /\ [Next]_vars => [Config!SavesSeen]_(Config!vars) /\ [Makes]_settingsVars /\ [Saves]_settingsVars
  <2> SUFFICES ASSUME I, [Next]_vars PROVE [Config!SavesSeen]_(Config!vars) /\ [Makes]_settingsVars /\ [Saves]_settingsVars
    OBVIOUS
  <2>1. CASE part = "config"
    <3>1. Config!Next \/ UNCHANGED Config!vars
      BY <2>1, RunsAlone
    <3>2. UNCHANGED Config!vars => UNCHANGED settingsVars
      BY DEF Config!vars, Config!settings, settingsVars
    <3> QED BY <2>1, <3>1, <3>2, ConfigStepsKeep
  <2>2. CASE part # "config"
    BY <2>2, RestStays
  <2> QED BY <2>1, <2>2
<1>4. I /\ [Next]_vars => [Sounds!ClosingKeeps]_(Sounds!vars) /\ [Sounds!SavesListed]_(Sounds!vars)
  <2> SUFFICES ASSUME I, [Next]_vars PROVE [Sounds!ClosingKeeps]_(Sounds!vars) /\ [Sounds!SavesListed]_(Sounds!vars)
    OBVIOUS
  <2>1. CASE part = "sounds"
    <3>1. Sounds!Next \/ UNCHANGED Sounds!vars
      BY <2>1, RunsAlone
    <3> QED BY <2>1, <3>1, SoundsStepsKeep
  <2>2. CASE part # "sounds"
    BY <2>2, RestStays
  <2> QED BY <2>1, <2>2
<1>5. I /\ [Next]_vars => [DInput!SavesMeant]_(DInput!vars)
  <2> SUFFICES ASSUME I, [Next]_vars PROVE [DInput!SavesMeant]_(DInput!vars)
    OBVIOUS
  <2>1. CASE part = "dinput"
    BY <2>1, PadsSaved DEF DInput!SavesMeant
  <2>2. CASE part # "dinput"
    BY <2>2, RestStays
  <2> QED BY <2>1, <2>2
<1> QED BY <1>1, <1>2, <1>3, <1>4, <1>5, PTL DEF Spec, DialogsKeep, Config!SeenOrPicked, Sounds!KeepsTheRest,
           Sounds!SavedWasListed, DInput!OkSavesAll
===============================================================================
