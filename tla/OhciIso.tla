-------------------------------- MODULE OhciIso --------------------------------
(***************************************************************************)
(* Isochronous transfers of the OHCI controller (usb-ohci.cpp): the TDs of *)
(* one endpoint, each for a run of frames, with the bytes of each frame    *)
(* given by offsets into two pages of memory.                              *)
(*                                                                         *)
(* A page has PageSize bytes and frame numbers are modulo Wrap; in the     *)
(* code these are 0x1000 and 0x10000.  Left out: memory that is not there, *)
(* which kills the controller, and the done queue's interrupt delay, which *)
(* is in OhciLists.                                                        *)
(***************************************************************************)
EXTENDS Integers, SequencesExt

CONSTANTS
  Dir,         \* of the endpoint: "in", "out"
  Tds,         \* the driver's TDs
  Layouts,     \* what a TD may hold: bp, be, offset
  PageSize, Wrap,
  Ahead,       \* bound: how far ahead the driver queues a TD, or how late
  MaxUnserved  \* bound: frames in a row in which the list is not served

OhciIsoConstants ==
  /\ Dir \in {"in", "out"} /\ PageSize \in Nat \ {0}
  /\ Wrap \in Nat /\ Wrap % 2 = 0 /\ Ahead \in Nat /\ MaxUnserved \in Nat
  /\ \A l \in Layouts : 2 * (2 * Ahead + MaxUnserved + Len(l.offset)) < Wrap

VARIABLES
  frame_number,
  td,          \* of each TD: its layout, starting frame, condition codes
  queue, done, \* the TDs of the endpoint, head first; the done queue, last first
  unserved,    \* frames since the list was served
  age,         \* history: of a TD that waits, frames since its first
  sent         \* of each TD, its packets: the frame, when it went, the bytes
               \* copied and what the status word of the frame says

vars == <<frame_number, td, queue, done, unserved, age, sent>>

NotAccessed == 14
NoError == 0
DataOverrun == 8
Fresh(l, sf) == [layout |-> l, sf |-> sf, cc |-> NotAccessed]

Init ==
  /\ frame_number = Wrap - 1
  /\ queue = <<>> /\ done = <<>> /\ unserved = 0
  /\ td = [t \in Tds |-> <<>>] /\ age = [t \in Tds |-> 0] /\ sent = [t \in Tds |-> <<>>]

-----------------------------------------------------------------------------
(* Where the bytes of a frame are.  An offset has a bit that selects the   *)
(* page of be, and below it the place in the page.                         *)

FrameCount(l) == Len(l.offset) - 1
Start(l, r) == l.offset[r + 1]
Page(a) == a - (a % PageSize)
InPages(l, offset) ==
  (IF (offset \div PageSize) % 2 = 0 THEN Page(l.bp) ELSE Page(l.be)) + (offset % PageSize)
StartAddr(l, r) == InPages(l, Start(l, r))
\* Mutant of EndAddr: the byte after the last.
EndAddrAfter(l, r) == IF r < FrameCount(l) THEN InPages(l, Start(l, r + 1)) ELSE l.be
EndAddr(l, r) == IF r < FrameCount(l) THEN InPages(l, Start(l, r + 1) - 1) ELSE l.be
PacketLen(l, r) ==
  LET s == StartAddr(l, r)  e == EndAddr(l, r)
  IN IF Page(s) # Page(e) THEN (e % PageSize) + PageSize + 1 - (s % PageSize) ELSE e - s + 1
BadOffsets(l, r) ==
  \/ r < FrameCount(l) /\ Start(l, r) > Start(l, r + 1)
  \/ StartAddr(l, r) > EndAddr(l, r)

\* ohci_copy_iso_td: to the end of the page, then from the begin of the other.
Copied(l, r, len) ==
  LET s == StartAddr(l, r)
      left == PageSize - (s % PageSize)
  IN [i \in 1..len |-> IF i <= left THEN s + i - 1 ELSE Page(EndAddr(l, r)) + i - left - 1]

-----------------------------------------------------------------------------
(* ohci_service_iso_td, on the state of the endpoint.                      *)

State == [td |-> td, queue |-> queue, done |-> done, sent |-> sent]

\* USUB: the difference as a signed number.
Relative(sf) ==
  LET d == (frame_number - sf) % Wrap IN IF 2 * d >= Wrap THEN d - Wrap ELSE d

Retire(s, t, cc) == [s EXCEPT !.td[t].cc = cc, !.queue = Tail(@), !.done = <<t>> \o @]

\* What the frame's status word becomes, given what the device did: a number
\* of bytes, or an error.
DataUnderrun == 9
ErrorCode == [NODEV |-> 5, NAK |-> 4, STALL |-> 4, BABBLE |-> 7]
Status(ret, len) ==
  CASE ret.code # "ok" -> ErrorCode[ret.code]
    [] ret.n > len -> DataOverrun
    [] ret.n < len /\ Dir # "in" -> DataUnderrun
    [] OTHER -> NoError

\* The bytes that are copied: an OUT's before the packet, an IN's after it,
\* when it is good.
CopiedBytes(ret, len) ==
  IF Dir # "in" THEN len ELSE IF Status(ret, len) = NoError THEN ret.n ELSE 0

\* The packet of this frame.  On the last one the TD is retired.
Packet(s, t, r, ret) ==
  LET len == PacketLen(s.td[t].layout, r)
  IN [s EXCEPT !.sent[t] = Append(@, [r |-> r, at |-> age[t], n |-> CopiedBytes(ret, len),
                                      cc |-> Status(ret, len)])]
Transfer(s, t, r, ret) ==
  IF r = FrameCount(s.td[t].layout) THEN Retire(Packet(s, t, r, ret), t, NoError)
  ELSE Packet(s, t, r, ret)

\* Expired TDs are retired, one after the other; the first that is not ends
\* the endpoint's turn.  One that has the code of an expired TD already ends it
\* as well: "avoid infinite loop".
Expired(s, t) == LET r == Relative(s.td[t].sf) IN r >= 0 /\ r > FrameCount(s.td[t].layout)
Skip(s) ==
  LET one(acc, t) ==
        IF acc.queue # <<>> /\ Head(acc.queue) = t /\ Expired(acc, t) /\ acc.td[t].cc # DataOverrun
        THEN Retire(acc, t, DataOverrun) ELSE acc
  IN FoldLeft(one, s, s.queue)
Ready(s) ==
  /\ s.queue # <<>>
  /\ LET t == Head(s.queue)  r == Relative(s.td[t].sf)
     IN /\ r >= 0 /\ ~Expired(s, t) /\ ~BadOffsets(s.td[t].layout, r)

Become(s) == td' = s.td /\ queue' = s.queue /\ done' = s.done /\ sent' = s.sent
\* What a device may answer: all, less (of an IN), or an error; or there is
\* none, and nothing happens.
Answers(len) ==
  {[code |-> "ok", n |-> len], [code |-> "STALL", n |-> 0]}
  \cup (IF len > 1 THEN {[code |-> "ok", n |-> len - 1]} ELSE {})

\* age is counted up to Wrap.
Older == [t \in Tds |-> IF t \notin ToSet(queue') THEN 0
                          ELSE IF age[t] < Wrap THEN age[t] + 1 ELSE Wrap]
NextFrame == frame_number' = (frame_number + 1) % Wrap /\ age' = Older

\* ohci_frame_boundary: the periodic list, then the next frame.
Frame ==
  /\ unserved' = 0
  /\ LET s == Skip(State) IN
     IF Ready(s)
     THEN LET t == Head(s.queue)  r == Relative(s.td[t].sf)
          IN \/ Become(s)
             \/ \E ret \in Answers(PacketLen(s.td[t].layout, r)) : Become(Transfer(s, t, r, ret))
     ELSE Become(s)
  /\ NextFrame
\* A frame while the periodic list is disabled.
FrameUnserved ==
  /\ unserved < MaxUnserved /\ unserved' = unserved + 1
  /\ UNCHANGED <<td, queue, done, sent>> /\ NextFrame

\* The driver gives a TD, for frames that come or have just gone; and takes
\* back the done queue.
Queue(t, l, ahead) ==
  /\ td[t] = <<>> /\ td' = [td EXCEPT ![t] = Fresh(l, (frame_number + ahead) % Wrap)]
  /\ age' = [age EXCEPT ![t] = 0 - ahead] /\ queue' = Append(queue, t)
  /\ UNCHANGED <<frame_number, done, unserved, sent>>
Collect ==
  /\ done # <<>> /\ done' = <<>>
  /\ td' = [t \in Tds |-> IF t \in ToSet(done) THEN <<>> ELSE td[t]]
  /\ sent' = [t \in Tds |-> IF t \in ToSet(done) THEN <<>> ELSE sent[t]]
  /\ UNCHANGED <<frame_number, queue, unserved, age>>

Next == Frame \/ FrameUnserved \/ Collect
        \/ (\E t \in Tds, l \in Layouts, ahead \in (0 - Ahead)..Ahead : Queue(t, l, ahead))
Spec == Init /\ [][Next]_vars
\* Frames come, and the list is served now and then.
FairSpec == Spec /\ WF_vars(Frame)

-----------------------------------------------------------------------------
(* Properties.                                                             *)

\* Type invariant.
TypeOK ==
  /\ frame_number \in 0 .. Wrap - 1 /\ unserved \in 0..MaxUnserved
  /\ \A t \in Tds : t \in ToSet(queue) \cup ToSet(done) <=> td[t] # <<>>
  /\ IsInjective(done \o queue)

\* A packet goes in its own frame: neither before the TD's first, nor for a
\* frame that has passed, nor twice.
InItsFrame ==
  \A t \in Tds : \A i \in 1..Len(sent[t]) :
    /\ sent[t][i].r = sent[t][i].at
    /\ \A j \in 1..Len(sent[t]) : sent[t][i].r = sent[t][j].r => i = j

\* The bytes of one TD: no byte outside of its two pages, before the first
\* offset or after be, and none in two frames.
Inside(l, a) ==
  \/ Page(a) = Page(l.bp) /\ Page(l.bp) # Page(l.be) /\ a >= l.bp + (l.offset[1] % PageSize)
  \/ Page(a) = Page(l.be) /\ a <= l.be
Bytes(t, i) == Copied(td[t].layout, sent[t][i].r, sent[t][i].n)
BytesInTd ==
  \A t \in Tds : \A i \in 1..Len(sent[t]) :
    /\ \A k \in DOMAIN Bytes(t, i) : Inside(td[t].layout, Bytes(t, i)[k])
    /\ \A j \in 1 .. i - 1 : ToSet(Bytes(t, i)) \cap ToSet(Bytes(t, j)) = {}

\* A TD that is done without an error had its last frame's packet, one that
\* expired had not.
DoneMeansSent ==
  \A t \in ToSet(done) :
    td[t].cc = NoError <=>
      \E i \in 1..Len(sent[t]) : sent[t][i].r = FrameCount(td[t].layout)

\* Every TD comes back, also one that was queued too late or whose device is
\* gone.
ComesBack == \A t \in Tds : (td[t] # <<>>) ~> (t \in ToSet(done))
=============================================================================
