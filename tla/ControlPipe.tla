------------------------------ MODULE ControlPipe ------------------------------
(***************************************************************************)
(* Endpoint 0 of a device, qemu-usb/core.cpp: the setup, data and status   *)
(* stages of do_token_setup, do_token_in and do_token_out, with a driver   *)
(* that may do anything, also go on after a SETUP that was refused.  Such a *)
(* SETUP has replaced the request and its length already; a token that then *)
(* would move bytes from or to where data_buf has ended is the last step   *)
(* that is followed.                                                       *)
(*                                                                         *)
(* A byte is its transfer's number and its place in the data stage.  No    *)
(* device of this program defers a control packet, so SETUP_STATE_SETUP    *)
(* and SETUP_STATE_PARAM are not reached.                                  *)
(***************************************************************************)
EXTENDS Naturals, Sequences

CONSTANTS
  Requests,     \* bmRequestType's direction and wLength of what the driver sends
  AnswerSizes,  \* bytes a device answers a request with
  BufSize,      \* sizeof(data_buf)
  Sizes,        \* sizes of the driver's packets; 0 is one as well
  MaxSetups     \* bound: transfers begun

PipeConstants ==
  /\ Requests \subseteq [dir : {"in", "out"}, len : Nat] /\ Requests # {}
  /\ AnswerSizes \subseteq 0 .. BufSize
  /\ BufSize \in Nat /\ MaxSetups \in Nat
  /\ Sizes \subseteq Nat \ {0} /\ Sizes # {}

VARIABLES
  setup_state,  \* "IDLE", "DATA" or "ACK"
  setup_buf,    \* the last request
  setup_len, setup_index,
  data_buf,     \* <<0, 0>> where nothing has been written yet
  no,           \* SETUP tokens so far
  turn,         \* the stage the driver is in, "lost" once it has left the protocol
  got,          \* bytes the driver has read of this transfer, in order
  sent,         \* bytes it has written
  executed,     \* history: requests executed, with what was in data_buf for them
  accepted,     \* history: whether the last SETUP was
  refused,      \* history: who is to blame for the last STALL
  beyond        \* history: a token went past the end of data_buf

device == <<setup_state, setup_buf, setup_len, setup_index, data_buf>>
vars == <<device, no, turn, got, sent, executed, accepted, refused, beyond>>

Init ==
  /\ setup_state = "IDLE" /\ setup_buf \in Requests
  /\ setup_len = 0 /\ setup_index = 0
  /\ data_buf = [i \in 1 .. BufSize |-> <<0, 0>>]
  /\ no = 0 /\ turn = "setup" /\ got = <<>> /\ sent = 0
  /\ executed = <<>> /\ accepted = FALSE /\ refused = "nobody" /\ beyond = FALSE

Data(n, from, len) == [i \in 1 .. len |-> <<n, from + i>>]
Smaller(a, b) == IF a < b THEN a ELSE b
\* s written over t from byte i on
Over(s, i, t) == SubSeq(t, 1, i) \o s \o SubSeq(t, i + Len(s) + 1, Len(t))
Run(data) == executed' = Append(executed, [no |-> no', data |-> data])

Read == setup_buf.dir = "in"

-----------------------------------------------------------------------------
(* do_token_setup.                                                         *)

Setup(r) ==
  /\ no < MaxSetups /\ no' = no + 1
  /\ got' = <<>> /\ sent' = 0
  /\ setup_buf' = r /\ setup_index' = 0

TooLong(r) == r.len > BufSize

FirstTurn(r) == IF r.len > 0 THEN "data" ELSE "status"

\* The request does not fit data_buf, or a device refuses to be read: only the
\* request, its length and the index have been replaced, and the stage that the
\* transfer before was in is left as it was.
SetupRefused(r) ==
  /\ Setup(r) /\ (TooLong(r) \/ r.dir = "in") /\ accepted' = FALSE
  /\ setup_len' = r.len /\ turn' = "setup" /\ refused' = "device"
  /\ UNCHANGED <<setup_state, data_buf, executed>>

AnswerLen(n, r) == Smaller(n, r.len)

\* The device executes the request and puts n bytes of answer into data_buf.
SetupRead(r, n) ==
  /\ Setup(r) /\ r.dir = "in" /\ ~TooLong(r) /\ accepted' = TRUE
  /\ data_buf' = Over(Data(no', 0, n), 0, data_buf)
  /\ setup_len' = AnswerLen(n, r) /\ setup_state' = "DATA"
  /\ Run(<<>>) /\ turn' = FirstTurn(r) /\ UNCHANGED refused

SetupWrite(r) ==
  /\ Setup(r) /\ r.dir = "out" /\ ~TooLong(r) /\ accepted' = TRUE
  /\ setup_len' = r.len
  /\ setup_state' = IF r.len = 0 THEN "ACK" ELSE "DATA"
  /\ turn' = FirstTurn(r)
  /\ UNCHANGED <<data_buf, executed, refused>>

-----------------------------------------------------------------------------
(* What the driver makes of its IN and OUT tokens: external to the program. *)

\* The token that the stage of the transfer calls for.
InTurn(pid, n) ==
  \/ turn = "data" /\ pid = setup_buf.dir
     /\ n \in 1 .. setup_buf.len - (IF Read THEN Len(got) ELSE sent)
  \/ turn = "status" /\ n = 0
     /\ pid = (IF Read /\ setup_buf.len > 0 THEN "out" ELSE "in")

\* A token that is taken, with len bytes.  A data stage ends with all that was
\* asked for or, when it is read, with less than a packet.
Taken(pid, n, len) ==
  /\ turn' = IF ~InTurn(pid, n) THEN "lost"
             ELSE IF turn = "status" THEN "done"
             ELSE IF len < n \/ Len(got') + sent' = setup_buf.len THEN "status" ELSE "data"
  /\ UNCHANGED <<no, accepted, refused>>

\* A token that is refused by the pipe: the driver has to start over.
Refused(pid, n) ==
  /\ turn' = "setup" /\ refused' = IF InTurn(pid, n) THEN "pipe" ELSE "driver"
  /\ UNCHANGED <<no, got, sent, executed, accepted>>

-----------------------------------------------------------------------------
(* do_token_in and do_token_out.                                           *)

Chunk(n) == Smaller(n, setup_len - setup_index)

\* The stage is that of an accepted request, or one that a refused SETUP left.
Inside(to) == to <= BufSize

StageAfter(index) == IF index >= setup_len THEN "ACK" ELSE "DATA"

MoveOn(n) ==
  /\ setup_index' = setup_index + Chunk(n)
  /\ setup_state' = StageAfter(setup_index')
  /\ UNCHANGED <<setup_buf, setup_len>>

DataIn(n) ==
  /\ Read /\ setup_state = "DATA" /\ Inside(setup_index + Chunk(n))
  /\ got' = got \o SubSeq(data_buf, setup_index + 1, setup_index + Chunk(n))
  /\ MoveOn(n) /\ UNCHANGED <<data_buf, sent, executed>>
  /\ Taken("in", n, Chunk(n))

\* Mutant of Fill: every packet to the start of data_buf.
FillStart(len) == Over(Data(no, sent, len), 0, data_buf)
Fill(len) == Over(Data(no, sent, len), setup_index, data_buf)

DataOut(n) ==
  /\ ~Read /\ setup_state = "DATA" /\ Inside(setup_index + Chunk(n))
  /\ data_buf' = Fill(Chunk(n)) /\ sent' = sent + Chunk(n)
  /\ MoveOn(n) /\ UNCHANGED <<got, executed>>
  /\ Taken("out", n, Chunk(n))

\* Once everything has been moved, a further packet in the direction of the
\* data is an empty one, or is ignored.
DataAfterEnd(pid, n) ==
  /\ pid = setup_buf.dir /\ setup_state = "ACK"
  /\ UNCHANGED <<device, got, sent, executed>>
  /\ Taken(pid, n, 0)

StatusOut(n) ==
  /\ Read /\ setup_state = "ACK" /\ setup_state' = "IDLE"
  /\ UNCHANGED <<setup_buf, setup_len, setup_index, data_buf, got, sent, executed>>
  /\ Taken("out", n, 0)

\* Mutant of LeaveAck: the pipe stays where it is.
LeaveAckNever == UNCHANGED setup_state
LeaveAck == setup_state' = "IDLE"

\* The device is given a write only now, with all its data; it may refuse it.
StatusIn(n) ==
  /\ ~Read /\ setup_state = "ACK" /\ Inside(setup_len) /\ LeaveAck
  /\ UNCHANGED <<setup_buf, setup_len, setup_index, data_buf, got, sent>>
  /\ \/ no' = no /\ Run(SubSeq(data_buf, 1, setup_len)) /\ Taken("in", n, 0)
     \/ turn' = "setup" /\ refused' = "device" /\ UNCHANGED <<no, executed, accepted>>

\* A status stage before the data has ended: the pipe gives the transfer up.
EarlyStatus(pid, n) ==
  /\ setup_state = "DATA" /\ pid # setup_buf.dir
  /\ setup_state' = "IDLE" /\ UNCHANGED <<setup_buf, setup_len, setup_index, data_buf>>
  /\ Refused(pid, n)

IdleToken(pid, n) ==
  /\ setup_state = "IDLE"
  /\ UNCHANGED device /\ Refused(pid, n)

\* Neither copy asks where data_buf ends, only how long the request is.
PastEnd(pid, n) ==
  /\ \/ setup_state = "DATA" /\ pid = setup_buf.dir /\ ~Inside(setup_index + Chunk(n))
     \/ setup_state = "ACK" /\ pid = "in" /\ ~Read /\ ~Inside(setup_len)
  /\ beyond' = TRUE
  /\ UNCHANGED <<device, no, turn, got, sent, executed, accepted, refused>>

\* usb_device_reset leaves the pipe as it is; the driver starts over.
DeviceReset ==
  /\ turn' = "setup"
  /\ UNCHANGED <<device, no, got, sent, executed, accepted, refused>>

-----------------------------------------------------------------------------
InToken(n) == DataIn(n) \/ DataAfterEnd("in", n) \/ StatusIn(n) \/ EarlyStatus("in", n)
              \/ IdleToken("in", n)
OutToken(n) == DataOut(n) \/ DataAfterEnd("out", n) \/ StatusOut(n) \/ EarlyStatus("out", n)
               \/ IdleToken("out", n)

Follows ==
  \/ \E r \in Requests :
       \/ SetupRefused(r) \/ SetupWrite(r)
       \/ \E n \in AnswerSizes : SetupRead(r, n)
  \/ \E n \in Sizes \cup {0} : InToken(n) \/ OutToken(n)
  \/ DeviceReset

Next ==
  \/ ~beyond /\ Follows /\ UNCHANGED beyond
  \/ ~beyond /\ \E n \in Sizes \cup {0}, pid \in {"in", "out"} : PastEnd(pid, n)
  \/ beyond /\ UNCHANGED vars

Spec == Init /\ [][Next]_vars

-----------------------------------------------------------------------------
(* Properties.                                                             *)

Bytes == (0 .. MaxSetups) \X Nat

TypeOK ==
  /\ setup_state \in {"IDLE", "DATA", "ACK"} /\ setup_buf \in Requests
  /\ setup_len \in Nat /\ setup_index \in Nat
  /\ data_buf \in Seq(Bytes) /\ Len(data_buf) = BufSize
  /\ no \in 0 .. MaxSetups
  /\ turn \in {"setup", "data", "status", "done", "lost"}
  /\ got \in Seq(Bytes) /\ sent \in Nat
  /\ executed \in Seq([no : 1 .. MaxSetups, data : Seq(Bytes)])
  /\ accepted \in BOOLEAN /\ beyond \in BOOLEAN
  /\ refused \in {"nobody", "device", "driver", "pipe"}

\* What the driver reads after a SETUP that was accepted is the answer to that
\* request, from the start and in order, after any number of requests that were
\* given up or refused and of tokens that followed them, whose data is still in
\* data_buf (do_token_in, core.cpp:200).  After one that was refused in the data
\* stage of another it may be what is left there.
AnswersThisRequest == accepted => got = Data(no, 0, Len(got))

\* A request that writes is executed with all its data and nothing of any
\* other, none that was refused is, and no request is executed twice: not when
\* the driver repeats its tokens, ends a data stage early, goes on after a
\* refusal or starts over (do_token_in, core.cpp:185).
WholeAndOnce ==
  \A i \in 1 .. Len(executed) :
    /\ executed[i].data = Data(executed[i].no, 0, Len(executed[i].data))
    /\ (executed[i].no = no /\ ~Read) => Len(executed[i].data) = setup_buf.len
    /\ executed[i].no = no => accepted
    /\ i > 1 => executed[i].no > executed[i - 1].no

\* A driver that keeps to the protocol is refused by the device alone: answers
\* of any length, also those that end on a full packet, and reads of nothing
\* take the pipe to the stage the driver expects.
ServedInTurn == refused # "pipe"

\* The data stage of an accepted request stays inside data_buf; only a driver
\* that goes on after a SETUP refused for its length can leave it (core.cpp:160).
StaysInBuffer ==
  /\ accepted /\ setup_state # "IDLE" => setup_index <= setup_len /\ setup_len <= BufSize
  /\ beyond => ~accepted /\ TooLong(setup_buf)

\* The pipe implements ControlTransfer, as far as requests that are accepted go.
Transfer == INSTANCE ControlTransfer WITH
  request <- setup_buf,
  moved <- IF ~accepted THEN <<>> ELSE IF Read THEN got ELSE SubSeq(data_buf, 1, setup_index),
  executed <- [i \in 1 .. Len(executed) |-> executed[i].no]
ImplementsTransfer == Transfer!Spec
===============================================================================
