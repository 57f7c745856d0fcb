------------------------------ MODULE CoreProofs ------------------------------
(***************************************************************************)
(* What is proved of the parts of MCCore, for every value of the constants. *)
(* the control pipe answers the request at hand, the one packet of the     *)
(* controller is agreed on, the driver hears of every change of a port and *)
(* of every interrupt, and pictures are whole; pipe and cameras implement  *)
(* their abstract specifications.  Each part has an inductive invariant of *)
(* its own; only the part that runs takes steps, the others stay as they   *)
(* were.                                                                   *)
(***************************************************************************)
EXTENDS MCCore, Integers, SequenceTheorems, TLAPS
-----------------------------------------------------------------------------
(* The control pipe.                                                       *)

\* While a transfer is under way the pipe's place in it is the driver's: what
\* is in data_buf up to there is of this transfer.
PipeActive == accepted /\ setup_state # "IDLE"
PipeReads ==
  (PipeActive /\ Pipe!Read) =>
    /\ pipe_got = Pipe!Data(no, 0, setup_index) /\ pipe_sent = 0
    /\ setup_len <= setup_buf.len
    /\ \A i \in 1 .. setup_len : data_buf[i] = <<no, i>>
PipeWrites ==
  (PipeActive /\ ~Pipe!Read) =>
    /\ pipe_got = <<>> /\ pipe_sent = setup_index /\ setup_len = setup_buf.len
    /\ setup_state = "DATA" => setup_index < setup_len
    /\ \A i \in 1 .. setup_index : data_buf[i] = <<no, i>>
    /\ \A i \in 1 .. Len(executed) : executed[i].no < no
PipePlace ==
  PipeActive => /\ setup_index <= setup_len /\ setup_len <= PipeBufSize /\ no > 0
                /\ setup_state = "ACK" => setup_index = setup_len

\* The stage that a refused SETUP left open counts by the refused request; one
\* that would write was refused for its length.
PipeLeft ==
  ~accepted =>
    /\ turn \in {"setup", "lost"}
    /\ setup_state # "IDLE" => /\ setup_index <= setup_len /\ setup_len = setup_buf.len
                               /\ Pipe!Read \/ setup_len > PipeBufSize

\* A driver that keeps to the protocol is in the stage that the pipe is in.
PipeInStep ==
  /\ turn = "data" => setup_state \in {"DATA", "ACK"}
  /\ turn = "status" => \/ setup_state = "ACK"
                        \/ setup_state = "DATA" /\ Pipe!Read /\ setup_buf.len = 0
\* Requests are executed in the order of their numbers.
PipeNumbers == \A i \in 1 .. Len(executed) : executed[i].no <= no

LEMMA PipeData ==
  ASSUME NEW n \in 0 .. PipeMaxSetups, NEW from \in Nat, NEW len \in Nat
  PROVE  /\ Pipe!Data(n, from, len) \in Seq(Pipe!Bytes) /\ Len(Pipe!Data(n, from, len)) = len
         /\ \A i \in 1 .. len : Pipe!Data(n, from, len)[i] = <<n, from + i>>
BY DEF Pipe!Data, Pipe!Bytes

\* What Over writes is found there, and what is before it is as it was.
LEMMA PipeOver ==
  ASSUME NEW s \in Seq(Pipe!Bytes), NEW t \in Seq(Pipe!Bytes), NEW i \in Nat, i + Len(s) <= Len(t)
  PROVE  /\ Pipe!Over(s, i, t) \in Seq(Pipe!Bytes) /\ Len(Pipe!Over(s, i, t)) = Len(t)
         /\ \A j \in 1 .. i : Pipe!Over(s, i, t)[j] = t[j]
         /\ \A j \in 1 .. Len(s) : Pipe!Over(s, i, t)[i + j] = s[j]
<1> DEFINE a == SubSeq(t, 1, i)
           c == SubSeq(t, i + Len(s) + 1, Len(t))
<1>1. a \in Seq(Pipe!Bytes) /\ Len(a) = i /\ \A j \in 1 .. i : a[j] = t[j]
  OBVIOUS
<1>2. c \in Seq(Pipe!Bytes) /\ Len(c) = Len(t) - (i + Len(s))
  OBVIOUS
<1> HIDE DEF a, c
<1>3. /\ a \o s \in Seq(Pipe!Bytes) /\ Len(a \o s) = i + Len(s)
      /\ \A j \in 1 .. i : (a \o s)[j] = t[j]
      /\ \A j \in 1 .. Len(s) : (a \o s)[i + j] = s[j]
  BY <1>1
<1>4. /\ (a \o s) \o c \in Seq(Pipe!Bytes) /\ Len((a \o s) \o c) = Len(t)
      /\ \A j \in 1 .. i + Len(s) : ((a \o s) \o c)[j] = (a \o s)[j]
  BY <1>2, <1>3
<1>5. Pipe!Over(s, i, t) = (a \o s) \o c
  BY DEF Pipe!Over, a, c
<1> QED BY <1>3, <1>4, <1>5

\* The history of executions.
PipeRuns == [no : 1 .. PipeMaxSetups, data : Seq(Pipe!Bytes)]
PipeHistory == executed \in Seq(PipeRuns) /\ PipeNumbers /\ Pipe!WholeAndOnce

\* What else TypeOK says.
PipeTypes ==
  /\ setup_state \in {"IDLE", "DATA", "ACK"} /\ setup_buf \in PipeRequests
  /\ setup_len \in Nat /\ setup_index \in Nat
  /\ data_buf \in Seq(Pipe!Bytes) /\ Len(data_buf) = PipeBufSize
  /\ no \in 0 .. PipeMaxSetups
  /\ turn \in {"setup", "data", "status", "done", "lost"}
  /\ pipe_got \in Seq(Pipe!Bytes) /\ pipe_sent \in Nat
  /\ refused \in {"nobody", "device", "driver", "pipe"} /\ accepted \in BOOLEAN

\* The inductive invariant of the pipe.
PipeStage ==
  /\ PipeTypes /\ PipePlace /\ PipeReads /\ PipeWrites /\ PipeLeft /\ PipeInStep
  /\ Pipe!AnswersThisRequest /\ Pipe!ServedInTurn
PipeServes == PipeStage /\ PipeHistory
PipeInside == beyond \in BOOLEAN /\ (beyond => ~accepted /\ Pipe!TooLong(setup_buf))
PipeIInv == PipeServes /\ PipeInside

LEMMA PipeRunTypes ==
  ASSUME executed \in Seq(PipeRuns)
  PROVE  \A i \in 1 .. Len(executed) :
           executed[i].no \in 1 .. PipeMaxSetups /\ executed[i].data \in Seq(Pipe!Bytes)
<1>1. \A x \in PipeRuns : x.no \in 1 .. PipeMaxSetups /\ x.data \in Seq(Pipe!Bytes)
  BY DEF PipeRuns
<1>2. \A i \in 1 .. Len(executed) : executed[i] \in PipeRuns
  OBVIOUS
<1> QED BY <1>1, <1>2

LEMMA PipeHistoryKept ==
  ASSUME PipeHistory, no \in Nat, UNCHANGED executed,
         \/ UNCHANGED <<no, setup_buf, accepted>>
         \/ no' = no + 1
  PROVE  PipeHistory'
<1>1. \A i \in 1 .. Len(executed) : executed[i].no \in Nat
  BY PipeRunTypes DEF PipeHistory
<1>2. PipeNumbers'
  BY <1>1 DEF PipeHistory, PipeNumbers
<1>3. Pipe!WholeAndOnce'
  <2>1. CASE UNCHANGED <<no, setup_buf, accepted>>
    BY <2>1 DEF PipeHistory, Pipe!WholeAndOnce, Pipe!Read
  <2>2. CASE no' = no + 1
    <3>1. \A i \in 1 .. Len(executed) : executed[i].no # no'
      BY <1>1, <2>2 DEF PipeHistory, PipeNumbers
    <3> QED BY <3>1 DEF PipeHistory, Pipe!WholeAndOnce
  <2> QED BY <2>1, <2>2
<1> QED BY <1>2, <1>3 DEF PipeHistory

\* An execution that is later than all before.
LEMMA PipeRunsOnce ==
  ASSUME PipeHistory, no \in Nat, no' \in 1 .. PipeMaxSetups, no <= no',
         \A i \in 1 .. Len(executed) : executed[i].no < no',
         NEW data \in Seq(Pipe!Bytes), data = Pipe!Data(no', 0, Len(data)),
         setup_buf'.dir = "in" \/ Len(data) = setup_buf'.len, accepted',
         Pipe!Run(data)
  PROVE  PipeHistory'
<1> DEFINE x == [no |-> no', data |-> data]
<1>1. x \in PipeRuns /\ x.no = no' /\ x.data = data
  BY DEF PipeRuns
<1>2. executed' = Append(executed, x)
  BY DEF Pipe!Run
<1> HIDE DEF x
<1>3. /\ executed' \in Seq(PipeRuns) /\ Len(executed') = Len(executed) + 1 /\ Len(executed) \in Nat
      /\ \A i \in 1 .. Len(executed) : executed'[i] = executed[i]
      /\ executed'[Len(executed) + 1] = x
  BY <1>1, <1>2 DEF PipeHistory
<1>4. \A i \in 1 .. Len(executed) : executed[i].no \in Nat
  BY PipeRunTypes DEF PipeHistory
<1>5. \A i \in 1 .. Len(executed') : i \in 1 .. Len(executed) \/ i = Len(executed) + 1
  BY <1>3
<1>6. PipeNumbers'
  BY <1>1, <1>3, <1>4, <1>5 DEF PipeNumbers
<1>7. Pipe!WholeAndOnce'
  <2> SUFFICES ASSUME NEW i \in 1 .. Len(executed')
               PROVE  /\ executed'[i].data = Pipe!Data(executed'[i].no, 0, Len(executed'[i].data))
                      /\ (executed'[i].no = no' /\ ~(setup_buf'.dir = "in"))
                           => Len(executed'[i].data) = setup_buf'.len
                      /\ executed'[i].no = no' => accepted'
                      /\ i > 1 => executed'[i].no > executed'[i - 1].no
    BY DEF Pipe!WholeAndOnce, Pipe!Read, Pipe!Data
  <2>1. CASE i \in 1 .. Len(executed)
    <3>1. executed'[i] = executed[i] /\ executed[i].no # no' /\ (i > 1 => executed'[i - 1] = executed[i - 1])
      BY <1>3, <1>4, <2>1
    <3> QED BY <2>1, <3>1 DEF PipeHistory, Pipe!WholeAndOnce
  <2>2. CASE i = Len(executed) + 1
    <3>1. executed'[i] = x /\ (i > 1 => i - 1 \in 1 .. Len(executed) /\ executed'[i - 1] = executed[i - 1])
      BY <1>3, <2>2
    <3>2. i > 1 => executed[i - 1].no < no' /\ executed[i - 1].no \in Nat
      BY <1>4, <3>1
    <3> QED BY <1>1, <3>1, <3>2
  <2> QED BY <1>5, <2>1, <2>2
<1> QED BY <1>3, <1>6, <1>7 DEF PipeHistory

LEMMA PipeConstantTypes ==
  /\ PipeBufSize \in Nat /\ PipeMaxSetups \in Nat
  /\ PipeAnswerSizes \subseteq 0 .. PipeBufSize
  /\ \A r \in PipeRequests : r.dir \in {"in", "out"} /\ r.len \in Nat
  /\ \A n \in PipeSizes \cup {0} : n \in Nat
BY PipeAssumption DEF Pipe!PipeConstants

\* The first b bytes of a transfer.
LEMMA PipeFirstBytes ==
  \A n \in 0 .. PipeMaxSetups : \A b \in Nat :
    /\ Pipe!Data(n, 0, b) \in Seq(Pipe!Bytes) /\ Len(Pipe!Data(n, 0, b)) = b
    /\ \A i \in 1 .. b : Pipe!Data(n, 0, b)[i] = <<n, i>>
<1> SUFFICES ASSUME NEW n \in 0 .. PipeMaxSetups, NEW b \in Nat
             PROVE  /\ Pipe!Data(n, 0, b) \in Seq(Pipe!Bytes) /\ Len(Pipe!Data(n, 0, b)) = b
                    /\ \A i \in 1 .. b : Pipe!Data(n, 0, b)[i] = <<n, i>>
  OBVIOUS
<1> QED BY SMTT(60) DEF Pipe!Data, Pipe!Bytes

\* A prefix of what was written from the start on.
LEMMA PipePrefix ==
  ASSUME NEW d \in Seq(Pipe!Bytes), NEW n \in 0 .. PipeMaxSetups, NEW b \in Nat,
         b <= Len(d), \A i \in 1 .. b : d[i] = <<n, i>>
  PROVE  SubSeq(d, 1, b) = Pipe!Data(n, 0, b)
<1>1. /\ SubSeq(d, 1, b) \in Seq(Pipe!Bytes) /\ Len(SubSeq(d, 1, b)) = b
      /\ \A i \in 1 .. b : SubSeq(d, 1, b)[i] = d[i]
  OBVIOUS
<1>2. /\ Pipe!Data(n, 0, b) \in Seq(Pipe!Bytes) /\ Len(Pipe!Data(n, 0, b)) = b
      /\ \A i \in 1 .. b : Pipe!Data(n, 0, b)[i] = <<n, i>>
  BY PipeFirstBytes
<1> QED BY <1>1, <1>2, SeqEqual

LEMMA PipeLonger ==
  ASSUME NEW d \in Seq(Pipe!Bytes), NEW n \in 0 .. PipeMaxSetups, NEW a \in Nat, NEW b \in Nat,
         a <= b, b <= Len(d), \A i \in 1 .. b : d[i] = <<n, i>>
  PROVE  Pipe!Data(n, 0, a) \o SubSeq(d, a + 1, b) = Pipe!Data(n, 0, b)
<1>2. /\ Pipe!Data(n, 0, b) \in Seq(Pipe!Bytes) /\ Len(Pipe!Data(n, 0, b)) = b
      /\ \A i \in 1 .. b : Pipe!Data(n, 0, b)[i] = <<n, i>>
  BY PipeFirstBytes
<1>4. /\ SubSeq(d, a + 1, b) \in Seq(Pipe!Bytes) /\ Len(SubSeq(d, a + 1, b)) = b - a
      /\ \A i \in 1 .. b - a : SubSeq(d, a + 1, b)[i] = d[a + i]
  OBVIOUS
<1>5. /\ Pipe!Data(n, 0, a) \in Seq(Pipe!Bytes) /\ Len(Pipe!Data(n, 0, a)) = a
      /\ \A i \in 1 .. a : Pipe!Data(n, 0, a)[i] = <<n, i>>
  BY PipeFirstBytes
<1> DEFINE t == SubSeq(d, a + 1, b)
           u == Pipe!Data(n, 0, a)
           v == u \o t
<1>6. t \in Seq(Pipe!Bytes) /\ Len(t) = b - a /\ \A i \in 1 .. b - a : t[i] = <<n, a + i>>
  BY <1>4
<1>7. u \in Seq(Pipe!Bytes) /\ Len(u) = a /\ \A i \in 1 .. a : u[i] = <<n, i>>
  BY <1>5
<1> HIDE DEF t, u
<1>8. /\ v \in Seq(Pipe!Bytes) /\ Len(v) = b
      /\ \A i \in 1 .. b : v[i] = IF i <= a THEN u[i] ELSE t[i - a]
  BY <1>6, <1>7
<1> HIDE DEF v
<1>9. \A i \in 1 .. b : v[i] = <<n, i>>
  <2> SUFFICES ASSUME NEW i \in 1 .. b PROVE v[i] = <<n, i>>
    OBVIOUS
  <2>1. CASE i <= a
    BY <1>7, <1>8, <2>1
  <2>2. CASE ~(i <= a)
    <3>1. i - a \in 1 .. b - a /\ a + (i - a) = i
      BY <2>2
    <3> QED BY <1>6, <1>8, <2>2, <3>1
  <2> QED BY <2>1, <2>2
<1>10. v = Pipe!Data(n, 0, b)
  BY <1>2, <1>8, <1>9, SeqEqual
<1> QED BY <1>10 DEF v, t, u

LEMMA PipeSetups ==
  ASSUME PipeServes, NEW r \in PipeRequests,
         \/ Pipe!SetupRefused(r) \/ Pipe!SetupWrite(r)
         \/ \E n \in PipeAnswerSizes : Pipe!SetupRead(r, n)
  PROVE  PipeServes'
<1>1. /\ no \in Nat /\ no' = no + 1 /\ no' \in 1 .. PipeMaxSetups
      /\ pipe_got' = <<>> /\ pipe_sent' = 0 /\ setup_buf' = r /\ setup_index' = 0
      /\ r.dir \in {"in", "out"} /\ r.len \in Nat /\ PipeBufSize \in Nat
  BY PipeConstantTypes DEF PipeServes, PipeStage, PipeTypes, Pipe!SetupRefused, Pipe!SetupWrite,
     Pipe!SetupRead, Pipe!Setup
<1>2. Pipe!AnswersThisRequest'
  <2>1. Pipe!Data(no', 0, 0) = <<>>
    BY DEF Pipe!Data
  <2> QED BY <1>1, <2>1 DEF Pipe!AnswersThisRequest, Pipe!Data
<1>3. data_buf \in Seq(Pipe!Bytes) /\ Len(data_buf) = PipeBufSize /\ <<>> \in Seq(Pipe!Bytes)
  BY DEF PipeServes, PipeStage, PipeTypes
<1>4. \A i \in 1 .. Len(executed) : executed[i].no < no'
  BY <1>1, PipeRunTypes DEF PipeServes, PipeHistory, PipeNumbers
<1>5. CASE Pipe!SetupRefused(r)
  <2>1. /\ setup_len' = r.len /\ turn' = "setup" /\ refused' = "device" /\ accepted' = FALSE
        /\ UNCHANGED <<setup_state, data_buf, executed>> /\ (r.dir = "in" \/ r.len > PipeBufSize)
    BY <1>5 DEF Pipe!SetupRefused, Pipe!TooLong
  <2>2. PipeHistory'
    BY <1>1, <2>1, PipeHistoryKept DEF PipeServes
  <2>6. accepted' \in BOOLEAN
    BY <2>1
  <2>7. /\ setup_len' = r.len /\ turn' = "setup" /\ refused' = "device"
        /\ UNCHANGED <<setup_state, data_buf>>
    BY <2>1
  <2>3. PipeTypes' /\ Pipe!ServedInTurn'
    BY <1>1, <1>3, <2>6, <2>7 DEF PipeServes, PipeStage, PipeTypes, Pipe!ServedInTurn
  <2>4. PipePlace' /\ PipeReads' /\ PipeWrites' /\ PipeInStep'
    BY <2>1 DEF PipePlace, PipeReads, PipeWrites, PipeInStep, PipeActive
  <2>5. PipeLeft'
    BY <1>1, <2>1 DEF PipeLeft, Pipe!Read
  <2> QED BY <1>2, <2>2, <2>3, <2>4, <2>5 DEF PipeServes, PipeStage
<1>6. CASE Pipe!SetupWrite(r)
  <2>1. /\ setup_len' = r.len /\ turn' = (IF r.len > 0 THEN "data" ELSE "status")
        /\ setup_state' = (IF r.len = 0 THEN "ACK" ELSE "DATA")
        /\ UNCHANGED <<data_buf, executed, refused>> /\ r.dir = "out" /\ ~(r.len > PipeBufSize)
        /\ accepted' = TRUE
    BY <1>6 DEF Pipe!SetupWrite, Pipe!TooLong, Pipe!FirstTurn
  <2>2. PipeHistory'
    BY <1>1, <2>1, PipeHistoryKept DEF PipeServes
  <2>3. PipeTypes' /\ Pipe!ServedInTurn'
    BY <1>1, <1>3, <2>1 DEF PipeServes, PipeStage, PipeTypes, Pipe!ServedInTurn
  <2>4. PipePlace' /\ PipeInStep' /\ PipeLeft'
    BY <1>1, <2>1 DEF PipePlace, PipeInStep, PipeActive, PipeLeft
  <2>5. PipeReads' /\ PipeWrites'
    BY <1>1, <1>4, <2>1 DEF PipeReads, PipeWrites, Pipe!Read
  <2> QED BY <1>2, <2>2, <2>3, <2>4, <2>5 DEF PipeServes, PipeStage
<1>7. ASSUME NEW n \in PipeAnswerSizes, Pipe!SetupRead(r, n) PROVE PipeServes'
  <2>1. /\ data_buf' = Pipe!Over(Pipe!Data(no', 0, n), 0, data_buf)
        /\ setup_len' = (IF n < r.len THEN n ELSE r.len) /\ setup_state' = "DATA"
        /\ turn' = (IF r.len > 0 THEN "data" ELSE "status") /\ UNCHANGED refused
        /\ Pipe!Run(<<>>) /\ r.dir = "in" /\ accepted' = TRUE
    BY <1>7 DEF Pipe!SetupRead, Pipe!FirstTurn, Pipe!AnswerLen, Pipe!Smaller
  <2>2. n \in Nat /\ n <= PipeBufSize /\ setup_len' \in Nat /\ setup_len' <= n /\ setup_len' <= r.len
    BY <1>1, <2>1, PipeConstantTypes
  <2>3. /\ data_buf' \in Seq(Pipe!Bytes) /\ Len(data_buf') = PipeBufSize
        /\ \A i \in 1 .. n : data_buf'[i] = <<no', i>>
    <3> DEFINE d == Pipe!Data(no', 0, n)
    <3>1. d \in Seq(Pipe!Bytes) /\ Len(d) = n /\ \A i \in 1 .. n : d[i] = <<no', i>>
      BY <1>1, <2>2 DEF Pipe!Data, Pipe!Bytes
    <3>2. data_buf' = Pipe!Over(d, 0, data_buf)
      BY <2>1
    <3> HIDE DEF d
    <3>3. data_buf \in Seq(Pipe!Bytes) /\ 0 \in Nat /\ 0 + Len(d) <= Len(data_buf)
      BY <1>3, <2>2, <3>1
    <3>4. /\ Pipe!Over(d, 0, data_buf) \in Seq(Pipe!Bytes)
          /\ Len(Pipe!Over(d, 0, data_buf)) = Len(data_buf)
          /\ \A j \in 1 .. Len(d) : Pipe!Over(d, 0, data_buf)[0 + j] = d[j]
      BY <3>1, <3>3, PipeOver
    <3> QED BY <1>3, <2>2, <3>1, <3>2, <3>4
  <2>4. PipeHistory'
    <3>1. <<>> = Pipe!Data(no', 0, 0) /\ Len(<<>>) = 0
      BY DEF Pipe!Data
    <3>2. <<>> \in Seq(Pipe!Bytes) /\ no <= no' /\ PipeHistory
      BY <1>1 DEF PipeServes
    <3> QED BY <1>1, <1>4, <2>1, <3>1, <3>2, PipeRunsOnce
  <2>5. PipeTypes' /\ Pipe!ServedInTurn'
    BY <1>1, <1>3, <2>1, <2>2, <2>3 DEF PipeServes, PipeStage, PipeTypes, Pipe!ServedInTurn
  <2>6. PipePlace' /\ PipeInStep' /\ PipeLeft'
    BY <1>1, <2>1, <2>2 DEF PipePlace, PipeInStep, PipeActive, Pipe!Read, PipeLeft
  <2>7. PipeReads' /\ PipeWrites'
    <3>1. \A i \in 1 .. setup_len' : data_buf'[i] = <<no', i>>
      BY <2>2, <2>3
    <3>2. pipe_got' = Pipe!Data(no', 0, setup_index')
      BY <1>1 DEF Pipe!Data
    <3> QED BY <1>1, <2>1, <2>2, <3>1, <3>2 DEF PipeReads, PipeWrites, Pipe!Read, Pipe!Data
  <2> QED BY <1>2, <2>4, <2>5, <2>6, <2>7 DEF PipeServes, PipeStage
<1> QED BY <1>5, <1>6, <1>7

\* A token that the pipe refuses or ends a transfer with: the data of the transfer
\* and its history stay, and the pipe is idle.
LEMMA PipeRests ==
  ASSUME PipeServes, UNCHANGED <<setup_buf, setup_len, setup_index, data_buf, no, pipe_got, pipe_sent, accepted>>,
         setup_state' = "IDLE", turn' \in {"setup", "done", "lost"}, turn' = "done" => accepted,
         refused' \in {"nobody", "device", "driver"}
  PROVE  PipeStage'
<1>1. PipeTypes' /\ Pipe!ServedInTurn'
  BY DEF PipeServes, PipeStage, PipeTypes, Pipe!ServedInTurn
<1>2. PipePlace' /\ PipeReads' /\ PipeWrites' /\ PipeInStep' /\ PipeLeft'
  BY DEF PipePlace, PipeReads, PipeWrites, PipeInStep, PipeActive, PipeLeft
<1>3. Pipe!AnswersThisRequest'
  BY DEF PipeServes, PipeStage, Pipe!AnswersThisRequest, Pipe!Data
<1> QED BY <1>1, <1>2, <1>3 DEF PipeStage

\* Data of an accepted request, ...
LEMMA PipeDataIn ==
  ASSUME PipeServes, NEW n \in Nat, Pipe!DataIn(n), accepted
  PROVE  PipeServes'
<1> DEFINE k == Pipe!Chunk(n)
<1>1. /\ Pipe!Read /\ setup_state = "DATA" /\ PipeActive
      /\ UNCHANGED <<setup_buf, setup_len, data_buf, pipe_sent, executed, no, accepted, refused>>
      /\ setup_index' = setup_index + k
      /\ setup_state' = (IF setup_index' >= setup_len THEN "ACK" ELSE "DATA")
      /\ pipe_got' = pipe_got \o SubSeq(data_buf, setup_index + 1, setup_index + k)
  BY DEF Pipe!DataIn, Pipe!MoveOn, Pipe!StageAfter, Pipe!Taken, PipeActive
<1>2. /\ setup_len \in Nat /\ setup_index \in Nat /\ no \in 0 .. PipeMaxSetups
      /\ setup_index <= setup_len /\ setup_len <= PipeBufSize /\ no > 0
      /\ setup_buf.len \in Nat /\ data_buf \in Seq(Pipe!Bytes) /\ Len(data_buf) = PipeBufSize
      /\ pipe_got = Pipe!Data(no, 0, setup_index) /\ pipe_sent = 0
      /\ setup_len <= setup_buf.len /\ \A i \in 1 .. setup_len : data_buf[i] = <<no, i>>
  BY <1>1, PipeConstantTypes DEF PipeServes, PipeStage, PipeTypes, PipePlace, PipeReads
<1>3. k \in Nat /\ setup_index' \in Nat /\ setup_index' <= setup_len /\ (k < n => setup_index' = setup_len)
  <2>1. setup_len \in Nat /\ setup_index \in Nat /\ setup_index <= setup_len
    BY <1>2
  <2> QED BY <1>1, <2>1 DEF Pipe!Chunk, Pipe!Smaller
<1> HIDE DEF k
<1>4. pipe_got' = Pipe!Data(no, 0, setup_index')
  <2>1. \A i \in 1 .. setup_index' : data_buf[i] = <<no, i>>
    BY <1>2, <1>3
  <2>2. PipeBufSize \in Nat /\ setup_index <= setup_index' /\ setup_index' <= Len(data_buf)
    BY <1>1, <1>2, <1>3, PipeConstantTypes
  <2> DEFINE a == setup_index
             b == setup_index'
             d == data_buf
  <2>3. /\ d \in Seq(Pipe!Bytes) /\ no \in 0 .. PipeMaxSetups /\ a \in Nat /\ b \in Nat
        /\ a <= b /\ b <= Len(d) /\ \A i \in 1 .. b : d[i] = <<no, i>>
    BY <1>2, <1>3, <2>1, <2>2
  <2>4. pipe_got = Pipe!Data(no, 0, a) /\ pipe_got' = pipe_got \o SubSeq(d, a + 1, b)
    BY <1>1, <1>2
  <2> HIDE DEF a, b, d
  <2>5. Pipe!Data(no, 0, a) \o SubSeq(d, a + 1, b) = Pipe!Data(no, 0, b)
    BY <2>3, PipeLonger
  <2>6. pipe_got' = Pipe!Data(no, 0, b)
    BY <2>4, <2>5
  <2> QED BY <2>6 DEF b
<1>5. pipe_got' \in Seq(Pipe!Bytes) /\ Len(pipe_got') = setup_index'
  BY <1>2, <1>3, <1>4, PipeData
<1>6. /\ turn' \in {"data", "status", "done", "lost"}
      /\ turn' = "status" => setup_state' = "ACK"
  <2>1. turn' = IF ~Pipe!InTurn("in", n) THEN "lost"
                ELSE IF turn = "status" THEN "done"
                ELSE IF k < n \/ Len(pipe_got') + pipe_sent' = setup_buf.len THEN "status" ELSE "data"
    BY DEF Pipe!DataIn, Pipe!Taken, k
  <2> QED BY <1>1, <1>2, <1>3, <1>5, <2>1
<1>7. PipeTypes' /\ Pipe!ServedInTurn'
  BY <1>1, <1>3, <1>5, <1>6 DEF PipeServes, PipeStage, PipeTypes, Pipe!ServedInTurn
<1>8. PipePlace' /\ PipeInStep' /\ PipeLeft'
  BY <1>1, <1>2, <1>3, <1>6 DEF PipePlace, PipeInStep, PipeLeft
<1>9. PipeReads' /\ PipeWrites'
  <2>1. Pipe!Read' /\ pipe_got' = Pipe!Data(no', 0, setup_index')
    BY <1>1, <1>4 DEF Pipe!Read
  <2> QED BY <1>1, <1>2, <2>1 DEF PipeReads, PipeWrites, Pipe!Data
<1>10. Pipe!AnswersThisRequest'
  BY <1>1, <1>4, <1>5 DEF Pipe!AnswersThisRequest, Pipe!Data
<1>11. PipeHistory'
  BY <1>1, <1>2, PipeHistoryKept DEF PipeServes
<1> QED BY <1>7, <1>8, <1>9, <1>10, <1>11 DEF PipeServes, PipeStage

LEMMA PipeDataOut ==
  ASSUME PipeServes, NEW n \in Nat, Pipe!DataOut(n), accepted
  PROVE  PipeServes'
<1> DEFINE k == Pipe!Chunk(n)
<1>1. /\ ~Pipe!Read /\ setup_state = "DATA" /\ PipeActive
      /\ UNCHANGED <<setup_buf, setup_len, pipe_got, executed, no, accepted, refused>>
      /\ setup_index' = setup_index + k
      /\ setup_state' = (IF setup_index' >= setup_len THEN "ACK" ELSE "DATA")
      /\ data_buf' = Pipe!Over(Pipe!Data(no, pipe_sent, k), setup_index, data_buf)
      /\ pipe_sent' = pipe_sent + k
  BY DEF Pipe!DataOut, Pipe!Fill, Pipe!MoveOn, Pipe!StageAfter, Pipe!Taken, PipeActive
<1>2. /\ setup_len \in Nat /\ setup_index \in Nat /\ no \in 0 .. PipeMaxSetups
      /\ setup_index <= setup_len /\ setup_len <= PipeBufSize /\ no > 0
      /\ setup_buf.len \in Nat /\ data_buf \in Seq(Pipe!Bytes) /\ Len(data_buf) = PipeBufSize
      /\ pipe_got = <<>> /\ pipe_sent = setup_index /\ setup_len = setup_buf.len
      /\ \A i \in 1 .. setup_index : data_buf[i] = <<no, i>>
      /\ \A i \in 1 .. Len(executed) : executed[i].no < no
  BY <1>1, PipeConstantTypes DEF PipeServes, PipeStage, PipeTypes, PipePlace, PipeWrites
<1>3. k \in Nat /\ setup_index' \in Nat /\ setup_index' <= setup_len /\ (k < n => setup_index' = setup_len)
  BY <1>1, <1>2 DEF Pipe!Chunk, Pipe!Smaller
<1> HIDE DEF k
<1>4. /\ data_buf' \in Seq(Pipe!Bytes) /\ Len(data_buf') = PipeBufSize
      /\ \A i \in 1 .. setup_index' : data_buf'[i] = <<no, i>>
  <2> DEFINE d == Pipe!Data(no, pipe_sent, k)
  <2>1. d \in Seq(Pipe!Bytes) /\ Len(d) = k /\ \A i \in 1 .. k : d[i] = <<no, setup_index + i>>
    BY <1>2, <1>3 DEF Pipe!Data, Pipe!Bytes
  <2>2. data_buf' = Pipe!Over(d, setup_index, data_buf)
    BY <1>1
  <2> HIDE DEF d
  <2>3. setup_index + Len(d) <= Len(data_buf)
    BY <1>1, <1>2, <1>3, <2>1, PipeConstantTypes
  <2>4. /\ data_buf' \in Seq(Pipe!Bytes) /\ Len(data_buf') = Len(data_buf)
        /\ \A j \in 1 .. setup_index : data_buf'[j] = data_buf[j]
        /\ \A j \in 1 .. Len(d) : data_buf'[setup_index + j] = d[j]
    BY <1>2, <2>1, <2>2, <2>3, PipeOver
  <2>5. ASSUME NEW i \in 1 .. setup_index' PROVE data_buf'[i] = <<no, i>>
    <3>1. CASE i \in 1 .. setup_index
      BY <1>2, <2>4, <3>1
    <3>2. CASE i \notin 1 .. setup_index
      <4>1. i - setup_index \in 1 .. k /\ setup_index + (i - setup_index) = i
        BY <1>1, <1>2, <1>3, <3>2
      <4> QED BY <2>1, <2>4, <4>1
    <3> QED BY <3>1, <3>2
  <2> QED BY <1>2, <2>4, <2>5
<1>5. /\ turn' \in {"data", "status", "done", "lost"}
      /\ turn' = "status" => setup_state' = "ACK"
  <2>1. turn' = IF ~Pipe!InTurn("out", n) THEN "lost"
                ELSE IF turn = "status" THEN "done"
                ELSE IF k < n \/ Len(pipe_got') + pipe_sent' = setup_buf.len THEN "status" ELSE "data"
    BY DEF Pipe!DataOut, Pipe!Taken, k
  <2>2. Len(pipe_got') + pipe_sent' = setup_index'
    BY <1>1, <1>2, <1>3
  <2> QED BY <1>1, <1>2, <1>3, <2>1, <2>2
<1>6. PipeTypes' /\ Pipe!ServedInTurn'
  BY <1>1, <1>2, <1>3, <1>4, <1>5 DEF PipeServes, PipeStage, PipeTypes, Pipe!ServedInTurn
<1>7. PipePlace' /\ PipeInStep' /\ PipeLeft'
  BY <1>1, <1>2, <1>3, <1>5 DEF PipePlace, PipeInStep, PipeLeft
<1>8. PipeReads' /\ PipeWrites'
  <2>1. ~Pipe!Read' /\ (setup_state' = "DATA" => setup_index' < setup_len)
    BY <1>1, <1>2, <1>3 DEF Pipe!Read
  <2> QED BY <1>1, <1>2, <1>4, <2>1 DEF PipeReads, PipeWrites
<1>9. Pipe!AnswersThisRequest'
  BY <1>1 DEF PipeServes, PipeStage, Pipe!AnswersThisRequest, Pipe!Data
<1>10. PipeHistory'
  BY <1>1, <1>2, PipeHistoryKept DEF PipeServes
<1> QED BY <1>6, <1>7, <1>8, <1>9, <1>10 DEF PipeServes, PipeStage

\* ... and what a token moves after one that was refused.
LEMMA PipeDataLeft ==
  ASSUME PipeServes, NEW n \in Nat, Pipe!DataIn(n) \/ Pipe!DataOut(n), ~accepted
  PROVE  PipeServes'
<1> DEFINE k == Pipe!Chunk(n)
<1>1. /\ setup_len \in Nat /\ setup_index \in Nat /\ no \in 0 .. PipeMaxSetups
      /\ setup_index <= setup_len /\ setup_len = setup_buf.len
      /\ turn \in {"setup", "lost"} /\ (Pipe!Read \/ setup_len > PipeBufSize)
      /\ data_buf \in Seq(Pipe!Bytes) /\ Len(data_buf) = PipeBufSize /\ PipeBufSize \in Nat
      /\ pipe_got \in Seq(Pipe!Bytes) /\ pipe_sent \in Nat
  BY PipeConstantTypes DEF PipeServes, PipeStage, PipeTypes, PipeLeft, Pipe!DataIn, Pipe!DataOut
<1>2. /\ UNCHANGED <<setup_buf, setup_len, executed, no, accepted, refused>>
      /\ setup_index' = setup_index + k /\ setup_index' <= PipeBufSize /\ setup_state' \in {"ACK", "DATA"}
  BY DEF Pipe!DataIn, Pipe!DataOut, Pipe!MoveOn, Pipe!StageAfter, Pipe!Taken, Pipe!Inside
<1>3. turn' = "lost"
  <2>1. \A pid \in {"in", "out"} : ~Pipe!InTurn(pid, n)
    BY <1>1 DEF Pipe!InTurn
  <2> QED BY <2>1 DEF Pipe!DataIn, Pipe!DataOut, Pipe!Taken
<1>4. k \in Nat /\ setup_index' \in Nat /\ setup_index' <= setup_len
  BY <1>1, <1>2 DEF Pipe!Chunk, Pipe!Smaller
<1>5. /\ pipe_got' \in Seq(Pipe!Bytes) /\ pipe_sent' \in Nat
      /\ data_buf' \in Seq(Pipe!Bytes) /\ Len(data_buf') = PipeBufSize
  <2>1. CASE Pipe!DataIn(n)
    <3>1. /\ pipe_got' = pipe_got \o SubSeq(data_buf, setup_index + 1, setup_index + k)
          /\ UNCHANGED <<data_buf, pipe_sent>>
      BY <2>1 DEF Pipe!DataIn
    <3> HIDE DEF k
    <3>2. SubSeq(data_buf, setup_index + 1, setup_index + k) \in Seq(Pipe!Bytes)
      BY <1>1, <1>2, <1>4
    <3> QED BY <1>1, <3>1, <3>2
  <2>2. CASE Pipe!DataOut(n)
    <3> DEFINE d == Pipe!Data(no, pipe_sent, k)
    <3>1. /\ data_buf' = Pipe!Over(d, setup_index, data_buf)
          /\ pipe_sent' = pipe_sent + k /\ UNCHANGED pipe_got
      BY <2>2 DEF Pipe!DataOut, Pipe!Fill
    <3> HIDE DEF k
    <3>2. d \in Seq(Pipe!Bytes) /\ Len(d) = k
      BY <1>1, <1>4, PipeData
    <3> HIDE DEF d
    <3>3. setup_index + Len(d) <= Len(data_buf)
      BY <1>1, <1>2, <3>2
    <3> QED BY <1>1, <1>4, <3>1, <3>2, <3>3, PipeOver
  <2> QED BY <2>1, <2>2
<1> HIDE DEF k
<1>6. PipeTypes' /\ Pipe!ServedInTurn'
  BY <1>2, <1>3, <1>4, <1>5 DEF PipeServes, PipeStage, PipeTypes, Pipe!ServedInTurn
<1>7. /\ PipePlace' /\ PipeReads' /\ PipeWrites' /\ PipeInStep' /\ PipeLeft'
      /\ Pipe!AnswersThisRequest'
  BY <1>1, <1>2, <1>3, <1>4 DEF PipePlace, PipeReads, PipeWrites, PipeInStep, PipeActive, PipeLeft,
     Pipe!Read, Pipe!AnswersThisRequest
<1>8. PipeHistory'
  BY <1>1, <1>2, PipeHistoryKept DEF PipeServes
<1> QED BY <1>6, <1>7, <1>8 DEF PipeServes, PipeStage

\* The tokens that move no data.
LEMMA PipeOthers ==
  ASSUME PipeServes, NEW n \in Nat, NEW pid \in {"in", "out"},
         \/ Pipe!DataAfterEnd(pid, n) \/ Pipe!StatusIn(n) \/ Pipe!StatusOut(n)
         \/ Pipe!EarlyStatus(pid, n) \/ Pipe!IdleToken(pid, n) \/ Pipe!DeviceReset
  PROVE  PipeServes'
<1> USE DEF PipeServes
<1>1. /\ setup_state \in {"IDLE", "DATA", "ACK"} /\ no \in Nat /\ no \in 0 .. PipeMaxSetups
      /\ setup_buf.dir \in {"in", "out"} /\ setup_buf.len \in Nat
      /\ turn \in {"setup", "data", "status", "done", "lost"}
      /\ refused \in {"nobody", "device", "driver"}
  BY PipeConstantTypes DEF PipeStage, PipeTypes, Pipe!ServedInTurn
<1>2. CASE Pipe!DataAfterEnd(pid, n)
  <2>1. /\ UNCHANGED <<setup_state, setup_buf, setup_len, setup_index, data_buf, pipe_got, pipe_sent,
                       executed, no, accepted, refused>>
        /\ setup_state = "ACK" /\ turn' \in {"data", "status", "done", "lost"}
        /\ (~accepted => turn' = "lost")
    BY <1>2 DEF Pipe!DataAfterEnd, Pipe!Taken, Pipe!InTurn, Pipe!device, PipeStage, PipeLeft
  <2>2. PipeTypes' /\ Pipe!ServedInTurn' /\ Pipe!AnswersThisRequest'
    BY <2>1 DEF PipeStage, PipeTypes, Pipe!ServedInTurn, Pipe!AnswersThisRequest, Pipe!Data
  <2>3. PipePlace' /\ PipeInStep' /\ PipeReads' /\ PipeWrites' /\ PipeLeft'
    BY <2>1 DEF PipeStage, PipePlace, PipeInStep, PipeReads, PipeWrites, PipeActive, PipeLeft, Pipe!Read, Pipe!Data
  <2> QED BY <1>1, <2>1, <2>2, <2>3, PipeHistoryKept DEF PipeStage
<1>3. CASE Pipe!StatusOut(n)
  <2>1. /\ UNCHANGED <<setup_buf, setup_len, setup_index, data_buf, pipe_got, pipe_sent, executed, no,
                       accepted, refused>>
        /\ setup_state' = "IDLE"
        /\ Pipe!Read
        /\ turn' = "lost" \/ (Pipe!InTurn("out", n) /\ (turn # "status" \/ turn' = "done"))
    BY <1>3 DEF Pipe!StatusOut, Pipe!Taken
  <2>2. Pipe!InTurn("out", n) => turn = "status" /\ accepted
    BY <2>1 DEF Pipe!InTurn, Pipe!Read, PipeStage, PipeLeft
  <2> QED BY <1>1, <2>1, <2>2, PipeRests, PipeHistoryKept
<1>4. CASE Pipe!StatusIn(n)
  <2>1. /\ UNCHANGED <<setup_buf, setup_len, setup_index, data_buf, pipe_got, pipe_sent>>
        /\ setup_state' = "IDLE" /\ setup_state = "ACK" /\ setup_len <= PipeBufSize /\ ~Pipe!Read
    BY <1>4 DEF Pipe!StatusIn, Pipe!LeaveAck, Pipe!Inside
  <2>4. accepted
    BY <2>1, PipeConstantTypes DEF PipeStage, PipeTypes, PipeLeft
  <2>2. CASE turn' = "setup" /\ refused' = "device" /\ UNCHANGED <<no, executed, accepted>>
    BY <1>1, <2>1, <2>2, PipeRests, PipeHistoryKept
  <2>3. CASE no' = no /\ Pipe!Run(SubSeq(data_buf, 1, setup_len)) /\ Pipe!Taken("in", n, 0)
    <3>1. ~(Pipe!InTurn("in", n) /\ turn # "status")
      BY <2>1 DEF Pipe!InTurn, Pipe!Read
    <3>2. UNCHANGED <<no, accepted, refused>> /\ turn' \in {"lost", "done"}
      BY <2>3, <3>1 DEF Pipe!Taken
    <3>3. PipeActive /\ PipePlace /\ PipeWrites /\ PipeTypes
      BY <2>1, <2>4 DEF PipeActive, PipeStage
    <3>4. /\ setup_len \in Nat /\ setup_len <= Len(data_buf) /\ data_buf \in Seq(Pipe!Bytes) /\ no > 0
          /\ setup_len = setup_buf.len /\ \A i \in 1 .. setup_len : data_buf[i] = <<no, i>>
          /\ \A i \in 1 .. Len(executed) : executed[i].no < no
      BY <2>1, <3>3 DEF PipePlace, PipeWrites, PipeTypes
    <3> DEFINE data == SubSeq(data_buf, 1, setup_len)
    <3>5. data = Pipe!Data(no, 0, setup_len)
      BY <1>1, <3>4, PipePrefix
    <3> HIDE DEF data
    <3>6. data \in Seq(Pipe!Bytes) /\ Len(data) = setup_len
      BY <1>1, <3>4, <3>5, PipeFirstBytes
    <3>7. Pipe!Run(data) /\ data = Pipe!Data(no', 0, Len(data)) /\ Len(data) = setup_buf'.len
      BY <2>1, <2>3, <3>2, <3>4, <3>5, <3>6 DEF data
    <3>8. PipeHistory'
      <4>1. no' \in 1 .. PipeMaxSetups /\ no <= no' /\ PipeHistory
            /\ \A i \in 1 .. Len(executed) : executed[i].no < no'
        BY <1>1, <3>2, <3>4
      <4> QED BY <1>1, <2>4, <3>2, <3>6, <3>7, <4>1, PipeRunsOnce
    <3> QED BY <1>1, <2>1, <2>4, <3>2, <3>8, PipeRests
  <2> QED BY <1>4, <2>2, <2>3 DEF Pipe!StatusIn
<1>5. CASE Pipe!EarlyStatus(pid, n)
  <2>1. /\ UNCHANGED <<setup_buf, setup_len, setup_index, data_buf, no, pipe_got, pipe_sent, executed, accepted>>
        /\ setup_state' = "IDLE" /\ turn' = "setup" /\ setup_state = "DATA" /\ pid # setup_buf.dir
        /\ refused' = IF Pipe!InTurn(pid, n) THEN "pipe" ELSE "driver"
    BY <1>5 DEF Pipe!EarlyStatus, Pipe!Refused
  <2>2. ~Pipe!InTurn(pid, n)
    BY <1>1, <2>1 DEF PipeStage, PipeInStep, Pipe!InTurn, Pipe!Read
  <2> QED BY <1>1, <2>1, <2>2, PipeRests, PipeHistoryKept
<1>6. CASE Pipe!IdleToken(pid, n)
  <2>1. /\ UNCHANGED <<setup_state, setup_buf, setup_len, setup_index, data_buf, no, pipe_got, pipe_sent,
                       executed, accepted>>
        /\ setup_state = "IDLE" /\ turn' = "setup"
        /\ refused' = IF Pipe!InTurn(pid, n) THEN "pipe" ELSE "driver"
    BY <1>6 DEF Pipe!IdleToken, Pipe!Refused, Pipe!device
  <2>2. ~Pipe!InTurn(pid, n)
    BY <1>1, <2>1 DEF PipeStage, PipeInStep, Pipe!InTurn
  <2> QED BY <1>1, <2>1, <2>2, PipeRests, PipeHistoryKept
<1>7. CASE Pipe!DeviceReset
  <2>1. /\ UNCHANGED <<setup_state, setup_buf, setup_len, setup_index, data_buf, no, pipe_got, pipe_sent,
                       executed, accepted, refused>>
        /\ turn' = "setup"
    BY <1>7 DEF Pipe!DeviceReset, Pipe!device
  <2>2. PipeTypes' /\ Pipe!ServedInTurn' /\ Pipe!AnswersThisRequest'
    BY <2>1 DEF PipeStage, PipeTypes, Pipe!ServedInTurn, Pipe!AnswersThisRequest, Pipe!Data
  <2>3. PipePlace' /\ PipeInStep' /\ PipeReads' /\ PipeWrites' /\ PipeLeft'
    BY <2>1 DEF PipeStage, PipePlace, PipeInStep, PipeReads, PipeWrites, PipeActive, PipeLeft, Pipe!Read, Pipe!Data
  <2> QED BY <1>1, <2>1, <2>2, <2>3, PipeHistoryKept DEF PipeStage
<1> QED BY <1>2, <1>3, <1>4, <1>5, <1>6, <1>7

\* A token goes past the end of data_buf only after a refusal for length.
LEMMA PipePastEnd ==
  ASSUME PipeServes, NEW n \in Nat, NEW pid \in {"in", "out"}, Pipe!PastEnd(pid, n)
  PROVE  ~accepted /\ Pipe!TooLong(setup_buf)
<1>1. /\ setup_state \in {"DATA", "ACK"} /\ setup_len \in Nat /\ setup_index \in Nat /\ PipeBufSize \in Nat
      /\ setup_index <= setup_len
  BY PipeConstantTypes DEF Pipe!PastEnd, PipeServes, PipeStage, PipeTypes, PipePlace, PipeActive, PipeLeft
<1>2. setup_index + Pipe!Chunk(n) <= setup_len
  BY <1>1 DEF Pipe!Chunk, Pipe!Smaller
<1>3. setup_len > PipeBufSize
  BY <1>1, <1>2 DEF Pipe!PastEnd, Pipe!Inside, Pipe!Chunk, Pipe!Smaller
<1> QED BY <1>1, <1>3 DEF PipeServes, PipeStage, PipePlace, PipeActive, PipeLeft, Pipe!TooLong

LEMMA PipeStep1 ==
  ASSUME PipeIInv, [Pipe!Next]_(Pipe!vars)
  PROVE  PipeIInv'
<1>1. \A n \in PipeSizes \cup {0} : n \in Nat
  BY PipeConstantTypes
<1>2. PipeServes /\ PipeInside
  BY DEF PipeIInv
<1>3. CASE ~beyond /\ Pipe!Follows /\ UNCHANGED beyond
  <2>1. PipeServes'
    BY <1>1, <1>2, <1>3, PipeSetups, PipeDataIn, PipeDataOut, PipeDataLeft, PipeOthers
       DEF Pipe!Follows, Pipe!InToken, Pipe!OutToken
  <2> QED BY <1>2, <1>3, <2>1 DEF PipeIInv, PipeInside
<1>4. ASSUME UNCHANGED <<setup_state, setup_buf, setup_len, setup_index, data_buf, no, turn, pipe_got, pipe_sent,
                         executed, accepted, refused>>
      PROVE  PipeServes'
  BY <1>2, <1>4 DEF PipeServes, PipeStage, PipeHistory, PipeTypes, PipePlace, PipeActive,
     PipeReads, PipeWrites, PipeLeft, PipeInStep, PipeNumbers, Pipe!AnswersThisRequest, Pipe!WholeAndOnce,
     Pipe!ServedInTurn, Pipe!Read, Pipe!Data
<1>5. ASSUME NEW n \in PipeSizes \cup {0}, NEW pid \in {"in", "out"}, Pipe!PastEnd(pid, n)
      PROVE  PipeIInv'
  <2>1. ~accepted /\ Pipe!TooLong(setup_buf)
    BY <1>1, <1>2, <1>5, PipePastEnd
  <2> QED BY <1>4, <1>5, <2>1 DEF Pipe!PastEnd, Pipe!device, PipeIInv, PipeInside, Pipe!TooLong
<1>6. CASE UNCHANGED Pipe!vars
  BY <1>2, <1>4, <1>6 DEF Pipe!vars, Pipe!device, PipeIInv, PipeInside, Pipe!TooLong
<1> QED BY <1>3, <1>5, <1>6 DEF Pipe!Next

LEMMA PipeBegins == Pipe!Init => PipeIInv
<1> SUFFICES ASSUME Pipe!Init PROVE PipeIInv
  OBVIOUS
<1>1. data_buf \in Seq(Pipe!Bytes) /\ Len(data_buf) = PipeBufSize
  BY PipeConstantTypes DEF Pipe!Init, Pipe!Bytes
<1>6. accepted \in BOOLEAN
  BY DEF Pipe!Init
<1>7. /\ setup_state = "IDLE" /\ setup_buf \in PipeRequests /\ setup_len = 0 /\ setup_index = 0 /\ no = 0
      /\ turn = "setup" /\ pipe_got = <<>> /\ pipe_sent = 0 /\ refused = "nobody"
  BY DEF Pipe!Init
<1>2. PipeTypes /\ Pipe!ServedInTurn
  BY <1>1, <1>6, <1>7, PipeConstantTypes DEF PipeTypes, Pipe!ServedInTurn
<1>3. PipePlace /\ PipeReads /\ PipeWrites /\ PipeLeft /\ PipeInStep
  BY DEF Pipe!Init, PipePlace, PipeReads, PipeWrites, PipeLeft, PipeInStep, PipeActive
<1>4. PipeHistory /\ Pipe!AnswersThisRequest
  BY DEF Pipe!Init, PipeHistory, PipeNumbers, Pipe!WholeAndOnce, Pipe!AnswersThisRequest, Pipe!Data
<1>5. PipeInside
  BY DEF Pipe!Init, PipeInside
<1> QED BY <1>2, <1>3, <1>4, <1>5 DEF PipeIInv, PipeServes, PipeStage

LEMMA PipeKeeps ==
  ASSUME PipeIInv
  PROVE  /\ Pipe!TypeOK /\ Pipe!AnswersThisRequest /\ Pipe!WholeAndOnce
         /\ Pipe!ServedInTurn /\ Pipe!StaysInBuffer
<1>1. executed \in Seq([no : 1 .. PipeMaxSetups, data : Seq(Pipe!Bytes)])
  BY DEF PipeIInv, PipeServes, PipeHistory, PipeRuns
<1>2. Pipe!TypeOK
  BY <1>1 DEF PipeIInv, PipeServes, PipeInside, PipeStage, PipeTypes, Pipe!TypeOK
<1> QED BY <1>2 DEF PipeIInv, PipeServes, PipeInside, PipeStage, PipeHistory, PipePlace, PipeActive, Pipe!StaysInBuffer

\* To its driver the pipe is a ControlTransfer.  The number of a request that
\* is being read is among those executed.
PipeMoved == IF ~accepted THEN <<>> ELSE IF Pipe!Read THEN pipe_got ELSE SubSeq(data_buf, 1, setup_index)
PipeNos == [i \in 1 .. Len(executed) |-> executed[i].no]
PipeReadRan == PipeActive /\ Pipe!Read => \E i \in 1 .. Len(executed) : executed[i].no = no

LEMMA PipeMovedIs ==
  ASSUME PipeServes, PipeActive
  PROVE  PipeMoved = Pipe!Transfer!Data(no, setup_index) /\ Len(PipeMoved) = setup_index /\ setup_index \in Nat
<1>1. /\ no \in 0 .. PipeMaxSetups /\ setup_index \in Nat /\ data_buf \in Seq(Pipe!Bytes)
      /\ setup_index <= Len(data_buf)
  BY PipeConstantTypes DEF PipeServes, PipeStage, PipeTypes, PipePlace
<1>2. PipeMoved = Pipe!Data(no, 0, setup_index)
  <2>1. CASE Pipe!Read
    BY <2>1 DEF PipeMoved, PipeServes, PipeStage, PipeReads, PipeActive
  <2>2. CASE ~Pipe!Read
    <3>1. \A i \in 1 .. setup_index : data_buf[i] = <<no, i>>
      BY <2>2 DEF PipeServes, PipeStage, PipeWrites
    <3>2. SubSeq(data_buf, 1, setup_index) = Pipe!Data(no, 0, setup_index)
      BY <1>1, <3>1, PipePrefix
    <3> QED BY <2>2, <3>2 DEF PipeMoved, PipeActive
  <2> QED BY <2>1, <2>2
<1>3. Pipe!Data(no, 0, setup_index) = Pipe!Transfer!Data(no, setup_index)
  BY <1>1 DEF Pipe!Data, Pipe!Transfer!Data
<1>4. Len(Pipe!Data(no, 0, setup_index)) = setup_index
  BY <1>1, PipeFirstBytes
<1> QED BY <1>1, <1>2, <1>3, <1>4

\* An execution is one more number, which was not there.
LEMMA PipeNosRun ==
  ASSUME PipeHistory, no' \in 1 .. PipeMaxSetups, NEW data \in Seq(Pipe!Bytes), Pipe!Run(data),
         \A i \in 1 .. Len(executed) : executed[i].no < no'
  PROVE  /\ PipeNos' = Append(PipeNos, no') /\ no' \notin {PipeNos[i] : i \in 1 .. Len(PipeNos)}
         /\ \E i \in 1 .. Len(executed') : executed'[i].no = no'
<1> DEFINE x == [no |-> no', data |-> data]
<1>1. x \in PipeRuns /\ x.no = no' /\ executed' = Append(executed, x)
  BY DEF PipeRuns, Pipe!Run
<1> HIDE DEF x
<1>2. /\ Len(executed') = Len(executed) + 1 /\ Len(executed) \in Nat
      /\ \A i \in 1 .. Len(executed) : executed'[i] = executed[i]
      /\ executed'[Len(executed) + 1] = x
  BY <1>1 DEF PipeHistory
<1>3. \A i \in 1 .. Len(executed) : executed[i].no \in Nat
  BY PipeRunTypes DEF PipeHistory
<1>4. PipeNos \in Seq(Nat) /\ Len(PipeNos) = Len(executed)
  BY <1>2, <1>3 DEF PipeNos
<1>5. PipeNos' = Append(PipeNos, no')
  <2> DEFINE s == PipeNos'
             t == Append(PipeNos, no')
  <2>1. s = [i \in 1 .. Len(executed) + 1 |-> executed'[i].no]
    BY <1>2 DEF PipeNos
  <2>2. /\ t \in Seq(Nat) /\ Len(t) = Len(executed) + 1
        /\ \A i \in 1 .. Len(executed) : t[i] = PipeNos[i]
        /\ t[Len(executed) + 1] = no'
    BY <1>4, AppendProperties
  <2>3. \A i \in 1 .. Len(executed) + 1 : executed'[i].no = t[i] /\ t[i] \in Nat
    <3> SUFFICES ASSUME NEW i \in 1 .. Len(executed) + 1
                 PROVE  executed'[i].no = t[i] /\ t[i] \in Nat
      OBVIOUS
    <3>1. CASE i = Len(executed) + 1
      BY <1>1, <1>2, <2>2, <3>1
    <3>2. CASE i # Len(executed) + 1
      <4>1. i \in 1 .. Len(executed)
        BY <1>2, <3>2
      <4> QED BY <1>2, <1>3, <2>2, <4>1 DEF PipeNos
    <3> QED BY <3>1, <3>2
  <2> HIDE DEF s, t
  <2>4. s \in Seq(Nat) /\ Len(s) = Len(executed) + 1 /\ \A i \in 1 .. Len(executed) + 1 : s[i] = t[i]
    BY <1>2, <2>1, <2>3
  <2>5. s = t
    BY <2>2, <2>4, SeqEqual
  <2> QED BY <2>5 DEF s, t
<1>6. no' \notin {PipeNos[i] : i \in 1 .. Len(PipeNos)}
  <2>1. \A i \in 1 .. Len(PipeNos) : PipeNos[i] \in Nat /\ PipeNos[i] < no'
    BY <1>3, <1>4 DEF PipeNos
  <2> QED BY <2>1
<1>7. \E i \in 1 .. Len(executed') : executed'[i].no = no'
  BY <1>1, <1>2
<1> QED BY <1>5, <1>6, <1>7

\* The steps of the transfer.
PipeStays == UNCHANGED <<no, setup_buf>> /\ PipeMoved' = PipeMoved /\ PipeNos' = PipeNos
PipeBegun ==
  /\ no' = no + 1 /\ setup_buf' \in PipeRequests /\ PipeMoved' = <<>>
  /\ \/ PipeNos' = PipeNos
     \/ /\ setup_buf'.dir = "in" /\ PipeNos' = Append(PipeNos, no')
        /\ no' \notin {PipeNos[i] : i \in 1 .. Len(PipeNos)}
PipeMoves ==
  /\ \E len \in Len(PipeMoved) + 1 .. setup_buf.len : PipeMoved' = Pipe!Transfer!Data(no, len)
  /\ setup_buf.dir = "in" => no \in {PipeNos[i] : i \in 1 .. Len(PipeNos)}
  /\ UNCHANGED <<no, setup_buf>> /\ PipeNos' = PipeNos
PipeExecutes ==
  /\ no > 0 /\ setup_buf.dir = "out" /\ PipeMoved = Pipe!Transfer!Data(no, setup_buf.len)
  /\ PipeNos' = Append(PipeNos, no) /\ no' \notin {PipeNos[i] : i \in 1 .. Len(PipeNos)}
  /\ UNCHANGED <<no, setup_buf>> /\ PipeMoved' = PipeMoved

LEMMA PipeMaps ==
  ASSUME PipeStays \/ PipeBegun \/ PipeMoves \/ PipeExecutes
  PROVE  [Pipe!Transfer!Next]_(Pipe!Transfer!vars)
  BY DEF PipeStays, PipeBegun, PipeMoves, PipeExecutes, PipeMoved, PipeNos, Pipe!Transfer!Next, Pipe!Transfer!Begin,
     Pipe!Transfer!Move, Pipe!Transfer!Execute, Pipe!Transfer!Latest, Pipe!Transfer!vars

LEMMA PipeTransferBegins == Pipe!Init => PipeReadRan /\ Pipe!Transfer!Init
<1> SUFFICES ASSUME Pipe!Init PROVE PipeReadRan /\ Pipe!Transfer!Init
  OBVIOUS
<1>1. /\ no = 0 /\ setup_buf \in PipeRequests /\ pipe_got = <<>> /\ setup_index = 0 /\ executed = <<>> /\ accepted = FALSE
  BY DEF Pipe!Init
<1>2. SubSeq(data_buf, 1, 0) = <<>>
  BY DEF Pipe!Init
<1>3. [i \in 1 .. Len(<<>>) |-> <<>>[i].no] = <<>>
  OBVIOUS
<1> QED BY <1>1, <1>2, <1>3 DEF PipeReadRan, PipeActive, Pipe!Transfer!Init

LEMMA PipeSetupMaps ==
  ASSUME PipeServes, NEW r \in PipeRequests,
         \/ Pipe!SetupRefused(r) \/ Pipe!SetupWrite(r)
         \/ \E n \in PipeAnswerSizes : Pipe!SetupRead(r, n)
  PROVE  PipeBegun /\ PipeReadRan'
<1>1. /\ no \in Nat /\ no' = no + 1 /\ no' \in 1 .. PipeMaxSetups
      /\ pipe_got' = <<>> /\ setup_buf' = r /\ setup_index' = 0
  BY PipeConstantTypes DEF PipeServes, PipeStage, PipeTypes, Pipe!SetupRefused, Pipe!SetupWrite,
     Pipe!SetupRead, Pipe!Setup
<1>2. PipeMoved' = <<>>
  <2>1. SubSeq(data_buf', 1, 0) = <<>>
    BY PipeSetups DEF PipeServes, PipeStage, PipeTypes
  <2> QED BY <1>1, <2>1 DEF PipeMoved
<1>3. CASE Pipe!SetupRefused(r)
  BY <1>1, <1>2, <1>3 DEF Pipe!SetupRefused, PipeBegun, PipeNos, PipeReadRan, PipeActive
<1>4. CASE Pipe!SetupWrite(r)
  BY <1>1, <1>2, <1>4 DEF Pipe!SetupWrite, PipeBegun, PipeNos, PipeReadRan, Pipe!Read
<1>5. CASE \E n \in PipeAnswerSizes : Pipe!SetupRead(r, n)
  <2>1. Pipe!Run(<<>>) /\ r.dir = "in" /\ <<>> \in Seq(Pipe!Bytes)
    BY <1>5 DEF Pipe!SetupRead
  <2>2. \A i \in 1 .. Len(executed) : executed[i].no < no'
    BY <1>1, PipeRunTypes DEF PipeServes, PipeHistory, PipeNumbers
  <2> QED BY <1>1, <1>2, <2>1, <2>2, PipeNosRun DEF PipeServes, PipeBegun, PipeReadRan
<1> QED BY <1>3, <1>4, <1>5

\* Data: none, or some more.
LEMMA PipeDataMaps ==
  ASSUME PipeServes, PipeReadRan, NEW n \in Nat, Pipe!DataIn(n) \/ Pipe!DataOut(n)
  PROVE  (PipeStays \/ PipeMoves) /\ PipeReadRan'
<1>11. CASE ~accepted
  BY <1>11 DEF Pipe!DataIn, Pipe!DataOut, Pipe!MoveOn, Pipe!Taken, PipeStays, PipeMoved, PipeNos, PipeReadRan, PipeActive
<1>12. SUFFICES ASSUME accepted PROVE (PipeStays \/ PipeMoves) /\ PipeReadRan'
  BY <1>11
<1>1. PipeServes'
  BY <1>12, PipeDataIn, PipeDataOut
<1>2. /\ PipeActive /\ accepted' /\ setup_state' \in {"DATA", "ACK"}
      /\ UNCHANGED <<no, setup_buf, setup_len, executed>> /\ setup_index' = setup_index + Pipe!Chunk(n)
  BY <1>12 DEF Pipe!DataIn, Pipe!DataOut, Pipe!MoveOn, Pipe!StageAfter, Pipe!Taken, PipeActive
<1>3. PipeActive'
  BY <1>2 DEF PipeActive
<1>4. PipeMoved = Pipe!Transfer!Data(no, setup_index) /\ Len(PipeMoved) = setup_index /\ setup_index \in Nat
  BY <1>2, PipeMovedIs
<1>5. PipeMoved' = Pipe!Transfer!Data(no, setup_index') /\ setup_index' \in Nat
  <2>1. (PipeServes /\ PipeActive => PipeMoved = Pipe!Transfer!Data(no, setup_index) /\ setup_index \in Nat)'
    BY PipeMovedIs, PTL
  <2> QED BY <1>1, <1>2, <1>3, <2>1 DEF Pipe!Transfer!Data
<1>6. /\ setup_len \in Nat /\ setup_index <= setup_index' /\ setup_index' <= setup_len /\ setup_len <= setup_buf.len
      /\ setup_buf.len \in Nat
  <2>1. setup_len \in Nat /\ setup_index <= setup_len /\ setup_len <= setup_buf.len /\ setup_buf.len \in Nat
    BY <1>2, PipeConstantTypes DEF PipeServes, PipeStage, PipeTypes, PipePlace, PipeReads, PipeWrites
  <2> QED BY <1>2, <1>4, <2>1 DEF Pipe!Chunk, Pipe!Smaller
<1>7. PipeNos' = PipeNos /\ PipeReadRan'
  BY <1>2 DEF PipeNos, PipeReadRan, Pipe!Read, PipeActive
<1>8. setup_buf.dir = "in" => no \in {PipeNos[i] : i \in 1 .. Len(PipeNos)}
  <2>1. Len(PipeNos) = Len(executed)
    BY DEF PipeNos, PipeServes, PipeHistory
  <2> QED BY <1>2, <2>1 DEF PipeReadRan, PipeNos, Pipe!Read
<1>9. CASE setup_index' = setup_index
  BY <1>2, <1>4, <1>5, <1>7, <1>9 DEF PipeStays
<1>10. CASE setup_index' # setup_index
  <2>1. setup_index' \in Len(PipeMoved) + 1 .. setup_buf.len
    BY <1>4, <1>5, <1>6, <1>10
  <2> QED BY <1>2, <1>5, <1>7, <1>8, <2>1 DEF PipeMoves
<1> QED BY <1>7, <1>9, <1>10

\* The tokens that move no data.
LEMMA PipeOtherMaps ==
  ASSUME PipeServes, PipeReadRan, NEW n \in Nat, NEW pid \in {"in", "out"},
         \/ Pipe!DataAfterEnd(pid, n) \/ Pipe!StatusIn(n) \/ Pipe!StatusOut(n)
         \/ Pipe!EarlyStatus(pid, n) \/ Pipe!IdleToken(pid, n) \/ Pipe!DeviceReset
  PROVE  (PipeStays \/ PipeExecutes) /\ PipeReadRan'
<1>1. UNCHANGED <<setup_buf, setup_len, setup_index, data_buf, pipe_got, no, accepted>>
  BY DEF Pipe!DataAfterEnd, Pipe!StatusIn, Pipe!StatusOut, Pipe!EarlyStatus, Pipe!IdleToken, Pipe!DeviceReset,
     Pipe!Taken, Pipe!Refused, Pipe!device
<1>2. PipeMoved' = PipeMoved
  BY <1>1 DEF PipeMoved, Pipe!Read
<1>3. CASE UNCHANGED executed
  <2>1. PipeActive' => PipeActive
    BY DEF Pipe!DataAfterEnd, Pipe!StatusIn, Pipe!StatusOut, Pipe!EarlyStatus, Pipe!IdleToken, Pipe!DeviceReset,
       Pipe!LeaveAck, Pipe!Refused, Pipe!Taken, Pipe!device, PipeActive
  <2> QED BY <1>1, <1>2, <1>3, <2>1 DEF PipeStays, PipeNos, PipeReadRan, Pipe!Read
<1>4. CASE executed' # executed
  <2>1. /\ setup_len <= PipeBufSize /\ ~Pipe!Read /\ setup_state = "ACK"
        /\ Pipe!Run(SubSeq(data_buf, 1, setup_len))
    BY <1>4 DEF Pipe!DataAfterEnd, Pipe!StatusIn, Pipe!StatusOut, Pipe!EarlyStatus, Pipe!IdleToken, Pipe!DeviceReset,
       Pipe!Refused, Pipe!Inside
  <2>2. PipeActive
    BY <2>1, PipeConstantTypes DEF PipeActive, PipeServes, PipeStage, PipeTypes, PipeLeft
  <2>3. /\ no \in 0 .. PipeMaxSetups /\ no > 0 /\ setup_index = setup_buf.len /\ setup_buf.dir = "out"
        /\ \A i \in 1 .. Len(executed) : executed[i].no < no
    BY <2>1, <2>2, PipeConstantTypes DEF PipeServes, PipeStage, PipeTypes, PipePlace, PipeWrites, Pipe!Read
  <2>4. SubSeq(data_buf, 1, setup_len) \in Seq(Pipe!Bytes)
    <3>1. data_buf \in Seq(Pipe!Bytes) /\ setup_len \in Nat /\ setup_len <= Len(data_buf)
      BY <2>2 DEF PipeServes, PipeStage, PipeTypes, PipePlace
    <3> QED BY <3>1
  <2>5. no' \in 1 .. PipeMaxSetups /\ \A i \in 1 .. Len(executed) : executed[i].no < no'
    BY <1>1, <2>3, PipeConstantTypes
  <2>6. PipeNos' = Append(PipeNos, no') /\ no' \notin {PipeNos[i] : i \in 1 .. Len(PipeNos)}
    BY <2>1, <2>4, <2>5, PipeNosRun DEF PipeServes
  <2>7. PipeMoved = Pipe!Transfer!Data(no, setup_buf.len)
    BY <2>2, <2>3, PipeMovedIs
  <2>8. PipeExecutes
    BY <1>1, <1>2, <2>3, <2>6, <2>7 DEF PipeExecutes
  <2> QED BY <1>1, <2>1, <2>8 DEF PipeReadRan, Pipe!Read
<1> QED BY <1>3, <1>4

LEMMA PipeTransferStep ==
  ASSUME PipeIInv, PipeReadRan, [Pipe!Next]_(Pipe!vars)
  PROVE  PipeReadRan' /\ [Pipe!Transfer!Next]_(Pipe!Transfer!vars)
<1>1. CASE UNCHANGED <<setup_buf, setup_index, data_buf, no, pipe_got, executed, accepted, setup_state>>
  <2>1. PipeStays /\ PipeReadRan'
    BY <1>1 DEF PipeStays, PipeMoved, PipeNos, PipeReadRan, PipeActive, Pipe!Read
  <2> QED BY <2>1, PipeMaps
<1>2. CASE Pipe!Follows
  <2>1. PipeServes /\ \A n \in PipeSizes \cup {0} : n \in Nat
    BY PipeConstantTypes DEF PipeIInv
  <2>2. (PipeStays \/ PipeBegun \/ PipeMoves \/ PipeExecutes) /\ PipeReadRan'
    BY <1>2, <2>1, PipeSetupMaps, PipeDataMaps, PipeOtherMaps DEF Pipe!Follows, Pipe!InToken, Pipe!OutToken
  <2> QED BY <2>2, PipeMaps
<1> QED BY <1>1, <1>2 DEF Pipe!Next, Pipe!PastEnd, Pipe!vars, Pipe!device

-----------------------------------------------------------------------------
(* The packet that all endpoints share.                                    *)

\* No assertion has failed: this is part of the invariant, since after one the
\* program would go on in a state that nothing is known of.  A packet is in
\* flight only where a device may keep one; hence none is when an isochronous
\* transfer, which does not look, is set up (NoneWaitsForIsoc).
PacketTypes ==
  /\ packet \in [state : {"UNDEFINED", "SETUP", "ASYNC", "COMPLETE", "CANCELED"},
                 ep : PacketEds \cup {None}, status : {"SUCCESS", "STALL", "NAK", "ASYNC"}]
  /\ packet.ep = None <=> packet.state = "UNDEFINED"
  /\ shared_queue \subseteq PacketEds /\ held \subseteq PacketDevices
  /\ ep_halted = [e \in PacketEds |-> FALSE] /\ async_td \in PacketEds \cup {None}
  /\ tds \in [PacketEds -> 0 .. PacketMaxTds] /\ stopped \subseteq PacketEds
  /\ ctl \in [now : BOOLEAN, old : BOOLEAN]
  /\ state \in [PacketDevices -> {"NOTATTACHED", "ATTACHED", "DEFAULT"}]
PacketKept == packet.state = "ASYNC" => "ASYNC" \in PacketAnswers[packet.ep]
PacketIInv == PacketTypes /\ PacketKept /\ Packet!AllAgree /\ Packet!NoAssertFails

LEMMA PacketConstantTypes ==
  /\ \A e \in PacketEds : /\ PacketDev[e] \in PacketDevices /\ e # None
                          /\ PacketKind[e] \in {"control", "bulk", "int", "isoc"}
                          /\ PacketAnswers[e] \subseteq {"SUCCESS", "STALL", "NAK", "ASYNC"}
                          /\ PacketKind[e] \in {"int", "isoc"} => "ASYNC" \notin PacketAnswers[e]
  /\ PacketMaxTds \in Nat
BY PacketAssumption DEF Packet!OnePacketConstants

\* A cancellation, or none, leaves the three of one mind; the device of a packet
\* that stays has to stay too.
LEMMA PacketCancels ==
  ASSUME PacketIInv, NEW condition \in BOOLEAN, Packet!CancelIf(condition)
  PROVE  /\ packet' \in [state : {"UNDEFINED", "SETUP", "ASYNC", "COMPLETE", "CANCELED"},
                         ep : PacketEds \cup {None}, status : {"SUCCESS", "STALL", "NAK", "ASYNC"}]
         /\ packet'.ep = None <=> packet'.state = "UNDEFINED"
         /\ shared_queue' \subseteq PacketEds /\ held' \subseteq PacketDevices
         /\ ep_halted' = [e \in PacketEds |-> FALSE] /\ async_td' \in PacketEds \cup {None}
         /\ PacketKept' /\ Packet!NoAssertFails'
         /\ IF packet'.state = "ASYNC"
            THEN /\ UNCHANGED <<packet, async_td, shared_queue, held>>
                 /\ ~condition
            ELSE async_td' = None /\ shared_queue' = {} /\ held' = {}
<1> USE DEF PacketIInv, PacketTypes, PacketKept, Packet!AllAgree, Packet!NoAssertFails
<1>1. CASE async_td # None /\ condition
  <2>1. /\ packet.state = "ASYNC" /\ packet.ep \in PacketEds /\ async_td = packet.ep
        /\ shared_queue = {packet.ep} /\ held = {PacketDev[packet.ep]}
    BY <1>1
  <2>2. shared_failed' = "none"
    <3>1. shared_failed' = Packet!CancelAsserts
      BY <1>1 DEF Packet!CancelIf
    <3> QED BY <2>1, <3>1 DEF Packet!CancelAsserts, Packet!InFlight
  <2>3. /\ packet' = [packet EXCEPT !.state = "CANCELED"] /\ shared_queue' = {} /\ held' = {}
        /\ async_td' = None /\ UNCHANGED ep_halted
    BY <1>1, <2>1 DEF Packet!CancelIf, Packet!Cancel
  <2> QED BY <2>1, <2>2, <2>3
<1>2. CASE ~(async_td # None /\ condition)
  <2>1. UNCHANGED <<packet, shared_queue, ep_halted, held, async_td, shared_failed>>
    BY <1>2 DEF Packet!CancelIf, Packet!core
  <2> QED BY <1>2, <2>1
<1> QED BY <1>1, <1>2

\* A visit to a descriptor: the core and the device take the packet.
LEMMA PacketSent ==
  ASSUME PacketIInv, NEW e \in PacketEds, NEW status \in PacketAnswers[e],
         packet.state # "ASYNC", tds[e] > 0, UNCHANGED state,
         Packet!Send(e, status),
         async_td' = IF status = "ASYNC" THEN e ELSE async_td
  PROVE  PacketIInv'
<1> USE DEF PacketIInv
<1>1. /\ PacketDev[e] \in PacketDevices /\ e # None /\ status \in {"SUCCESS", "STALL", "NAK", "ASYNC"}
      /\ status = "ASYNC" => PacketKind[e] \notin {"int", "isoc"}
  BY PacketConstantTypes
<1>2. async_td = None /\ shared_queue = {} /\ held = {} /\ ~ep_halted[e] /\ shared_failed = "none"
  BY DEF PacketTypes, Packet!AllAgree, Packet!NoAssertFails
<1>11. state[PacketDev[e]] = "DEFAULT"
  BY DEF Packet!Send
<1>3. Packet!SetupAsserts(e) = "none" /\ Packet!HandleAsserts(e, status) = "none"
  <2>1. packet.state \notin {"QUEUED", "ASYNC"}
    BY DEF PacketTypes
  <2> QED BY <1>1, <1>2, <1>11, <2>1 DEF Packet!SetupAsserts, Packet!HandleAsserts, Packet!InFlight
<1>4. Packet!Handle(e, status) /\ Packet!Retire(e, status) /\ UNCHANGED shared_failed
  BY <1>3 DEF Packet!Send
<1>5. /\ packet' = [state |-> CASE status = "ASYNC" -> "ASYNC" [] status = "NAK" -> "SETUP"
                              [] OTHER -> "COMPLETE",
                    ep |-> e, status |-> status]
      /\ shared_queue' = (IF status = "ASYNC" THEN {e} ELSE {})
      /\ held' = (IF status = "ASYNC" THEN {PacketDev[e]} ELSE {})
      /\ ep_halted' = [ep_halted EXCEPT ![e] = FALSE]
  BY <1>2, <1>4 DEF Packet!Handle
<1>6. /\ tds' \in [PacketEds -> 0 .. PacketMaxTds] /\ stopped' \subseteq PacketEds /\ ctl' = ctl
  <2>1. tds[e] - 1 \in 0 .. PacketMaxTds
    BY PacketConstantTypes DEF PacketTypes
  <2> QED BY <1>4, <2>1 DEF Packet!Retire, PacketTypes
<1>7. /\ packet'.ep = e /\ (packet'.state = "ASYNC" <=> status = "ASYNC")
      /\ packet'.state \in {"SETUP", "ASYNC", "COMPLETE"} /\ packet'.status = status
  BY <1>1, <1>5
<1>8. PacketTypes'
  BY <1>1, <1>2, <1>5, <1>6, <1>7 DEF PacketTypes
<1>9. PacketKept' /\ Packet!NoAssertFails'
  BY <1>2, <1>4, <1>7 DEF PacketKept, Packet!NoAssertFails
<1>10. Packet!AllAgree'
  BY <1>2, <1>5, <1>7, <1>11 DEF Packet!AllAgree
<1> QED BY <1>8, <1>9, <1>10

LEMMA PacketServiced ==
  ASSUME PacketIInv, NEW e \in PacketEds, NEW status \in PacketAnswers[e],
         Packet!ServiceTd(e, status) \/ Packet!ServiceIsoTd(e, status)
  PROVE  PacketIInv'
<1>1. tds[e] > 0 /\ UNCHANGED state /\ Packet!Send(e, status)
  BY DEF Packet!ServiceTd, Packet!ServiceIsoTd, Packet!Visited
<1>2. packet.state # "ASYNC"
  <2>1. CASE Packet!ServiceTd(e, status)
    <3>1. async_td = None
      BY <2>1 DEF Packet!ServiceTd, Packet!Free
    <3> QED BY <3>1, PacketConstantTypes
            DEF PacketIInv, PacketTypes, Packet!AllAgree, Packet!NoAssertFails
  <2>2. CASE Packet!ServiceIsoTd(e, status)
    <3>1. \A f \in PacketEds : "ASYNC" \notin PacketAnswers[f]
      BY <2>2, NoneWaitsForIsoc DEF Packet!ServiceIsoTd
    <3> QED BY <3>1 DEF PacketIInv, PacketTypes, PacketKept
  <2> QED BY <2>1, <2>2
<1>3. async_td' = IF status = "ASYNC" THEN e ELSE async_td
  <2>1. CASE Packet!ServiceTd(e, status)
    BY <2>1 DEF Packet!ServiceTd
  <2>2. CASE Packet!ServiceIsoTd(e, status)
    BY <2>2, PacketConstantTypes DEF Packet!ServiceIsoTd
  <2> QED BY <2>1, <2>2
<1> QED BY <1>1, <1>2, <1>3, PacketSent

LEMMA PacketStep1 ==
  ASSUME PacketIInv, [Packet!Next]_(Packet!vars)
  PROVE  PacketIInv'
<1> USE DEF PacketIInv
<1>1. CASE UNCHANGED Packet!vars
  BY <1>1 DEF Packet!vars, Packet!core, Packet!driver, PacketTypes, PacketKept, Packet!AllAgree, Packet!NoAssertFails
<1>2. ASSUME NEW e \in PacketEds, Packet!Service(e) PROVE PacketIInv'
  BY <1>2, PacketServiced DEF Packet!Service
\* The packet stays as it is, or is cancelled; of the device of one that stays
\* the state is kept.
<1>3. ASSUME NEW condition \in BOOLEAN, Packet!CancelIf(condition),
             tds' \in [PacketEds -> 0 .. PacketMaxTds], stopped' \subseteq PacketEds,
             ctl' \in [now : BOOLEAN, old : BOOLEAN],
             state' \in [PacketDevices -> {"NOTATTACHED", "ATTACHED", "DEFAULT"}],
             (packet.state = "ASYNC" /\ ~condition /\ state[PacketDev[packet.ep]] = "DEFAULT")
               => state'[PacketDev[packet.ep]] = "DEFAULT"
      PROVE  PacketIInv'
  <2>1. PacketTypes' /\ PacketKept' /\ Packet!NoAssertFails'
    BY <1>3, PacketCancels DEF PacketTypes
  <2>2. Packet!AllAgree'
    <3>1. CASE packet'.state = "ASYNC"
      <4>1. UNCHANGED <<packet, async_td, shared_queue, held>> /\ ~condition
        BY <1>3, <3>1, PacketCancels
      <4>2. packet.ep \in PacketEds /\ state[PacketDev[packet.ep]] = "DEFAULT"
            /\ PacketDev[packet.ep] \in PacketDevices
        BY <3>1, <4>1, PacketConstantTypes DEF PacketTypes, Packet!AllAgree, Packet!NoAssertFails
      <4> QED BY <1>3, <3>1, <4>1, <4>2
              DEF Packet!AllAgree, Packet!NoAssertFails
    <3>2. CASE packet'.state # "ASYNC"
      BY <1>3, <3>2, PacketCancels DEF Packet!AllAgree
    <3> QED BY <3>1, <3>2
  <2> QED BY <2>1, <2>2
<1>4. ASSUME NEW e \in PacketEds, Packet!Paused(e) PROVE PacketIInv'
  BY <1>3, <1>4 DEF Packet!Paused, Packet!driver, PacketTypes
<1>5. CASE Packet!FrameBoundary
  <2>1. ctl' \in [now : BOOLEAN, old : BOOLEAN] /\ (ctl.old /\ ~ctl.now) \in BOOLEAN
    BY <1>5 DEF Packet!FrameBoundary, PacketTypes
  <2> QED BY <1>3, <1>5, <2>1 DEF Packet!FrameBoundary, PacketTypes
<1>6. CASE Packet!HardReset
  <2>1. /\ state' \in [PacketDevices -> {"NOTATTACHED", "ATTACHED", "DEFAULT"}]
        /\ \A d \in PacketDevices : state[d] = "DEFAULT" => state'[d] = "DEFAULT"
    BY <1>6 DEF Packet!HardReset, PacketTypes
  <2>2. packet.state = "ASYNC" => PacketDev[packet.ep] \in PacketDevices
    BY PacketConstantTypes DEF PacketTypes
  <2> QED BY <1>3, <1>6, <2>1, <2>2 DEF Packet!HardReset, PacketTypes
<1>7. ASSUME NEW d \in PacketDevices, Packet!Detach(d) PROVE PacketIInv'
  <2>1. /\ state' \in [PacketDevices -> {"NOTATTACHED", "ATTACHED", "DEFAULT"}]
        /\ \A f \in PacketDevices \ {d} : state'[f] = state[f]
    BY <1>7 DEF Packet!Detach, PacketTypes
  <2>2. PICK condition \in BOOLEAN :
          condition = (Packet!InFlight /\ PacketDev[packet.ep] = d)
    BY DEF Packet!InFlight
  <2>3. Packet!CancelIf(condition) /\ UNCHANGED <<tds, stopped, ctl>>
    BY <1>7, <2>2 DEF Packet!Detach, Packet!driver, Packet!CancelIf
  <2>4. (packet.state = "ASYNC" /\ ~condition) => state'[PacketDev[packet.ep]] = state[PacketDev[packet.ep]]
    <3>1. packet.state = "ASYNC" => packet.ep \in PacketEds /\ Packet!InFlight
      BY DEF PacketTypes, Packet!InFlight
    <3> QED BY <2>1, <2>2, <3>1, PacketConstantTypes
  <2> QED BY <1>3, <2>1, <2>3, <2>4 DEF PacketTypes
<1>8. ASSUME NEW d \in PacketDevices, Packet!Attach(d) \/ Packet!PortReset(d) PROVE PacketIInv'
  <2>1. /\ state' \in [PacketDevices -> {"NOTATTACHED", "ATTACHED", "DEFAULT"}]
        /\ \A f \in PacketDevices : state[f] = "DEFAULT" => state'[f] = "DEFAULT"
    BY <1>8 DEF Packet!Attach, Packet!PortReset, PacketTypes
  <2>2. UNCHANGED <<packet, shared_queue, ep_halted, held, async_td, tds, stopped, ctl, shared_failed>>
    BY <1>8 DEF Packet!Attach, Packet!PortReset, Packet!core, Packet!driver
  <2> QED BY <2>1, <2>2, PacketConstantTypes DEF PacketTypes, PacketKept, Packet!AllAgree, Packet!NoAssertFails
<1>9. CASE Packet!SoftReset \/ Packet!Driver \/ Packet!Switch
  <2>1. UNCHANGED <<packet, shared_queue, ep_halted, held, async_td, state, shared_failed>>
    BY <1>9 DEF Packet!SoftReset, Packet!Driver, Packet!Switch, Packet!core
  <2>2. ctl' \in [now : BOOLEAN, old : BOOLEAN]
    <3>1. CASE Packet!SoftReset
      BY <3>1 DEF Packet!SoftReset, PacketTypes
    <3>2. CASE Packet!Switch
      BY <3>2 DEF Packet!Switch, Packet!SwitchLists, PacketTypes
    <3>3. CASE Packet!Driver
      BY <3>3 DEF Packet!Driver, Packet!Submit, Packet!Pause, Packet!Resume, PacketTypes
    <3> QED BY <1>9, <3>1, <3>2, <3>3
  <2>3. tds' \in [PacketEds -> 0 .. PacketMaxTds] /\ stopped' \subseteq PacketEds
    <3>1. CASE Packet!SoftReset \/ Packet!Switch
      BY <3>1 DEF Packet!SoftReset, Packet!Switch, Packet!SwitchLists, PacketTypes
    <3>2. CASE Packet!Driver
      BY <3>2, PacketConstantTypes DEF Packet!Driver, Packet!Submit, Packet!Pause, Packet!Resume, PacketTypes
    <3> QED BY <1>9, <3>1, <3>2
  <2> QED BY <2>1, <2>2, <2>3 DEF PacketTypes, PacketKept, Packet!AllAgree, Packet!NoAssertFails
<1> QED BY <1>1, <1>2, <1>4, <1>5, <1>6, <1>7, <1>8, <1>9
        DEF Packet!Next, Packet!Lists, Packet!Ports

LEMMA PacketBegins == Packet!Init => PacketIInv
<1> SUFFICES ASSUME Packet!Init PROVE PacketIInv
  OBVIOUS
<1>1. PacketTypes
  BY PacketConstantTypes DEF Packet!Init, PacketTypes
<1> QED BY <1>1 DEF Packet!Init, PacketIInv, PacketKept, Packet!AllAgree, Packet!NoAssertFails

-----------------------------------------------------------------------------
(* The interrupts.                                                         *)

\* What an interrupt has waited is paid for by the clock: while MIN_IRQ_INTERVAL
\* has not passed, the clock has gone on as much; once it has, what is left is
\* the frame that is on its way.
IrqTimes(timer, left, clock, wait) ==
  /\ timer \in 0 .. IrqFrameTime /\ left \in 0 .. IrqMaxRemaining
  /\ clock \in -IrqLag .. IrqInterval + 1 /\ wait \in Nat
IrqPaid(timer, clock, wait) ==
  /\ clock > IrqInterval => wait + timer <= 2 * IrqFrameTime + IrqLag
  /\ clock <= IrqInterval => wait + IrqInterval <= clock + IrqFrameTime + IrqLag
IrqRegisters ==
  /\ hcfs \in Irq!BusStates
  /\ intr \subseteq Irq!Sources \cup {"MIE"} /\ intr_status \subseteq Irq!Sources
  /\ raised \in BOOLEAN
IrqIInv ==
  /\ IrqTimes(eof_timer, remaining, since, waited)
  /\ IrqPaid(eof_timer, since, waited)
  /\ IrqRegisters

LEMMA IrqNumbers ==
  /\ IrqInterval \in Nat /\ IrqFrameTime \in Nat /\ IrqLag \in Nat /\ IrqMaxRemaining \in Nat
  /\ IrqInterval < IrqFrameTime
BY IrqAssumption DEF Irq!InterruptConstants

LEMMA IrqValues ==
  /\ \A c \in IrqCycles : c \in Nat
  /\ \A s \in IrqEnables : s \subseteq Irq!Sources \cup {"MIE"}
BY IrqAssumption DEF Irq!InterruptConstants

\* The arithmetic of it.  Nothing is due that has not waited.
LEMMA PaidAtOnce ==
  ASSUME NEW timer, NEW left, NEW clock, IrqTimes(timer, left, clock, 0)
  PROVE  IrqPaid(timer, clock, 0)
BY IrqNumbers DEF IrqTimes, IrqPaid

\* What waits no longer than before may wait while another timer runs.
LEMMA PaidAsBefore ==
  ASSUME NEW timer, NEW left, NEW clock, NEW wait,
         IrqTimes(timer, left, clock, wait), IrqPaid(timer, clock, wait), clock <= IrqInterval,
         NEW timer2 \in 0 .. IrqFrameTime, NEW left2 \in 0 .. IrqMaxRemaining, NEW wait2 \in 0 .. wait
  PROVE  IrqTimes(timer2, left2, clock, wait2) /\ IrqPaid(timer2, clock, wait2)
BY IrqNumbers DEF IrqTimes, IrqPaid

\* The clock goes on at least as far as the wait.
LEMMA PaidByClock ==
  ASSUME NEW timer, NEW left, NEW clock, NEW wait,
         IrqTimes(timer, left, clock, wait), IrqPaid(timer, clock, wait),
         NEW c \in Nat, NEW clock2 \in Int, clock2 >= clock + c, clock2 <= IrqInterval,
         NEW timer2 \in 0 .. IrqFrameTime, NEW left2 \in 0 .. IrqMaxRemaining, NEW wait2 \in 0 .. wait + c
  PROVE  IrqTimes(timer2, left2, clock2, wait2) /\ IrqPaid(timer2, clock2, wait2)
BY IrqNumbers DEF IrqTimes, IrqPaid

\* The timer and the clock go on together, for at least as long as the wait.
LEMMA PaidByTimer ==
  ASSUME NEW timer, NEW left, NEW clock, NEW wait,
         IrqTimes(timer, left, clock, wait), IrqPaid(timer, clock, wait),
         NEW c \in Nat, NEW k \in Nat, k >= c, k <= timer,
         NEW left2 \in 0 .. IrqMaxRemaining, NEW wait2 \in 0 .. wait + c
  PROVE  LET clock2 == Irq!Smaller(clock + k, IrqInterval + 1) IN
         IrqTimes(timer - k, left2, clock2, wait2) /\ IrqPaid(timer - k, clock2, wait2)
BY IrqNumbers DEF IrqTimes, IrqPaid, Irq!Smaller

\* The registers change while the timer stays, starts or stops, and no time
\* passes.
LEMMA IrqUpdated ==
  ASSUME IrqIInv, NEW enabled \in SUBSET (Irq!Sources \cup {"MIE"}), NEW status \in SUBSET Irq!Sources,
         eof_timer' \in 0 .. IrqFrameTime, Irq!IntrUpdate(enabled, status, since, 0),
         hcfs' \in Irq!BusStates, remaining' = remaining
  PROVE  IrqIInv'
<1> USE IrqNumbers DEF IrqIInv
<1>1. IrqRegisters'
  BY DEF Irq!IntrUpdate, IrqRegisters
<1>2. remaining' \in 0 .. IrqMaxRemaining
  BY DEF IrqTimes
<1>3. CASE Irq!Level(enabled, status) /\ Irq!Due(since)
  <2>1. since' = 0 /\ waited' = 0
    BY <1>3 DEF Irq!IntrUpdate
  <2>2. IrqTimes(eof_timer', remaining', 0, 0)
    BY <1>2 DEF IrqTimes
  <2> QED BY <1>1, <2>1, <2>2, PaidAtOnce
<1>4. CASE ~(Irq!Level(enabled, status) /\ Irq!Due(since))
  <2>1. since' = since
    BY <1>4 DEF Irq!IntrUpdate, Irq!Smaller, IrqTimes
  <2>2. waited' = 0 \/ (since <= IrqInterval /\ waited' \in 0 .. waited)
    BY <1>4 DEF Irq!IntrUpdate, Irq!Smaller, Irq!Waits, Irq!Due, IrqTimes
  <2>3. CASE waited' = 0
    <3>1. IrqTimes(eof_timer', remaining', since, 0)
      BY <1>2 DEF IrqTimes
    <3> QED BY <1>1, <2>1, <2>3, <3>1, PaidAtOnce
  <2>4. CASE since <= IrqInterval /\ waited' \in 0 .. waited
    BY <1>1, <1>2, <2>1, <2>4, PaidAsBefore
  <2> QED BY <2>2, <2>3, <2>4
<1> QED BY <1>3, <1>4

\* Cycles pass.
LEMMA IrqCycled ==
  ASSUME IrqIInv, NEW c \in IrqCycles
  PROVE  /\ c \in Nat /\ Irq!Cycled(c) \in Nat /\ Irq!Cycled(c) >= c
         /\ Irq!Clock(c) = since + Irq!Cycled(c) /\ Irq!Clock(c) \in Int /\ Irq!Clock(c) >= since + c
BY IrqValues, IrqNumbers DEF Irq!Clock, Irq!Cycled, IrqIInv, IrqTimes

\* The registers change at the end of a frame.
LEMMA IrqFrameEnds ==
  ASSUME IrqIInv, NEW c \in IrqCycles, NEW status \in SUBSET Irq!Sources,
         Irq!IntrUpdate(intr, status, Irq!Clock(c), c),
         eof_timer' \in 0 .. IrqFrameTime, remaining' \in 0 .. IrqMaxRemaining, hcfs' = hcfs
  PROVE  IrqIInv'
<1> USE IrqNumbers, IrqCycled DEF IrqIInv
<1>1. IrqRegisters'
  BY DEF Irq!IntrUpdate, IrqRegisters
<1>2. CASE Irq!Level(intr, status) /\ Irq!Due(Irq!Clock(c))
  <2>1. since' = 0 /\ waited' = 0
    BY <1>2 DEF Irq!IntrUpdate
  <2>2. IrqTimes(eof_timer', remaining', 0, 0)
    BY DEF IrqTimes
  <2> QED BY <1>1, <2>1, <2>2, PaidAtOnce
<1>3. CASE ~(Irq!Level(intr, status) /\ Irq!Due(Irq!Clock(c)))
  <2>1. since' = Irq!Smaller(Irq!Clock(c), IrqInterval + 1)
    BY <1>3 DEF Irq!IntrUpdate
  <2>2. waited' = 0 \/ (Irq!Clock(c) <= IrqInterval /\ waited' \in 0 .. waited + c)
    BY <1>3 DEF Irq!IntrUpdate, Irq!Smaller, Irq!Waits, Irq!Due, IrqTimes
  <2>3. CASE waited' = 0
    <3>1. since' \in -IrqLag .. IrqInterval + 1
      BY <2>1 DEF Irq!Smaller, IrqTimes
    <3>2. IrqTimes(eof_timer', remaining', since', 0)
      BY <3>1 DEF IrqTimes
    <3> QED BY <1>1, <2>3, <3>2, PaidAtOnce
  <2>4. CASE Irq!Clock(c) <= IrqInterval /\ waited' \in 0 .. waited + c
    <3>1. since' = Irq!Clock(c)
      BY <2>1, <2>4 DEF Irq!Smaller
    <3> QED BY <1>1, <2>4, <3>1, PaidByClock
  <2> QED BY <2>2, <2>3, <2>4
<1> QED BY <1>2, <1>3

\* No frame ends.
LEMMA IrqNoFrame ==
  ASSUME IrqIInv, NEW c \in IrqCycles, Irq!NoFrame(c)
  PROVE  IrqIInv'
<1> USE IrqNumbers, IrqCycled DEF IrqIInv
<1>1. IrqRegisters'
  BY DEF Irq!NoFrame, Irq!registers, IrqRegisters
<1>2. since' = Irq!Smaller(since + Irq!Cycled(c), IrqInterval + 1) /\ waited' \in 0 .. waited + c
  BY DEF Irq!NoFrame, Irq!Smaller, Irq!Waits, IrqTimes
<1>3. remaining' \in 0 .. IrqMaxRemaining
  BY DEF Irq!NoFrame, IrqTimes
<1>4. CASE eof_timer = 0
  <2>1. eof_timer' = 0 /\ waited' = 0
    BY <1>4 DEF Irq!NoFrame
  <2>2. since' \in -IrqLag .. IrqInterval + 1
    BY <1>2 DEF Irq!Smaller, IrqTimes
  <2>3. IrqTimes(0, remaining', since', 0)
    BY <1>3, <2>2 DEF IrqTimes
  <2> QED BY <1>1, <2>1, <2>3, PaidAtOnce
<1>5. CASE eof_timer > 0
  <2>1. eof_timer' = eof_timer - Irq!Cycled(c) /\ Irq!Cycled(c) <= eof_timer
    BY <1>5 DEF Irq!NoFrame, IrqTimes
  <2> QED BY <1>1, <1>2, <1>3, <2>1, PaidByTimer
<1> QED BY <1>4, <1>5 DEF IrqTimes

LEMMA IrqPassing ==
  ASSUME IrqIInv, NEW c \in IrqCycles, Irq!USBasync(c)
  PROVE  IrqIInv'
<1> USE IrqNumbers DEF IrqIInv
<1>1. c \in Nat /\ Irq!Cycled(c) \in Nat /\ Irq!Cycled(c) >= c /\ Irq!Clock(c) = since + Irq!Cycled(c)
  BY IrqCycled
<1>2. CASE Irq!NoFrame(c)
  BY <1>2, IrqNoFrame
<1>3. CASE Irq!FrameRefused(c)
  <2>1. /\ eof_timer' = 0 /\ waited' = 0 /\ remaining' \in 0 .. IrqMaxRemaining
        /\ since' \in -IrqLag .. IrqInterval + 1
    BY <1>1, <1>3 DEF Irq!FrameRefused, Irq!Smaller, IrqTimes
  <2>2. IrqTimes(0, remaining', since', 0)
    BY <2>1 DEF IrqTimes
  <2>3. IrqRegisters'
    BY <1>3 DEF Irq!FrameRefused, Irq!registers, IrqRegisters
  <2> QED BY <2>1, <2>2, <2>3, PaidAtOnce
<1>4. ASSUME NEW wd \in BOOLEAN, Irq!Frames(c, wd) PROVE IrqIInv'
  <2>1. intr_status \cup Irq!SofBits(wd) \in SUBSET Irq!Sources
    BY DEF Irq!SofBits, Irq!Sources, IrqRegisters
  <2>2. (Irq!Cycled(c) - eof_timer) % IrqFrameTime \in 0 .. IrqFrameTime - 1
    BY <1>1, <1>4 DEF Irq!Frames, IrqTimes
  <2>3. eof_timer' \in 0 .. IrqFrameTime /\ remaining' \in 0 .. IrqMaxRemaining
    BY <1>4, <2>2 DEF Irq!Frames
  <2> QED BY <1>4, <2>1, <2>3, IrqFrameEnds DEF Irq!Frames
<1>5. ASSUME NEW n \in 1 .. Irq!Room(c), Irq!FrameDies(c, n) PROVE IrqIInv'
  <2>1. intr_status \cup {"UE"} \cup (IF n > 1 THEN {"SF"} ELSE {}) \in SUBSET Irq!Sources
    BY DEF Irq!Sources, IrqRegisters
  <2>2. remaining' >= 0 /\ remaining' \in Int
    <3>1. PICK x \in Nat : x = Irq!Cycled(c) - eof_timer
      BY <1>1, <1>5 DEF Irq!FrameDies, IrqTimes
    <3>2. PICK m \in Nat : m = n - 1 /\ m <= x \div IrqFrameTime
      BY <3>1 DEF Irq!Room
    <3>3. m * IrqFrameTime <= x
      <4>1. x \div IrqFrameTime \in Nat /\ IrqFrameTime * (x \div IrqFrameTime) <= x
        BY <3>1
      <4>2. m * IrqFrameTime <= IrqFrameTime * (x \div IrqFrameTime)
        BY <3>2, <4>1
      <4> QED BY <3>1, <3>2, <4>1, <4>2
    <3>4. remaining' = x - m * IrqFrameTime
      BY <1>5, <3>1, <3>2 DEF Irq!FrameDies
    <3> QED BY <3>1, <3>2, <3>3, <3>4
  <2>3. eof_timer' \in 0 .. IrqFrameTime /\ remaining' \in 0 .. IrqMaxRemaining
    BY <1>5, <2>2 DEF Irq!FrameDies
  <2> QED BY <1>5, <2>1, <2>3, IrqFrameEnds DEF Irq!FrameDies
<1> QED BY <1>2, <1>3, <1>4, <1>5 DEF Irq!USBasync

LEMMA IrqStep1 ==
  ASSUME IrqIInv, [Irq!Next]_(Irq!vars)
  PROVE  IrqIInv'
<1>0. /\ IrqTimes(eof_timer, remaining, since, waited) /\ IrqPaid(eof_timer, since, waited) /\ IrqRegisters
      /\ intr \in SUBSET (Irq!Sources \cup {"MIE"}) /\ intr_status \in SUBSET Irq!Sources
      /\ hcfs \in Irq!BusStates /\ eof_timer \in 0 .. IrqFrameTime
      /\ 0 \in 0 .. IrqFrameTime /\ IrqFrameTime \in 0 .. IrqFrameTime
  BY IrqNumbers DEF IrqIInv, IrqTimes, IrqRegisters
<1>1. CASE UNCHANGED <<eof_timer, remaining, since, waited>> /\ IrqRegisters'
  BY <1>0, <1>1 DEF IrqIInv
<1>2. CASE UNCHANGED Irq!vars \/ Irq!TakeInterrupt \/ Irq!BusResume
  <2>1. IrqRegisters'
    BY <1>0, <1>2 DEF Irq!TakeInterrupt, Irq!BusResume, Irq!vars, Irq!registers, IrqRegisters, Irq!BusStates
  <2>2. UNCHANGED <<eof_timer, remaining, since, waited>>
    BY <1>2 DEF Irq!TakeInterrupt, Irq!BusResume, Irq!vars, Irq!registers
  <2> QED BY <1>1, <2>1, <2>2
<1>3. CASE Irq!Async
  BY <1>3, IrqPassing DEF Irq!Async
\* An interrupt is set while the ports change.
<1>4. \A more \in SUBSET Irq!Sources : intr_status \cup more \in SUBSET Irq!Sources
  BY <1>0
<1>5. /\ {"RHSC"} \in SUBSET Irq!Sources /\ {"RD"} \in SUBSET Irq!Sources
      /\ {"RD", "RHSC"} \in SUBSET Irq!Sources /\ {"SF"} \in SUBSET Irq!Sources
  BY DEF Irq!Sources
<1>6. CASE Irq!PortChanges
  <2>1. UNCHANGED <<hcfs, eof_timer, remaining>>
    BY <1>6 DEF Irq!PortChanges
  <2>2. PICK more \in SUBSET Irq!Sources : Irq!SetInterrupt(more)
    BY <1>5, <1>6 DEF Irq!PortChanges
  <2> QED BY <1>0, <1>4, <2>1, <2>2, IrqUpdated DEF Irq!SetInterrupt
<1>7. CASE Irq!Wakeup
  <2>1. hcfs' \in Irq!BusStates /\ UNCHANGED <<eof_timer, remaining>> /\ Irq!SetInterrupt({"RD"})
    BY <1>7 DEF Irq!Wakeup, Irq!BusStates
  <2> QED BY <1>0, <1>4, <1>5, <2>1, IrqUpdated DEF Irq!SetInterrupt
<1>8. CASE Irq!BusStart
  <2>1. /\ hcfs' \in Irq!BusStates /\ eof_timer' = IrqFrameTime /\ remaining' = remaining
        /\ Irq!SetInterrupt({"SF"})
    BY <1>8 DEF Irq!BusStart, Irq!BusStates
  <2> QED BY <1>0, <1>4, <1>5, <2>1, IrqUpdated DEF Irq!SetInterrupt
<1>9. CASE Irq!BusSuspend
  <2>1. /\ hcfs' \in Irq!BusStates /\ eof_timer' = 0 /\ remaining' = remaining
        /\ Irq!IntrUpdate(intr, intr_status \ {"SF"}, since, 0)
    BY <1>9 DEF Irq!BusSuspend, Irq!BusStates
  <2>2. intr_status \ {"SF"} \in SUBSET Irq!Sources
    BY <1>0
  <2> QED BY <1>0, <2>1, <2>2, IrqUpdated
<1>10. CASE Irq!BusReset
  <2>1. hcfs' \in Irq!BusStates /\ eof_timer' = 0 /\ remaining' = remaining
    BY <1>10 DEF Irq!BusReset, Irq!BusStates
  <2>2. CASE Irq!SetInterrupt({"RHSC"})
    BY <1>0, <1>4, <1>5, <2>1, <2>2, IrqUpdated DEF Irq!SetInterrupt
  <2>3. CASE waited' = 0 /\ UNCHANGED <<intr, intr_status, since, raised>>
    <3>1. IrqRegisters'
      BY <1>0, <2>1, <2>3 DEF IrqRegisters
    <3>2. IrqTimes(0, remaining', since, 0)
      BY <1>0, <2>1 DEF IrqTimes
    <3> QED BY <2>1, <2>3, <3>1, <3>2, PaidAtOnce DEF IrqIInv
  <2> QED BY <1>10, <2>2, <2>3 DEF Irq!BusReset
<1>11. CASE Irq!SoftReset \/ Irq!USBinit
  <2>1. IrqRegisters'
    BY <1>0, <1>11 DEF Irq!SoftReset, Irq!USBinit, IrqRegisters, Irq!BusStates
  <2>2. /\ eof_timer' = 0 /\ waited' = 0 /\ remaining' \in 0 .. IrqMaxRemaining
        /\ since' \in -IrqLag .. IrqInterval + 1
    BY <1>0, <1>11, IrqNumbers DEF Irq!SoftReset, Irq!USBinit, IrqTimes
  <2>3. IrqTimes(0, remaining', since', 0)
    BY <2>2, IrqNumbers DEF IrqTimes
  <2> QED BY <2>1, <2>2, <2>3, PaidAtOnce DEF IrqIInv
<1>12. ASSUME NEW s \in IrqEnables, Irq!InterruptEnable(s) \/ Irq!InterruptDisable(s) PROVE IrqIInv'
  <2>1. intr \cup s \in SUBSET (Irq!Sources \cup {"MIE"}) /\ intr \ s \in SUBSET (Irq!Sources \cup {"MIE"})
    BY <1>0, IrqValues
  <2>2. hcfs' = hcfs /\ eof_timer' = eof_timer /\ remaining' = remaining
    BY <1>12 DEF Irq!InterruptEnable, Irq!InterruptDisable
  <2>3. PICK e \in SUBSET (Irq!Sources \cup {"MIE"}) : Irq!IntrUpdate(e, intr_status, since, 0)
    BY <1>12, <2>1 DEF Irq!InterruptEnable, Irq!InterruptDisable
  <2> QED BY <1>0, <2>2, <2>3, IrqUpdated
<1>13. ASSUME NEW s \in SUBSET intr_status, Irq!Acknowledge(s) PROVE IrqIInv'
  <2>1. intr_status \ s \in SUBSET Irq!Sources
    BY <1>0
  <2>2. /\ hcfs' = hcfs /\ eof_timer' = eof_timer /\ remaining' = remaining
        /\ Irq!IntrUpdate(intr, intr_status \ s, since, 0)
    BY <1>13 DEF Irq!Acknowledge
  <2> QED BY <1>0, <2>1, <2>2, IrqUpdated
<1> QED BY <1>2, <1>3, <1>6, <1>7, <1>8, <1>9, <1>10, <1>11, <1>12, <1>13 DEF Irq!Next

LEMMA IrqBegins == Irq!Init => IrqIInv
<1> SUFFICES ASSUME Irq!Init PROVE IrqIInv
  OBVIOUS
<1>1. IrqRegisters
  BY DEF Irq!Init, IrqRegisters, Irq!BusStates, Irq!Sources
<1>2. eof_timer = 0 /\ remaining = 0 /\ since = 0 /\ waited = 0
  BY DEF Irq!Init
<1>3. IrqTimes(0, 0, 0, 0)
  BY IrqNumbers DEF IrqTimes
<1> QED BY <1>1, <1>2, <1>3, PaidAtOnce DEF IrqIInv

LEMMA IrqKeeps == IrqIInv => Irq!TypeOK /\ Irq!RaisedInTime
<1> SUFFICES ASSUME IrqIInv PROVE Irq!TypeOK /\ Irq!RaisedInTime
  OBVIOUS
<1>1. Irq!TypeOK
  BY DEF IrqIInv, IrqTimes, IrqRegisters, Irq!TypeOK
<1>2. Irq!RaisedInTime
  BY IrqNumbers DEF IrqIInv, IrqTimes, IrqPaid, Irq!RaisedInTime
<1> QED BY <1>1, <1>2

-----------------------------------------------------------------------------
(* Pictures on the bus.                                                    *)

\* What the driver has of picture f: its bytes up to mpeg_frame_offset, and no
\* more than that before the end of the picture has come.
EyeToyBytes == {EyeToy!Zero, EyeToy!Fill} \cup ((0..EyeToyFrames) \X (1..EyeToyBuffer))
EyeToyHas(f, c, at) ==
  /\ c \in Seq(EyeToyBytes) /\ at <= Len(c) /\ (at < EyeToyLength[f] => Len(c) = at)
  /\ \A i \in 1 .. EyeToyLength[f] : i <= at => c[i] = <<f, i>>
\* Picture f is in transit.
EyeToyCarries(f, at) ==
  /\ EyeToyLength[f] > 0 /\ mpeg_frame_size = EyeToyLength[f]
  /\ \A i \in 1 .. EyeToyLength[f] : mpeg_frame_data[i] = <<f, i>>
  /\ collected = <<>> \/ (collected = <<collected[1]>> /\ EyeToyHas(f, collected[1], at))
EyeToyIInv ==
  /\ EyeToy!TypeOK /\ EyeToy!WholePicture /\ newest >= EyeToy!Dummy
  /\ mpeg_frame_offset \in Nat
  /\ frame_step = 0 => collected = <<>>
  /\ frame_step = 1 => \E f \in EyeToy!Dummy..EyeToyFrames : EyeToyCarries(f, mpeg_frame_offset)

LEMMA EyeToyConstantTypes ==
  /\ EyeToyFrames \in Nat /\ EyeToyBuffer \in Nat /\ EyeToyLength \in [0..EyeToyFrames -> 0..EyeToyBuffer]
  /\ EyeToyPacket \in Nat /\ EyeToy!FirstBytes \in 0..EyeToyBuffer
  /\ EyeToy!Dummy = 0 /\ EyeToy!Blank = -1
BY EyeToyAssumption, EyeToySourceAssumption DEF EyeToy!EyeToyDeviceConstants, EyeToy!FrameSourceConstants,
   EyeToy!Dummy, EyeToy!Blank, EyeToy!FirstBytes

\* What a camera gives that gives something.
LEMMA EyeToyImage ==
  ASSUME NEW f \in EyeToy!Frames, EyeToy!Bytes(f) # <<>>
  PROVE  /\ f \in 0..EyeToyFrames /\ EyeToyLength[f] \in 1..EyeToyBuffer
         /\ Len(EyeToy!Bytes(f)) = EyeToyLength[f]
         /\ \A i \in 1 .. EyeToyLength[f] : EyeToy!Bytes(f)[i] = <<f, i>>
<1>1. f \in 0..EyeToyFrames /\ EyeToy!Bytes(f) = [i \in 1..EyeToyLength[f] |-> <<f, i>>]
  BY EyeToyConstantTypes DEF EyeToy!Bytes, EyeToy!Frames
<1>2. EyeToyLength[f] \in 0..EyeToyBuffer
  BY <1>1, EyeToyConstantTypes
<1>3. EyeToyLength[f] # 0
  BY <1>1
<1> QED BY <1>1, <1>2, <1>3, EyeToyConstantTypes

\* It is a whole picture once its bytes are there.
LEMMA EyeToyWhole ==
  ASSUME NEW f \in 0..EyeToyFrames, EyeToyLength[f] > 0, NEW c \in Seq(EyeToyBytes),
         EyeToyLength[f] <= Len(c), \A i \in 1 .. EyeToyLength[f] : c[i] = <<f, i>>
  PROVE  EyeToy!IsPrefix(EyeToy!Bytes(f), c) /\ EyeToy!Bytes(f) # <<>>
<1> DEFINE s == EyeToy!Bytes(f)
           n == EyeToyLength[f]
<1>1. n \in 1..EyeToyBuffer
  BY EyeToyConstantTypes
<1>2. s = [i \in 1..n |-> <<f, i>>]
  BY EyeToyConstantTypes DEF EyeToy!Bytes
<1> HIDE DEF n, s
<1>3. s \in Seq(EyeToyBytes)
  <2>1. \A i \in 1..n : <<f, i>> \in EyeToyBytes
    BY <1>1, EyeToyConstantTypes DEF EyeToyBytes
  <2> QED BY <1>1, <1>2, <2>1
<1>4. Len(s) = n /\ s # <<>> /\ \A i \in 1..n : s[i] = c[i]
  <2>1. Len(s) = n /\ s # <<>> /\ \A i \in 1..n : s[i] = <<f, i>>
    BY <1>1, <1>2
  <2>2. \A i \in 1..n : c[i] = <<f, i>>
    BY DEF n
  <2> QED BY <2>1, <2>2
<1>5. n <= Len(c)
  BY DEF n
<1>6. SubSeq(s, 1, n) = SubSeq(c, 1, n)
  <2>1. /\ SubSeq(s, 1, n) \in Seq(EyeToyBytes) /\ Len(SubSeq(s, 1, n)) = n
        /\ \A i \in 1..n : SubSeq(s, 1, n)[i] = s[i]
    BY <1>1, <1>3, <1>4
  <2>2. /\ SubSeq(c, 1, n) \in Seq(EyeToyBytes) /\ Len(SubSeq(c, 1, n)) = n
        /\ \A i \in 1..n : SubSeq(c, 1, n)[i] = c[i]
    BY <1>1, <1>5
  <2> QED BY <1>4, <2>1, <2>2, SeqEqual
<1> QED BY <1>4, <1>5, <1>6 DEF EyeToy!IsPrefix, s

\* A packet more of it.
LEMMA EyeToyMore ==
  ASSUME NEW f \in 0..EyeToyFrames, NEW c \in Seq(EyeToyBytes), NEW at \in Nat, EyeToyHas(f, c, at),
         at < EyeToyLength[f],
         NEW data \in [1..EyeToyBuffer -> EyeToyBytes], \A i \in 1 .. EyeToyLength[f] : data[i] = <<f, i>>,
         NEW n \in Nat, n <= EyeToyPacket, at + n <= EyeToyLength[f],
         at + n < EyeToyLength[f] => n = EyeToyPacket
  PROVE  EyeToyHas(f, c \o EyeToy!Padded(SubSeq(data, at + 1, at + n)), at + n)
<1> DEFINE s == SubSeq(data, at + 1, at + n)
           p == EyeToy!Padded(s)
           d == c \o p
<1>1. EyeToyLength[f] \in 0..EyeToyBuffer /\ EyeToyPacket \in Nat
  BY EyeToyConstantTypes
<1>2. /\ s \in Seq(EyeToyBytes) /\ Len(s) = n
      /\ \A i \in 1..n : s[i] = <<f, at + i>>
  <2>1. data \in Seq(EyeToyBytes) /\ Len(data) = EyeToyBuffer
    BY EyeToyConstantTypes
  <2>2. /\ s \in Seq(EyeToyBytes) /\ Len(s) = n /\ \A i \in 1..n : s[i] = data[at + i]
    <3> DEFINE from == at + 1
               to == at + n
    <3>1. /\ from \in Int /\ to \in Int /\ to - from + 1 = n /\ (from <= to \/ n = 0)
          /\ \A i \in 1..n : from + i - 1 = at + i
      OBVIOUS
    <3>2. \A i \in from..to : data[i] \in EyeToyBytes
      BY <1>1, <2>1
    <3>3. s = SubSeq(data, from, to)
      OBVIOUS
    <3> HIDE DEF from, to, s
    <3>4. /\ SubSeq(data, from, to) \in Seq(EyeToyBytes)
          /\ Len(SubSeq(data, from, to)) = IF from <= to THEN to - from + 1 ELSE 0
          /\ \A i \in 1 .. to - from + 1 : SubSeq(data, from, to)[i] = data[from + i - 1]
      BY <3>1, <3>2, SubSeqProperties, SMTT(30)
    <3> QED BY <3>1, <3>3, <3>4
  <2> HIDE DEF s
  <2>3. \A i \in 1..n : at + i \in 1 .. EyeToyLength[f]
    BY <1>1
  <2> QED BY <2>2, <2>3
<1> HIDE DEF s
<1>3. p \in Seq(EyeToyBytes) /\ Len(p) = EyeToyPacket /\ \A i \in 1..n : p[i] = s[i]
  <2>1. EyeToy!Fill \in EyeToyBytes
    BY DEF EyeToyBytes
  <2> DEFINE g == [i \in 1 .. EyeToyPacket - n |-> EyeToy!Fill]
  <2>2. g \in Seq(EyeToyBytes) /\ Len(g) = EyeToyPacket - n
    BY <1>1, <2>1
  <2>3. p = s \o g
    BY <1>2 DEF EyeToy!Padded
  <2> HIDE DEF g, p
  <2>4. s \in Seq(EyeToyBytes) /\ Len(s) = n
    BY <1>2
  <2>5. s \o g \in Seq(EyeToyBytes) /\ Len(s \o g) = n + (EyeToyPacket - n) /\ \A i \in 1..n : (s \o g)[i] = s[i]
    <3>1. /\ s \o g \in Seq(EyeToyBytes) /\ Len(s \o g) = Len(s) + Len(g)
          /\ \A i \in 1 .. Len(s) + Len(g) : (s \o g)[i] = IF i <= Len(s) THEN s[i] ELSE g[i - Len(s)]
      BY <2>2, <2>4, ConcatProperties
    <3> QED BY <1>1, <2>2, <2>4, <3>1
  <2> QED BY <1>1, <2>3, <2>5
<1> HIDE DEF p
<1>4. c \in Seq(EyeToyBytes) /\ Len(c) = at /\ \A i \in 1 .. EyeToyLength[f] : i <= at => c[i] = <<f, i>>
  BY DEF EyeToyHas
<1>5. /\ d \in Seq(EyeToyBytes) /\ Len(d) = at + EyeToyPacket
      /\ \A i \in 1 .. at + EyeToyPacket : d[i] = IF i <= at THEN c[i] ELSE p[i - at]
  <2>1. c \in Seq(EyeToyBytes) /\ Len(c) = at /\ p \in Seq(EyeToyBytes) /\ Len(p) = EyeToyPacket /\ EyeToyPacket \in Nat
    BY <1>1, <1>3, <1>4
  <2>2. /\ d \in Seq(EyeToyBytes) /\ Len(d) = Len(c) + Len(p)
        /\ \A i \in 1 .. Len(c) + Len(p) : d[i] = IF i <= Len(c) THEN c[i] ELSE p[i - Len(c)]
    BY <2>1, ConcatProperties
  <2> HIDE DEF d
  <2> QED BY <2>1, <2>2
<1> HIDE DEF d
<1>6. \A i \in 1 .. EyeToyLength[f] : i <= at + n => d[i] = <<f, i>>
  <2> SUFFICES ASSUME NEW i \in 1 .. EyeToyLength[f], i <= at + n PROVE d[i] = <<f, i>>
    OBVIOUS
  <2>1. i \in 1 .. at + EyeToyPacket
    BY <1>1
  <2>2. CASE i <= at
    BY <1>4, <1>5, <2>1, <2>2
  <2>3. CASE ~(i <= at)
    <3>1. i - at \in 1..n /\ at + (i - at) = i
      BY <1>1, <2>3
    <3>2. d[i] = p[i - at] /\ p[i - at] = s[i - at] /\ s[i - at] = <<f, at + (i - at)>>
      BY <1>2, <1>3, <1>5, <2>1, <2>3, <3>1
    <3> QED BY <3>1, <3>2
  <2> QED BY <2>2, <2>3
<1>7. at + n <= Len(d) /\ (at + n < EyeToyLength[f] => Len(d) = at + n)
  BY <1>1, <1>5
<1>8. EyeToyHas(f, d, at + n)
  BY <1>5, <1>6, <1>7 DEF EyeToyHas
<1> QED BY <1>8 DEF d, p, s


LEMMA EyeToyBegins == EyeToy!Init => EyeToyIInv
<1> SUFFICES ASSUME EyeToy!Init PROVE EyeToyIInv
  OBVIOUS
<1>1. /\ frame_step = 0 /\ mpeg_frame_size = 0 /\ mpeg_frame_offset = 0 /\ collected = <<>> /\ picture = <<>>
      /\ latest = EyeToy!Blank /\ eyetoy_got = EyeToy!Blank /\ newest = EyeToy!Dummy
      /\ mpeg_frame_data = [i \in 1..EyeToyBuffer |-> EyeToy!Zero]
  BY DEF EyeToy!Init, EyeToy!SourceInit
<1>2. EyeToy!TypeOK
  BY <1>1, EyeToyConstantTypes DEF EyeToy!TypeOK, EyeToy!Frames
<1> QED BY <1>1, <1>2, EyeToyConstantTypes DEF EyeToyIInv, EyeToy!WholePicture

\* The header and the first bytes.
LEMMA EyeToyHeader1 == ASSUME EyeToyIInv, EyeToy!Header PROVE EyeToyIInv'
<1> DEFINE f == latest
           n == EyeToy!FirstBytes
           c == SubSeq(mpeg_frame_data', 1, n)
<1>1. /\ frame_step' = 1 /\ eyetoy_got' = f /\ latest' = latest /\ newest' = newest /\ picture' = picture
      /\ EyeToy!Bytes(f) # <<>> /\ mpeg_frame_size' = Len(EyeToy!Bytes(f))
      /\ mpeg_frame_data' = EyeToy!Overlaid(EyeToy!Bytes(f))
      /\ mpeg_frame_offset' = n /\ collected' = <<c>>
  BY DEF EyeToy!Header, EyeToy!Begin, EyeToy!GetImage
<1>2. f \in EyeToy!Frames
  BY DEF EyeToyIInv, EyeToy!TypeOK
<1>3. /\ f \in 0..EyeToyFrames /\ EyeToyLength[f] \in 1..EyeToyBuffer
      /\ Len(EyeToy!Bytes(f)) = EyeToyLength[f]
      /\ \A i \in 1 .. EyeToyLength[f] : EyeToy!Bytes(f)[i] = <<f, i>>
  BY <1>1, <1>2, EyeToyImage
<1> HIDE DEF f
<1>4. /\ mpeg_frame_data' \in [1..EyeToyBuffer -> {EyeToy!Zero} \cup ((0..EyeToyFrames) \X (1..EyeToyBuffer))]
      /\ \A i \in 1 .. EyeToyLength[f] : mpeg_frame_data'[i] = <<f, i>>
  <2>1. mpeg_frame_data \in [1..EyeToyBuffer -> {EyeToy!Zero} \cup ((0..EyeToyFrames) \X (1..EyeToyBuffer))]
    BY DEF EyeToyIInv, EyeToy!TypeOK
  <2>2. mpeg_frame_data' = [i \in 1..EyeToyBuffer |-> IF i <= EyeToyLength[f] THEN <<f, i>> ELSE mpeg_frame_data[i]]
    BY <1>1, <1>3 DEF EyeToy!Overlaid
  <2> QED BY <1>3, <2>1, <2>2, EyeToyConstantTypes
<1>5. mpeg_frame_data' \in Seq(EyeToyBytes) /\ Len(mpeg_frame_data') = EyeToyBuffer
  <2>1. mpeg_frame_data' \in [1..EyeToyBuffer -> EyeToyBytes]
    BY <1>4 DEF EyeToyBytes
  <2> QED BY <2>1, EyeToyConstantTypes
<1>6. c \in Seq(EyeToyBytes) /\ Len(c) = n /\ \A i \in 1..n : c[i] = mpeg_frame_data'[i]
  BY <1>5, EyeToyConstantTypes
<1> HIDE DEF c, n
<1>7. n \in Nat
  BY EyeToyConstantTypes DEF n
<1>8. EyeToyHas(f, c, n)
  BY <1>3, <1>4, <1>6, <1>7 DEF EyeToyHas
<1>9. PICK g \in 0..EyeToyFrames : g = f
  BY <1>3
<1>10. EyeToyCarries(g, mpeg_frame_offset)'
  <2>1. collected' # <<>> /\ EyeToyHas(g, collected'[1], mpeg_frame_offset')
    BY <1>1, <1>8, <1>9 DEF n
  <2> QED BY <1>1, <1>3, <1>4, <1>9, <2>1 DEF EyeToyCarries
<1>11. EyeToy!TypeOK'
  BY <1>1, <1>2, <1>3, <1>4 DEF EyeToyIInv, EyeToy!TypeOK, n, f
<1>12. mpeg_frame_offset' \in Nat
  BY <1>1, <1>7
<1>13. EyeToy!WholePicture' /\ newest' >= EyeToy!Dummy
  BY <1>1 DEF EyeToyIInv, EyeToy!WholePicture
<1>14. \E k \in EyeToy!Dummy..EyeToyFrames : EyeToyCarries(k, mpeg_frame_offset)'
  <2>1. g \in EyeToy!Dummy..EyeToyFrames
    BY <1>9, EyeToyConstantTypes
  <2> QED BY <1>10, <2>1
<1> QED BY <1>1, <1>11, <1>12, <1>13, <1>14 DEF EyeToyIInv

\* The rest.
LEMMA EyeToyRest1 == ASSUME EyeToyIInv, EyeToy!Rest PROVE EyeToyIInv'
<1> DEFINE at == mpeg_frame_offset
           left == mpeg_frame_size - at
           n == IF left > EyeToyPacket THEN EyeToyPacket ELSE left
           s == SubSeq(mpeg_frame_data, at + 1, at + n)
<1>1. /\ frame_step # 0 /\ at < mpeg_frame_size
      /\ collected' = (IF collected = <<>> THEN <<>> ELSE <<collected[1] \o EyeToy!Padded(s)>>)
      /\ mpeg_frame_offset' = at + n
      /\ UNCHANGED <<latest, eyetoy_got, newest, frame_step, mpeg_frame_data, mpeg_frame_size, picture>>
  BY DEF EyeToy!Rest, EyeToy!Advance, EyeToy!source
<1>2. frame_step = 1 /\ at \in Nat /\ mpeg_frame_size \in Nat /\ EyeToyPacket \in Nat
  BY <1>1, EyeToyConstantTypes DEF EyeToyIInv, EyeToy!TypeOK
<1>3. PICK f \in 0..EyeToyFrames : EyeToyCarries(f, at)
  BY <1>2, EyeToyConstantTypes DEF EyeToyIInv
<1>4. /\ mpeg_frame_size = EyeToyLength[f] /\ EyeToyLength[f] > 0
      /\ \A i \in 1 .. EyeToyLength[f] : mpeg_frame_data[i] = <<f, i>>
  BY <1>3 DEF EyeToyCarries
<1>5. /\ n \in Nat /\ n <= EyeToyPacket /\ at + n <= EyeToyLength[f]
      /\ at + n < EyeToyLength[f] => n = EyeToyPacket
  BY <1>1, <1>2, <1>4
<1>6. mpeg_frame_data \in [1..EyeToyBuffer -> EyeToyBytes]
  BY DEF EyeToyIInv, EyeToy!TypeOK, EyeToyBytes
<1>7. /\ EyeToy!TypeOK' /\ EyeToy!WholePicture' /\ newest' >= EyeToy!Dummy
      /\ mpeg_frame_offset' \in Nat /\ frame_step' = 1
  <2>1. mpeg_frame_offset' \in Nat /\ frame_step' = 1
    BY <1>1, <1>2, <1>5
  <2>2. EyeToy!WholePicture' /\ newest' >= EyeToy!Dummy
    BY <1>1 DEF EyeToyIInv, EyeToy!WholePicture
  <2>3. EyeToy!TypeOK'
    BY <1>1, <1>2, <1>4, <1>5 DEF EyeToyIInv, EyeToy!TypeOK
  <2> QED BY <2>1, <2>2, <2>3
<1>8. CASE collected = <<>>
  <2>1. EyeToyCarries(f, mpeg_frame_offset)'
    BY <1>1, <1>4, <1>8 DEF EyeToyCarries
  <2> QED BY <1>3, <1>7, <2>1, EyeToyConstantTypes DEF EyeToyIInv
<1>9. CASE collected # <<>>
  <2>1. collected = <<collected[1]>> /\ EyeToyHas(f, collected[1], at)
    BY <1>3, <1>9 DEF EyeToyCarries
  <2> DEFINE c == collected[1]
  <2>2. c \in Seq(EyeToyBytes)
    BY <2>1 DEF EyeToyHas
  <2>3. EyeToyHas(f, c \o EyeToy!Padded(SubSeq(mpeg_frame_data, at + 1, at + n)), at + n)
    <3> HIDE DEF n, c
    <3>1. EyeToyHas(f, c, at) /\ at < EyeToyLength[f]
      BY <1>1, <1>4, <2>1 DEF c
    <3> QED BY <1>2, <1>4, <1>5, <1>6, <2>2, <3>1, EyeToyMore
  <2>4. collected' = <<collected'[1]>> /\ collected'[1] = c \o EyeToy!Padded(s)
    BY <1>1, <1>9
  <2>5. EyeToyCarries(f, mpeg_frame_offset)'
    BY <1>1, <1>4, <2>3, <2>4 DEF EyeToyCarries
  <2> QED BY <1>3, <1>7, <2>5, EyeToyConstantTypes DEF EyeToyIInv
<1> QED BY <1>8, <1>9

\* The footer.
LEMMA EyeToyFooter1 == ASSUME EyeToyIInv, EyeToy!Footer PROVE EyeToyIInv'
<1>1. /\ frame_step = 1 /\ mpeg_frame_offset >= mpeg_frame_size /\ frame_step' = 0 /\ collected' = <<>>
      /\ picture' = (IF collected = <<>> THEN picture ELSE collected[1])
      /\ UNCHANGED <<latest, eyetoy_got, newest, mpeg_frame_data, mpeg_frame_size, mpeg_frame_offset>>
  BY DEF EyeToy!Footer, EyeToy!source, EyeToyIInv, EyeToy!TypeOK
<1>2. PICK f \in 0..EyeToyFrames : EyeToyCarries(f, mpeg_frame_offset)
  BY <1>1, EyeToyConstantTypes DEF EyeToyIInv
<1>3. EyeToy!WholePicture'
  <2>1. CASE collected = <<>>
    BY <1>1, <2>1 DEF EyeToyIInv, EyeToy!WholePicture
  <2>2. CASE collected # <<>>
    <3>1. EyeToyHas(f, collected[1], mpeg_frame_offset) /\ mpeg_frame_size = EyeToyLength[f] /\ EyeToyLength[f] > 0
      BY <1>2, <2>2 DEF EyeToyCarries
    <3> DEFINE c == collected[1]
    <3>2. /\ c \in Seq(EyeToyBytes) /\ mpeg_frame_offset <= Len(c)
          /\ \A i \in 1 .. EyeToyLength[f] : i <= mpeg_frame_offset => c[i] = <<f, i>>
      BY <3>1 DEF EyeToyHas
    <3>3. picture' = c
      BY <1>1, <2>2
    <3> HIDE DEF c
    <3>4. EyeToyLength[f] \in Nat /\ mpeg_frame_offset \in Nat /\ EyeToyLength[f] <= mpeg_frame_offset
      BY <1>1, <3>1, EyeToyConstantTypes DEF EyeToyIInv
    <3>5. EyeToyLength[f] <= Len(c) /\ \A i \in 1 .. EyeToyLength[f] : c[i] = <<f, i>>
      BY <3>2, <3>4
    <3>6. EyeToy!IsPrefix(EyeToy!Bytes(f), c) /\ EyeToy!Bytes(f) # <<>>
      BY <3>1, <3>2, <3>5, EyeToyWhole
    <3> QED BY <3>3, <3>6, EyeToyConstantTypes DEF EyeToy!WholePicture
  <2> QED BY <2>1, <2>2
<1>4. EyeToy!TypeOK'
  BY <1>1 DEF EyeToyIInv, EyeToy!TypeOK
<1> QED BY <1>1, <1>3, <1>4 DEF EyeToyIInv

LEMMA EyeToyStep1 == ASSUME EyeToyIInv, [EyeToy!Next]_(EyeToy!vars) PROVE EyeToyIInv'
<1>1. ASSUME UNCHANGED <<frame_step, mpeg_frame_data, mpeg_frame_offset, picture>>, collected' \in {collected, <<>>},
             \/ UNCHANGED mpeg_frame_size
             \/ mpeg_frame_size' = 0 /\ frame_step = 0,
             {latest, eyetoy_got, newest}' \subseteq EyeToy!Frames, newest' >= EyeToy!Dummy
      PROVE  EyeToyIInv'
  <2>1. EyeToy!TypeOK'
    BY <1>1, EyeToyConstantTypes DEF EyeToyIInv, EyeToy!TypeOK
  <2>2. frame_step' = 1 => \E f \in EyeToy!Dummy..EyeToyFrames : EyeToyCarries(f, mpeg_frame_offset)'
    <3> SUFFICES ASSUME frame_step = 1
                 PROVE  \E f \in EyeToy!Dummy..EyeToyFrames : EyeToyCarries(f, mpeg_frame_offset)'
      BY <1>1
    <3>1. PICK f \in EyeToy!Dummy..EyeToyFrames : EyeToyCarries(f, mpeg_frame_offset)
      BY DEF EyeToyIInv
    <3>2. EyeToyCarries(f, mpeg_frame_offset)'
      BY <1>1, <3>1 DEF EyeToyCarries
    <3> QED BY <3>2
  <2> QED BY <1>1, <2>1, <2>2 DEF EyeToyIInv, EyeToy!WholePicture
<1>2. {latest, eyetoy_got, newest} \subseteq EyeToy!Frames /\ newest >= EyeToy!Dummy
  BY DEF EyeToyIInv, EyeToy!TypeOK
<1>3. CASE UNCHANGED EyeToy!vars
  BY <1>1, <1>2, <1>3 DEF EyeToy!vars, EyeToy!source, EyeToy!device, EyeToy!driver
<1>4. ASSUME NEW size \in EyeToySizes, EyeToy!HandleData(size)
      PROVE  EyeToyIInv'
  <2>1. CASE EyeToy!NoFrame
    BY <1>1, <1>2, <2>1 DEF EyeToy!NoFrame, EyeToy!GetImage, EyeToy!driver
  <2>2. CASE aborted' = TRUE /\ UNCHANGED <<EyeToy!source, EyeToy!device, EyeToy!driver>>
    BY <1>1, <1>2, <2>2 DEF EyeToy!source, EyeToy!device, EyeToy!driver
  <2> QED BY <1>4, <2>1, <2>2, EyeToyHeader1, EyeToyRest1, EyeToyFooter1 DEF EyeToy!HandleData
<1>5. CASE EyeToy!Resync
  BY <1>1, <1>2, <1>5 DEF EyeToy!Resync, EyeToy!source, EyeToy!device
<1>6. CASE EyeToy!Camera
  <2>1. UNCHANGED <<eyetoy_got, frame_step, mpeg_frame_data, mpeg_frame_size, mpeg_frame_offset, collected, picture>>
    BY <1>6 DEF EyeToy!Camera, EyeToy!device, EyeToy!driver, EyeToy!Store, EyeToy!Restart
  <2>2. {latest, newest}' \subseteq EyeToy!Frames /\ newest' >= EyeToy!Dummy
    BY <1>2, <1>6, EyeToyConstantTypes DEF EyeToy!Camera, EyeToy!Store, EyeToy!Restart, EyeToy!Frames
  <2> QED BY <1>1, <1>2, <2>1, <2>2
<1> QED BY <1>3, <1>4, <1>5, <1>6 DEF EyeToy!Next, EyeToy!Poll

-----------------------------------------------------------------------------
(* The registers of bridge and sensor.                                     *)

\* How far a driver is says what it has left in the registers of the bridge.
SensorSteps ==
  /\ DOMAIN regs = Camera!Bridge
  /\ job.step \in {"none", "w1", "w2", "w3", "r1", "r2", "r3", "r4"}
  /\ job.reg \in Camera!Addresses /\ job.val \in SensorValues \cup {SensorReset, 0}
  /\ DOMAIN job = {"step", "reg", "val"}
  /\ job.step # "none" => result = <<>>
  /\ job.step \in {"w2", "w3"} => regs["SADDR_3"] = job.reg
  /\ job.step = "w3" => regs["DATA"] = job.val
  /\ job.step \in {"r2", "r3", "r4"} => regs["SADDR_2"] = job.reg
  /\ job.step = "r4" => regs["DATA"] = IF job.reg \in SensorRegs THEN i2c_regs[job.reg] ELSE 0
SensorIInv == Camera!TypeOK /\ Camera!ReadsWhatIsThere /\ Camera!SensorHolds /\ SensorSteps

LEMMA SensorConstantTypes ==
  /\ SensorCommon \in SensorRegs /\ SensorBeyond \notin SensorRegs
  /\ \A r \in DOMAIN SensorDefaults : SensorDefaults[r] \in SensorValues \cup {SensorReset, 0}
BY SensorAssumption DEF Camera!CameraRegsConstants

LEMMA SensorBegins == Camera!Init => SensorIInv
<1> SUFFICES ASSUME Camera!Init PROVE SensorIInv
  OBVIOUS
<1> USE DEF Camera!Bridge, Camera!R51x_I2C_SADDR_3, Camera!R51x_I2C_SADDR_2, Camera!R51x_I2C_DATA, Camera!R518_I2C_CTL
<1>1. regs = [R \in Camera!Bridge |-> 0] /\ job = Camera!NoJob /\ result = <<>> /\ memory = i2c_regs
  BY DEF Camera!Init
<1>2. i2c_regs \in [SensorRegs -> SensorValues \cup {SensorReset, 0}]
  BY SensorConstantTypes DEF Camera!Init, Camera!ResetI2c
<1> QED BY <1>1, <1>2 DEF SensorIInv, SensorSteps, Camera!TypeOK, Camera!ReadsWhatIsThere, Camera!SensorHolds,
          Camera!NoJob, Camera!Addresses

\* A reset, and a write that is carried out, do the same to what must be there.
LEMMA SensorResets ==
  ASSUME NEW i2c \in [SensorRegs -> SensorValues \cup {SensorReset, 0}]
  PROVE  /\ Camera!ResetI2c(i2c) \in [SensorRegs -> SensorValues \cup {SensorReset, 0}]
         /\ Camera!ResetI2c(i2c) = [r \in SensorRegs |-> IF r \in DOMAIN SensorDefaults THEN SensorDefaults[r] ELSE i2c[r]]
BY SensorConstantTypes DEF Camera!ResetI2c
LEMMA SensorCommits ==
  ASSUME NEW i2c \in [SensorRegs -> SensorValues \cup {SensorReset, 0}],
         NEW reg \in Camera!Addresses, NEW val \in SensorValues \cup {SensorReset, 0}
  PROVE  /\ Camera!Commit(i2c, reg, val) \in [SensorRegs -> SensorValues \cup {SensorReset, 0}]
         /\ Camera!Commit(i2c, reg, val) =
              IF reg = SensorCommon /\ val = SensorReset
              THEN [r \in SensorRegs |-> IF r \in DOMAIN SensorDefaults THEN SensorDefaults[r] ELSE i2c[r]]
              ELSE [r \in SensorRegs |-> IF r = reg THEN val ELSE i2c[r]]
<1>1. CASE reg = SensorCommon /\ val = SensorReset
  BY <1>1, SensorResets DEF Camera!Commit
<1>2. CASE ~(reg = SensorCommon /\ val = SensorReset) /\ reg \in SensorRegs
  BY <1>2 DEF Camera!Commit
<1>3. CASE ~(reg = SensorCommon /\ val = SensorReset) /\ reg \notin SensorRegs
  BY <1>3 DEF Camera!Commit
<1> QED BY <1>1, <1>2, <1>3

LEMMA SensorStep1 == ASSUME SensorIInv, [Camera!Next]_(Camera!vars) PROVE SensorIInv'
<1> USE DEF SensorIInv, SensorSteps, Camera!TypeOK, Camera!ReadsWhatIsThere, Camera!SensorHolds,
        Camera!Bridge, Camera!R51x_I2C_SADDR_3, Camera!R51x_I2C_SADDR_2, Camera!R51x_I2C_DATA, Camera!R518_I2C_CTL,
        Camera!Addresses
<1>1. CASE UNCHANGED Camera!vars
  BY <1>1 DEF Camera!vars
<1>2. ASSUME NEW r \in Camera!Addresses, NEW v \in SensorValues \cup {SensorReset, 0}, NEW step \in {"w1", "r1"},
             Camera!Begin(r, v, step)
      PROVE  SensorIInv'
  BY <1>2 DEF Camera!Begin
<1>3. CASE Camera!WriteSensor
  <2>1. CASE job.step = "w1"
    BY <1>3, <2>1 DEF Camera!WriteSensor, Camera!WriteReg, Camera!Goto
  <2>2. CASE job.step = "w2"
    BY <1>3, <2>2 DEF Camera!WriteSensor, Camera!WriteReg, Camera!Goto
  <2>3. CASE job.step = "w3"
    <3>1. i2c_regs' = Camera!Commit(i2c_regs, job.reg, job.val) /\ job' = Camera!NoJob /\ result' = <<>>
      BY <1>3, <2>3 DEF Camera!WriteSensor, Camera!WriteCtl
    <3>2. DOMAIN regs' = Camera!Bridge /\ regs'["DATA"] = job.val /\ regs'["CTL"] = 1
          /\ \A R \in {"SADDR_2", "SADDR_3"} : regs'[R] = regs[R]
      BY <1>3, <2>3 DEF Camera!WriteSensor, Camera!WriteCtl
    <3>3. memory' = i2c_regs' /\ i2c_regs' \in [SensorRegs -> SensorValues \cup {SensorReset, 0}]
      <4>1. job.reg \in Camera!Addresses /\ job.val \in SensorValues \cup {SensorReset, 0}
            /\ i2c_regs \in [SensorRegs -> SensorValues \cup {SensorReset, 0}] /\ memory = i2c_regs
        OBVIOUS
      <4>2. memory' = IF job.reg = SensorCommon /\ job.val = SensorReset
                      THEN [r \in SensorRegs |-> IF r \in DOMAIN SensorDefaults THEN SensorDefaults[r] ELSE memory[r]]
                      ELSE [r \in SensorRegs |-> IF r = job.reg THEN job.val ELSE memory[r]]
        BY <1>3, <2>3 DEF Camera!WriteSensor
      <4> DEFINE i2c == i2c_regs
                 reg == job.reg
                 val == job.val
      <4>3. /\ i2c \in [SensorRegs -> SensorValues \cup {SensorReset, 0}] /\ memory = i2c
            /\ reg \in Camera!Addresses /\ val \in SensorValues \cup {SensorReset, 0}
            /\ i2c_regs' = Camera!Commit(i2c, reg, val)
            /\ memory' = IF reg = SensorCommon /\ val = SensorReset
                         THEN [r \in SensorRegs |-> IF r \in DOMAIN SensorDefaults THEN SensorDefaults[r] ELSE memory[r]]
                         ELSE [r \in SensorRegs |-> IF r = reg THEN val ELSE memory[r]]
        BY <3>1, <4>1, <4>2
      <4> HIDE DEF i2c, reg, val, SensorIInv, SensorSteps, Camera!TypeOK, Camera!ReadsWhatIsThere, Camera!SensorHolds,
               Camera!Addresses
      <4>4. /\ Camera!Commit(i2c, reg, val) \in [SensorRegs -> SensorValues \cup {SensorReset, 0}]
            /\ Camera!Commit(i2c, reg, val) =
                 IF reg = SensorCommon /\ val = SensorReset
                 THEN [r \in SensorRegs |-> IF r \in DOMAIN SensorDefaults THEN SensorDefaults[r] ELSE i2c[r]]
                 ELSE [r \in SensorRegs |-> IF r = reg THEN val ELSE i2c[r]]
        BY <4>3, SensorCommits
      <4>5. memory' = Camera!Commit(i2c, reg, val)
        BY <4>3, <4>4
      <4> QED BY <4>3, <4>4, <4>5
    <3> QED BY <3>1, <3>2, <3>3 DEF Camera!NoJob
  <2> QED BY <1>3, <2>1, <2>2, <2>3 DEF Camera!WriteSensor
<1>4. CASE Camera!ReadSensor
  <2>1. CASE job.step = "r1"
    BY <1>4, <2>1 DEF Camera!ReadSensor, Camera!WriteReg, Camera!Goto
  <2>2. CASE job.step = "r2"
    BY <1>4, <2>2 DEF Camera!ReadSensor, Camera!WriteCtl, Camera!Fetches, Camera!Goto
  <2>3. CASE job.step = "r3"
    BY <1>4, <2>3 DEF Camera!ReadSensor, Camera!WriteCtl, Camera!Fetches, Camera!Fetched, Camera!Goto
  <2>4. CASE job.step = "r4"
    BY <1>4, <2>4 DEF Camera!ReadSensor, Camera!NoJob
  <2> QED BY <1>4, <2>1, <2>2, <2>3, <2>4 DEF Camera!ReadSensor
<1>5. CASE Camera!GiveUp
  BY <1>5 DEF Camera!GiveUp, Camera!NoJob
<1>6. CASE Camera!HandleReset
  <2>1. i2c_regs' \in [SensorRegs -> SensorValues \cup {SensorReset, 0}] /\ memory' = i2c_regs'
    BY <1>6, SensorResets DEF Camera!HandleReset
  <2> QED BY <1>6, <2>1 DEF Camera!HandleReset, Camera!NoJob
<1> QED BY <1>1, <1>2, <1>3, <1>4, <1>5, <1>6 DEF Camera!Next

-----------------------------------------------------------------------------
(* The camera of Linux.                                                    *)

\* Where the two threads are to each other.
V4l2Storing == {"first", "second", "length", "unlock"}
V4l2Places ==
  /\ v4l2_main \in {"idle", "dummyLock", "dummy", "stop", "join", "v4l_close", "v4l_open", "create", "run",
                    "get1", "get2"}
  /\ thread \in {"loop", "select", "read", "lock", "quit", "ended"} \cup V4l2Storing
  /\ v4l2_mpeg_mutex \in {"none", "main", "thread"}
  /\ v4l2_mpeg_mutex = "thread" <=> thread \in V4l2Storing
  /\ v4l2_mpeg_mutex = "main" <=> v4l2_main \in {"dummy", "get1", "get2"}
  /\ v4l2_main \in {"v4l_close", "v4l_open", "create"} => thread = "ended"
  /\ v4l2_main \in {"join", "v4l_close", "v4l_open", "create", "run"} => ~eyetoy_running
  /\ thread # "ended" => eyetoy_running \/ v4l2_main \in {"run", "join"}
  /\ v4l2_main = "run" => thread \in {"loop", "quit", "ended"}
  /\ stale => v4l2_main = "dummyLock" /\ v4l2_mpeg_mutex = "thread"
\* Pictures are counted as they come.
V4l2Counts ==
  /\ v4l2_frames \in 0..V4l2Frames
  /\ v4l2_frame = IF v4l2_frames = 0 THEN V4l2!Blank ELSE v4l2_frames
  /\ thread \in V4l2Storing \cup {"lock"} => v4l2_frames > 0
\* Whoever holds the lock may be in the middle of a copy, and so may Open.
V4l2Images == [h : (V4l2!Blank..V4l2Frames) \X (V4l2!Blank..V4l2Frames), len : V4l2!Blank..V4l2Frames]
V4l2Whole(i) == i.h[1] = i.len /\ i.h[2] = i.len
V4l2Pictures ==
  /\ v4l2_mpeg_buffer \in V4l2Images /\ v4l2_image \in V4l2Images
  /\ v4l2_mpeg_mutex # "thread" /\ v4l2_main \notin {"dummyLock", "dummy"} => V4l2Whole(v4l2_mpeg_buffer)
  /\ v4l2_main # "dummyLock" =>
       /\ thread \in {"second", "length", "unlock"} => v4l2_mpeg_buffer.h[1] = v4l2_frame
       /\ thread \in {"length", "unlock"} => v4l2_mpeg_buffer.h[2] = v4l2_frame
       /\ thread = "unlock" => v4l2_mpeg_buffer.len = v4l2_frame
  /\ v4l2_main \notin {"get1", "get2"} => V4l2Whole(v4l2_image)
  /\ v4l2_main = "get2" => v4l2_image.h[1] = v4l2_image.len /\ v4l2_image.h[1] = v4l2_mpeg_buffer.h[1]
\* What was opened: files that are not the camera's were left open, and the
\* emulator's thread knows whether the camera runs.
V4l2AtRest == {"idle", "dummyLock", "dummy", "stop", "get1", "get2"}
V4l2Held ==
  /\ DOMAIN world = {"files", "streams", "there"} /\ DOMAIN past = {"early", "left", "opened", "opens"}
  /\ past.opens \in 0..V4l2Opens /\ fd \in -1..V4l2Opens
  /\ world.streams \in {-1} \cup world.files
  /\ thread # "ended" \/ v4l2_main = "create" => fd \in world.files /\ mapped
  /\ ~past.left => world.files \subseteq {fd}
  /\ v4l2_main = "create" => ~past.early
  /\ v4l2_main = "run" /\ ~past.early => thread = "loop"
  /\ v4l2_main \in V4l2AtRest /\ ~past.early =>
       IF past.opened THEN eyetoy_running /\ thread \notin {"quit", "ended"}
       ELSE past.left \/ world.files = {}
V4l2IInv == V4l2Places /\ V4l2Counts /\ V4l2Pictures /\ V4l2Held

LEMMA V4l2ConstantTypes == V4l2Frames \in Nat /\ V4l2Opens \in Nat /\ V4l2!Blank = -1 /\ V4l2!Dummy = 0
  BY V4l2Assumption DEF V4l2!V4l2CameraConstants, V4l2!Blank, V4l2!Dummy

LEMMA V4l2Begins == V4l2!Init => V4l2IInv
  BY V4l2ConstantTypes DEF V4l2!Init, V4l2!NoPicture, V4l2IInv, V4l2Places, V4l2Counts, V4l2Pictures, V4l2Held, V4l2Images,
     V4l2Whole, V4l2Storing, V4l2AtRest

LEMMA V4l2Loop1 == ASSUME V4l2IInv, V4l2!Loop PROVE V4l2IInv'
<1>1. V4l2Places'
  BY V4l2ConstantTypes DEF V4l2!Loop, V4l2!Goes, V4l2IInv, V4l2Places, V4l2Storing
<1>2. V4l2Counts'
  BY V4l2ConstantTypes DEF V4l2!Loop, V4l2!Goes, V4l2IInv, V4l2Counts, V4l2Storing, V4l2Places
<1>3. V4l2Pictures'
  BY V4l2ConstantTypes DEF V4l2!Loop, V4l2!Goes, V4l2IInv, V4l2Pictures, V4l2Storing, V4l2Counts, V4l2Images, V4l2Whole, V4l2Places
<1>4. V4l2Held'
  BY V4l2ConstantTypes DEF V4l2!Loop, V4l2!Goes, V4l2IInv, V4l2Held, V4l2Storing, V4l2AtRest, V4l2Places
<1> QED BY <1>1, <1>2, <1>3, <1>4 DEF V4l2IInv

LEMMA V4l2Select1 == ASSUME V4l2IInv, V4l2!Select PROVE V4l2IInv'
<1>1. V4l2Places'
  BY V4l2ConstantTypes DEF V4l2!Select, V4l2!threadKeeps, V4l2!threadStays, V4l2IInv, V4l2Places, V4l2Storing
<1>2. V4l2Counts'
  BY V4l2ConstantTypes DEF V4l2!Select, V4l2!threadKeeps, V4l2!threadStays, V4l2IInv, V4l2Counts, V4l2Storing, V4l2Places
<1>3. V4l2Pictures'
  BY V4l2ConstantTypes DEF V4l2!Select, V4l2!threadKeeps, V4l2!threadStays, V4l2IInv, V4l2Pictures, V4l2Storing, V4l2Counts, V4l2Images, V4l2Whole, V4l2Places
<1>4. V4l2Held'
  BY V4l2ConstantTypes DEF V4l2!Select, V4l2!threadKeeps, V4l2!threadStays, V4l2IInv, V4l2Held, V4l2Storing, V4l2AtRest, V4l2Places
<1> QED BY <1>1, <1>2, <1>3, <1>4 DEF V4l2IInv

LEMMA V4l2ReadFrame1 == ASSUME V4l2IInv, V4l2!ReadFrame PROVE V4l2IInv'
<1>1. V4l2Places'
  BY V4l2ConstantTypes DEF V4l2!ReadFrame, V4l2!Dequeue, V4l2!ReadError, V4l2!threadKeeps, V4l2!threadStays, V4l2IInv, V4l2Places, V4l2Storing
<1>2. V4l2Counts'
  BY V4l2ConstantTypes DEF V4l2!ReadFrame, V4l2!Dequeue, V4l2!ReadError, V4l2!threadKeeps, V4l2!threadStays, V4l2IInv, V4l2Counts, V4l2Storing, V4l2Places
<1>3. V4l2Pictures'
  BY V4l2ConstantTypes DEF V4l2!ReadFrame, V4l2!Dequeue, V4l2!ReadError, V4l2!threadKeeps, V4l2!threadStays, V4l2IInv, V4l2Pictures, V4l2Storing, V4l2Counts, V4l2Images, V4l2Whole, V4l2Places
<1>4. V4l2Held'
  BY V4l2ConstantTypes DEF V4l2!ReadFrame, V4l2!Dequeue, V4l2!ReadError, V4l2!threadKeeps, V4l2!threadStays, V4l2IInv, V4l2Held, V4l2Storing, V4l2AtRest, V4l2Places
<1> QED BY <1>1, <1>2, <1>3, <1>4 DEF V4l2IInv

LEMMA V4l2StoreFrame1 == ASSUME V4l2IInv, V4l2!StoreFrame PROVE V4l2IInv'
<1>1. V4l2Places'
  BY V4l2ConstantTypes DEF V4l2!StoreFrame, V4l2!StoreLock, V4l2!StoreTo, V4l2!StoreLength, V4l2!threadKeeps, V4l2IInv, V4l2Places, V4l2Storing
<1>2. V4l2Counts'
  BY V4l2ConstantTypes DEF V4l2!StoreFrame, V4l2!StoreLock, V4l2!StoreTo, V4l2!StoreLength, V4l2!threadKeeps, V4l2IInv, V4l2Counts, V4l2Storing, V4l2Places
<1>3. V4l2Pictures'
  BY V4l2ConstantTypes DEF V4l2!StoreFrame, V4l2!StoreLock, V4l2!StoreTo, V4l2!StoreLength, V4l2!threadKeeps, V4l2IInv, V4l2Pictures, V4l2Storing, V4l2Counts, V4l2Images, V4l2Whole, V4l2Places
<1>4. V4l2Held'
  BY V4l2ConstantTypes DEF V4l2!StoreFrame, V4l2!StoreLock, V4l2!StoreTo, V4l2!StoreLength, V4l2!threadKeeps, V4l2IInv, V4l2Held, V4l2Storing, V4l2AtRest, V4l2Places
<1> QED BY <1>1, <1>2, <1>3, <1>4 DEF V4l2IInv

LEMMA V4l2Quit1 == ASSUME V4l2IInv, V4l2!Quit PROVE V4l2IInv'
<1>1. V4l2Places'
  BY V4l2ConstantTypes DEF V4l2!Quit, V4l2!threadKeeps, V4l2IInv, V4l2Places, V4l2Storing
<1>2. V4l2Counts'
  BY V4l2ConstantTypes DEF V4l2!Quit, V4l2!threadKeeps, V4l2IInv, V4l2Counts, V4l2Storing, V4l2Places
<1>3. V4l2Pictures'
  BY V4l2ConstantTypes DEF V4l2!Quit, V4l2!threadKeeps, V4l2IInv, V4l2Pictures, V4l2Storing, V4l2Counts, V4l2Images, V4l2Whole, V4l2Places
<1>4. V4l2Held'
  BY V4l2ConstantTypes DEF V4l2!Quit, V4l2!threadKeeps, V4l2IInv, V4l2Held, V4l2Storing, V4l2AtRest, V4l2Places
<1> QED BY <1>1, <1>2, <1>3, <1>4 DEF V4l2IInv

LEMMA V4l2Open1 == ASSUME V4l2IInv, V4l2!Open PROVE V4l2IInv'
<1>1. V4l2Places'
  BY V4l2ConstantTypes DEF V4l2!Open, V4l2!mainKeeps, V4l2IInv, V4l2Places, V4l2Storing
<1>2. V4l2Counts'
  BY V4l2ConstantTypes DEF V4l2!Open, V4l2!mainKeeps, V4l2IInv, V4l2Counts, V4l2Storing, V4l2Places
<1>3. V4l2Pictures'
  BY V4l2ConstantTypes DEF V4l2!Open, V4l2!mainKeeps, V4l2IInv, V4l2Pictures, V4l2Storing, V4l2Counts, V4l2Images, V4l2Whole, V4l2Places
<1>4. V4l2Held'
  BY V4l2ConstantTypes DEF V4l2!Open, V4l2!mainKeeps, V4l2IInv, V4l2Held, V4l2Storing, V4l2AtRest, V4l2Places
<1> QED BY <1>1, <1>2, <1>3, <1>4 DEF V4l2IInv

LEMMA V4l2DummyFrame1 == ASSUME V4l2IInv, V4l2!DummyFrame PROVE V4l2IInv'
<1>1. V4l2Places'
  BY V4l2ConstantTypes DEF V4l2!DummyFrame, V4l2!mainKeeps, V4l2IInv, V4l2Places, V4l2Storing
<1>2. V4l2Counts'
  BY V4l2ConstantTypes DEF V4l2!DummyFrame, V4l2!mainKeeps, V4l2IInv, V4l2Counts, V4l2Storing, V4l2Places
<1>3. V4l2Pictures'
  BY V4l2ConstantTypes DEF V4l2!DummyFrame, V4l2!mainKeeps, V4l2IInv, V4l2Pictures, V4l2Storing, V4l2Counts, V4l2Images, V4l2Whole, V4l2Places
<1>4. V4l2Held'
  BY V4l2ConstantTypes DEF V4l2!DummyFrame, V4l2!mainKeeps, V4l2IInv, V4l2Held, V4l2Storing, V4l2AtRest, V4l2Places
<1> QED BY <1>1, <1>2, <1>3, <1>4 DEF V4l2IInv

LEMMA V4l2Close1 == ASSUME V4l2IInv, V4l2!Close PROVE V4l2IInv'
<1>1. V4l2Places'
  BY V4l2ConstantTypes DEF V4l2!Close, V4l2!mainKeeps, V4l2IInv, V4l2Places, V4l2Storing
<1>2. V4l2Counts'
  BY V4l2ConstantTypes DEF V4l2!Close, V4l2!mainKeeps, V4l2IInv, V4l2Counts, V4l2Storing, V4l2Places
<1>3. V4l2Pictures'
  BY V4l2ConstantTypes DEF V4l2!Close, V4l2!mainKeeps, V4l2IInv, V4l2Pictures, V4l2Storing, V4l2Counts, V4l2Images, V4l2Whole, V4l2Places
<1>4. V4l2Held'
  BY V4l2ConstantTypes DEF V4l2!Close, V4l2!mainKeeps, V4l2IInv, V4l2Held, V4l2Storing, V4l2AtRest, V4l2Places
<1> QED BY <1>1, <1>2, <1>3, <1>4 DEF V4l2IInv

LEMMA V4l2Stop1 == ASSUME V4l2IInv, V4l2!Stop PROVE V4l2IInv'
<1>1. V4l2Places'
  BY V4l2ConstantTypes DEF V4l2!Stop, V4l2!mainKeeps, V4l2!Stopping, V4l2!Stopped, V4l2IInv, V4l2Places, V4l2Storing
<1>2. V4l2Counts'
  BY V4l2ConstantTypes DEF V4l2!Stop, V4l2!mainKeeps, V4l2!Stopping, V4l2!Stopped, V4l2IInv, V4l2Counts, V4l2Storing, V4l2Places
<1>3. V4l2Pictures'
  BY V4l2ConstantTypes DEF V4l2!Stop, V4l2!mainKeeps, V4l2!Stopping, V4l2!Stopped, V4l2IInv, V4l2Pictures, V4l2Storing, V4l2Counts, V4l2Images, V4l2Whole, V4l2Places
<1>4. V4l2Held'
  BY V4l2ConstantTypes DEF V4l2!Stop, V4l2!mainKeeps, V4l2!Stopping, V4l2!Stopped, V4l2IInv, V4l2Held, V4l2Storing, V4l2AtRest, V4l2Places
<1> QED BY <1>1, <1>2, <1>3, <1>4 DEF V4l2IInv

LEMMA V4l2Joined1 == ASSUME V4l2IInv, V4l2!Joined PROVE V4l2IInv'
<1>1. V4l2Places'
  BY V4l2ConstantTypes DEF V4l2!Joined, V4l2!mainKeeps, V4l2!Join, V4l2IInv, V4l2Places, V4l2Storing
<1>2. V4l2Counts'
  BY V4l2ConstantTypes DEF V4l2!Joined, V4l2!mainKeeps, V4l2!Join, V4l2IInv, V4l2Counts, V4l2Storing, V4l2Places
<1>3. V4l2Pictures'
  BY V4l2ConstantTypes DEF V4l2!Joined, V4l2!mainKeeps, V4l2!Join, V4l2IInv, V4l2Pictures, V4l2Storing, V4l2Counts, V4l2Images, V4l2Whole, V4l2Places
<1>4. V4l2Held'
  BY V4l2ConstantTypes DEF V4l2!Joined, V4l2!mainKeeps, V4l2!Join, V4l2IInv, V4l2Held, V4l2Storing, V4l2AtRest, V4l2Places
<1> QED BY <1>1, <1>2, <1>3, <1>4 DEF V4l2IInv

LEMMA V4l2V4lClose1 == ASSUME V4l2IInv, V4l2!V4lClose PROVE V4l2IInv'
<1>1. V4l2Places'
  BY V4l2ConstantTypes DEF V4l2!V4lClose, V4l2!mainKeeps, V4l2!Stopped, V4l2!Streams, V4l2IInv, V4l2Places, V4l2Storing
<1>2. V4l2Counts'
  BY V4l2ConstantTypes DEF V4l2!V4lClose, V4l2!mainKeeps, V4l2!Stopped, V4l2!Streams, V4l2IInv, V4l2Counts, V4l2Storing, V4l2Places
<1>3. V4l2Pictures'
  BY V4l2ConstantTypes DEF V4l2!V4lClose, V4l2!mainKeeps, V4l2!Stopped, V4l2!Streams, V4l2IInv, V4l2Pictures, V4l2Storing, V4l2Counts, V4l2Images, V4l2Whole, V4l2Places
<1>4. V4l2Held'
  <2>1. /\ v4l2_main = "v4l_close" /\ v4l2_main' \in {"v4l_open", "idle"} /\ thread' = "ended" /\ ~eyetoy_running'
    BY DEF V4l2!V4lClose, V4l2!mainKeeps, V4l2!Stopped, V4l2IInv, V4l2Places
  <2>2. CASE world.there /\ V4l2!Streams
    <3>1. /\ world' = [world EXCEPT !.files = @ \ {fd}, !.streams = -1] /\ fd' = -1
          /\ past' = [past EXCEPT !.opened = FALSE, !.early = FALSE]
      BY <2>2 DEF V4l2!V4lClose
    <3>2. DOMAIN past' = DOMAIN past /\ past'.opens = past.opens /\ ~past'.opened /\ (past'.left <=> past.left)
      BY <3>1 DEF V4l2IInv, V4l2Held
    <3>3. DOMAIN world' = DOMAIN world /\ world'.files = world.files \ {fd} /\ world'.streams = -1
      BY <3>1 DEF V4l2IInv, V4l2Held
    <3>4. ~past'.left => world'.files = {}
      BY <3>2, <3>3 DEF V4l2IInv, V4l2Held
    <3> QED BY <2>1, <3>1, <3>2, <3>3, <3>4, V4l2ConstantTypes DEF V4l2IInv, V4l2Held, V4l2AtRest
  <2>3. CASE ~(world.there /\ V4l2!Streams)
    <3>1. /\ past' = [past EXCEPT !.opened = FALSE, !.left = TRUE, !.early = FALSE]
          /\ UNCHANGED <<world, fd, mapped>>
      BY <2>3 DEF V4l2!V4lClose
    <3>2. DOMAIN past' = DOMAIN past /\ past'.opens = past.opens /\ ~past'.opened /\ past'.left
      BY <3>1 DEF V4l2IInv, V4l2Held
    <3> QED BY <2>1, <3>1, <3>2, V4l2ConstantTypes DEF V4l2IInv, V4l2Held, V4l2AtRest
  <2> QED BY <2>2, <2>3
<1> QED BY <1>1, <1>2, <1>3, <1>4 DEF V4l2IInv

LEMMA V4l2OpenFails1 == ASSUME V4l2IInv, V4l2!OpenFails PROVE V4l2IInv'
<1>1. V4l2Places'
  BY V4l2ConstantTypes DEF V4l2!OpenFails, V4l2!mainKeeps, V4l2IInv, V4l2Places, V4l2Storing
<1>2. V4l2Counts'
  BY V4l2ConstantTypes DEF V4l2!OpenFails, V4l2!mainKeeps, V4l2IInv, V4l2Counts, V4l2Storing, V4l2Places
<1>3. V4l2Pictures'
  BY V4l2ConstantTypes DEF V4l2!OpenFails, V4l2!mainKeeps, V4l2IInv, V4l2Pictures, V4l2Storing, V4l2Counts, V4l2Images, V4l2Whole, V4l2Places
<1>4. V4l2Held'
  <2>1. /\ v4l2_main = "v4l_open" /\ v4l2_main' = "idle" /\ fd' = -1 /\ thread' = "ended" /\ UNCHANGED world
        /\ past' = [past EXCEPT !.left = @ \/ fd \in world.files, !.opened = FALSE]
    BY DEF V4l2!OpenFails, V4l2!mainKeeps, V4l2IInv, V4l2Places
  <2>2. /\ DOMAIN past' = DOMAIN past /\ past'.opens = past.opens /\ ~past'.opened
        /\ past'.left <=> past.left \/ fd \in world.files
    BY <2>1 DEF V4l2IInv, V4l2Held
  <2>3. ~past'.left => world.files = {}
    BY <2>2 DEF V4l2IInv, V4l2Held
  <2> QED BY <2>1, <2>2, <2>3, V4l2ConstantTypes DEF V4l2IInv, V4l2Held, V4l2AtRest
<1> QED BY <1>1, <1>2, <1>3, <1>4 DEF V4l2IInv

LEMMA V4l2SetupFails1 == ASSUME V4l2IInv, V4l2!SetupFails PROVE V4l2IInv'
<1>1. V4l2Places'
  BY V4l2ConstantTypes DEF V4l2!SetupFails, V4l2!mainKeeps, V4l2!NextFd, V4l2IInv, V4l2Places, V4l2Storing
<1>2. V4l2Counts'
  BY V4l2ConstantTypes DEF V4l2!SetupFails, V4l2!mainKeeps, V4l2!NextFd, V4l2IInv, V4l2Counts, V4l2Storing, V4l2Places
<1>3. V4l2Pictures'
  BY V4l2ConstantTypes DEF V4l2!SetupFails, V4l2!mainKeeps, V4l2!NextFd, V4l2IInv, V4l2Pictures, V4l2Storing, V4l2Counts, V4l2Images, V4l2Whole, V4l2Places
<1>4. V4l2Held'
  BY V4l2ConstantTypes DEF V4l2!SetupFails, V4l2!mainKeeps, V4l2!NextFd, V4l2IInv, V4l2Held, V4l2Storing, V4l2AtRest, V4l2Places
<1> QED BY <1>1, <1>2, <1>3, <1>4 DEF V4l2IInv

LEMMA V4l2V4lOpen1 == ASSUME V4l2IInv, V4l2!V4lOpen PROVE V4l2IInv'
<1>1. V4l2Places'
  BY V4l2ConstantTypes DEF V4l2!V4lOpen, V4l2!mainKeeps, V4l2!NextFd, V4l2IInv, V4l2Places, V4l2Storing
<1>2. V4l2Counts'
  BY V4l2ConstantTypes DEF V4l2!V4lOpen, V4l2!mainKeeps, V4l2!NextFd, V4l2IInv, V4l2Counts, V4l2Storing, V4l2Places
<1>3. V4l2Pictures'
  BY V4l2ConstantTypes DEF V4l2!V4lOpen, V4l2!mainKeeps, V4l2!NextFd, V4l2IInv, V4l2Pictures, V4l2Storing, V4l2Counts, V4l2Images, V4l2Whole, V4l2Places
<1>4. V4l2Held'
  <2>1. /\ v4l2_main = "v4l_open" /\ v4l2_main' = "create" /\ past.opens < V4l2Opens /\ thread' = "ended"
        /\ fd' = past.opens /\ mapped' = TRUE
        /\ world' = [world EXCEPT !.files = @ \cup {past.opens}, !.streams = past.opens]
        /\ past' = [past EXCEPT !.left = @ \/ fd \in world.files, !.opens = @ + 1, !.early = FALSE]
    BY DEF V4l2!V4lOpen, V4l2!mainKeeps, V4l2!NextFd, V4l2IInv, V4l2Places
  <2>2. /\ DOMAIN past' = DOMAIN past /\ past'.opens = past.opens + 1 /\ ~past'.early
        /\ past'.left <=> past.left \/ fd \in world.files
    BY <2>1 DEF V4l2IInv, V4l2Held
  <2>3. DOMAIN world' = DOMAIN world /\ world'.files = world.files \cup {past.opens} /\ world'.streams = past.opens
    BY <2>1 DEF V4l2IInv, V4l2Held
  <2>4. ~past'.left => world'.files = {past.opens}
    BY <2>2, <2>3 DEF V4l2IInv, V4l2Held
  <2> QED BY <2>1, <2>2, <2>3, <2>4, V4l2ConstantTypes DEF V4l2IInv, V4l2Held, V4l2AtRest
<1> QED BY <1>1, <1>2, <1>3, <1>4 DEF V4l2IInv

LEMMA V4l2Create1 == ASSUME V4l2IInv, V4l2!Create PROVE V4l2IInv'
<1>1. V4l2Places'
  BY V4l2ConstantTypes DEF V4l2!Create, V4l2IInv, V4l2Places, V4l2Storing
<1>2. V4l2Counts'
  BY V4l2ConstantTypes DEF V4l2!Create, V4l2IInv, V4l2Counts, V4l2Storing, V4l2Places
<1>3. V4l2Pictures'
  BY V4l2ConstantTypes DEF V4l2!Create, V4l2IInv, V4l2Pictures, V4l2Storing, V4l2Counts, V4l2Images, V4l2Whole, V4l2Places
<1>4. V4l2Held'
  BY V4l2ConstantTypes DEF V4l2!Create, V4l2IInv, V4l2Held, V4l2Storing, V4l2AtRest, V4l2Places
<1> QED BY <1>1, <1>2, <1>3, <1>4 DEF V4l2IInv

LEMMA V4l2Run1 == ASSUME V4l2IInv, V4l2!Run PROVE V4l2IInv'
<1>1. V4l2Places'
  BY V4l2ConstantTypes DEF V4l2!Run, V4l2!mainKeeps, V4l2IInv, V4l2Places, V4l2Storing
<1>2. V4l2Counts'
  BY V4l2ConstantTypes DEF V4l2!Run, V4l2!mainKeeps, V4l2IInv, V4l2Counts, V4l2Storing, V4l2Places
<1>3. V4l2Pictures'
  BY V4l2ConstantTypes DEF V4l2!Run, V4l2!mainKeeps, V4l2IInv, V4l2Pictures, V4l2Storing, V4l2Counts, V4l2Images, V4l2Whole, V4l2Places
<1>4. V4l2Held'
  BY V4l2ConstantTypes DEF V4l2!Run, V4l2!mainKeeps, V4l2IInv, V4l2Held, V4l2Storing, V4l2AtRest, V4l2Places
<1> QED BY <1>1, <1>2, <1>3, <1>4 DEF V4l2IInv

LEMMA V4l2GetImage1 == ASSUME V4l2IInv, V4l2!GetImage PROVE V4l2IInv'
<1>1. V4l2Places'
  BY V4l2ConstantTypes DEF V4l2!GetImage, V4l2!mainKeeps, V4l2IInv, V4l2Places, V4l2Storing
<1>2. V4l2Counts'
  BY V4l2ConstantTypes DEF V4l2!GetImage, V4l2!mainKeeps, V4l2IInv, V4l2Counts, V4l2Storing, V4l2Places
<1>3. V4l2Pictures'
  BY V4l2ConstantTypes DEF V4l2!GetImage, V4l2!mainKeeps, V4l2IInv, V4l2Pictures, V4l2Storing, V4l2Counts, V4l2Images, V4l2Whole, V4l2Places
<1>4. V4l2Held'
  BY V4l2ConstantTypes DEF V4l2!GetImage, V4l2!mainKeeps, V4l2IInv, V4l2Held, V4l2Storing, V4l2AtRest, V4l2Places
<1> QED BY <1>1, <1>2, <1>3, <1>4 DEF V4l2IInv

LEMMA V4l2Plug1 == ASSUME V4l2IInv, V4l2!Plug PROVE V4l2IInv'
<1>1. V4l2Places'
  BY V4l2ConstantTypes DEF V4l2!Plug, V4l2IInv, V4l2Places, V4l2Storing
<1>2. V4l2Counts'
  BY V4l2ConstantTypes DEF V4l2!Plug, V4l2IInv, V4l2Counts, V4l2Storing, V4l2Places
<1>3. V4l2Pictures'
  BY V4l2ConstantTypes DEF V4l2!Plug, V4l2IInv, V4l2Pictures, V4l2Storing, V4l2Counts, V4l2Images, V4l2Whole, V4l2Places
<1>4. V4l2Held'
  BY V4l2ConstantTypes DEF V4l2!Plug, V4l2IInv, V4l2Held, V4l2Storing, V4l2AtRest, V4l2Places
<1> QED BY <1>1, <1>2, <1>3, <1>4 DEF V4l2IInv

LEMMA V4l2Step1 == ASSUME V4l2IInv, [V4l2!Next]_(V4l2!state) PROVE V4l2IInv'
<1>1. CASE UNCHANGED V4l2!state
  <2>1. V4l2Places' /\ V4l2Counts'
    BY <1>1 DEF V4l2!state, V4l2IInv, V4l2Places, V4l2Counts
  <2>2. V4l2Pictures' /\ V4l2Held'
    BY <1>1 DEF V4l2!state, V4l2IInv, V4l2Pictures, V4l2Held, V4l2Whole
  <2> QED BY <2>1, <2>2 DEF V4l2IInv
<1>2. CASE V4l2!Next
  <2>1. CASE V4l2!ThreadStep
    BY <2>1, V4l2Loop1, V4l2Select1, V4l2ReadFrame1, V4l2StoreFrame1, V4l2Quit1 DEF V4l2!ThreadStep
  <2>2. CASE V4l2!MainStep
    BY <2>2, V4l2DummyFrame1, V4l2Stop1, V4l2Joined1, V4l2V4lClose1, V4l2OpenFails1, V4l2SetupFails1, V4l2V4lOpen1,
       V4l2Create1, V4l2Run1 DEF V4l2!MainStep
  <2>3. CASE V4l2!Open \/ V4l2!Close \/ V4l2!GetImage \/ V4l2!Plug
    BY <2>3, V4l2Open1, V4l2Close1, V4l2GetImage1, V4l2Plug1
  <2> QED BY <1>2, <2>1, <2>2, <2>3 DEF V4l2!Next
<1> QED BY <1>1, <1>2

\* An image whose halves are of one picture, and its length, is that picture's.
LEMMA V4l2WholeImage ==
  ASSUME NEW i \in V4l2Images, V4l2Whole(i)
  PROVE  i \in {[h |-> <<f, f>>, len |-> f] : f \in V4l2!Blank..V4l2Frames}
<1>1. PICK h \in (V4l2!Blank..V4l2Frames) \X (V4l2!Blank..V4l2Frames), f \in V4l2!Blank..V4l2Frames :
        i = [h |-> h, len |-> f]
  BY DEF V4l2Images
<1>2. h = <<h[1], h[2]>> /\ h[1] = f /\ h[2] = f
  BY <1>1 DEF V4l2Whole
<1> QED BY <1>1, <1>2

LEMMA V4l2Keeps == V4l2IInv => /\ V4l2!TypeOK /\ V4l2!WholeImage /\ V4l2!ThreadHasCamera
                               /\ V4l2!RunsWhenOpened /\ V4l2!FilesAreClosed
<1> SUFFICES ASSUME V4l2IInv PROVE /\ V4l2!TypeOK /\ V4l2!WholeImage /\ V4l2!ThreadHasCamera
                                   /\ V4l2!RunsWhenOpened /\ V4l2!FilesAreClosed
  OBVIOUS
<1>1. V4l2!TypeOK
  BY V4l2ConstantTypes DEF V4l2!TypeOK, V4l2IInv, V4l2Places, V4l2Counts, V4l2Held, V4l2Storing
<1>2. V4l2!WholeImage
  BY V4l2WholeImage DEF V4l2!WholeImage, V4l2IInv, V4l2Pictures
<1>3. V4l2!ThreadHasCamera
  BY DEF V4l2!ThreadHasCamera, V4l2IInv, V4l2Held
<1>4. V4l2!RunsWhenOpened
  BY DEF V4l2!RunsWhenOpened, V4l2IInv, V4l2Held, V4l2AtRest
<1>5. V4l2!FilesAreClosed
  BY DEF V4l2!FilesAreClosed, V4l2IInv, V4l2Held, V4l2AtRest
<1> QED BY <1>1, <1>2, <1>3, <1>4, <1>5


\* To who uses the camera it is a source of pictures: the newest of them is the
\* one whose first half was stored last.
V4l2Newest == IF v4l2_frame = V4l2!Blank THEN V4l2!Dummy
              ELSE IF thread \in {"lock", "first"} THEN v4l2_frame - 1 ELSE v4l2_frame
V4l2Stutters == v4l2_mpeg_buffer'.h[1] = v4l2_mpeg_buffer.h[1] /\ v4l2_image'.h[1] = v4l2_image.h[1] /\ V4l2Newest' = V4l2Newest
V4l2Stores ==
  /\ V4l2Newest' \in V4l2Newest + 1 .. V4l2Frames /\ v4l2_mpeg_buffer'.h[1] \in {V4l2Newest', v4l2_mpeg_buffer.h[1]}
  /\ v4l2_image'.h[1] = v4l2_image.h[1]
V4l2Restarts ==
  /\ v4l2_mpeg_buffer'.h[1] \in {V4l2!Blank, V4l2!Dummy} /\ v4l2_image'.h[1] = v4l2_image.h[1] /\ V4l2Newest' = V4l2Newest
V4l2Gives ==
  /\ v4l2_image'.h[1] = v4l2_mpeg_buffer.h[1]
  /\ v4l2_mpeg_buffer'.h[1] = v4l2_mpeg_buffer.h[1] /\ V4l2Newest' = V4l2Newest

LEMMA V4l2SourceBegins == V4l2!Init => V4l2!Abstract!SourceInit
  BY DEF V4l2!Init, V4l2!NoPicture, V4l2!Abstract!SourceInit, V4l2!Blank, V4l2!Dummy, V4l2!Abstract!Blank, V4l2!Abstract!Dummy

LEMMA V4l2Maps ==
  ASSUME V4l2Stutters \/ V4l2Stores \/ V4l2Restarts \/ V4l2Gives
  PROVE  [V4l2!Abstract!SourceNext]_(V4l2!Abstract!source)
  BY DEF V4l2Newest, V4l2Stutters, V4l2Stores, V4l2Restarts, V4l2Gives, V4l2!Abstract!SourceNext, V4l2!Abstract!Store,
     V4l2!Abstract!Restart, V4l2!Abstract!GetImage, V4l2!Abstract!source, V4l2!Blank, V4l2!Dummy, V4l2!Abstract!Blank, V4l2!Abstract!Dummy


LEMMA V4l2ThreadMaps == ASSUME V4l2IInv, V4l2!ThreadStep PROVE V4l2Stutters \/ V4l2Stores
<1>1. CASE V4l2!Loop \/ V4l2!Select \/ V4l2!Quit
  BY <1>1 DEF V4l2!Loop, V4l2!Goes, V4l2!Select, V4l2!Quit, V4l2!threadKeeps, V4l2!threadStays, V4l2Stutters, V4l2Newest
<1>2. CASE V4l2!ReadFrame
  BY <1>2, V4l2ConstantTypes DEF V4l2!ReadFrame, V4l2!Dequeue, V4l2!ReadError, V4l2!threadKeeps, V4l2!threadStays,
     V4l2Stutters, V4l2Newest, V4l2IInv, V4l2Counts
<1>3. CASE V4l2!StoreFrame
  <2>1. v4l2_frame \in 0..V4l2Frames \cup {V4l2!Blank} /\ (thread \in V4l2Storing \cup {"lock"} => v4l2_frame \in 1..V4l2Frames)
    BY V4l2ConstantTypes DEF V4l2IInv, V4l2Counts
  <2>2. v4l2_frame' = v4l2_frame /\ v4l2_image' = v4l2_image
    BY <1>3 DEF V4l2!StoreFrame, V4l2!threadKeeps
  <2>3. DOMAIN v4l2_mpeg_buffer = {"h", "len"} /\ DOMAIN v4l2_mpeg_buffer.h = {1, 2}
    BY DEF V4l2IInv, V4l2Pictures, V4l2Images
  <2>4. CASE thread = "first"
    BY <1>3, <2>1, <2>2, <2>3, <2>4, V4l2ConstantTypes DEF V4l2!StoreFrame, V4l2!StoreLock, V4l2!StoreTo, V4l2!StoreLength,
       V4l2Stores, V4l2Newest, V4l2Storing
  <2>5. CASE thread # "first"
    BY <1>3, <2>1, <2>2, <2>3, <2>5, V4l2ConstantTypes DEF V4l2!StoreFrame, V4l2!StoreLock, V4l2!StoreTo, V4l2!StoreLength,
       V4l2Stutters, V4l2Newest, V4l2Storing
  <2> QED BY <2>4, <2>5
<1> QED BY <1>1, <1>2, <1>3 DEF V4l2!ThreadStep

LEMMA V4l2MainMaps ==
  ASSUME V4l2IInv, V4l2!MainStep \/ V4l2!Open \/ V4l2!Close \/ V4l2!GetImage \/ V4l2!Plug
  PROVE  V4l2Stutters \/ V4l2Restarts \/ V4l2Gives
<1>1. DOMAIN v4l2_mpeg_buffer = {"h", "len"} /\ DOMAIN v4l2_image = {"h", "len"} /\ DOMAIN v4l2_image.h = {1, 2}
  BY DEF V4l2IInv, V4l2Pictures, V4l2Images
<1>2. CASE V4l2!Open \/ V4l2!DummyFrame
  BY <1>1, <1>2 DEF V4l2!Open, V4l2!DummyFrame, V4l2!mainKeeps, V4l2Stutters, V4l2Restarts, V4l2Newest
<1>3. CASE V4l2!GetImage
  BY <1>1, <1>3 DEF V4l2!GetImage, V4l2!mainKeeps, V4l2Stutters, V4l2Gives, V4l2Newest
<1>4. CASE V4l2!Create
  BY <1>4 DEF V4l2!Create, V4l2IInv, V4l2Places, V4l2Stutters, V4l2Newest
<1>5. CASE V4l2!Stop \/ V4l2!Joined \/ V4l2!V4lClose \/ V4l2!Run
  BY <1>5 DEF V4l2!Stop, V4l2!Joined, V4l2!V4lClose, V4l2!Run, V4l2!mainKeeps, V4l2Stutters, V4l2Newest
<1>6. CASE V4l2!OpenFails \/ V4l2!SetupFails \/ V4l2!V4lOpen
  BY <1>6 DEF V4l2!OpenFails, V4l2!SetupFails, V4l2!V4lOpen, V4l2!mainKeeps, V4l2Stutters, V4l2Newest
<1>7. CASE V4l2!Close \/ V4l2!Plug
  BY <1>7 DEF V4l2!Close, V4l2!Plug, V4l2!mainKeeps, V4l2Stutters, V4l2Newest
<1> QED BY <1>2, <1>3, <1>4, <1>5, <1>6, <1>7 DEF V4l2!MainStep

LEMMA V4l2SourceStep ==
  ASSUME V4l2IInv, [V4l2!Next]_(V4l2!state)
  PROVE  [V4l2!Abstract!SourceNext]_(V4l2!Abstract!source)
<1>1. CASE UNCHANGED V4l2!state
  <2>1. V4l2Stutters
    BY <1>1 DEF V4l2!state, V4l2Stutters, V4l2Newest
  <2> QED BY <2>1, V4l2Maps
<1>2. CASE V4l2!Next
  BY <1>2, V4l2ThreadMaps, V4l2MainMaps, V4l2Maps DEF V4l2!Next
<1> QED BY <1>1, <1>2

-----------------------------------------------------------------------------
(* The camera of Windows.                                                  *)

DshowPlaces ==
  /\ dshow_main \in {"idle", "graph", "source", "config", "filters", "opened", "start", "stop", "release", "empty",
                     "get1", "get2"}
  /\ callback \in {"idle", "lock", "first", "second", "unlock"}
  /\ dshow_mpeg_mutex \in {"none", "main", "callback"}
  /\ DirectShow!TypeOK
DshowCounts ==
  /\ dshow_frames \in 0..DshowFrames
  /\ dshow_frame = IF dshow_frames = 0 THEN DirectShow!Blank ELSE dshow_frames
  /\ callback # "idle" => dshow_frames > 0
DshowPictures ==
  /\ {dshow_mpeg_buffer, dshow_image} \subseteq (DirectShow!Blank..DshowFrames) \X (DirectShow!Blank..DshowFrames)
  /\ dshow_mpeg_mutex # "callback" => dshow_mpeg_buffer[1] = dshow_mpeg_buffer[2]
  /\ callback \in {"second", "unlock"} => dshow_mpeg_buffer[1] = dshow_frame
  /\ callback = "unlock" => dshow_mpeg_buffer[2] = dshow_frame
  /\ dshow_main \notin {"get1", "get2"} => dshow_image[1] = dshow_image[2]
  /\ dshow_main = "get2" => dshow_image[1] = dshow_mpeg_buffer[1]
\* Without a failure each step finds the objects of the steps before it.
DshowObjects ==
  /\ bad # "none" => dshow_failed
  /\ ~dshow_failed =>
       /\ dshow_main \notin {"config", "filters", "empty"} /\ "sourcefilter" \in pointers => DirectShow!Released \subseteq live
       /\ dshow_main \in {"source", "config", "filters"} => {"pGraphBuilder", "pGraph", "pControl"} \subseteq live
       /\ dshow_main \in {"config", "filters"} => "sourcefilter" \in live
       /\ dshow_main = "filters" => "pSourceConfig" \in live
       /\ dshow_main \in {"opened", "start", "stop", "release"} => "sourcefilter" \in pointers
  /\ dshow_main \in {"release", "empty"} => ~runs /\ callback = "idle"
  /\ dshow_main = "empty" => live = {} /\ "sourcefilter" \notin pointers
  /\ dshow_main \in {"idle", "get1", "get2"} /\ ~dshow_failed /\ "sourcefilter" \notin pointers =>
       live = {} /\ ~runs /\ callback = "idle" /\ dshow_mpeg_buffer = DirectShow!Picture(DirectShow!Blank)
DshowIInv == DshowPlaces /\ DshowCounts /\ DshowPictures /\ DshowObjects

LEMMA DshowConstantTypes ==
  /\ DshowFrames \in Nat /\ DirectShow!Blank = -1 /\ DirectShow!Dummy = 0
  /\ DirectShow!Released = {"pGraphBuilder", "pGraph", "pControl", "samplegrabberfilter", "samplegrabber", "nullrenderer",
                            "sourcefilter", "pSourceConfig"}
<1>1. DOMAIN DirectShow!Graph = 1..3 /\ DOMAIN DirectShow!Filters = 1..3
  BY DEF DirectShow!Graph, DirectShow!Filters
<1>2. /\ DirectShow!ToSet(DirectShow!Graph) = {"pGraphBuilder", "pGraph", "pControl"}
      /\ DirectShow!ToSet(DirectShow!Filters) = {"samplegrabberfilter", "samplegrabber", "nullrenderer"}
  BY <1>1 DEF DirectShow!ToSet, DirectShow!Graph, DirectShow!Filters
<1> QED BY <1>2, DshowAssumption DEF DirectShow!DirectShowConstants, DirectShow!Blank, DirectShow!Dummy, DirectShow!Released

\* What is got of a list of objects is live; the others stay as they are.
LEMMA DshowGets ==
  ASSUME NEW n \in Nat, NEW objects \in [1..n -> DirectShow!Released], Len(objects) = n, NEW k \in 0..n,
         DirectShow!Got(objects, k), live \subseteq pointers, pointers \subseteq DirectShow!Released
  PROVE  /\ live' \subseteq pointers' /\ pointers' \subseteq DirectShow!Released
         /\ \A o \in live : (\A i \in 1..n : objects[i] # o) => o \in live'
         /\ \A o \in pointers : (\A i \in 1..n : objects[i] # o) => o \in pointers'
         /\ k = n => /\ live' = live \cup {objects[i] : i \in 1..n}
                     /\ pointers' = pointers \cup {objects[i] : i \in 1..n}
<1> DEFINE new == {objects[i] : i \in 1..k}
           none == IF k < Len(objects) THEN {objects[k + 1]} ELSE {}
<1>1. live' = (live \cup new) \ none /\ pointers' = (pointers \cup new) \ none
  BY DEF DirectShow!Got
<1>2. \A o \in new : \E i \in 1..n : o = objects[i]
  OBVIOUS
<1>3. \A o \in none : \E i \in 1..n : o = objects[i]
  OBVIOUS
<1>4. k = n => none = {} /\ new = {objects[i] : i \in 1..n}
  OBVIOUS
<1> HIDE DEF new, none
<1> QED BY <1>1, <1>2, <1>3, <1>4

LEMMA DshowBegins == DirectShow!Init => DshowIInv
  BY DshowConstantTypes DEF DirectShow!Init, DirectShow!Picture, DirectShow!TypeOK, DshowIInv, DshowPlaces, DshowCounts,
     DshowPictures, DshowObjects

LEMMA DshowOpenBegins1 == ASSUME DshowIInv, DirectShow!OpenBegins, bad = "none" PROVE DshowIInv'
<1>1. DshowPlaces'
  BY DshowConstantTypes DEF DirectShow!OpenBegins, DirectShow!Picture, DshowIInv, DshowPlaces, DirectShow!TypeOK
<1>2. DshowCounts'
  BY DshowConstantTypes DEF DirectShow!OpenBegins, DirectShow!Picture, DshowIInv, DshowCounts, DshowPlaces, DirectShow!TypeOK
<1>3. DshowPictures'
  BY DshowConstantTypes DEF DirectShow!OpenBegins, DirectShow!Picture, DshowIInv, DshowPictures, DshowPlaces, DirectShow!TypeOK, DshowCounts
<1>4. DshowObjects'
  BY DshowConstantTypes DEF DirectShow!OpenBegins, DirectShow!Picture, DshowIInv, DshowObjects, DshowPlaces, DirectShow!TypeOK
<1> QED BY <1>1, <1>2, <1>3, <1>4 DEF DshowIInv

LEMMA DshowOpenStops1 == ASSUME DshowIInv, DirectShow!OpenStops, bad = "none" PROVE DshowIInv'
<1>1. DshowPlaces'
  BY DshowConstantTypes DEF DirectShow!OpenStops, DirectShow!Call, DirectShow!callKeeps, DirectShow!Started, DshowIInv, DshowPlaces, DirectShow!TypeOK
<1>2. DshowCounts'
  BY DshowConstantTypes DEF DirectShow!OpenStops, DirectShow!Call, DirectShow!callKeeps, DirectShow!Started, DshowIInv, DshowCounts, DshowPlaces, DirectShow!TypeOK
<1>3. DshowPictures'
  BY DshowConstantTypes DEF DirectShow!OpenStops, DirectShow!Call, DirectShow!callKeeps, DirectShow!Started, DshowIInv, DshowPictures, DshowPlaces, DirectShow!TypeOK, DshowCounts
<1>4. DshowObjects'
  BY DshowConstantTypes DEF DirectShow!OpenStops, DirectShow!Call, DirectShow!callKeeps, DirectShow!Started, DshowIInv, DshowObjects, DshowPlaces, DirectShow!TypeOK, DirectShow!Picture
<1> QED BY <1>1, <1>2, <1>3, <1>4 DEF DshowIInv

LEMMA DshowOpenStarts1 == ASSUME DshowIInv, DirectShow!OpenStarts, bad = "none" PROVE DshowIInv'
<1>1. DshowPlaces'
  BY DshowConstantTypes DEF DirectShow!OpenStarts, DirectShow!Call, DirectShow!callKeeps, DirectShow!Started, DshowIInv, DshowPlaces, DirectShow!TypeOK
<1>2. DshowCounts'
  BY DshowConstantTypes DEF DirectShow!OpenStarts, DirectShow!Call, DirectShow!callKeeps, DirectShow!Started, DshowIInv, DshowCounts, DshowPlaces, DirectShow!TypeOK
<1>3. DshowPictures'
  BY DshowConstantTypes DEF DirectShow!OpenStarts, DirectShow!Call, DirectShow!callKeeps, DirectShow!Started, DshowIInv, DshowPictures, DshowPlaces, DirectShow!TypeOK, DshowCounts
<1>4. DshowObjects'
  BY DshowConstantTypes DEF DirectShow!OpenStarts, DirectShow!Call, DirectShow!callKeeps, DirectShow!Started, DshowIInv, DshowObjects, DshowPlaces, DirectShow!TypeOK, DirectShow!Picture
<1> QED BY <1>1, <1>2, <1>3, <1>4 DEF DshowIInv

LEMMA DshowClose1 == ASSUME DshowIInv, DirectShow!Close, bad = "none" PROVE DshowIInv'
<1>1. DshowPlaces'
  BY DshowConstantTypes DEF DirectShow!Close, DirectShow!CloseBegins, DshowIInv, DshowPlaces, DirectShow!TypeOK
<1>2. DshowCounts'
  BY DshowConstantTypes DEF DirectShow!Close, DirectShow!CloseBegins, DshowIInv, DshowCounts, DshowPlaces, DirectShow!TypeOK
<1>3. DshowPictures'
  BY DshowConstantTypes DEF DirectShow!Close, DirectShow!CloseBegins, DshowIInv, DshowPictures, DshowPlaces, DirectShow!TypeOK, DshowCounts
<1>4. DshowObjects'
  BY DshowConstantTypes DEF DirectShow!Close, DirectShow!CloseBegins, DshowIInv, DshowObjects, DshowPlaces, DirectShow!TypeOK, DirectShow!Picture
<1> QED BY <1>1, <1>2, <1>3, <1>4 DEF DshowIInv

LEMMA DshowCloseStops1 == ASSUME DshowIInv, DirectShow!CloseStops, bad = "none" PROVE DshowIInv'
<1>1. DshowPlaces'
  BY DshowConstantTypes DEF DirectShow!CloseStops, DirectShow!StopsFor, DirectShow!Call, DirectShow!callKeeps, DirectShow!Started, DshowIInv, DshowPlaces, DirectShow!TypeOK
<1>2. DshowCounts'
  BY DshowConstantTypes DEF DirectShow!CloseStops, DirectShow!StopsFor, DirectShow!Call, DirectShow!callKeeps, DirectShow!Started, DshowIInv, DshowCounts, DshowPlaces, DirectShow!TypeOK
<1>3. DshowPictures'
  BY DshowConstantTypes DEF DirectShow!CloseStops, DirectShow!StopsFor, DirectShow!Call, DirectShow!callKeeps, DirectShow!Started, DshowIInv, DshowPictures, DshowPlaces, DirectShow!TypeOK, DshowCounts
<1>4. DshowObjects'
  BY DshowConstantTypes DEF DirectShow!CloseStops, DirectShow!StopsFor, DirectShow!Call, DirectShow!callKeeps, DirectShow!Started, DshowIInv, DshowObjects, DshowPlaces, DirectShow!TypeOK, DirectShow!Picture
<1> QED BY <1>1, <1>2, <1>3, <1>4 DEF DshowIInv

LEMMA DshowCloseReleases1 == ASSUME DshowIInv, DirectShow!CloseReleases, bad = "none" PROVE DshowIInv'
<1>1. DshowPlaces'
  BY DshowConstantTypes DEF DirectShow!CloseReleases, DirectShow!Releases, DirectShow!Forgets, DshowIInv, DshowPlaces, DirectShow!TypeOK
<1>2. DshowCounts'
  BY DshowConstantTypes DEF DirectShow!CloseReleases, DirectShow!Releases, DirectShow!Forgets, DshowIInv, DshowCounts, DshowPlaces, DirectShow!TypeOK
<1>3. DshowPictures'
  BY DshowConstantTypes DEF DirectShow!CloseReleases, DirectShow!Releases, DirectShow!Forgets, DshowIInv, DshowPictures, DshowPlaces, DirectShow!TypeOK, DshowCounts
<1>4. DshowObjects'
  BY DshowConstantTypes DEF DirectShow!CloseReleases, DirectShow!Releases, DirectShow!Forgets, DshowIInv, DshowObjects, DshowPlaces, DirectShow!TypeOK, DirectShow!Picture
<1> QED BY <1>1, <1>2, <1>3, <1>4 DEF DshowIInv

LEMMA DshowCloseEmpties1 == ASSUME DshowIInv, DirectShow!CloseEmpties, bad = "none" PROVE DshowIInv'
<1>1. DshowPlaces'
  BY DshowConstantTypes DEF DirectShow!CloseEmpties, DirectShow!Picture, DshowIInv, DshowPlaces, DirectShow!TypeOK
<1>2. DshowCounts'
  BY DshowConstantTypes DEF DirectShow!CloseEmpties, DirectShow!Picture, DshowIInv, DshowCounts, DshowPlaces, DirectShow!TypeOK
<1>3. DshowPictures'
  BY DshowConstantTypes DEF DirectShow!CloseEmpties, DirectShow!Picture, DshowIInv, DshowPictures, DshowPlaces, DirectShow!TypeOK, DshowCounts
<1>4. DshowObjects'
  BY DshowConstantTypes DEF DirectShow!CloseEmpties, DirectShow!Picture, DshowIInv, DshowObjects, DshowPlaces, DirectShow!TypeOK
<1> QED BY <1>1, <1>2, <1>3, <1>4 DEF DshowIInv

LEMMA DshowGetImage1 == ASSUME DshowIInv, DirectShow!GetImage, bad = "none" PROVE DshowIInv'
<1>1. DshowPlaces'
  BY DshowConstantTypes DEF DirectShow!GetImage, DshowIInv, DshowPlaces, DirectShow!TypeOK
<1>2. DshowCounts'
  BY DshowConstantTypes DEF DirectShow!GetImage, DshowIInv, DshowCounts, DshowPlaces, DirectShow!TypeOK
<1>3. DshowPictures'
  BY DshowConstantTypes DEF DirectShow!GetImage, DshowIInv, DshowPictures, DshowPlaces, DirectShow!TypeOK, DshowCounts
<1>4. DshowObjects'
  BY DshowConstantTypes DEF DirectShow!GetImage, DshowIInv, DshowObjects, DshowPlaces, DirectShow!TypeOK, DirectShow!Picture
<1> QED BY <1>1, <1>2, <1>3, <1>4 DEF DshowIInv

LEMMA DshowSampleCB1 == ASSUME DshowIInv, DirectShow!SampleCB, bad = "none" PROVE DshowIInv'
<1>1. DshowPlaces'
  BY DshowConstantTypes DEF DirectShow!SampleCB, DirectShow!StoreTo, DirectShow!TakeMutex, DirectShow!Capture, DshowIInv, DshowPlaces, DirectShow!TypeOK
<1>2. DshowCounts'
  BY DshowConstantTypes DEF DirectShow!SampleCB, DirectShow!StoreTo, DirectShow!TakeMutex, DirectShow!Capture, DshowIInv, DshowCounts, DshowPlaces, DirectShow!TypeOK
<1>3. DshowPictures'
  BY DshowConstantTypes DEF DirectShow!SampleCB, DirectShow!StoreTo, DirectShow!TakeMutex, DirectShow!Capture, DshowIInv, DshowPictures, DshowPlaces, DirectShow!TypeOK, DshowCounts
<1>4. DshowObjects'
  BY DshowConstantTypes DEF DirectShow!SampleCB, DirectShow!StoreTo, DirectShow!TakeMutex, DirectShow!Capture, DshowIInv, DshowObjects, DshowPlaces, DirectShow!TypeOK, DirectShow!Picture
<1> QED BY <1>1, <1>2, <1>3, <1>4 DEF DshowIInv

LEMMA DshowMakeGraph1 == ASSUME DshowIInv, DirectShow!MakeGraph, bad = "none" PROVE DshowIInv'
<1>1. live \subseteq pointers /\ pointers \subseteq DirectShow!Released
  BY DEF DshowIInv, DshowPlaces, DirectShow!TypeOK
<1>2. UNCHANGED <<callback, runs, dshow_mpeg_buffer, dshow_mpeg_mutex, dshow_frame, dshow_image, dshow_frames, bad>>
  BY DEF DirectShow!MakeGraph, DirectShow!initKeeps
<1>3. PICK k \in 0..3 : /\ DirectShow!Got(DirectShow!Graph, k) /\ dshow_main = "graph"
                         /\ dshow_failed' = (dshow_failed \/ k < 3) /\ dshow_main' = IF k = 3 THEN "source" ELSE "idle"
  BY DEF DirectShow!MakeGraph
<1>4. /\ DirectShow!Graph \in [1..3 -> DirectShow!Released] /\ Len(DirectShow!Graph) = 3
      /\ {DirectShow!Graph[i] : i \in 1..3} = {"pGraphBuilder", "pGraph", "pControl"}
      /\ \A i \in 1..3 : DirectShow!Graph[i] \in {"pGraphBuilder", "pGraph", "pControl"}
  BY DshowConstantTypes DEF DirectShow!Graph
<1>5. /\ live' \subseteq pointers' /\ pointers' \subseteq DirectShow!Released
      /\ k < 3 => dshow_failed' /\ dshow_main' = "idle"
      /\ k = 3 => /\ dshow_failed' <=> dshow_failed
                  /\ dshow_main' = "source"
                  /\ live' = live \cup {"pGraphBuilder", "pGraph", "pControl"}
                  /\ pointers' = pointers \cup {"pGraphBuilder", "pGraph", "pControl"}
  <2> DEFINE objects == DirectShow!Graph
             n == 3
  <2>1. n \in Nat /\ k \in 0..n /\ objects \in [1..n -> DirectShow!Released] /\ Len(objects) = n /\ DirectShow!Got(objects, k)
    BY <1>3, <1>4
  <2>2. {objects[i] : i \in 1..n} = {"pGraphBuilder", "pGraph", "pControl"} /\ n = 3
    BY <1>4
  <2> HIDE DEF objects, n
  <2>3. /\ live' \subseteq pointers' /\ pointers' \subseteq DirectShow!Released
        /\ k = n => /\ live' = live \cup {objects[i] : i \in 1..n}
                    /\ pointers' = pointers \cup {objects[i] : i \in 1..n}
    BY <1>1, <2>1, DshowGets
  <2>4. (k < 3 => k # 3) /\ (k = 3 => ~(k < 3))
    OBVIOUS
  <2> DEFINE less == k < 3
  <2>5. dshow_failed' = (dshow_failed \/ less) /\ dshow_main' = IF k = 3 THEN "source" ELSE "idle"
    BY <1>3
  <2>6. (less => k # 3) /\ (k = 3 => ~less)
    BY <2>4
  <2> HIDE DEF less
  <2>7. less => dshow_failed' /\ dshow_main' = "idle"
    BY <2>5, <2>6, Zenon
  <2>8. k = 3 => (dshow_failed' <=> dshow_failed) /\ dshow_main' = "source"
    BY <2>5, <2>6, Zenon
  <2> QED BY <2>2, <2>3, <2>7, <2>8 DEF less
<1>6. DshowPlaces'
  BY <1>2, <1>3, <1>5, DshowConstantTypes DEF DshowIInv, DshowPlaces, DirectShow!TypeOK
<1>7. DshowCounts'
  BY <1>2, <1>3, <1>5, DshowConstantTypes DEF DshowIInv, DshowCounts, DshowPlaces
<1>8. DshowPictures'
  BY <1>2, <1>3, <1>5, DshowConstantTypes DEF DshowIInv, DshowPictures, DshowPlaces, DshowCounts
<1>9. DshowObjects'
  BY <1>2, <1>3, <1>5, DshowConstantTypes DEF DshowIInv, DshowObjects, DshowPlaces, DirectShow!TypeOK, DirectShow!Picture
<1> QED BY <1>6, <1>7, <1>8, <1>9 DEF DshowIInv

LEMMA DshowFindSource1 == ASSUME DshowIInv, DirectShow!FindSource, bad = "none" PROVE DshowIInv'
<1>1. live \subseteq pointers /\ pointers \subseteq DirectShow!Released
  BY DEF DshowIInv, DshowPlaces, DirectShow!TypeOK
<1>2. UNCHANGED <<callback, runs, dshow_mpeg_buffer, dshow_mpeg_mutex, dshow_frame, dshow_image, dshow_frames, bad>>
  BY DEF DirectShow!FindSource, DirectShow!initKeeps
<1>3. dshow_main = "source"
  BY DEF DirectShow!FindSource
<1>4. \/ /\ live' = live /\ pointers' = pointers
         /\ \/ "sourcefilter" \in pointers /\ dshow_main' = "opened" /\ dshow_failed' = dshow_failed
            \/ dshow_main' = "idle" /\ dshow_failed' = TRUE
      \/ /\ live' = live \cup {"sourcefilter"} /\ pointers' = pointers \cup {"sourcefilter"}
         /\ dshow_main' = "config" /\ dshow_failed' = dshow_failed
  <2> DEFINE objects == <<"sourcefilter">>
  <2>1. /\ objects \in [1..1 -> DirectShow!Released] /\ Len(objects) = 1 /\ 1 \in Nat /\ 1 \in 0..1
        /\ {objects[i] : i \in 1..1} = {"sourcefilter"}
    BY DshowConstantTypes
  <2>2. \/ /\ live' = live /\ pointers' = pointers
           /\ \/ "sourcefilter" \in pointers /\ dshow_main' = "opened" /\ dshow_failed' = dshow_failed
              \/ dshow_main' = "idle" /\ dshow_failed' = TRUE
        \/ DirectShow!Got(objects, 1) /\ dshow_main' = "config" /\ dshow_failed' = dshow_failed
    BY DEF DirectShow!FindSource
  <2> HIDE DEF objects
  <2>3. CASE DirectShow!Got(objects, 1)
    <3>1. /\ live' = live \cup {objects[i] : i \in 1..1}
          /\ pointers' = pointers \cup {objects[i] : i \in 1..1}
      BY <1>1, <2>1, <2>3, DshowGets
    <3> QED BY <2>1, <2>2, <3>1
  <2> QED BY <2>1, <2>2, <2>3
<1>5. DshowPlaces'
  BY <1>1, <1>2, <1>3, <1>4, DshowConstantTypes DEF DshowIInv, DshowPlaces, DirectShow!TypeOK
<1>6. DshowCounts'
  BY <1>1, <1>2, <1>3, <1>4, DshowConstantTypes DEF DshowIInv, DshowCounts, DshowPlaces
<1>7. DshowPictures'
  BY <1>1, <1>2, <1>3, <1>4, DshowConstantTypes DEF DshowIInv, DshowPictures, DshowPlaces, DshowCounts
<1>8. DshowObjects'
  BY <1>1, <1>2, <1>3, <1>4, DshowConstantTypes DEF DshowIInv, DshowObjects, DshowPlaces, DirectShow!TypeOK, DirectShow!Picture
<1> QED BY <1>5, <1>6, <1>7, <1>8 DEF DshowIInv

LEMMA DshowFindConfig1 == ASSUME DshowIInv, DirectShow!FindConfig, bad = "none" PROVE DshowIInv'
<1>1. live \subseteq pointers /\ pointers \subseteq DirectShow!Released
  BY DEF DshowIInv, DshowPlaces, DirectShow!TypeOK
<1>2. UNCHANGED <<callback, runs, dshow_mpeg_buffer, dshow_mpeg_mutex, dshow_frame, dshow_image, dshow_frames, bad>>
  BY DEF DirectShow!FindConfig, DirectShow!initKeeps
<1>3. dshow_main = "config" /\ dshow_main' = "filters"
  BY DEF DirectShow!FindConfig
<1>4. /\ live' \subseteq pointers' /\ pointers' \subseteq DirectShow!Released
      /\ \/ dshow_failed' = TRUE
         \/ /\ dshow_failed' <=> dshow_failed
            /\ live' = live \cup {"pSourceConfig"} /\ pointers' = pointers \cup {"pSourceConfig"}
  <2> DEFINE objects == <<"pSourceConfig">>
  <2>1. /\ objects \in [1..1 -> DirectShow!Released] /\ Len(objects) = 1 /\ 1 \in Nat /\ 1 \in 0..1
        /\ {objects[i] : i \in 1..1} = {"pSourceConfig"}
    BY DshowConstantTypes
  <2>2. PICK k \in 0..1 : DirectShow!Got(objects, k) /\ dshow_failed' = (dshow_failed \/ k = 0)
    BY DEF DirectShow!FindConfig
  <2> HIDE DEF objects
  <2>3. live' \subseteq pointers' /\ pointers' \subseteq DirectShow!Released
    BY <1>1, <2>1, <2>2, DshowGets
  <2>4. k = 1 => /\ live' = live \cup {objects[i] : i \in 1..1}
                 /\ pointers' = pointers \cup {objects[i] : i \in 1..1}
    BY <1>1, <2>1, <2>2, DshowGets
  <2> DEFINE none == k = 0
  <2>5. none \/ (~none /\ k = 1)
    OBVIOUS
  <2>6. dshow_failed' = (dshow_failed \/ none)
    BY <2>2
  <2> HIDE DEF none
  <2>7. CASE none
    <3>1. dshow_failed' = TRUE
      BY <2>6, <2>7, Zenon
    <3> QED BY <2>3, <3>1
  <2>8. CASE ~none
    <3>1. dshow_failed' <=> dshow_failed
      BY <2>6, <2>8, Zenon
    <3> QED BY <2>1, <2>3, <2>4, <2>5, <2>8, <3>1
  <2> QED BY <2>7, <2>8
<1>5. DshowPlaces'
  BY <1>1, <1>2, <1>3, <1>4, DshowConstantTypes DEF DshowIInv, DshowPlaces, DirectShow!TypeOK
<1>6. DshowCounts'
  BY <1>1, <1>2, <1>3, <1>4, DshowConstantTypes DEF DshowIInv, DshowCounts, DshowPlaces
<1>7. DshowPictures'
  BY <1>1, <1>2, <1>3, <1>4, DshowConstantTypes DEF DshowIInv, DshowPictures, DshowPlaces, DshowCounts
<1>8. DshowObjects'
  BY <1>1, <1>2, <1>3, <1>4, DshowConstantTypes DEF DshowIInv, DshowObjects, DshowPlaces, DirectShow!TypeOK, DirectShow!Picture
<1> QED BY <1>5, <1>6, <1>7, <1>8 DEF DshowIInv

LEMMA DshowMakeFilters1 == ASSUME DshowIInv, DirectShow!MakeFilters, bad = "none" PROVE DshowIInv'
<1>1. live \subseteq pointers /\ pointers \subseteq DirectShow!Released
  BY DEF DshowIInv, DshowPlaces, DirectShow!TypeOK
<1>2. UNCHANGED <<callback, runs, dshow_mpeg_buffer, dshow_mpeg_mutex, dshow_frame, dshow_image, dshow_frames, bad>>
  BY DEF DirectShow!MakeFilters, DirectShow!initKeeps
<1>3. dshow_main = "filters" /\ dshow_main' = "opened"
  BY DEF DirectShow!MakeFilters
<1>4. /\ live' \subseteq pointers' /\ pointers' \subseteq DirectShow!Released
      /\ \/ dshow_failed' = TRUE
         \/ /\ dshow_failed' = dshow_failed
            /\ live' = live \cup {"samplegrabberfilter", "samplegrabber", "nullrenderer"}
            /\ pointers' = pointers \cup {"samplegrabberfilter", "samplegrabber", "nullrenderer"}
  <2> DEFINE objects == DirectShow!Filters
             n == 3
  <2>1. /\ n \in Nat /\ n \in 0..n /\ n = 3
        /\ objects \in [1..n -> DirectShow!Released] /\ Len(objects) = n
    BY DshowConstantTypes DEF DirectShow!Filters
  <2>2. {objects[i] : i \in 1..n} = {"samplegrabberfilter", "samplegrabber", "nullrenderer"}
    BY DEF DirectShow!Filters
  <2>3. \/ DirectShow!Got(objects, n) /\ dshow_failed' = dshow_failed
        \/ (\E k \in 0..n : DirectShow!Got(objects, k)) /\ dshow_failed' = TRUE
    BY DEF DirectShow!MakeFilters
  <2> HIDE DEF objects, n
  <2>4. CASE DirectShow!Got(objects, n) /\ dshow_failed' = dshow_failed
    <3>1. /\ live' \subseteq pointers' /\ pointers' \subseteq DirectShow!Released
          /\ live' = live \cup {objects[i] : i \in 1..n}
          /\ pointers' = pointers \cup {objects[i] : i \in 1..n}
      BY <1>1, <2>1, <2>4, DshowGets
    <3> QED BY <2>2, <2>4, <3>1
  <2>5. CASE (\E k \in 0..n : DirectShow!Got(objects, k)) /\ dshow_failed' = TRUE
    <3>1. PICK k \in 0..n : DirectShow!Got(objects, k)
      BY <2>5
    <3>2. live' \subseteq pointers' /\ pointers' \subseteq DirectShow!Released
      BY <1>1, <2>1, <3>1, DshowGets
    <3> QED BY <2>5, <3>2
  <2> QED BY <2>3, <2>4, <2>5
<1>5. DshowPlaces'
  BY <1>1, <1>2, <1>3, <1>4, DshowConstantTypes DEF DshowIInv, DshowPlaces, DirectShow!TypeOK
<1>6. DshowCounts'
  BY <1>1, <1>2, <1>3, <1>4, DshowConstantTypes DEF DshowIInv, DshowCounts, DshowPlaces
<1>7. DshowPictures'
  BY <1>1, <1>2, <1>3, <1>4, DshowConstantTypes DEF DshowIInv, DshowPictures, DshowPlaces, DshowCounts
<1>8. DshowObjects'
  BY <1>1, <1>2, <1>3, <1>4, DshowConstantTypes DEF DshowIInv, DshowObjects, DshowPlaces, DirectShow!TypeOK, DirectShow!Picture
<1> QED BY <1>5, <1>6, <1>7, <1>8 DEF DshowIInv

LEMMA DshowStep1 == ASSUME DshowIInv, [DirectShow!Next]_(DirectShow!vars) PROVE DshowIInv'
<1>1. CASE UNCHANGED DirectShow!vars
  <2>1. DshowPlaces' /\ DshowCounts'
    BY <1>1 DEF DirectShow!vars, DshowIInv, DshowPlaces, DshowCounts, DirectShow!TypeOK
  <2>2. DshowPictures' /\ DshowObjects'
    BY <1>1 DEF DirectShow!vars, DshowIInv, DshowPictures, DshowObjects, DirectShow!Picture
  <2> QED BY <2>1, <2>2 DEF DshowIInv
<1>2. CASE bad = "none" /\ DirectShow!Opening
  BY <1>2, DshowOpenBegins1, DshowMakeGraph1, DshowFindSource1, DshowFindConfig1, DshowMakeFilters1, DshowOpenStops1,
     DshowOpenStarts1 DEF DirectShow!Opening
<1>3. CASE bad = "none" /\ (DirectShow!Close \/ DirectShow!Closing)
  BY <1>3, DshowClose1, DshowCloseStops1, DshowCloseReleases1, DshowCloseEmpties1 DEF DirectShow!Closing
<1>4. CASE bad = "none" /\ (DirectShow!GetImage \/ DirectShow!SampleCB)
  BY <1>4, DshowGetImage1, DshowSampleCB1
<1> QED BY <1>1, <1>2, <1>3, <1>4 DEF DirectShow!Next, DirectShow!Over

LEMMA DshowKeeps == DshowIInv => /\ DirectShow!TypeOK /\ DirectShow!WholeImage /\ DirectShow!BadOnlyAfterFailure
                                 /\ DirectShow!ClosedHasNothing
<1> SUFFICES ASSUME DshowIInv
             PROVE  /\ DirectShow!TypeOK /\ DirectShow!WholeImage /\ DirectShow!BadOnlyAfterFailure
                    /\ DirectShow!ClosedHasNothing
  OBVIOUS
<1>1. DirectShow!TypeOK /\ DirectShow!WholeImage
  BY DEF DirectShow!WholeImage, DshowIInv, DshowPlaces, DshowPictures
<1>2. DirectShow!BadOnlyAfterFailure
  BY DEF DirectShow!BadOnlyAfterFailure, DshowIInv, DshowObjects
<1>3. DirectShow!ClosedHasNothing
  BY DEF DirectShow!ClosedHasNothing, DshowIInv, DshowObjects
<1> QED BY <1>1, <1>2, <1>3
\* To who uses the camera it is a source of pictures, as that of Linux is.
DshowNewest == IF dshow_frame = DirectShow!Blank THEN DirectShow!Dummy
               ELSE IF callback \in {"lock", "first"} THEN dshow_frame - 1 ELSE dshow_frame
DshowStutters ==
  dshow_mpeg_buffer'[1] = dshow_mpeg_buffer[1] /\ dshow_image'[1] = dshow_image[1] /\ DshowNewest' = DshowNewest
DshowStores ==
  /\ DshowNewest' \in DshowNewest + 1 .. DshowFrames /\ dshow_mpeg_buffer'[1] \in {DshowNewest', dshow_mpeg_buffer[1]}
  /\ dshow_image'[1] = dshow_image[1]
DshowRestarts ==
  /\ dshow_mpeg_buffer'[1] \in {DirectShow!Blank, DirectShow!Dummy}
  /\ dshow_image'[1] = dshow_image[1] /\ DshowNewest' = DshowNewest
DshowGives ==
  /\ dshow_image'[1] = dshow_mpeg_buffer[1]
  /\ dshow_mpeg_buffer'[1] = dshow_mpeg_buffer[1] /\ DshowNewest' = DshowNewest

LEMMA DshowSourceBegins == DirectShow!Init => DirectShow!Abstract!SourceInit
  BY DEF DirectShow!Init, DirectShow!Picture, DirectShow!Abstract!SourceInit, DirectShow!Blank, DirectShow!Dummy,
     DirectShow!Abstract!Blank, DirectShow!Abstract!Dummy

LEMMA DshowMaps ==
  ASSUME DshowStutters \/ DshowStores \/ DshowRestarts \/ DshowGives
  PROVE  [DirectShow!Abstract!SourceNext]_(DirectShow!Abstract!source)
  BY DEF DshowNewest, DshowStutters, DshowStores, DshowRestarts, DshowGives, DirectShow!Abstract!SourceNext,
     DirectShow!Abstract!Store, DirectShow!Abstract!Restart, DirectShow!Abstract!GetImage, DirectShow!Abstract!source,
     DirectShow!Blank, DirectShow!Dummy, DirectShow!Abstract!Blank, DirectShow!Abstract!Dummy

LEMMA DshowSourceStep ==
  ASSUME DshowIInv, [DirectShow!Next]_(DirectShow!vars)
  PROVE  [DirectShow!Abstract!SourceNext]_(DirectShow!Abstract!source)
<1>1. /\ DOMAIN dshow_mpeg_buffer = {1, 2} /\ DOMAIN dshow_image = {1, 2}
      /\ dshow_frame \in 0..DshowFrames \cup {DirectShow!Blank} /\ (callback # "idle" => dshow_frame \in 1..DshowFrames)
  BY DshowConstantTypes DEF DshowIInv, DshowPictures, DshowCounts
<1>2. CASE UNCHANGED DirectShow!vars
  <2>1. DshowStutters
    BY <1>2 DEF DirectShow!vars, DshowStutters, DshowNewest
  <2> QED BY <2>1, DshowMaps
<1>3. CASE DirectShow!SampleCB
  <2>1. dshow_image' = dshow_image
    BY <1>3 DEF DirectShow!SampleCB
  <2>2. CASE callback = "idle"
    <3>1. DshowStutters
      BY <1>3, <2>1, <2>2, DshowConstantTypes DEF DirectShow!SampleCB, DirectShow!Capture, DshowStutters, DshowNewest,
         DshowIInv, DshowCounts
    <3> QED BY <3>1, DshowMaps
  <2>3. CASE callback = "first"
    <3>1. DshowStores
      BY <1>1, <1>3, <2>1, <2>3, DshowConstantTypes DEF DirectShow!SampleCB, DirectShow!StoreTo, DshowStores, DshowNewest
    <3> QED BY <3>1, DshowMaps
  <2>4. CASE callback \notin {"idle", "first"}
    <3>1. DshowStutters
      BY <1>1, <1>3, <2>1, <2>4, DshowConstantTypes DEF DirectShow!SampleCB, DirectShow!StoreTo, DirectShow!TakeMutex,
         DshowStutters, DshowNewest
    <3> QED BY <3>1, DshowMaps
  <2> QED BY <2>2, <2>3, <2>4
<1>4. CASE DirectShow!GetImage
  <2>1. DshowStutters \/ DshowGives
    BY <1>1, <1>4 DEF DirectShow!GetImage, DshowStutters, DshowGives, DshowNewest
  <2> QED BY <2>1, DshowMaps
<1>5. CASE DirectShow!OpenBegins \/ DirectShow!CloseEmpties
  <2>1. DshowRestarts
    BY <1>5 DEF DirectShow!OpenBegins, DirectShow!CloseEmpties, DirectShow!Picture, DshowRestarts, DshowNewest
  <2> QED BY <2>1, DshowMaps
<1>6. CASE DirectShow!MakeGraph \/ DirectShow!FindSource \/ DirectShow!FindConfig \/ DirectShow!MakeFilters
  <2>1. DshowStutters
    BY <1>6 DEF DirectShow!MakeGraph, DirectShow!FindSource, DirectShow!FindConfig, DirectShow!MakeFilters,
       DirectShow!initKeeps, DshowStutters, DshowNewest
  <2> QED BY <2>1, DshowMaps
<1>7. CASE DirectShow!OpenStops \/ DirectShow!OpenStarts \/ DirectShow!Close \/ DirectShow!CloseStops \/ DirectShow!CloseReleases
  <2>1. DshowStutters
    BY <1>7 DEF DirectShow!OpenStops, DirectShow!OpenStarts, DirectShow!Close, DirectShow!CloseStops, DirectShow!CloseReleases,
       DirectShow!callKeeps, DshowStutters, DshowNewest
  <2> QED BY <2>1, DshowMaps
<1> QED BY <1>2, <1>3, <1>4, <1>5, <1>6, <1>7 DEF DirectShow!Next, DirectShow!Over, DirectShow!Opening, DirectShow!Closing


-----------------------------------------------------------------------------
(* The parts put together: a component runs in its own part, where no other *)
(* touches what it has.                                                     *)

LEMMA RunsAlone ==
  ASSUME [Next]_vars
  PROVE  /\ part' = part
         /\ [Pipe!Next]_(Pipe!vars)
         /\ part = "packet" => [Packet!Next]_(Packet!vars)
         /\ part = "ports" => [Ports2!Next]_(Ports2!vars)
         /\ part = "port" => [Port1!Next]_(Port1!vars)
         /\ part = "interrupts" => [Irq!Next]_(Irq!vars)
         /\ [EyeToy!Next]_(EyeToy!vars) /\ [Camera!Next]_(Camera!vars)
         /\ [V4l2!Next]_(V4l2!state) /\ [DirectShow!Next]_(DirectShow!vars)
<1> USE DEF vars, pipeVars, Pipe!vars, Pipe!device, sharedVars, Packet!vars, Packet!core, Packet!driver,
        hubVars, Ports2!vars, Ports2!driver, Port1!vars, Port1!driver, interruptsVars, Irq!vars, Irq!registers,
        eyetoyVars, EyeToy!vars, EyeToy!source, EyeToy!device, EyeToy!driver, regsVars, Camera!vars,
        v4l2Vars, V4l2!state, dshowVars, DirectShow!vars
<1>1. CASE UNCHANGED vars
  BY <1>1
<1>2. CASE PipeStep
  BY <1>2 DEF PipeStep
<1>3. CASE Ports2Step \/ Port1Step \/ IrqStep
  BY <1>3 DEF Ports2Step, Port1Step, IrqStep
<1>4. CASE IsoInStep \/ IsoOutStep \/ PacketStep \/ SoundStep
  BY <1>4 DEF IsoInStep, IsoOutStep, PacketStep, SoundStep
<1>5. CASE DescStep \/ Aborted
  BY <1>5 DEF DescStep, Aborted
<1>6. CASE EyeToyStep \/ CameraStep
  BY <1>6 DEF EyeToyStep, CameraStep
<1>7. CASE V4l2Step \/ DirectShowStep
  BY <1>7 DEF V4l2Step, DirectShowStep
<1> QED BY <1>1, <1>2, <1>3, <1>4, <1>5, <1>6, <1>7 DEF Next

\* The control pipe, for every buffer, requests, answers and packets, of which any
\* may follow any: after a SETUP that was accepted the driver reads the answer to
\* that request and no other bytes, a request that writes is executed once and
\* whole and never when it was refused, a driver that keeps to the protocol is
\* refused by the device alone, and data_buf is left only by going on after a
\* SETUP that was refused for its length.
THEOREM PipeAnswersRequests == Spec => []RequestsAnswered
<1> DEFINE I == part = "pipe" => PipeIInv
<1>1. Init => I
  BY PipeBegins DEF Init
<1>2. I /\ [Next]_vars => I'
  BY RunsAlone, PipeStep1
<1>3. I => RequestsAnswered
  BY PipeKeeps DEF RequestsAnswered
<1> QED BY <1>1, <1>2, <1>3, PTL DEF Spec

\* The one packet of the controller, for every set of endpoints and devices of
\* which none is isochronous while another keeps the packet: controller, core
\* and device agree on whose it is and where, and no assertion of the core or of
\* the mass storage device fails.
THEOREM PacketIsAgreedOn == Spec => []PacketAgrees
<1> DEFINE I == part = "packet" => PacketIInv
<1>1. Init => I
  BY PacketBegins DEF Init
<1>2. I /\ [Next]_vars => I'
  BY RunsAlone, PacketStep1
<1>3. I => PacketAgrees
  <2>1. PacketIInv => Packet!TypeOK /\ Packet!AllAgree /\ Packet!NoAssertFails
    BY DEF PacketIInv, PacketTypes, Packet!TypeOK
  <2> QED BY <2>1 DEF PacketAgrees
<1> QED BY <1>1, <1>2, <1>3, PTL DEF Spec

\* What a driver is told: for every set of ports, addresses and writes, and any
\* number of devices that come and go, an address reaches the device it was given to or nobody, no change of a port is
\* lost and only a connected port is enabled; and, for every frame, interval and
\* set of cycles, an interrupt that is due reaches the processor within two
\* frames and the lag of the clock.
THEOREM DriverIsTold == Spec => []ControllerTells
<1> DEFINE I == /\ part = "ports" => Ports2!IInv
                /\ part = "port" => Port1!IInv
                /\ part = "interrupts" => IrqIInv
<1>1. Init => I
  BY Ports2!HubBegins, Port1!HubBegins, IrqBegins, Ports2Assumption, Port1Assumption DEF Init
<1>2. I /\ [Next]_vars => I'
  BY RunsAlone, Ports2!HubStep, Port1!HubStep, IrqStep1, Ports2Assumption, Port1Assumption
<1>3. I => ControllerTells
  BY Ports2!HubTells, Port1!HubTells, IrqKeeps, Ports2Assumption, Port1Assumption DEF ControllerTells
<1> QED BY <1>1, <1>2, <1>3, PTL DEF Spec

\* Pictures, for every length of a picture up to the buffer's, every size of
\* packet, every register, and any number of pictures, opens and calls that
\* fail: between a header and its footer the bus carries one whole picture,
\* GetImage gives one whole picture, threads and calls find what they work
\* with, and a register reads as it was written.
THEOREM PicturesAreWhole == Spec => []PicturesWhole
<1> DEFINE I == EyeToyIInv /\ SensorIInv /\ V4l2IInv /\ DshowIInv
<1>1. Init => I
  BY EyeToyBegins, SensorBegins, V4l2Begins, DshowBegins DEF Init
<1>2. I /\ [Next]_vars => I'
  BY RunsAlone, EyeToyStep1, SensorStep1, V4l2Step1, DshowStep1
<1>3. I => PicturesWhole
  BY V4l2Keeps, DshowKeeps DEF PicturesWhole, EyeToyIInv, SensorIInv
<1> QED BY <1>1, <1>2, <1>3, PTL DEF Spec

\* The abstract specifications, for every value of the constants: the control
\* pipe implements ControlTransfer, with what has been read, or is in data_buf,
\* for the bytes that an accepted request moved; both cameras implement FrameSource, with the
\* first half of the buffer for the latest picture.
THEOREM AbstractionsAreImplemented == Spec => ImplementAbstractions
<1> DEFINE I == PipeIInv /\ PipeReadRan /\ V4l2IInv /\ DshowIInv
<1>1. Init => I /\ Pipe!Transfer!Init /\ V4l2!Abstract!SourceInit /\ DirectShow!Abstract!SourceInit
  BY PipeBegins, PipeTransferBegins, V4l2Begins, V4l2SourceBegins, DshowBegins, DshowSourceBegins DEF Init
<1>2. I /\ [Next]_vars => I'
  BY RunsAlone, PipeStep1, PipeTransferStep, V4l2Step1, DshowStep1
<1>3. I /\ [Next]_vars => /\ [Pipe!Transfer!Next]_(Pipe!Transfer!vars)
                          /\ [V4l2!Abstract!SourceNext]_(V4l2!Abstract!source)
                          /\ [DirectShow!Abstract!SourceNext]_(DirectShow!Abstract!source)
  BY RunsAlone, PipeTransferStep, V4l2SourceStep, DshowSourceStep
<1> QED BY <1>1, <1>2, <1>3, PTL DEF Spec, ImplementAbstractions, Pipe!ImplementsTransfer, Pipe!Transfer!Spec,
           V4l2!ImplementsSource, V4l2!Abstract!Source, DirectShow!ImplementsSource, DirectShow!Abstract!Source
===============================================================================
