------------------------------ MODULE UsbMsdProofs ------------------------------
(***************************************************************************)
(* What UsbMsd keeps for every set of commands, tags, lengths and packet   *)
(* sizes: the bytes, the file offset and the status wrapper of a command,  *)
(* and that the device implements BulkOnly.                                *)
(***************************************************************************)
EXTENDS UsbMsd, TLAPS

\* What the properties need besides themselves: the two copies of the tag
\* agree, a file command's tag routes its data to the file, and a failed
\* command leaves a cause.
TagsAgree == req_tag = tag
FileOpUsesFile == last_cmd.op \in FileOps => UsesFile
FailureHasCause == result = "COMMAND_FAILED" => sense # "NO_SENSE"

Inv ==
  /\ TypeOK
  /\ TagsAgree
  /\ FileOpUsesFile
  /\ FailureHasCause
  /\ BytesAccountedFor
  /\ FileAtCommandOffset
  /\ StatusTellsTruth
  /\ DeferredOnlyWhenStuck

\* A data packet is copied whole.
LEMMA ChunkIsSize == \A size \in Sizes : Chunk(size) = size
BY MsdConstants, PacketsFit DEF Chunk
-----------------------------------------------------------------------------
(* Type correctness.                                                       *)

LEMMA NoCswType ==
  /\ NoCsw \in Csw
  /\ \A s \in {"SUCCESS", "STALL", "ASYNC"}, n \in Nat, data \in ReplyData :
       Reply(s, n, data) \in [status : {"SUCCESS", "STALL", "ASYNC"}, len : Nat,
                              data : ReplyData, csw : Csw]
<1>1. NoCsw \in Csw
  BY MsdConstants DEF NoCsw, Csw, Results
<1> QED BY <1>1 DEF Reply

LEMMA InitTypeOK == Init => TypeOK
<1>1. NoCsw \in Csw /\ Reply("SUCCESS", 0, "none")
         \in [status : {"SUCCESS", "STALL", "ASYNC"}, len : Nat, data : ReplyData, csw : Csw]
  BY NoCswType DEF ReplyData
<1>2. [op |-> "none", lba |-> 0, asked |-> 0] \in [op : Opcodes \cup {"none"}, lba : Lbas, asked : Lens]
  BY MsdConstants
<1>3. /\ "NO_SENSE" \in SenseCodes /\ "zero" \in Contents
      /\ "COMMAND_PASSED" \in Results /\ 0 \in Tags
  BY MsdConstants DEF SenseCodes, Contents, Results
<1>4. SUFFICES ASSUME Init PROVE TypeOK
  OBVIOUS
<1>5. reply \in [status : {"SUCCESS", "STALL", "ASYNC"}, len : Nat, data : ReplyData, csw : Csw]
  BY <1>1, <1>4 DEF Init
<1>6. last_cmd \in [op : Opcodes \cup {"none"}, lba : Lbas, asked : Lens]
  BY <1>2, <1>4 DEF Init
<1>7. /\ mode = "CBW" /\ data_len = 0 /\ moved = 0 /\ filepos = 0
      /\ tag = 0 /\ req_tag = 0 /\ file_op_tag = 0
      /\ result = "COMMAND_PASSED" /\ csw = NoCsw
      /\ sense = "NO_SENSE" /\ buf = "zero" /\ deferred = FALSE
  BY <1>4 DEF Init
<1> QED BY <1>1, <1>3, <1>5, <1>6, <1>7 DEF TypeOK

LEMMA CommandTypeOK ==
  ASSUME TypeOK, NEW c \in Commands, BufCommand(c) \/ FileCommand(c) \/ UnknownCommand(c)
  PROVE  TypeOK'
<1> USE MsdConstants DEF TypeOK
<1>1. c \in CommandBlock
  OBVIOUS
<1>2. /\ c.op \in Opcodes /\ c.tag \in Tags /\ c.len \in Lens
      /\ c.lba \in Lbas /\ c.xfer \in Lens
  BY <1>1 DEF CommandBlock
<1>3. c.len \in Nat /\ c.xfer \in Nat /\ c.lba * BlockSize \in Nat
  <2>1. c.len \in Nat /\ c.xfer \in Nat /\ c.lba \in Nat /\ BlockSize \in Nat
    BY <1>2
  <2> QED BY <2>1
<1>4. AcceptCbw(c)
  BY DEF BufCommand, FileCommand, UnknownCommand
<1>5. /\ tag' \in Tags /\ req_tag' \in Tags /\ csw' \in Csw /\ deferred' \in BOOLEAN
      /\ last_cmd' \in [op : Opcodes \cup {"none"}, lba : Lbas, asked : Lens]
      /\ moved' \in Nat
      /\ reply' \in [status : {"SUCCESS", "STALL", "ASYNC"}, len : Nat,
                     data : ReplyData, csw : Csw]
  BY <1>2, <1>4 DEF AcceptCbw, Reply, ReplyData, NoCsw, Csw, Results
<1>6. DataStage(c) \in {"CSW", "DATAIN", "DATAOUT"}
  BY DEF DataStage
<1>7. CASE BufCommand(c)
  BY <1>3, <1>5, <1>6, <1>7 DEF BufCommand, Results, SenseCodes, Contents
<1>8. CASE FileCommand(c)
  BY <1>2, <1>3, <1>5, <1>6, <1>8 DEF Seek, FileCommand, Results, SenseCodes
<1>9. CASE UnknownCommand(c)
  BY <1>3, <1>5, <1>9 DEF UnknownCommand, Results, SenseCodes
<1> QED BY <1>7, <1>8, <1>9

LEMMA TransferTypeOK ==
  ASSUME TypeOK, NEW size \in Sizes, DataOut(size) \/ DataIn(size)
  PROVE  TypeOK'
<1> USE DEF TypeOK
<1>1. size \in Nat /\ size <= data_len /\ Chunk(size) = size
  BY MsdConstants, ChunkIsSize DEF DataOut, DataIn
<1>2. buf' \in Contents
  BY DEF DataOut, DataIn, Contents
<1>3. UNCHANGED <<tag, req_tag, file_op_tag, last_cmd>> /\ mode \in {"DATAIN", "DATAOUT"}
  BY DEF DataOut, DataIn
<1>4. ASSUME NEW data \in ReplyData, CopyData(size, data)
      PROVE  TypeOK'
  <2>1. data_len - size \in Nat /\ moved + size \in Nat /\ filepos + size \in Nat
    BY <1>1
  <2>2. csw' \in Csw
    BY <1>1, <1>4, <2>1 DEF CopyData, StatusFor, Csw, Results
  <2>3. reply' \in [status : {"SUCCESS", "STALL", "ASYNC"}, len : Nat,
                    data : ReplyData, csw : Csw]
    BY <1>1, <1>4, NoCswType DEF CopyData
  <2>4. filepos' \in Nat /\ mode' \in {"DATAIN", "DATAOUT", "CSW"}
    BY <1>1, <1>3, <1>4, <2>1 DEF Advance, CopyData
  <2> QED BY <1>1, <1>2, <1>3, <1>4, <2>1, <2>2, <2>3, <2>4 DEF Advance, CopyData
<1>5. ASSUME NEW code \in {"WRITE_FAULT", "READ_ERROR"}, CopyFails(size, code)
      PROVE  TypeOK'
  <2>1. filepos' \in Nat
    BY <1>1, <1>5 DEF CopyFails
  <2>2. reply' \in [status : {"SUCCESS", "STALL", "ASYNC"}, len : Nat,
                    data : ReplyData, csw : Csw]
    <3>1. "none" \in ReplyData
      BY DEF ReplyData
    <3>2. reply' \in {Reply("STALL", size, "none"), Reply("ASYNC", 0, "none")}
      BY <1>5 DEF CopyFails
    <3> QED BY <1>1, <3>1, <3>2, NoCswType
  <2>3. data_len' \in Nat /\ mode' \in {"DATAIN", "DATAOUT", "CSW"} /\ deferred' \in BOOLEAN
    <3>1. data_len - size \in Nat
      BY <1>1
    <3>2. CASE csw.residue # 0
      BY <1>3, <1>5, <3>1, <3>2 DEF Advance, CopyFails
    <3>3. CASE ~(csw.residue # 0)
      BY <1>3, <1>5, <3>3 DEF CopyFails
    <3> QED BY <3>2, <3>3
  <2> QED BY <1>2, <1>3, <1>5, <2>1, <2>2, <2>3 DEF CopyFails, Results, SenseCodes
<1>6. buf' \in ReplyData /\ "none" \in ReplyData
  BY <1>2 DEF ReplyData
<1> QED BY <1>4, <1>5, <1>6 DEF DataOut, DataIn

LEMMA OtherTypeOK ==
  ASSUME TypeOK,
         \/ \E size \in Sizes : \/ DataInTooLong(size) \/ SendStatus(size)
                                \/ DeferStatus(size) \/ Refuse(size)
         \/ MassStorageReset \/ HandleReset \/ CancelIo
  PROVE  TypeOK'
<1> USE MsdConstants DEF TypeOK
<1>1. /\ \A s \in {"SUCCESS", "STALL", "ASYNC"} :
           Reply(s, 0, "none") \in [status : {"SUCCESS", "STALL", "ASYNC"}, len : Nat,
                                    data : ReplyData, csw : Csw]
      /\ NoCsw \in Csw
  BY NoCswType DEF ReplyData
<1>2. ASSUME NEW size \in Sizes, SendStatus(size) PROVE TypeOK'
  <2>1. reply' \in [status : {"SUCCESS", "STALL", "ASYNC"}, len : Nat,
                    data : ReplyData, csw : Csw]
    BY <1>1, <1>2 DEF StatusFor, SendStatus, Reply, ReplyData, Csw
  <2> QED BY <1>1, <1>2, <2>1 DEF SendStatus
<1>3. ASSUME NEW size \in Sizes, DataInTooLong(size) PROVE TypeOK'
  BY <1>1, <1>3 DEF DataInTooLong, Stall, Results, SenseCodes
<1>4. ASSUME NEW size \in Sizes, DeferStatus(size) PROVE TypeOK'
  BY <1>1, <1>4 DEF DeferStatus
<1>5. ASSUME NEW size \in Sizes, Refuse(size) PROVE TypeOK'
  BY <1>1, <1>5 DEF Refuse, Stall
<1>6. CASE MassStorageReset
  BY <1>1, <1>6 DEF MassStorageReset
<1>7. CASE HandleReset
  BY <1>7 DEF HandleReset
<1>8. CASE CancelIo
  BY <1>8 DEF CancelIo
<1> QED BY <1>2, <1>3, <1>4, <1>5, <1>6, <1>7, <1>8

LEMMA NextTypeOK == TypeOK /\ [Next]_vars => TypeOK'
<1> SUFFICES ASSUME TypeOK, [Next]_vars PROVE TypeOK'
  OBVIOUS
<1>1. CASE UNCHANGED vars
  BY <1>1 DEF vars, TypeOK
<1>2. CASE Next
  BY <1>2, CommandTypeOK, TransferTypeOK, OtherTypeOK DEF Next
<1> QED BY <1>1, <1>2

\* The state keeps its type for all parameters: in particular the unsigned
\* data_len and residue of usb-msd.cpp never go below zero.
THEOREM TypeCorrect == Spec => []TypeOK
BY InitTypeOK, NextTypeOK, PTL DEF Spec
-----------------------------------------------------------------------------
(* The accounting of a command.                                            *)

LEMMA InitInv == Init => Inv
<1> SUFFICES ASSUME Init PROVE Inv
  OBVIOUS
<1>1. TypeOK
  BY InitTypeOK
<1>2. TagsAgree /\ FileOpUsesFile /\ FailureHasCause
  BY DEF Init, TagsAgree, FileOpUsesFile, FailureHasCause, UsesFile
<1>3. BytesAccountedFor /\ FileAtCommandOffset /\ StatusTellsTruth /\ DeferredOnlyWhenStuck
  BY DEF Init, BytesAccountedFor, FileAtCommandOffset, StatusTellsTruth,
         DeferredOnlyWhenStuck, FileOps, Reply
<1> QED BY <1>1, <1>2, <1>3 DEF Inv

\* A new command starts the accounts afresh.
LEMMA CommandInv ==
  ASSUME Inv, NEW c \in Commands, BufCommand(c) \/ FileCommand(c) \/ UnknownCommand(c)
  PROVE  Inv'
<1>1. TypeOK'
  BY CommandTypeOK DEF Inv
<1>2. AcceptCbw(c)
  BY DEF BufCommand, FileCommand, UnknownCommand
<1>3. /\ c.tag = tag' /\ tag' = req_tag' /\ moved' = 0 /\ reply'.data = "none"
      /\ last_cmd'.op = c.op /\ last_cmd'.lba = c.lba
      /\ last_cmd'.asked = (IF c.op \in FileOps THEN c.xfer ELSE c.len)
      /\ ~deferred'
  BY <1>2 DEF AcceptCbw, Reply
<1>4. c.xfer \in Nat /\ c.len \in Nat /\ c.lba * BlockSize \in Nat
  <2>1. c \in CommandBlock
    BY MsdConstants
  <2>2. c.xfer \in Nat /\ c.len \in Nat /\ c.lba \in Nat /\ BlockSize \in Nat
    BY <2>1, MsdConstants DEF CommandBlock
  <2> QED BY <2>2
<1>5. TagsAgree'
  BY <1>3 DEF TagsAgree
<1>6. FileOpUsesFile'
  <2>1. c.op \in FileOps => FileCommand(c)
    BY DEF BufCommand, FileCommand, UnknownCommand, FileOps, BufOps
  <2> QED BY <1>3, <2>1 DEF FileOpUsesFile, UsesFile, FileCommand
<1>7. FailureHasCause'
  BY DEF FailureHasCause, BufCommand, FileCommand, UnknownCommand
<1>8. BytesAccountedFor'
  BY <1>3, <1>4 DEF BytesAccountedFor, BufCommand, FileCommand, UnknownCommand, FileOps, BufOps
<1>9. FileAtCommandOffset'
  <2>1. CASE FileCommand(c)
    BY <1>3, <1>4, <2>1 DEF Seek, FileAtCommandOffset, FileCommand
  <2>2. CASE ~FileCommand(c)
    BY <1>3, <2>2 DEF FileAtCommandOffset, BufCommand, UnknownCommand, FileOps, BufOps
  <2> QED BY <2>1, <2>2
<1>10. StatusTellsTruth' /\ DeferredOnlyWhenStuck'
  BY <1>3 DEF StatusTellsTruth, DeferredOnlyWhenStuck
<1> QED BY <1>1, <1>5, <1>6, <1>7, <1>8, <1>9, <1>10 DEF Inv

\* A packet of the data stage moves as much from one account to the other as
\* it moves the file, and a short one fails the command.
LEMMA TransferInv ==
  ASSUME Inv, NEW size \in Sizes, DataOut(size) \/ DataIn(size)
  PROVE  Inv'
<1>1. TypeOK'
  BY TransferTypeOK DEF Inv
<1>2. /\ UNCHANGED <<tag, req_tag, file_op_tag, last_cmd>>
      /\ size <= data_len /\ ~deferred /\ buf' \in Contents
  BY DEF DataOut, DataIn, Inv, TypeOK, Contents
<1>3. \/ \E data \in Contents \cup {"none"} : CopyData(size, data)
      \/ \E code \in {"WRITE_FAULT", "READ_ERROR"} : CopyFails(size, code)
  BY <1>2 DEF DataOut, DataIn
<1>4. /\ size \in Nat /\ data_len \in Nat /\ moved \in Nat /\ filepos \in Nat
      /\ last_cmd.asked \in Nat /\ last_cmd.lba * BlockSize \in Nat /\ Chunk(size) = size
  <2>1. size \in Nat /\ Chunk(size) = size
    BY MsdConstants, ChunkIsSize
  <2>2. last_cmd.asked \in Nat /\ last_cmd.lba \in Nat /\ BlockSize \in Nat
    BY MsdConstants DEF Inv, TypeOK
  <2> QED BY <2>1, <2>2 DEF Inv, TypeOK
<1>5. TagsAgree' /\ FileOpUsesFile'
  BY <1>2 DEF Inv, TagsAgree, FileOpUsesFile, UsesFile
<1>6. ASSUME NEW data \in Contents \cup {"none"}, CopyData(size, data)
      PROVE  Inv'
  <2>1. /\ data_len' = data_len - size /\ moved' = moved + size
        /\ UNCHANGED <<result, sense, deferred>> /\ reply'.data = data
    BY <1>4, <1>6 DEF Advance, CopyData, Reply
  <2>2. FailureHasCause' /\ BytesAccountedFor'
    BY <1>2, <1>4, <2>1 DEF Inv, FailureHasCause, BytesAccountedFor
  <2>3. FileAtCommandOffset'
    <3>1. last_cmd.op \in FileOps => filepos' = filepos + size
      BY <1>4, <1>6 DEF CopyData, Inv, FileOpUsesFile
    <3> QED BY <1>2, <1>4, <2>1, <3>1 DEF Inv, FileAtCommandOffset
  <2>4. StatusTellsTruth' /\ DeferredOnlyWhenStuck'
    BY <1>2, <2>1 DEF StatusTellsTruth, DeferredOnlyWhenStuck, Contents, SenseCodes
  <2> QED BY <1>1, <1>5, <2>2, <2>3, <2>4 DEF Inv
<1>7. ASSUME NEW code \in {"WRITE_FAULT", "READ_ERROR"}, CopyFails(size, code)
      PROVE  Inv'
  <2>1. /\ result' = "COMMAND_FAILED" /\ sense' = code /\ csw' = csw
        /\ reply'.data = "none" /\ size > 0
    BY <1>7 DEF CopyFails, Reply
  <2>2. FailureHasCause' /\ BytesAccountedFor' /\ FileAtCommandOffset' /\ StatusTellsTruth'
    BY <2>1 DEF FailureHasCause, BytesAccountedFor, FileAtCommandOffset, StatusTellsTruth
  <2>3. DeferredOnlyWhenStuck'
    <3>1. CASE csw.residue # 0
      BY <1>2, <1>7, <3>1 DEF CopyFails, DeferredOnlyWhenStuck
    <3>2. CASE csw.residue = 0
      BY <1>2, <1>4, <1>7, <2>1, <3>2 DEF CopyFails, DeferredOnlyWhenStuck
    <3> QED BY <3>1, <3>2
  <2> QED BY <1>1, <1>5, <2>2, <2>3 DEF Inv
<1> QED BY <1>3, <1>6, <1>7

\* The other packets and the resets leave the accounts alone.
LEMMA OtherInv ==
  ASSUME Inv,
         \/ \E size \in Sizes : \/ DataInTooLong(size) \/ SendStatus(size)
                                \/ DeferStatus(size) \/ Refuse(size)
         \/ MassStorageReset \/ HandleReset \/ CancelIo
  PROVE  Inv'
<1>1. TypeOK'
  BY OtherTypeOK DEF Inv
<1>2. /\ UNCHANGED <<data_len, tag, req_tag, file_op_tag, last_cmd, filepos, moved>>
      /\ \/ UNCHANGED <<result, sense>>
         \/ result' = "COMMAND_FAILED" /\ sense' = "READ_ERROR"
  BY DEF DataInTooLong, SendStatus, DeferStatus, Refuse, MassStorageReset, HandleReset, CancelIo
<1>3. TagsAgree' /\ FileOpUsesFile' /\ FailureHasCause'
  BY <1>2 DEF Inv, TagsAgree, FileOpUsesFile, FailureHasCause, UsesFile
<1>4. BytesAccountedFor' /\ FileAtCommandOffset'
  BY <1>2 DEF Inv, BytesAccountedFor, FileAtCommandOffset
<1>5. StatusTellsTruth'
  <2>1. ASSUME NEW size \in Sizes, SendStatus(size) PROVE StatusTellsTruth'
    <3>1. /\ reply'.csw.tag = req_tag /\ reply'.csw.residue = data_len
          /\ reply'.csw.status = result
      BY <2>1 DEF StatusFor, SendStatus, Reply
    <3>2. result = "COMMAND_PASSED" => moved = last_cmd.asked - data_len
      <4>1. moved \in Nat /\ data_len \in Nat /\ last_cmd.asked \in Nat
        BY MsdConstants DEF Inv, TypeOK
      <4> QED BY <4>1 DEF Inv, BytesAccountedFor
    <3> QED BY <1>2, <2>1, <3>1, <3>2 DEF StatusTellsTruth, SendStatus, Inv, TagsAgree, FailureHasCause
  <2>2. CASE HandleReset \/ CancelIo
    BY <2>2 DEF HandleReset, CancelIo, Inv, StatusTellsTruth
  <2>3. CASE \/ \E size \in Sizes : DataInTooLong(size) \/ DeferStatus(size) \/ Refuse(size)
             \/ MassStorageReset
    <3>1. reply'.data = "none"
      BY <2>3 DEF DataInTooLong, DeferStatus, Refuse, MassStorageReset, Stall, Reply
    <3> QED BY <3>1 DEF StatusTellsTruth
  <2> QED BY <2>1, <2>2, <2>3
<1>6. DeferredOnlyWhenStuck'
  BY DEF Inv, DeferredOnlyWhenStuck, DataInTooLong, SendStatus, DeferStatus, Refuse,
         MassStorageReset, HandleReset, CancelIo
<1> QED BY <1>1, <1>3, <1>4, <1>5, <1>6 DEF Inv

LEMMA NextInv == Inv /\ [Next]_vars => Inv'
<1> SUFFICES ASSUME Inv, [Next]_vars PROVE Inv'
  OBVIOUS
<1>1. CASE UNCHANGED vars
  BY <1>1, NextTypeOK
     DEF vars, Inv, TagsAgree, FileOpUsesFile, UsesFile, FailureHasCause, BytesAccountedFor,
         FileAtCommandOffset, StatusTellsTruth, DeferredOnlyWhenStuck
<1>2. CASE Next
  BY <1>2, CommandInv, TransferInv, OtherInv DEF Next
<1> QED BY <1>1, <1>2

LEMMA Invariance == Spec => []Inv
BY InitInv, NextInv, PTL DEF Spec

\* For all commands and packet sizes, the bytes moved and the bytes left add
\* up to what the command asked for, as long as it has not failed.
THEOREM BytesAreAccountedFor == Spec => []BytesAccountedFor
<1>1. Inv => BytesAccountedFor
  BY DEF Inv
<1> QED BY <1>1, Invariance, PTL

\* A READ or WRITE that has not failed finds the image at the offset its
\* block address and progress give, however the transfer is cut into packets.
THEOREM FileFollowsCommand == Spec => []FileAtCommandOffset
<1>1. Inv => FileAtCommandOffset
  BY DEF Inv
<1> QED BY <1>1, Invariance, PTL

\* The status wrapper tells the truth about the last command.
THEOREM StatusIsTrue == Spec => []StatusTellsTruth
<1>1. Inv => StatusTellsTruth
  BY DEF Inv
<1> QED BY <1>1, Invariance, PTL

\* A packet is left waiting only by a failed transfer or a write of nothing.
THEOREM DeferredIsStuck == Spec => []DeferredOnlyWhenStuck
<1>1. Inv => DeferredOnlyWhenStuck
  BY DEF Inv
<1> QED BY <1>1, Invariance, PTL

-----------------------------------------------------------------------------
(* The device implements BulkOnly.                                         *)

LEMMA CommandRefines ==
  ASSUME Inv, NEW c \in Commands, BufCommand(c) \/ FileCommand(c) \/ UnknownCommand(c)
  PROVE  Bulk!Command
<1>1. AcceptCbw(c)
  BY DEF BufCommand, FileCommand, UnknownCommand
<1>2. c.tag \in Tags /\ c.len \in Lens /\ c.xfer \in Lens
  BY MsdConstants DEF CommandBlock
<1>3. mode = "CBW" /\ mode' \in {"CSW", "DATAIN", "DATAOUT"}
  BY <1>1 DEF AcceptCbw, BufCommand, FileCommand, UnknownCommand, DataStage
<1>4. data_len' = last_cmd'.asked /\ last_cmd'.asked \in Lens
  BY <1>1, <1>2 DEF AcceptCbw, BufCommand, FileCommand, UnknownCommand, FileOps, BufOps
<1>5. tag' \in Tags /\ moved' = 0 /\ reply'.csw = NoCsw
  BY <1>1, <1>2 DEF AcceptCbw, Reply
<1> QED BY <1>3, <1>4, <1>5 DEF Bulk!Command

LEMMA TransferRefines ==
  ASSUME Inv, NEW size \in Sizes, DataOut(size) \/ DataIn(size)
  PROVE  Bulk!Transfer \/ Bulk!Fail
<1>1. /\ mode \in {"DATAIN", "DATAOUT"} /\ size <= data_len
      /\ UNCHANGED <<tag, last_cmd>>
  BY DEF DataOut, DataIn
<1>2. size \in Nat /\ data_len \in Nat /\ moved \in Nat /\ Chunk(size) = size
  BY MsdConstants, ChunkIsSize DEF Inv, TypeOK
<1>3. ASSUME NEW data, CopyData(size, data) PROVE Bulk!Transfer
  <2>1. /\ data_len' = data_len - size /\ moved' = moved + size
        /\ mode' = IF data_len' = 0 THEN "CSW" ELSE mode
        /\ result' = result /\ reply'.csw = NoCsw
    BY <1>2, <1>3 DEF Advance, CopyData, Reply
  <2>2. data_len' \in 0 .. data_len /\ moved' = moved + (data_len - data_len')
    BY <1>1, <1>2, <2>1
  <2> QED BY <1>1, <2>1, <2>2 DEF Bulk!Transfer
<1>4. ASSUME NEW code, CopyFails(size, code) PROVE Bulk!Fail
  <2>1. result' = "COMMAND_FAILED" /\ moved' = moved /\ size > 0 /\ reply'.csw = NoCsw
    BY <1>4 DEF CopyFails, Reply
  <2>2. CASE csw.residue # 0
    <3>1. data_len' = data_len - size /\ mode' = IF data_len' = 0 THEN "CSW" ELSE mode
      BY <1>4, <2>2 DEF Advance, CopyFails
    <3>2. data_len' \in 0 .. data_len - 1
      BY <1>1, <1>2, <2>1, <3>1
    <3> QED BY <1>1, <2>1, <3>1, <3>2 DEF Bulk!Fail
  <2>3. CASE ~(csw.residue # 0)
    <3>1. UNCHANGED <<data_len, mode>>
      BY <1>4, <2>3 DEF CopyFails
    <3> QED BY <1>1, <2>1, <3>1 DEF Bulk!Fail
  <2> QED BY <2>2, <2>3
<1> QED BY <1>3, <1>4 DEF DataOut, DataIn

LEMMA OtherRefines ==
  ASSUME Inv,
         \/ \E size \in Sizes : \/ DataInTooLong(size) \/ SendStatus(size)
                                \/ DeferStatus(size) \/ Refuse(size)
         \/ MassStorageReset \/ HandleReset \/ CancelIo
  PROVE  [Bulk!Next]_(Bulk!vars)
<1>1. ASSUME NEW size \in Sizes, DataInTooLong(size) PROVE Bulk!Fail
  BY <1>1 DEF DataInTooLong, Bulk!Fail, Stall, Reply
<1>2. ASSUME NEW size \in Sizes, SendStatus(size) PROVE Bulk!Status
  <2>1. mode = "CSW" /\ mode' = "CBW" /\ UNCHANGED <<data_len, tag, result, last_cmd, moved>>
    BY <1>2 DEF SendStatus
  <2>2. /\ reply'.csw = [sig |-> TRUE, tag |-> tag, residue |-> data_len, status |-> result]
        /\ result \in {"COMMAND_PASSED", "COMMAND_FAILED"}
    BY <1>2 DEF StatusFor, SendStatus, Reply, Inv, TagsAgree, TypeOK, Results
  <2> QED BY <2>1, <2>2 DEF Bulk!Status
<1>3. ASSUME NEW size \in Sizes, DeferStatus(size) \/ Refuse(size) PROVE Bulk!Refuse
  BY <1>3 DEF DeferStatus, Refuse, Bulk!Refuse, Stall, Reply
<1>4. CASE MassStorageReset \/ HandleReset
  <2>1. Bulk!Reset
    BY <1>4 DEF MassStorageReset, HandleReset, Bulk!Reset, Reply
  <2> QED BY <2>1 DEF Bulk!Next
<1>5. CASE CancelIo
  BY <1>5 DEF CancelIo, Bulk!vars
<1> QED BY <1>1, <1>2, <1>3, <1>4, <1>5 DEF Bulk!Next

\* Every behaviour of the device is one of BulkOnly: the phases come in
\* order, and each command gets one report, about the bytes it moved.
THEOREM DeviceImplementsBulkOnly == Spec => ImplementsBulkOnly
<1>1. Init => Bulk!Init
  BY DEF Init, Bulk!Init, Reply
<1>2. Inv /\ [Next]_vars => [Bulk!Next]_(Bulk!vars)
  <2> SUFFICES ASSUME Inv, [Next]_vars PROVE [Bulk!Next]_(Bulk!vars)
    OBVIOUS
  <2>1. CASE UNCHANGED vars
    BY <2>1 DEF vars, Bulk!vars
  <2>2. CASE Next
    BY <2>2, CommandRefines, TransferRefines, OtherRefines DEF Next, Bulk!Next
  <2> QED BY <2>1, <2>2
<1> QED BY <1>1, <1>2, Invariance, PTL DEF Spec, ImplementsBulkOnly, Bulk!Spec

-----------------------------------------------------------------------------
(* The sense data, for a driver that never reuses the tag of a READ or     *)
(* WRITE, nor tag 0, for a command served from s->f.buf.                   *)

TagsApart ==
  \A c, d \in Commands : (c.op \in FileOps /\ d.op \notin FileOps) => c.tag # d.tag
TagZeroUnused == \A c \in Commands : c.tag # 0

FileTag(n) == n = 0 \/ \E c \in Commands : c.op \in FileOps /\ c.tag = n
SenseInv ==
  /\ FileTag(file_op_tag)
  /\ last_cmd.op = "REQUEST_SENSE" => ~FileTag(tag)
  /\ (last_cmd.op = "REQUEST_SENSE" /\ mode = "DATAIN" /\ result = "COMMAND_PASSED")
        => buf = sense
  /\ SenseDelivered

LEMMA SenseStep ==
  ASSUME TagsApart, TagZeroUnused, TypeOK, SenseInv, [Next]_vars
  PROVE  SenseInv'
<1>1. ASSUME NEW c \in Commands, BufCommand(c) \/ FileCommand(c) \/ UnknownCommand(c)
      PROVE  SenseInv'
  <2>1. AcceptCbw(c)
    BY <1>1 DEF BufCommand, FileCommand, UnknownCommand
  <2>2. tag' = c.tag /\ last_cmd'.op = c.op /\ reply'.data = "none"
    BY <2>1 DEF AcceptCbw, Reply
  <2>3. FileTag(file_op_tag)'
    BY <1>1 DEF SenseInv, FileTag, BufCommand, FileCommand, UnknownCommand
  <2>4. c.op = "REQUEST_SENSE" => ~FileTag(c.tag) /\ BufCommand(c)
    BY <1>1 DEF TagsApart, TagZeroUnused, FileTag, FileOps, BufCommand, FileCommand, UnknownCommand
  <2>5. c.op = "REQUEST_SENSE" => buf' = sense'
    BY <2>4 DEF BufCommand
  <2>6. SenseDelivered'
    BY <2>2 DEF SenseDelivered, Contents, SenseCodes
  <2>7. FileTag(tag)' <=> FileTag(c.tag)
    BY <2>2 DEF FileTag
  <2> QED BY <2>2, <2>3, <2>4, <2>5, <2>6, <2>7 DEF SenseInv
<1>2. ASSUME NEW size \in Sizes, DataOut(size) \/ DataIn(size) PROVE SenseInv'
  <2>1. UNCHANGED <<tag, file_op_tag, last_cmd>>
    BY <1>2 DEF DataOut, DataIn
  <2>2. last_cmd.op = "REQUEST_SENSE" => ~UsesFile
    BY DEF SenseInv, UsesFile
  <2>3. ASSUME NEW code \in {"WRITE_FAULT", "READ_ERROR"}, CopyFails(size, code)
        PROVE  SenseInv'
    BY <2>1, <2>3 DEF CopyFails, SenseInv, SenseDelivered, FileTag
  <2>4. ASSUME DataIn(size), CopyData(size, buf') PROVE SenseInv'
    BY <2>1, <2>2, <2>4 DEF DataIn, CopyData, SenseInv, SenseDelivered, FileTag, Reply
  <2>5. ASSUME DataOut(size), CopyData(size, "none") PROVE SenseInv'
    BY <2>1, <2>5 DEF DataOut, CopyData, Advance, SenseInv, SenseDelivered, FileTag, Reply,
                      Contents, SenseCodes
  <2> QED BY <1>2, <2>3, <2>4, <2>5 DEF DataIn, DataOut
<1>3. ASSUME \/ \E size \in Sizes : \/ DataInTooLong(size) \/ SendStatus(size)
                                   \/ DeferStatus(size) \/ Refuse(size)
             \/ MassStorageReset \/ HandleReset \/ CancelIo
      PROVE  SenseInv'
  <2>1. UNCHANGED <<tag, file_op_tag, last_cmd, buf>>
    BY <1>3 DEF DataInTooLong, SendStatus, DeferStatus, Refuse, MassStorageReset,
                HandleReset, CancelIo
  <2>2. \/ UNCHANGED <<reply, sense, result>> /\ mode' \in {"CBW", mode}
        \/ /\ reply'.data \in {"none", "csw"}
           /\ \/ UNCHANGED <<sense, result>> /\ mode' \in {"CBW", mode}
              \/ result' = "COMMAND_FAILED"
    BY <1>3 DEF DataInTooLong, SendStatus, DeferStatus, Refuse, MassStorageReset,
                HandleReset, CancelIo, Stall, Reply
  <2>3. "none" \notin Contents /\ "csw" \notin Contents
    BY DEF Contents, SenseCodes
  <2> QED BY <2>1, <2>2, <2>3 DEF SenseInv, SenseDelivered, FileTag
<1>4. CASE UNCHANGED vars
  BY <1>4 DEF vars, SenseInv, SenseDelivered, FileTag
<1> QED BY <1>1, <1>2, <1>3, <1>4 DEF Next

\* What REQUEST_SENSE reads is the sense data kept for it, provided the
\* driver keeps the tags of file commands and of the others apart: the
\* condition MsdSharedTag shows to be necessary.
THEOREM SenseIsDelivered ==
  ASSUME TagsApart, TagZeroUnused
  PROVE  Spec => []SenseDelivered
<1>1. Init => SenseInv
  BY DEF Init, SenseInv, FileTag, SenseDelivered, Reply
<1>2. SenseInv /\ TypeOK /\ [Next]_vars => SenseInv'
  BY SenseStep
<1>3. SenseInv => SenseDelivered
  BY DEF SenseInv
<1> QED BY <1>1, <1>2, <1>3, TypeCorrect, PTL DEF Spec
===============================================================================
