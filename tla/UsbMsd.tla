-------------------------------- MODULE UsbMsd --------------------------------
(***************************************************************************)
(* The bulk-only mass storage device of src/usb-msd/usb-msd.cpp: the       *)
(* command / data / status state machine behind usb_msd_handle_data, with  *)
(* the SCSI commands of send_command and the image file.                   *)
(*                                                                         *)
(* One action is one packet the host controller hands to the device, one   *)
(* control request, one cancellation or one port reset.  Payloads are      *)
(* abstracted to where they come from; lengths are kept.  The host         *)
(* controller keeps at most one packet in flight (usb-ohci.cpp, async_td), *)
(* so no packet reaches the device while one is deferred.                  *)
(***************************************************************************)
EXTENDS Integers

CONSTANTS
  Commands,   \* the command blocks the driver may send
  Tags,       \* dCBWTag values
  Lbas,       \* block addresses
  Lens,       \* transfer lengths, in bytes
  Sizes,      \* sizes of data and status packets
  BufSize,    \* sizeof(s->f.buf)
  BlockSize,  \* LBA_BLOCK_SIZE
  ImageSize,  \* how far the image file can be read, or grow
  CswSize     \* sizeof(struct usb_msd_csw)

FileOps == {"READ", "WRITE"}
BufOps  == {"TEST_UNIT_READY", "REQUEST_SENSE", "INQUIRY", "READ_CAPACITY"}
Opcodes == FileOps \cup BufOps \cup {"UNKNOWN"}

\* What a command block says.  len is dCBWDataTransferLength, in the direction
\* bit of bmCBWFlags; lba and xfer (bytes) only mean something to a FileOp.
CommandBlock == [op : Opcodes, tag : Tags, len : Lens, in : BOOLEAN,
                 lba : Lbas, xfer : Lens]

ASSUME MsdConstants ==
  /\ Tags \subseteq Nat /\ 0 \in Tags
  /\ Lbas \subseteq Nat /\ 0 \in Lbas
  /\ Lens \subseteq Nat /\ 0 \in Lens
  /\ Sizes \subseteq Nat
  /\ Commands \subseteq CommandBlock
  /\ ImageSize \in Nat
  /\ BufSize \in Nat \ {0} /\ BlockSize \in Nat \ {0} /\ CswSize \in Nat \ {0}

\* A data packet fits into s->f.buf.
ASSUME PacketsFit == \A n \in Sizes : n <= BufSize

SenseCodes == {"NO_SENSE", "UNKNOWN_ERROR", "OUT_OF_RANGE", "NO_SEEK_COMPLETE",
               "WRITE_FAULT", "READ_ERROR", "INVALID_OPCODE"}
\* Where the bytes in s->f.buf came from.
Contents == SenseCodes \cup {"zero", "inquiry", "capacity", "file", "host"}

VARIABLES
  mode,         \* s->f.mode
  data_len,     \* s->f.data_len: bytes the data stage still has to move
  tag,          \* s->f.tag
  req_tag,      \* s->f.req.tag
  file_op_tag,  \* s->f.file_op_tag: tag of the last command that uses the file
  result,       \* s->f.result
  csw,          \* s->f.csw
  sense,        \* s->f.sense_buf
  buf,          \* s->f.buf
  last_cmd,     \* s->f.last_cmd, with its block address and the bytes it asks for
  filepos,      \* position of s->file
  deferred,     \* s->packet # NULL
  moved,        \* history: bytes the current command's data stage has moved
  reply         \* what the last packet was answered with

vars == <<mode, data_len, tag, req_tag, file_op_tag, result, csw, sense, buf,
          last_cmd, filepos, deferred, moved, reply>>

Results == {"COMMAND_PASSED", "COMMAND_FAILED"}
NoCsw == [sig |-> FALSE, tag |-> 0, residue |-> 0, status |-> "COMMAND_PASSED"]

Reply(status, len, data) ==
  [status |-> status, len |-> len, data |-> data, csw |-> NoCsw]
Stall == Reply("STALL", 0, "none")

\* memset of the state by new MSDState(), then usb_msd_handle_reset
Init ==
  /\ mode = "CBW" /\ data_len = 0
  /\ tag = 0 /\ req_tag = 0 /\ file_op_tag = 0
  /\ result = "COMMAND_PASSED" /\ csw = NoCsw
  /\ sense = "NO_SENSE" /\ buf = "zero"
  /\ last_cmd = [op |-> "none", lba |-> 0, asked |-> 0]
  /\ filepos = 0 /\ deferred = FALSE /\ moved = 0
  /\ reply = Reply("SUCCESS", 0, "none")

-----------------------------------------------------------------------------
(* The command block: usb_msd_handle_data in mode CBW, then send_command.  *)

DataStage(c) == IF c.len = 0 THEN "CSW" ELSE IF c.in THEN "DATAIN" ELSE "DATAOUT"

\* A well-formed command block, up to the switch of send_command.
AcceptCbw(c) ==
  /\ ~deferred /\ mode = "CBW"
  /\ tag' = c.tag /\ req_tag' = c.tag
  /\ last_cmd' = [op |-> c.op, lba |-> c.lba,
                  asked |-> IF c.op \in FileOps THEN c.xfer ELSE c.len]
  /\ moved' = 0
  /\ reply' = Reply("SUCCESS", 0, "none")
  /\ UNCHANGED <<csw, deferred>>

\* Commands whose data, if any, is in s->f.buf.  READ_CAPACITY may fail to
\* learn the size of the image; its data stage still takes place.
BufCommand(c) ==
  /\ AcceptCbw(c) /\ c.op \in BufOps
  /\ mode' = DataStage(c) /\ data_len' = c.len
  /\ \E failed \in IF c.op = "READ_CAPACITY"
                   THEN {"UNKNOWN_ERROR", "OUT_OF_RANGE", "NO_SENSE"} ELSE {"NO_SENSE"} :
       /\ result' = IF failed = "NO_SENSE" THEN "COMMAND_PASSED" ELSE "COMMAND_FAILED"
       /\ sense' = IF c.op = "REQUEST_SENSE" THEN sense ELSE failed
       /\ buf' = CASE c.op = "REQUEST_SENSE" -> sense
                   [] c.op = "INQUIRY" -> "inquiry"
                   [] c.op = "READ_CAPACITY" -> IF failed = "UNKNOWN_ERROR"
                                                THEN "zero" ELSE "capacity"
                   [] OTHER -> buf
  /\ UNCHANGED <<file_op_tag, filepos>>

\* Mutant of Seek: the block address taken for an offset.
SeekToLba(c) == IF c.xfer = 0 THEN filepos ELSE c.lba
Seek(c) == IF c.xfer = 0 THEN filepos ELSE c.lba * BlockSize

\* READ_10/12 and WRITE_10/12.  The length of the command block is replaced
\* by the number of blocks; the seek may fail, and is not tried for no block.
FileCommand(c) ==
  /\ AcceptCbw(c) /\ c.op \in FileOps
  /\ mode' = DataStage(c) /\ data_len' = c.xfer
  /\ file_op_tag' = c.tag
  /\ \/ /\ result' = "COMMAND_PASSED" /\ sense' = "NO_SENSE"
        /\ filepos' = Seek(c)
     \/ /\ c.xfer # 0
        /\ result' = "COMMAND_FAILED"
        /\ sense' \in {"OUT_OF_RANGE", "NO_SEEK_COMPLETE"}
        /\ UNCHANGED filepos
  /\ UNCHANGED buf

\* default: of the switch
UnknownCommand(c) ==
  /\ AcceptCbw(c) /\ c.op = "UNKNOWN"
  /\ mode' = "CSW" /\ data_len' = c.len
  /\ result' = "COMMAND_FAILED" /\ sense' = "INVALID_OPCODE"
  /\ UNCHANGED <<file_op_tag, buf, filepos>>

-----------------------------------------------------------------------------
(* The data stage: usb_msd_copy_data and what handle_data does after it.   *)

\* Mutant of UsesFile: any command after the first READ or WRITE.
UsesFileOnce == file_op_tag # 0
UsesFile == tag = file_op_tag
Chunk(size) == IF size > BufSize THEN BufSize ELSE size

\* Mutant of StatusFor: failures are not reported.
StatusPassed(left) ==
  [sig |-> TRUE, tag |-> req_tag, residue |-> left, status |-> "COMMAND_PASSED"]
\* What usb_msd_command_complete puts into csw
StatusFor(left) ==
  [sig |-> TRUE, tag |-> req_tag, residue |-> left, status |-> result]

\* Mutants of Advance: a packet taken for the whole data stage; a data stage
\* that is not left.
AdvanceToEnd(size) == data_len' = 0 /\ mode' = "CSW"
AdvanceInMode(size) == data_len' = data_len - size /\ mode' = mode
Advance(size) ==
  /\ data_len' = data_len - size
  /\ mode' = IF data_len' = 0 THEN "CSW" ELSE mode

\* The bytes of one packet went through; command_complete runs after every
\* packet, and the part of a packet that does not fit into buf is skipped.
CopyData(size, data) ==
  /\ csw' = StatusFor(data_len - Chunk(size))
  /\ Advance(size)
  /\ moved' = moved + Chunk(size)
  /\ IF UsesFile
     THEN filepos' = filepos + Chunk(size) /\ filepos' <= ImageSize
     ELSE UNCHANGED filepos
  /\ reply' = Reply("SUCCESS", size, data)
  /\ UNCHANGED <<result, sense, deferred>>

\* fread or fwrite came up short.  The packet is stalled, but then skipped
\* when an earlier packet left csw.residue set, and otherwise deferred.
CopyFails(size, code) ==
  /\ UsesFile /\ size > 0
  /\ result' = "COMMAND_FAILED" /\ sense' = code
  /\ \E got \in 0 .. size - 1 :
       filepos' = filepos + got /\ (got # 0 => filepos' <= ImageSize)
  /\ IF csw.residue # 0
     THEN /\ Advance(size)
          /\ reply' = Reply("STALL", size, "none")
          /\ UNCHANGED deferred
     ELSE /\ deferred' = TRUE
          /\ reply' = Reply("ASYNC", 0, "none")
          /\ UNCHANGED <<data_len, mode>>
  /\ UNCHANGED <<csw, moved>>

DataOut(size) ==
  /\ ~deferred /\ mode = "DATAOUT" /\ size \in 1 .. data_len
  /\ buf' = "host"
  /\ CopyData(size, "none") \/ CopyFails(size, "WRITE_FAULT")
  /\ UNCHANGED <<tag, req_tag, file_op_tag, last_cmd>>

\* Mutant of DataIn: the packet is not compared with what is left.
DataInUnchecked(size) ==
  /\ ~deferred /\ mode = "DATAIN"
  /\ buf' = IF UsesFile THEN "file" ELSE buf
  /\ CopyData(size, buf') \/ CopyFails(size, "READ_ERROR")
  /\ UNCHANGED <<tag, req_tag, file_op_tag, last_cmd>>
DataIn(size) ==
  /\ ~deferred /\ mode = "DATAIN" /\ size <= data_len
  /\ buf' = IF UsesFile THEN "file" ELSE buf
  /\ CopyData(size, buf') \/ CopyFails(size, "READ_ERROR")
  /\ UNCHANGED <<tag, req_tag, file_op_tag, last_cmd>>

\* The host asks for more than is left: the command fails.
DataInTooLong(size) ==
  /\ ~deferred /\ mode = "DATAIN" /\ size > data_len
  /\ result' = "COMMAND_FAILED" /\ sense' = "READ_ERROR"
  /\ reply' = Stall
  /\ UNCHANGED <<mode, data_len, tag, req_tag, file_op_tag, csw, buf, last_cmd,
                 filepos, deferred, moved>>

-----------------------------------------------------------------------------
(* The status stage and the packets the device refuses.                    *)

\* An IN packet in mode CSW: command_complete, then usb_msd_send_status.
SendStatus(size) ==
  /\ ~deferred /\ mode = "CSW" /\ size >= CswSize
  /\ reply' = [Reply("SUCCESS", CswSize, "csw") EXCEPT !.csw = StatusFor(data_len)]
  /\ csw' = NoCsw /\ mode' = "CBW"
  /\ UNCHANGED <<data_len, tag, req_tag, file_op_tag, result, sense, buf,
                 last_cmd, filepos, deferred, moved>>

\* Mutant of DeferStatus: in the middle of the stage as well.
DeferStatusEarly(size) ==
  /\ ~deferred /\ mode = "DATAOUT" /\ size >= CswSize
  /\ deferred' = TRUE /\ reply' = Reply("ASYNC", 0, "none")
  /\ UNCHANGED <<mode, data_len, tag, req_tag, file_op_tag, result, csw, sense,
                 buf, last_cmd, filepos, moved>>
\* An IN packet after the last byte of a DATAOUT stage waits for the write.
DeferStatus(size) ==
  /\ ~deferred /\ mode = "DATAOUT" /\ data_len = 0 /\ size >= CswSize
  /\ deferred' = TRUE /\ reply' = Reply("ASYNC", 0, "none")
  /\ UNCHANGED <<mode, data_len, tag, req_tag, file_op_tag, result, csw, sense,
                 buf, last_cmd, filepos, moved>>

OutRefused(size) ==  \* also a command block that is not well formed
  \/ mode \in {"CBW", "DATAIN", "CSW"}
  \/ mode = "DATAOUT" /\ (size > data_len \/ size = 0)
InRefused(size) ==
  \/ mode = "CBW"
  \/ mode = "CSW" /\ size < CswSize
  \/ mode = "DATAOUT" /\ (data_len # 0 \/ size < CswSize)

\* Every path to the fail label that changes nothing but the packet.
Refuse(size) ==
  /\ ~deferred /\ (OutRefused(size) \/ InRefused(size))
  /\ reply' = Stall
  /\ UNCHANGED <<mode, data_len, tag, req_tag, file_op_tag, result, csw, sense,
                 buf, last_cmd, filepos, deferred, moved>>

-----------------------------------------------------------------------------
(* Resets and cancellation.                                                *)

\* Bulk-only reset, a control request: like any packet it waits its turn.
MassStorageReset ==
  /\ ~deferred
  /\ mode' = "CBW" /\ reply' = Reply("SUCCESS", 0, "none")
  /\ UNCHANGED <<data_len, tag, req_tag, file_op_tag, result, csw, sense, buf,
                 last_cmd, filepos, deferred, moved>>

\* usb_msd_handle_reset: a port reset comes through a register write, so it
\* may find a packet deferred and leaves it so.
HandleReset ==
  /\ mode' = "CBW"
  /\ UNCHANGED <<data_len, tag, req_tag, file_op_tag, result, csw, sense, buf,
                 last_cmd, filepos, deferred, moved, reply>>

CancelIo ==
  /\ deferred /\ deferred' = FALSE
  /\ UNCHANGED <<mode, data_len, tag, req_tag, file_op_tag, result, csw, sense,
                 buf, last_cmd, filepos, moved, reply>>

Next ==
  \/ \E c \in Commands : BufCommand(c) \/ FileCommand(c) \/ UnknownCommand(c)
  \/ \E size \in Sizes : \/ DataOut(size)
                         \/ DataIn(size)
                         \/ DataInTooLong(size)
                         \/ SendStatus(size)
                         \/ DeferStatus(size)
                         \/ Refuse(size)
  \/ MassStorageReset
  \/ HandleReset
  \/ CancelIo

Spec == Init /\ [][Next]_vars

-----------------------------------------------------------------------------
(* Properties.                                                             *)

Csw == [sig : BOOLEAN, tag : Tags, residue : Nat, status : Results]
ReplyData == Contents \cup {"none", "csw"}

TypeOK ==
  /\ mode \in {"CBW", "DATAOUT", "DATAIN", "CSW"}
  /\ data_len \in Nat /\ moved \in Nat /\ filepos \in Nat
  /\ tag \in Tags /\ req_tag \in Tags /\ file_op_tag \in Tags
  /\ result \in Results /\ csw \in Csw
  /\ sense \in SenseCodes /\ buf \in Contents
  /\ last_cmd \in [op : Opcodes \cup {"none"}, lba : Lbas, asked : Lens]
  /\ deferred \in BOOLEAN
  /\ reply \in [status : {"SUCCESS", "STALL", "ASYNC"}, len : Nat,
                data : ReplyData, csw : Csw]

\* While a command has not failed, the bytes moved and the bytes still
\* counted in data_len add up to what it asked for: the subtractions of
\* usb_msd_copy_data and of the skips in usb_msd_handle_data lose nothing.
BytesAccountedFor ==
  result = "COMMAND_PASSED" => moved + data_len = last_cmd.asked

\* A READ or WRITE that has not failed is at the offset of the image that
\* its block address and its progress name, however its packets were cut
\* and whatever was refused or deferred before it.
FileAtCommandOffset ==
  (last_cmd.op \in FileOps /\ last_cmd.asked # 0 /\ result = "COMMAND_PASSED")
    => filepos = last_cmd.lba * BlockSize + moved

\* The status wrapper the driver reads is about the command it last sent,
\* claims success only if the bytes it does not call residue were moved, and
\* claims failure only when REQUEST_SENSE has a cause to tell.
StatusTellsTruth ==
  reply.data = "csw" =>
    /\ reply.csw.tag = tag
    /\ reply.csw.status = "COMMAND_PASSED" =>
          moved = last_cmd.asked - reply.csw.residue
    /\ reply.csw.status = "COMMAND_FAILED" => sense # "NO_SENSE"

\* What a REQUEST_SENSE command reads is the sense data kept for it, although
\* the tag decides, packet by packet, between s->f.buf and the image.
SenseDelivered ==
  (last_cmd.op = "REQUEST_SENSE" /\ reply.data \in Contents /\ reply.len > 0
     /\ result = "COMMAND_PASSED") => reply.data = sense

\* A packet is left waiting only by a failed transfer, before any packet of
\* the command went through, or for the status of a write of nothing.
DeferredOnlyWhenStuck ==
  (deferred /\ mode # "CBW") =>
    \/ result = "COMMAND_FAILED" /\ csw.residue = 0 /\ data_len > 0
    \/ mode = "DATAOUT" /\ data_len = 0

\* The device keeps what it promises: BulkOnly, with the mode as the phase.
Bulk == INSTANCE BulkOnly WITH
  NoReport <- NoCsw,
  phase <- CASE mode = "CBW" -> "command" [] mode = "CSW" -> "status" [] OTHER -> "data",
  ok <- (result = "COMMAND_PASSED"), asked <- last_cmd.asked, left <- data_len,
  report <- reply.csw
ImplementsBulkOnly == Bulk!Spec
===============================================================================
