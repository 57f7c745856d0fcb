------------------------------- MODULE MCUsbMsd -------------------------------
(* Small commands and packets for UsbMsd: a block is two bytes, a buffer     *)
(* holds two, a status wrapper is one.                                     *)
EXTENDS UsbMsd

CONSTANTS FileTags, BufTags   \* tags the driver uses for each kind of command

MCTags  == {0} \cup FileTags \cup BufTags
MCLbas  == {0, 1}
MCLens  == {0, 2, 4}
MCSizes == 0 .. 2

\* Consistent reads and writes, and ones whose two lengths or whose direction
\* disagree; buffer commands in either direction; an unknown opcode.
MCCommands ==
  [op : {"READ"}, tag : FileTags, len : {0, 4}, in : {TRUE}, lba : {1}, xfer : {0, 4}]
  \cup
  [op : {"WRITE"}, tag : FileTags, len : {4}, in : {FALSE}, lba : {0}, xfer : {0, 4}]
  \cup
  [op : {"READ", "WRITE"}, tag : FileTags, len : {2}, in : BOOLEAN, lba : {0}, xfer : {2}]
  \cup
  [op : BufOps \cup {"UNKNOWN"}, tag : BufTags, len : {0, 2}, in : BOOLEAN, lba : {0}, xfer : {0}]
===============================================================================
