------------------------------- MODULE CameraRegs -------------------------------
(***************************************************************************)
(* The registers of the EyeToy (usb-eyetoy-webcam.cpp): those of the       *)
(* bridge are written and read by control transfers, and four of them      *)
(* reach those of the sensor: an address to write, one to read, a byte of  *)
(* data, and a control register that carries a write or a read out.        *)
(*                                                                         *)
(* Drivers do so in several transfers, and a reset of the bus may come     *)
(* between any two.                                                        *)
(***************************************************************************)
EXTENDS Integers

CONSTANTS
  Registers,   \* of the sensor
  Beyond,      \* an address of none
  Common,      \* of the sensor: 0x12, which can reset it
  Defaults,    \* those that a reset sets, and to what
  Values, ResetBit
CameraRegsConstants ==
  /\ Common \in DOMAIN Defaults /\ DOMAIN Defaults \subseteq Registers /\ Beyond \notin Registers
  /\ Registers \subseteq Nat /\ \A r \in DOMAIN Defaults : Defaults[r] \in Values \cup {ResetBit, 0}
  /\ Values \cup {ResetBit} \subseteq Nat /\ ResetBit \notin Values

VARIABLES
  regs,       \* of the bridge
  i2c_regs,   \* of the sensor
  job,        \* what the driver is doing: its next step, the register, the value
  result,     \* what it read last, or <<>>
  memory      \* history: what the sensor must hold
vars == <<regs, i2c_regs, job, result, memory>>

R51x_I2C_SADDR_3 == "SADDR_3"
R51x_I2C_SADDR_2 == "SADDR_2"
R51x_I2C_DATA == "DATA"
R518_I2C_CTL == "CTL"
Bridge == {R51x_I2C_SADDR_3, R51x_I2C_SADDR_2, R51x_I2C_DATA, R518_I2C_CTL}
Addresses == Registers \cup {Beyond}
NoJob == [step |-> "none", reg |-> Beyond, val |-> 0]

\* reset_i2c: those without a default keep what they have.
ResetI2c(i2c) == [r \in Registers |-> IF r \in DOMAIN Defaults THEN Defaults[r] ELSE i2c[r]]

Init ==
  /\ regs = [R \in Bridge |-> 0]
  /\ i2c_regs = ResetI2c([r \in Registers |-> 0]) /\ memory = i2c_regs
  /\ job = NoJob /\ result = <<>>

-----------------------------------------------------------------------------
(* A write to the bridge: to its control register it carries out what the  *)
(* others say.                                                             *)

\* A write to the sensor; one with the reset bit to the common register resets.
Commit(i2c, reg, val) ==
  IF reg = Common /\ val = ResetBit THEN ResetI2c(i2c)
  ELSE IF reg \in Registers THEN [i2c EXCEPT ![reg] = val] ELSE i2c
\* A read: 3, then 5.
Fetches(val) == regs[R518_I2C_CTL] = 3 /\ val = 5
Fetched == IF regs[R51x_I2C_SADDR_2] \in Registers THEN i2c_regs[regs[R51x_I2C_SADDR_2]] ELSE 0

WriteCtl(val) ==
  /\ i2c_regs' = IF val = 1 THEN Commit(i2c_regs, regs[R51x_I2C_SADDR_3], regs[R51x_I2C_DATA])
                 ELSE i2c_regs
  /\ regs' = [regs EXCEPT ![R518_I2C_CTL] = val,
                          ![R51x_I2C_DATA] = IF val # 1 /\ Fetches(val) THEN Fetched ELSE @]
WriteReg(index, val) == regs' = [regs EXCEPT ![index] = val] /\ UNCHANGED i2c_regs

-----------------------------------------------------------------------------
(* A driver, one transfer after the other.                                 *)

Goto(step) == job' = [job EXCEPT !.step = step]

Begin(r, v, step) ==
  /\ job.step = "none" /\ job' = [step |-> step, reg |-> r, val |-> v]
  /\ result' = <<>> /\ UNCHANGED <<regs, i2c_regs, memory>>
WriteSensor ==
  /\ UNCHANGED result
  /\ \/ job.step = "w1" /\ WriteReg(R51x_I2C_SADDR_3, job.reg) /\ Goto("w2") /\ UNCHANGED memory
     \/ job.step = "w2" /\ WriteReg(R51x_I2C_DATA, job.val) /\ Goto("w3") /\ UNCHANGED memory
     \/ /\ job.step = "w3" /\ WriteCtl(1) /\ job' = NoJob
        /\ memory' = IF job.reg = Common /\ job.val = ResetBit
                     THEN [r \in Registers |-> IF r \in DOMAIN Defaults THEN Defaults[r] ELSE memory[r]]
                     ELSE [r \in Registers |-> IF r = job.reg THEN job.val ELSE memory[r]]
ReadSensor ==
  /\ UNCHANGED memory
  /\ \/ job.step = "r1" /\ WriteReg(R51x_I2C_SADDR_2, job.reg) /\ Goto("r2") /\ UNCHANGED result
     \/ job.step = "r2" /\ WriteCtl(3) /\ Goto("r3") /\ UNCHANGED result
     \/ job.step = "r3" /\ WriteCtl(5) /\ Goto("r4") /\ UNCHANGED result
     \/ /\ job.step = "r4" /\ result' = <<job.reg, regs[R51x_I2C_DATA]>> /\ job' = NoJob
        /\ UNCHANGED <<regs, i2c_regs>>
\* A driver that gives up, and a reset of the bus, which only the sensor's
\* registers know of.
GiveUp == job.step # "none" /\ job' = NoJob /\ UNCHANGED <<regs, i2c_regs, result, memory>>
HandleReset ==
  /\ i2c_regs' = ResetI2c(i2c_regs)
  /\ memory' = [r \in Registers |-> IF r \in DOMAIN Defaults THEN Defaults[r] ELSE memory[r]]
  /\ job' = NoJob /\ result' = <<>> /\ UNCHANGED regs

Next ==
  \/ \E r \in Addresses, v \in Values \cup {ResetBit} : Begin(r, v, "w1")
  \/ \E r \in Addresses : Begin(r, 0, "r1")
  \/ WriteSensor \/ ReadSensor \/ GiveUp \/ HandleReset
Spec == Init /\ [][Next]_vars

-----------------------------------------------------------------------------
(* Properties.                                                             *)

\* Type invariant.  What a register of the bridge can hold depends on how far
\* the driver is: a read that is carried out has left 5 in the control register.
TypeOK ==
  /\ i2c_regs \in [Registers -> Values \cup {ResetBit, 0}]
  /\ regs[R51x_I2C_DATA] \in Values \cup {ResetBit, 0}
  /\ \A R \in {R51x_I2C_SADDR_2, R51x_I2C_SADDR_3} : regs[R] \in Addresses \cup {0}
  /\ regs[R518_I2C_CTL] \in {0, 1, 3, 5}
  /\ job.step = "r3" => regs[R518_I2C_CTL] = 3
  /\ job.step = "r4" => regs[R518_I2C_CTL] = 5

\* What a driver reads is what was written last, by it or by a reset, whatever
\* it gave up in between; an address of no register reads as 0.
ReadsWhatIsThere ==
  result # <<>> => result[2] = IF result[1] \in Registers THEN memory[result[1]] ELSE 0
\* The sensor holds what was written to it.
SensorHolds == i2c_regs = memory
=============================================================================
