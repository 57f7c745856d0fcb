----------------------------- MODULE OhciListsProofs -----------------------------
(***************************************************************************)
(* What OhciLists keeps for every set of descriptors, lists, devices and   *)
(* delays: the done queue and its counter, the packet in flight and the    *)
(* descriptor it came from, and the descriptors a frame works on.          *)
(***************************************************************************)
EXTENDS OhciLists, FiniteSetTheorems, TLAPS

-----------------------------------------------------------------------------
(* Sequences as sets.                                                      *)

\* The head of a queue and its tail make up the queue.
LEMMA HeadAndTail ==
  ASSUME NEW S, NEW s \in Seq(S), s # <<>>
  PROVE  /\ Head(s) \in S /\ Tail(s) \in Seq(S)
         /\ InSeq(s) = InSeq(Tail(s)) \cup {Head(s)}
<1>1. Len(s) \in Nat \ {0} /\ Head(s) = s[1] /\ Tail(s) \in Seq(S)
  OBVIOUS
<1>2. Len(Tail(s)) = Len(s) - 1 /\ \A i \in 1 .. Len(s) - 1 : Tail(s)[i] = s[i + 1]
  OBVIOUS
<1>3. \A i \in 1 .. Len(s) : s[i] = Head(s) \/ s[i] \in InSeq(Tail(s))
  <2> SUFFICES ASSUME NEW i \in 1 .. Len(s), i # 1 PROVE s[i] \in InSeq(Tail(s))
    BY <1>1
  <2>1. i - 1 \in 1 .. Len(Tail(s)) /\ Tail(s)[i - 1] = s[i]
    BY <1>1, <1>2
  <2> QED BY <2>1 DEF InSeq
<1>4. \A i \in 1 .. Len(Tail(s)) : Tail(s)[i] \in InSeq(s)
  <2> SUFFICES ASSUME NEW i \in 1 .. Len(Tail(s)) PROVE Tail(s)[i] \in InSeq(s)
    OBVIOUS
  <2>1. i + 1 \in 1 .. Len(s) /\ Tail(s)[i] = s[i + 1]
    BY <1>1, <1>2
  <2> QED BY <2>1 DEF InSeq
<1>5. Head(s) \in InSeq(s) /\ Head(s) \in S
  BY <1>1 DEF InSeq
<1> QED BY <1>1, <1>3, <1>4, <1>5 DEF InSeq

\* A new head of the done queue adds itself and nothing else.
LEMMA NewHead ==
  ASSUME NEW S, NEW s \in Seq(S), NEW x \in S
  PROVE  /\ <<x>> \o s \in Seq(S) /\ <<x>> \o s # <<>>
         /\ InSeq(<<x>> \o s) = InSeq(s) \cup {x}
<1> DEFINE r == <<x>> \o s
<1>1. /\ r \in Seq(S) /\ Len(r) = Len(s) + 1 /\ Len(s) \in Nat
      /\ r[1] = x /\ \A i \in 1 .. Len(s) : r[i + 1] = s[i]
  OBVIOUS
<1>2. \A i \in 1 .. Len(r) : r[i] = x \/ r[i] \in InSeq(s)
  <2> SUFFICES ASSUME NEW i \in 1 .. Len(r), i # 1 PROVE r[i] \in InSeq(s)
    BY <1>1
  <2>1. i - 1 \in 1 .. Len(s) /\ r[i] = s[i - 1]
    BY <1>1
  <2> QED BY <2>1 DEF InSeq
<1>3. x \in InSeq(r) /\ \A i \in 1 .. Len(s) : s[i] \in InSeq(r)
  <2>1. \A i \in 1 .. Len(s) : i + 1 \in 1 .. Len(r) /\ r[i + 1] = s[i]
    BY <1>1
  <2> QED BY <1>1, <2>1 DEF InSeq
<1>4. r # <<>>
  BY <1>1
<1> QED BY <1>1, <1>2, <1>3, <1>4 DEF InSeq

\* A new tail of a queue: the old members stay.
LEMMA NewTail ==
  ASSUME NEW S, NEW s \in Seq(S), NEW x \in S
  PROVE  Append(s, x) \in Seq(S) /\ InSeq(s) \subseteq InSeq(Append(s, x))
<1>1. /\ Append(s, x) \in Seq(S) /\ Len(Append(s, x)) = Len(s) + 1 /\ Len(s) \in Nat
      /\ \A i \in 1 .. Len(s) : Append(s, x)[i] = s[i]
  OBVIOUS
<1> QED BY <1>1 DEF InSeq

-----------------------------------------------------------------------------
(* Type correctness.  Outside a list the frame has no descriptor open or   *)
(* still to read, so the driver may take queues away from it.              *)

CursorInFrame == pc \notin Lists => cur = NoEd /\ todo = {}
Shape == TypeOK /\ CursorInFrame

LEMMA CodesAreCodes ==
  /\ DeviceErrors \subseteq Codes /\ {"NOERROR", "NOTACCESSED", "DATAUNDERRUN"} \subseteq Codes
  /\ "NOERROR" \notin DeviceErrors /\ "NOTACCESSED" \notin DeviceErrors
BY DEF Codes, Errors, DeviceErrors

\* Retirement keeps the types, and its done queue is not empty.
LEMMA RetireType ==
  ASSUME TypeOK, cur # NoEd, NEW count \in 0 .. 7, NEW code \in Codes, RetireTo(count, code)
  PROVE  /\ cur \in Eds /\ queue[cur] \in Seq(Tds) /\ queue[cur] # <<>> /\ Td \in Tds
         /\ queue' \in [Eds -> Seq(Tds)] /\ queue'[cur] = Tail(queue[cur])
         /\ td' \in [Tds -> [di : 0 .. 7, left : 0 .. MaxPackets, cc : Codes]]
         /\ done' \in Seq(Tds) /\ done' # <<>>
         /\ done_count' \in 0 .. 7 /\ done_count' <= count
<1>1. cur \in Eds /\ queue[cur] \in Seq(Tds) /\ queue[cur] # <<>>
  BY DEF TypeOK
<1>2. Td \in Tds /\ Tail(queue[cur]) \in Seq(Tds)
  BY <1>1, HeadAndTail DEF Td
<1>3. queue' \in [Eds -> Seq(Tds)] /\ queue'[cur] = Tail(queue[cur])
  BY <1>1, <1>2 DEF RetireTo, TypeOK
<1>4. td' \in [Tds -> [di : 0 .. 7, left : 0 .. MaxPackets, cc : Codes]]
  <2>1. MaxPackets \in Nat /\ 0 \in 0 .. MaxPackets
    BY ListConstants
  <2> QED BY <1>2, <2>1 DEF RetireTo, TypeOK
<1>5. done' \in Seq(Tds) /\ done' # <<>>
  BY <1>2, NewHead DEF RetireTo, TypeOK
<1>6. done_count' \in 0 .. 7 /\ done_count' <= count
  <2>1. td[Td].di \in 0 .. 7
    BY <1>2 DEF TypeOK
  <2> QED BY <2>1 DEF RetireTo, Lower
<1> QED BY <1>1, <1>2, <1>3, <1>4, <1>5, <1>6

LEMMA InitShape == Init => Shape
<1> SUFFICES ASSUME Init PROVE Shape
  OBVIOUS
<1>1. FreeTd \in [di : 0 .. 7, left : 0 .. MaxPackets, cc : Codes]
  BY ListConstants, CodesAreCodes DEF FreeTd
<1>2. td \in [Tds -> [di : 0 .. 7, left : 0 .. MaxPackets, cc : Codes]]
  BY <1>1 DEF Init
<1>3. packet \in [state : {"none", "async"}, ed : Eds \cup {NoEd}]
  BY DEF Init, NoPacket
<1>4. queue \in [Eds -> Seq(Tds)] /\ done \in Seq(Tds) /\ hcca_done \in Seq(Tds)
  BY DEF Init
<1>5. /\ enabled \in SUBSET Lists /\ old_ctl \in SUBSET Lists
      /\ filled \in SUBSET {"control", "bulk"} /\ hcfs \in BusStates
      /\ wd \in BOOLEAN /\ ue \in BOOLEAN /\ running \in BOOLEAN
  BY DEF Init, BusStates
<1>6. /\ halted \in SUBSET Eds /\ skip \in SUBSET Eds
      /\ done_count \in 0 .. 7 /\ async_td \in Tds \cup {NoTd}
  BY DEF Init
<1>7. /\ pc = "idle" /\ todo = {} /\ cur = NoEd /\ active = FALSE
      /\ submitted \in SUBSET Tds
  BY DEF Init
<1> QED BY <1>2, <1>3, <1>4, <1>5, <1>6, <1>7 DEF Shape, TypeOK, CursorInFrame

LEMMA ResetType ==
  ASSUME NEW state \in BusStates, ResetTo(state)
  PROVE  /\ enabled' \in SUBSET Lists /\ old_ctl' \in SUBSET Lists
         /\ filled' \in SUBSET {"control", "bulk"} /\ hcfs' \in BusStates
         /\ wd' \in BOOLEAN /\ running' \in BOOLEAN
         /\ done' \in Seq(Tds) /\ done_count' \in 0 .. 7
<1>1. <<>> \in Seq(Tds)
  OBVIOUS
<1>2. /\ enabled' \in SUBSET Lists /\ old_ctl' \in SUBSET Lists
      /\ filled' \in SUBSET {"control", "bulk"} /\ hcfs' \in BusStates
  BY <1>1 DEF ResetTo
<1>3. wd' \in BOOLEAN /\ running' \in BOOLEAN
  BY Zenon DEF ResetTo
<1>4. done_count' \in 0 .. 7
  BY DEF ResetTo
<1>5. done' \in Seq(Tds)
  BY <1>1 DEF ResetTo
<1> QED BY <1>2, <1>3, <1>4, <1>5

LEMMA SoftResetType ==
  ASSUME SoftReset
  PROVE  /\ enabled' \in SUBSET Lists /\ old_ctl' \in SUBSET Lists
         /\ filled' \in SUBSET {"control", "bulk"} /\ hcfs' \in BusStates
         /\ wd' \in BOOLEAN /\ running' \in BOOLEAN
         /\ done' \in Seq(Tds) /\ done_count' \in 0 .. 7
<1>1. "SUSPEND" \in BusStates
  BY DEF BusStates
<1> QED BY <1>1, ResetType DEF SoftReset

LEMMA FrameShape ==
  ASSUME Shape,
         \/ StartFrame \/ EndPeriodic \/ EndControl \/ EndBulk \/ EndFrame
         \/ \E e \in Eds : PausedEd(e) \/ ReadEd(e)
         \/ BadEd
  PROVE  Shape'
<1> USE DEF Shape, TypeOK, CursorInFrame
<1>1. /\ NoPacket \in [state : {"none", "async"}, ed : Eds \cup {NoEd}]
      /\ \A l \in Lists : {e \in Eds : ListOf[e] = l} \in SUBSET Eds
      /\ {"periodic", "control", "bulk"} = Lists
      /\ "idle" \notin Lists /\ "eof" \notin Lists
  BY DEF NoPacket, Lists
<1>2. CASE StartFrame
  BY <1>1, <1>2 DEF StartFrame, Enter, regs, memory
<1>3. CASE EndPeriodic
  BY <1>1, <1>3 DEF EndPeriodic, Enter, Cancel, KeepPacket, memory
<1>4. CASE EndControl
  BY <1>1, <1>4 DEF EndControl, Enter, ClearFilled, memory
<1>5. CASE EndBulk
  BY <1>1, <1>5 DEF EndBulk, ListDone, ClearFilled, memory
<1>6. CASE EndFrame
  <2>1. /\ UNCHANGED <<enabled, old_ctl, hcfs, filled, ue, queue, halted, skip, td,
                       async_td, packet, todo, cur, active, submitted>>
        /\ pc = "eof" /\ pc' = "idle"
    BY <1>6 DEF EndFrame
  <2>2. /\ \/ done_count' \in {done_count, 7}
           \/ done_count \notin {0, 7} /\ done_count' = done_count - 1
        /\ \/ done' = done /\ hcca_done' = hcca_done
           \/ done' = <<>> /\ hcca_done' = done
        /\ wd' \in {wd, TRUE} /\ running' \in {running, TRUE}
    BY <1>6 DEF EndFrame, GiveDone, Countdown
  <2>3. done_count' \in 0 .. 7
    BY <2>2
  <2>4. done' \in Seq(Tds) /\ hcca_done' \in Seq(Tds)
    <3>1. <<>> \in Seq(Tds)
      OBVIOUS
    <3> QED BY <2>2, <3>1
  <2> QED BY <1>1, <2>1, <2>2, <2>3, <2>4
<1>7. ASSUME NEW e \in Eds, PausedEd(e) PROVE Shape'
  BY <1>1, <1>7 DEF PausedEd, CancelPaused, Cancel, KeepPacket, regs, memory
<1>8. ASSUME NEW e \in Eds, ReadEd(e) PROVE Shape'
  <2>1. UNCHANGED <<regs, memory, done, done_count, async_td, packet, pc, submitted>>
        /\ todo' = todo \ {e}
    BY <1>8 DEF ReadEd
  <2>2. cur' \in Eds \cup {NoEd} /\ active' \in BOOLEAN /\ (cur' # NoEd => queue'[cur'] # <<>>)
    <3>1. cur = NoEd /\ queue' = queue
      BY <1>8 DEF ReadEd, memory
    <3>2. CASE queue[e] = <<>>
      BY <1>8, <3>1, <3>2 DEF ReadEd
    <3>3. CASE queue[e] # <<>>
      BY <1>8, <3>1, <3>3 DEF ReadEd
    <3> QED BY <3>2, <3>3
  <2>3. pc' \in Lists
    BY <1>8, <2>1 DEF ReadEd
  <2>4. /\ UNCHANGED <<enabled, old_ctl, hcfs, filled, wd, ue, running>>
        /\ UNCHANGED <<queue, halted, skip, td, hcca_done, done, done_count, async_td, packet>>
        /\ pc' = pc /\ submitted' = submitted /\ todo' \in SUBSET Eds
    BY <2>1 DEF regs, memory
  <2> QED BY <2>2, <2>3, <2>4
<1>9. CASE BadEd
  BY <1>9, SoftResetType DEF BadEd, memory
<1> QED BY <1>2, <1>3, <1>4, <1>5, <1>6, <1>7, <1>8, <1>9

LEMMA ServiceShape == ASSUME Shape, Service PROVE Shape'
<1> USE DEF Shape
<1>1. /\ cur \in Eds /\ queue[cur] \in Seq(Tds) /\ queue[cur] # <<>> /\ pc \in Lists
      /\ Td \in Tds
  <2>1. cur # NoEd
    BY DEF Service, Wait, Defer, Nak, PartialOut, Complete, Underrun, DeviceError,
           BadTd, UnmappedTd, UnmappedBuffer
  <2>2. cur \in Eds /\ queue[cur] \in Seq(Tds) /\ queue[cur] # <<>> /\ pc \in Lists
    BY <2>1 DEF TypeOK, CursorInFrame
  <2> QED BY <2>2, HeadAndTail DEF Td
<1>2. CASE Wait \/ Nak
  BY <1>1, <1>2 DEF Wait, Nak, Stop, Submit, regs, memory, TypeOK, CursorInFrame
<1>3. CASE Defer
  <2>1. packet' \in [state : {"none", "async"}, ed : Eds \cup {NoEd}] /\ async_td' \in Tds
    BY <1>1, <1>3 DEF Defer
  <2> QED BY <1>1, <1>3, <2>1 DEF Defer, Stop, Submit, regs, memory, TypeOK, CursorInFrame
<1>4. CASE PartialOut
  <2>1. td' \in [Tds -> [di : 0 .. 7, left : 0 .. MaxPackets, cc : Codes]]
    <3>1. td[Td] \in [di : 0 .. 7, left : 0 .. MaxPackets, cc : Codes] /\ MaxPackets \in Nat
      BY <1>1, ListConstants DEF TypeOK
    <3>2. td[Td].left - 1 \in 0 .. MaxPackets
      BY <1>4, <3>1 DEF PartialOut
    <3>3. td' = [td EXCEPT ![Td].left = @ - 1, ![Td].cc = "NOERROR"]
      BY <1>4 DEF PartialOut
    <3> QED BY <1>1, <3>1, <3>2, <3>3, CodesAreCodes DEF TypeOK
  <2> QED BY <1>1, <1>4, <2>1 DEF PartialOut, Submit, regs, frame, TypeOK, CursorInFrame
<1>5. ASSUME NEW count \in 0 .. 7, NEW code \in Codes, RetireTo(count, code),
             halted' \in SUBSET Eds, Submit, Stop \/ GoOn,
             UNCHANGED <<regs, skip, hcca_done, async_td, packet>>
      PROVE  Shape'
  <2>1. /\ queue' \in [Eds -> Seq(Tds)]
        /\ td' \in [Tds -> [di : 0 .. 7, left : 0 .. MaxPackets, cc : Codes]]
        /\ done' \in Seq(Tds) /\ done_count' \in 0 .. 7
    <3>1. cur # NoEd
      BY <1>1, ListConstants
    <3> QED BY <1>5, <3>1, RetireType
  <2>2. /\ cur' \in Eds \cup {NoEd} /\ (cur' # NoEd => queue'[cur'] # <<>>)
        /\ UNCHANGED <<pc, todo, active>>
    BY <1>1, <1>5 DEF Stop, GoOn
  <2>3. submitted' \in SUBSET Tds
    BY <1>1, <1>5 DEF Submit, TypeOK
  <2>4. UNCHANGED <<enabled, old_ctl, hcfs, filled, wd, ue, running>>
    BY <1>5 DEF regs
  <2> QED BY <1>1, <1>5, <2>1, <2>2, <2>3, <2>4 DEF TypeOK, CursorInFrame
<1>6. CASE Complete
  <2>1. done_count \in 0 .. 7 /\ halted' \in SUBSET Eds
    BY <1>6 DEF Complete, TypeOK
  <2> QED BY <1>5, <1>6, <2>1, CodesAreCodes DEF Complete
<1>7. CASE Underrun
  <2>1. done_count \in 0 .. 7 /\ halted' \in SUBSET Eds
    BY <1>1, <1>7 DEF Underrun, TypeOK
  <2> QED BY <1>5, <1>7, <2>1, CodesAreCodes DEF Underrun
<1>8. ASSUME NEW code \in DeviceCodes, DeviceError(code) PROVE Shape'
  <2>1. code \in Codes /\ halted' \in SUBSET Eds
    BY <1>1, <1>8, ListConstants, CodesAreCodes DEF DeviceError, TypeOK
  <2> QED BY <1>5, <1>8, <2>1 DEF DeviceError
<1>9. CASE BadTd
  BY <1>1, <1>9 DEF BadTd, Stop, memory, TypeOK, CursorInFrame
<1>10. CASE UnmappedTd
  BY <1>1, <1>10, SoftResetType DEF UnmappedTd, Stop, memory, TypeOK, CursorInFrame
<1>11. CASE UnmappedBuffer
  BY <1>1, <1>11, SoftResetType DEF UnmappedBuffer, memory, frame, TypeOK, CursorInFrame
<1> QED BY <1>2, <1>3, <1>4, <1>6, <1>7, <1>8, <1>9, <1>10, <1>11 DEF Service

LEMMA DriverShape == ASSUME Shape, Driver PROVE Shape'
<1> USE DEF Shape
<1>1. NoPacket \in [state : {"none", "async"}, ed : Eds \cup {NoEd}]
  BY DEF NoPacket
<1>2. FreeTd \in [di : 0 .. 7, left : 0 .. MaxPackets, cc : Codes] /\ <<>> \in Seq(Tds)
  BY ListConstants, CodesAreCodes DEF FreeTd
<1>3. pc = "idle" => cur = NoEd
  BY DEF CursorInFrame, Lists
<1>4. ASSUME NEW lists \in ListChoices, NEW state \in StateChoices, WriteControl(lists, state)
      PROVE  Shape'
  <2>1. lists \in SUBSET Lists /\ state \in BusStates
    BY ListConstants
  <2>2. running' \in BOOLEAN
    BY <1>4, <2>1 DEF WriteControl, TypeOK
  <2>3. packet' \in [state : {"none", "async"}, ed : Eds \cup {NoEd}] /\ async_td' \in Tds \cup {NoTd}
    BY <1>1, <1>4 DEF WriteControl, RoothubReset, Cancel, KeepPacket, TypeOK
  <2> QED BY <1>4, <2>1, <2>2, <2>3 DEF WriteControl, memory, frame, TypeOK, CursorInFrame
<1>5. ASSUME NEW l \in Lists, WriteFilled(l) PROVE Shape'
  <2>1. l \in {"control", "bulk"}
    BY <1>5 DEF WriteFilled, Lists
  <2> QED BY <1>5, <2>1 DEF WriteFilled, memory, frame, TypeOK, CursorInFrame
<1>6. CASE HostControllerReset
  BY <1>6, SoftResetType DEF HostControllerReset, memory, frame, TypeOK, CursorInFrame
<1>7. CASE AckError \/ Wakeup
  BY <1>7 DEF AckError, Wakeup, memory, frame, TypeOK, CursorInFrame, BusStates
<1>14. CASE HardReset
  <2>1. "RESET" \in BusStates /\ ResetTo("RESET")
    BY <1>14 DEF HardReset, BusStates
  <2>2. packet' \in [state : {"none", "async"}, ed : Eds \cup {NoEd}] /\ async_td' \in Tds \cup {NoTd}
    BY <1>1, <1>14 DEF HardReset, RoothubReset, Cancel, KeepPacket, TypeOK
  <2> QED BY <1>14, <2>1, <2>2, ResetType DEF HardReset, memory, frame, TypeOK, CursorInFrame
<1>8. CASE TakeDone
  <2>1. td' \in [Tds -> [di : 0 .. 7, left : 0 .. MaxPackets, cc : Codes]]
    BY <1>2, <1>8 DEF TakeDone, TypeOK
  <2>2. hcca_done' \in Seq(Tds) /\ wd' \in BOOLEAN
    BY <1>2, <1>8 DEF TakeDone
  <2> QED BY <1>8, <2>1, <2>2 DEF TakeDone, frame, TypeOK, CursorInFrame
<1>9. ASSUME NEW d \in Devices, Detach(d) PROVE Shape'
  BY <1>1, <1>9 DEF Detach, Cancel, regs, memory, frame, TypeOK, CursorInFrame
<1>10. ASSUME NEW e \in Eds, NEW t \in Tds, NEW d \in DelayInts, NEW n \in 1 .. MaxPackets,
              Enqueue(e, t, d, n)
       PROVE  Shape'
  <2>1. d \in 0 .. 7 /\ n \in 0 .. MaxPackets
    BY ListConstants
  <2>2. [di |-> d, left |-> n, cc |-> "NOTACCESSED"]
          \in [di : 0 .. 7, left : 0 .. MaxPackets, cc : Codes]
    BY <2>1, CodesAreCodes
  <2>3. td' \in [Tds -> [di : 0 .. 7, left : 0 .. MaxPackets, cc : Codes]]
    BY <1>10, <2>2 DEF Enqueue, TypeOK
  <2>4. queue' \in [Eds -> Seq(Tds)]
    BY <1>10, NewTail DEF Enqueue, TypeOK
  <2>5. submitted' \in SUBSET Tds /\ pc = "idle"
    BY <1>10 DEF Enqueue, TypeOK
  <2> QED BY <1>3, <1>10, <2>3, <2>4, <2>5
          DEF Enqueue, driverKeeps, regs, frame, TypeOK, CursorInFrame
<1>11. ASSUME NEW e \in Eds, SetSkip(e) PROVE Shape'
  BY <1>11 DEF SetSkip, driverKeeps, regs, frame, TypeOK, CursorInFrame
<1>12. ASSUME NEW e \in Eds, Resume(e) PROVE Shape'
  <2>1. queue' \in [Eds -> Seq(Tds)]
    BY <1>2, <1>12 DEF Resume, TypeOK
  <2> QED BY <1>3, <1>12, <2>1 DEF Resume, driverKeeps, regs, frame, TypeOK, CursorInFrame
<1>13. CASE Reclaim
  <2>1. /\ queue' \in [Eds -> Seq(Tds)] /\ hcca_done' \in Seq(Tds)
        /\ td' \in [Tds -> [di : 0 .. 7, left : 0 .. MaxPackets, cc : Codes]]
    BY <1>2, <1>13 DEF Reclaim
  <2> QED BY <1>3, <1>13, <2>1 DEF Reclaim, regs, frame, TypeOK, CursorInFrame
<1> QED BY <1>4, <1>5, <1>6, <1>7, <1>8, <1>9, <1>10, <1>11, <1>12, <1>13, <1>14 DEF Driver

LEMMA NextShape == Shape /\ [Next]_vars => Shape'
<1> SUFFICES ASSUME Shape, [Next]_vars PROVE Shape'
  OBVIOUS
<1>1. CASE UNCHANGED vars
  BY <1>1 DEF vars, regs, memory, frame, Shape, TypeOK, CursorInFrame
<1>2. CASE Next
  BY <1>2, FrameShape, ServiceShape, DriverShape DEF Next, Controller
<1> QED BY <1>1, <1>2

LEMMA ShapeInvariant == Spec => []Shape
BY InitShape, NextShape, PTL DEF Spec

\* The registers, queues and the frame's place in them keep their types; in
\* particular the frame never reads the head of an empty queue.
THEOREM TypeCorrect == Spec => []TypeOK
<1>1. Shape => TypeOK
  BY DEF Shape
<1> QED BY <1>1, ShapeInvariant, PTL

-----------------------------------------------------------------------------
(* The done queue and its counter.                                         *)

Retires == \E count \in {0, done_count}, code \in Codes :
  /\ cur # NoEd /\ RetireTo(count, code)
  /\ code \in DeviceErrors => count = 0

\* The steps that touch the done queue, its counter or the condition code of
\* a descriptor on it.
LEMMA DoneSteps ==
  ASSUME Shape, Next
  PROVE  \/ /\ UNCHANGED <<done, done_count>>
            /\ \A t \in Tds : t \in InSeq(done) =>
                 td'[t].cc \in {td[t].cc, "NOERROR", "NOTACCESSED"}
         \/ \E state : ResetTo(state)
         \/ Retires
         \/ EndFrame
<1> DEFINE Same == UNCHANGED <<done, done_count, td>>
<1> DEFINE Changed == /\ UNCHANGED <<done, done_count>>
                      /\ \A t \in Tds : t \in InSeq(done) =>
                           td'[t].cc \in {td[t].cc, "NOERROR", "NOTACCESSED"}
<1>1. CASE \/ StartFrame \/ EndPeriodic \/ EndControl \/ EndBulk
           \/ \E e \in Eds : PausedEd(e) \/ ReadEd(e)
           \/ Wait \/ Defer \/ Nak \/ BadTd
  <2>1. Same
    BY <1>1 DEF StartFrame, EndPeriodic, EndControl, EndBulk, PausedEd, CancelPaused, ReadEd,
                Wait, Defer, Nak, BadTd, memory
  <2> QED BY <2>1
<1>2. CASE \/ \E lists \in ListChoices, state \in StateChoices : WriteControl(lists, state)
           \/ \E l \in Lists : WriteFilled(l)
           \/ AckError \/ Wakeup
           \/ \E d \in Devices : Detach(d)
           \/ \E e \in Eds : SetSkip(e) \/ Resume(e)
  <2>1. Same
    BY <1>2 DEF WriteControl, WriteFilled, AckError, Wakeup, Detach, SetSkip, Resume, driverKeeps, memory
  <2> QED BY <2>1
<1>3. CASE BadEd \/ UnmappedTd \/ UnmappedBuffer \/ HostControllerReset \/ HardReset
  BY <1>3 DEF BadEd, UnmappedTd, UnmappedBuffer, HostControllerReset, HardReset, SoftReset
<1>4. CASE Complete \/ Underrun
  <2>1. "NOERROR" \in Codes \ DeviceErrors /\ "DATAUNDERRUN" \in Codes \ DeviceErrors
    BY CodesAreCodes DEF DeviceErrors
  <2> QED BY <1>4, <2>1 DEF Complete, Underrun, Retires
<1>5. ASSUME NEW code \in DeviceCodes, DeviceError(code) PROVE Retires
  BY <1>5, ListConstants, CodesAreCodes DEF DeviceError, Retires
<1>6. CASE PartialOut
  <2>1. UNCHANGED <<done, done_count>> /\ td' = [td EXCEPT ![Td].left = @ - 1, ![Td].cc = "NOERROR"]
    BY <1>6 DEF PartialOut
  <2>2. \A t \in Tds : td'[t].cc \in {td[t].cc, "NOERROR"}
    BY <2>1 DEF Shape, TypeOK
  <2> QED BY <2>1, <2>2
<1>7. CASE TakeDone \/ Reclaim
  <2>1. UNCHANGED <<done, done_count>> /\ \A t \in Tds : td'[t] \in {td[t], FreeTd}
    BY <1>7 DEF TakeDone, Reclaim
  <2>2. FreeTd.cc = "NOTACCESSED"
    BY DEF FreeTd
  <2> QED BY <2>1, <2>2
<1>8. ASSUME NEW e \in Eds, NEW t \in Tds, NEW d \in DelayInts, NEW n \in 1 .. MaxPackets,
             Enqueue(e, t, d, n)
      PROVE  Changed
  <2>1. UNCHANGED <<done, done_count>> /\ t \notin InSeq(done)
    BY <1>8 DEF Enqueue, driverKeeps, Held
  <2>2. \A u \in Tds \ {t} : td'[u] = td[u]
    BY <1>8 DEF Enqueue, Shape, TypeOK
  <2> QED BY <2>1, <2>2
<1> QED BY <1>1, <1>2, <1>3, <1>4, <1>5, <1>6, <1>7, <1>8
        DEF Next, Controller, Service, Driver

LEMMA DoneCountStep ==
  ASSUME Shape, DoneCountMeansDone, [Next]_vars
  PROVE  DoneCountMeansDone'
<1> USE DEF DoneCountMeansDone
<1>1. CASE UNCHANGED <<done, done_count>>
  BY <1>1
<1>2. ASSUME NEW state, ResetTo(state) PROVE DoneCountMeansDone'
  BY <1>2 DEF ResetTo
<1>3. CASE Retires
  BY <1>3, RetireType, SMTT(30) DEF Retires, Shape, TypeOK
<1>4. CASE EndFrame
  <2>1. CASE done_count' = 7
    BY <2>1
  <2>2. CASE done' = done /\ (done_count' = done_count \/ (done_count # 7 /\ done_count' = done_count - 1))
    BY <2>2 DEF Shape, TypeOK
  <2> QED BY <1>4, <2>1, <2>2 DEF EndFrame, GiveDone, Countdown
<1> QED BY <1>1, <1>2, <1>3, <1>4, DoneSteps DEF vars

\* An interrupt counter that is not at rest belongs to a done queue that is
\* not empty: the abort() of ohci_frame_boundary is out of reach.
THEOREM CounterHasDone == Spec => []DoneCountMeansDone
<1>1. Init => DoneCountMeansDone
  BY DEF Init, DoneCountMeansDone
<1> QED BY <1>1, DoneCountStep, ShapeInvariant, PTL DEF Spec

LEMMA ErrorCountStep ==
  ASSUME Shape, DeviceErrorClearsCount, [Next]_vars
  PROVE  DeviceErrorClearsCount'
<1> DEFINE Bad(t) == td[t].cc \in DeviceErrors
<1>1. DeviceErrorClearsCount <=> \A t \in InSeq(done) : Bad(t) => done_count = 0
  BY DEF DeviceErrorClearsCount, InSeq
<1>2. DeviceErrorClearsCount' <=> \A t \in InSeq(done)' : Bad(t)' => done_count' = 0
  BY DEF DeviceErrorClearsCount, InSeq
<1>3. InSeq(done) \subseteq Tds
  BY DEF InSeq, Shape, TypeOK
<1>4. CASE UNCHANGED vars
  BY <1>4 DEF vars, memory, DeviceErrorClearsCount
<1>5. CASE /\ UNCHANGED <<done, done_count>>
           /\ \A t \in Tds : t \in InSeq(done) =>
                td'[t].cc \in {td[t].cc, "NOERROR", "NOTACCESSED"}
  <2>1. \A t \in InSeq(done) : Bad(t)' => Bad(t)
    BY <1>3, <1>5, CodesAreCodes
  <2> QED BY <1>1, <1>2, <1>5, <2>1 DEF InSeq
<1>6. ASSUME NEW state, ResetTo(state) PROVE DeviceErrorClearsCount'
  <2>1. InSeq(done)' = {}
    BY <1>6 DEF ResetTo, InSeq
  <2> QED BY <1>2, <2>1
<1>7. CASE Retires
  <2>1. PICK count \in {0, done_count}, code \in Codes :
          /\ cur # NoEd /\ RetireTo(count, code)
          /\ code \in DeviceErrors => count = 0
    BY <1>7 DEF Retires
  <2>2. count \in 0 .. 7
    BY DEF Shape, TypeOK
  <2>3. Td \in Tds /\ done_count' \in 0 .. 7 /\ done_count' <= count
    BY <2>1, <2>2, RetireType DEF Shape
  <2>4. InSeq(done)' = InSeq(done) \cup {Td}
    <3>1. done' = <<Td>> \o done /\ done \in Seq(Tds)
      BY <2>1 DEF RetireTo, Shape, TypeOK
    <3>2. InSeq(<<Td>> \o done) = InSeq(done) \cup {Td}
      BY <2>3, <3>1, NewHead
    <3> QED BY <3>1, <3>2
  <2>5. td'[Td].cc = code /\ \A t \in Tds \ {Td} : td'[t] = td[t]
    BY <2>1, <2>3 DEF RetireTo, Shape, TypeOK
  <2>6. \A t \in InSeq(done) \cup {Td} : Bad(t)' => count = 0
    BY <1>1, <1>3, <2>1, <2>5
  <2> QED BY <1>2, <2>2, <2>3, <2>4, <2>6
<1>8. CASE EndFrame
  <2>1. td' = td
    BY <1>8 DEF EndFrame
  <2>2. CASE done' = <<>>
    BY <1>2, <2>2 DEF InSeq
  <2>3. CASE done' = done /\ (done_count = 0 => done_count' = 0)
    BY <1>1, <1>2, <2>1, <2>3 DEF InSeq
  <2> QED BY <1>8, <2>2, <2>3 DEF EndFrame, GiveDone, Countdown
<1> QED BY <1>4, <1>5, <1>6, <1>7, <1>8, DoneSteps

\* A transfer that a device failed keeps the interrupt counter clear until
\* the done queue is handed over.
THEOREM ErrorsClearCount == Spec => []DeviceErrorClearsCount
<1>1. Init => DeviceErrorClearsCount
  BY DEF Init, DeviceErrorClearsCount
<1> QED BY <1>1, ErrorCountStep, ShapeInvariant, PTL DEF Spec

-----------------------------------------------------------------------------
(* The packet in flight.                                                   *)

LEMMA AsyncStep ==
  ASSUME Shape, AsyncPacketInFlight, [Next]_vars
  PROVE  AsyncPacketInFlight'
<1>1. CASE UNCHANGED <<async_td, packet>>
  BY <1>1 DEF AsyncPacketInFlight
<1>2. CASE Cancel
  BY <1>2, ListConstants DEF Cancel, NoPacket, AsyncPacketInFlight
<1>3. CASE Defer
  <2>1. cur \in Eds /\ queue[cur] \in Seq(Tds) /\ queue[cur] # <<>>
    BY <1>3 DEF Defer, Shape, TypeOK
  <2>2. Td \in Tds
    BY <2>1, HeadAndTail DEF Td
  <2>3. async_td' # NoTd /\ packet'.ed # NoEd /\ packet'.state = "async"
    BY <1>3, <2>1, <2>2, ListConstants DEF Defer
  <2> QED BY <2>3 DEF AsyncPacketInFlight
<1>4. UNCHANGED <<async_td, packet>> \/ Cancel \/ Defer
  BY DEF vars, Next, Controller, Service, Driver, StartFrame, EndPeriodic, EndControl, EndBulk,
         EndFrame, PausedEd, CancelPaused, ReadEd, BadEd, Wait, Nak, PartialOut, Complete, DeviceError, Underrun,
         BadTd, UnmappedTd, UnmappedBuffer, WriteControl, RoothubReset, WriteFilled, HostControllerReset,
         AckError, HardReset, Wakeup, TakeDone, Detach, Enqueue, SetSkip, Resume, Reclaim, driverKeeps, KeepPacket
<1> QED BY <1>1, <1>2, <1>3, <1>4

\* async_td and usb_packet agree, so a cancelled packet is in flight and a
\* packet that is set up is not, as the asserts of core.cpp demand.
THEOREM AsyncAgrees == Spec => []AsyncPacketInFlight
<1>1. Init => AsyncPacketInFlight
  BY ListConstants DEF Init, AsyncPacketInFlight, NoPacket
<1> QED BY <1>1, AsyncStep, ShapeInvariant, PTL DEF Spec

\* The driver may take its memory back in the bus state RESET because nothing
\* is in flight there, and then the descriptor in flight stays on the queue
\* it came from.
ResetIsQuiet == hcfs = "RESET" => ~running /\ pc = "idle" /\ async_td = NoTd
AsyncIsQueued == async_td # NoTd => /\ packet.ed \in Eds
                                    /\ async_td \in InSeq(queue[packet.ed])
                                    /\ async_td \in submitted
Quiet == ResetIsQuiet /\ AsyncIsQueued

LEMMA QuietFrame ==
  ASSUME Shape, AsyncPacketInFlight, Quiet,
         \/ StartFrame \/ EndPeriodic \/ EndControl \/ EndBulk \/ EndFrame
         \/ \E e \in Eds : PausedEd(e) \/ ReadEd(e)
         \/ BadEd
  PROVE  Quiet'
<1>1. hcfs # "RESET" /\ (pc = "idle" => hcfs' = hcfs) /\ hcfs' \in {hcfs, "SUSPEND"}
  <2>1. pc # "idle" \/ running
    BY DEF StartFrame, EndPeriodic, EndControl, EndBulk, EndFrame, PausedEd, CancelPaused,
     ReadEd, BadEd,
           ListDone, Shape, CursorInFrame, Lists
  <2>2. (hcfs' = hcfs \/ BadEd) /\ (BadEd => hcfs' = "SUSPEND" /\ pc # "idle")
    BY DEF StartFrame, EndPeriodic, EndControl, EndBulk, EndFrame, PausedEd, CancelPaused,
     ReadEd, BadEd,
           regs, SoftReset, ResetTo, Shape, CursorInFrame, Lists
  <2> QED BY <2>1, <2>2 DEF Quiet, ResetIsQuiet
<1>2. /\ UNCHANGED <<queue, submitted>>
      /\ Cancel \/ UNCHANGED <<async_td, packet>>
  BY DEF StartFrame, EndPeriodic, EndControl, EndBulk, EndFrame, PausedEd, CancelPaused,
     ReadEd, BadEd,
         regs, memory, KeepPacket
<1> QED BY <1>1, <1>2 DEF Quiet, ResetIsQuiet, AsyncIsQueued, Cancel

LEMMA QuietService ==
  ASSUME Shape, AsyncPacketInFlight, Quiet, Service
  PROVE  Quiet'
<1>1. cur # NoEd
  BY DEF Service, Wait, Defer, Nak, PartialOut, Complete, Underrun, DeviceError,
         BadTd, UnmappedTd, UnmappedBuffer
<1>2. pc \in Lists /\ "idle" \notin Lists /\ cur \in Eds
  BY <1>1 DEF Shape, TypeOK, CursorInFrame, Lists
<1>3. ResetIsQuiet'
  <2>1. hcfs' \in {hcfs, "SUSPEND"}
    BY DEF Service, Wait, Defer, Nak, PartialOut, Complete, Underrun, DeviceError,
           BadTd, UnmappedTd, UnmappedBuffer, SoftReset, ResetTo, regs
  <2> QED BY <1>2, <2>1 DEF Quiet, ResetIsQuiet
<1>4. CASE Defer
  <2>1. queue[cur] \in Seq(Tds) /\ queue[cur] # <<>>
    BY <1>1, <1>2 DEF Shape, TypeOK
  <2>2. Td \in InSeq(queue[cur])
    BY <2>1, HeadAndTail DEF Td
  <2>3. async_td' = Td /\ packet'.ed = cur /\ Td \in submitted' /\ queue' = queue
    BY <1>4 DEF Defer, Submit, memory
  <2> QED BY <1>2, <1>3, <2>2, <2>3 DEF Quiet, AsyncIsQueued, InSeq
<1>5. CASE PartialOut \/ Complete \/ Underrun \/ \E code \in DeviceCodes : DeviceError(code)
  <2>1. async_td' = NoTd
    BY <1>5 DEF PartialOut, Complete, Underrun, DeviceError
  <2> QED BY <1>3, <2>1 DEF Quiet, AsyncIsQueued
<1>6. CASE Wait \/ Nak \/ BadTd \/ UnmappedTd \/ UnmappedBuffer
  <2>1. UNCHANGED <<async_td, packet, queue>> /\ submitted \subseteq submitted'
    BY <1>6 DEF Wait, Nak, BadTd, UnmappedTd, UnmappedBuffer, Submit, memory
  <2> QED BY <1>3, <2>1 DEF Quiet, AsyncIsQueued, InSeq
<1> QED BY <1>4, <1>5, <1>6 DEF Service

LEMMA QuietDriver ==
  ASSUME ReclaimStates \subseteq {"RESET"}, Shape, AsyncPacketInFlight, Quiet, Driver
  PROVE  Quiet'
<1>1. ASSUME NEW lists \in ListChoices, NEW state \in StateChoices, WriteControl(lists, state)
      PROVE  Quiet'
  <2>1. ResetIsQuiet'
    <3>1. CASE state = hcfs
      BY <1>1, <3>1 DEF WriteControl, RoothubReset, Cancel, KeepPacket, frame, Quiet, ResetIsQuiet
    <3>2. CASE state # hcfs /\ state = "RESET"
      BY <1>1, <3>2 DEF WriteControl, RoothubReset, Cancel, KeepPacket, frame, ResetIsQuiet
    <3>3. CASE state # "RESET"
      BY <1>1, <3>3 DEF WriteControl, ResetIsQuiet
    <3> QED BY <3>1, <3>2, <3>3
  <2>2. UNCHANGED <<queue, submitted>> /\ (Cancel \/ UNCHANGED <<async_td, packet>>)
    BY <1>1 DEF WriteControl, RoothubReset, KeepPacket, memory
  <2> QED BY <2>1, <2>2 DEF Quiet, AsyncIsQueued, Cancel
<1>2. CASE \/ \E l \in Lists : WriteFilled(l)
           \/ AckError \/ TakeDone
           \/ \E e \in Eds : SetSkip(e)
  BY <1>2 DEF WriteFilled, AckError, TakeDone, SetSkip, driverKeeps, regs, memory, frame,
              Quiet, ResetIsQuiet, AsyncIsQueued
<1>8. CASE Wakeup
  BY <1>8 DEF Wakeup, memory, Quiet, ResetIsQuiet, AsyncIsQueued
<1>9. CASE HardReset
  BY <1>9 DEF HardReset, ResetTo, RoothubReset, Cancel, KeepPacket, memory, frame,
              Quiet, ResetIsQuiet, AsyncIsQueued
<1>3. CASE HostControllerReset
  BY <1>3 DEF HostControllerReset, SoftReset, ResetTo, memory, Quiet, ResetIsQuiet, AsyncIsQueued
<1>4. ASSUME NEW d \in Devices, Detach(d) PROVE Quiet'
  BY <1>4 DEF Detach, Cancel, regs, frame, Quiet, ResetIsQuiet, AsyncIsQueued
<1>5. ASSUME NEW e \in Eds, NEW t \in Tds, NEW d \in DelayInts, NEW n \in 1 .. MaxPackets,
             Enqueue(e, t, d, n)
      PROVE  Quiet'
  <2>1. /\ UNCHANGED <<async_td, packet, hcfs, running, pc>> /\ submitted' = submitted \ {t}
        /\ t \notin Queued
    BY <1>5 DEF Enqueue, driverKeeps, regs, frame, Held
  <2>2. \A f \in Eds : InSeq(queue[f]) \subseteq InSeq(queue'[f])
    BY <1>5, NewTail DEF Enqueue, Shape, TypeOK
  <2>3. async_td # NoTd => async_td \in InSeq(queue'[packet.ed]) /\ async_td # t
    BY <2>1, <2>2 DEF Quiet, AsyncIsQueued, Queued
  <2> QED BY <2>1, <2>3 DEF Quiet, ResetIsQuiet, AsyncIsQueued, InSeq
<1>6. ASSUME NEW e \in Eds, Resume(e) PROVE Quiet'
  <2>1. UNCHANGED <<async_td, packet, hcfs, running, pc, submitted>> /\ packet.ed # e
    BY <1>6 DEF Resume, driverKeeps, regs, frame
  <2>2. \A f \in Eds \ {e} : queue'[f] = queue[f]
    BY <1>6 DEF Resume, Shape, TypeOK
  <2> QED BY <2>1, <2>2 DEF Quiet, ResetIsQuiet, AsyncIsQueued, InSeq
<1>7. CASE Reclaim
  <2>1. hcfs = "RESET" /\ UNCHANGED <<async_td, hcfs, running, pc>>
    BY <1>7 DEF Reclaim, regs, frame
  <2> QED BY <2>1 DEF Quiet, ResetIsQuiet, AsyncIsQueued
<1> QED BY <1>1, <1>2, <1>3, <1>4, <1>5, <1>6, <1>7, <1>8, <1>9 DEF Driver

\* For a driver that reuses descriptors only in the bus state RESET, every
\* descriptor the controller skips as being in flight was given to a device
\* since it was queued; OhciSoftReset shows that the condition is needed.
THEOREM SkippedTdsWereSubmitted ==
  ASSUME ReclaimStates \subseteq {"RESET"}
  PROVE  Spec => []SkippedWasSubmitted
<1>1. Init => Quiet
  BY DEF Init, Quiet, ResetIsQuiet, AsyncIsQueued
<1>2. Shape /\ AsyncPacketInFlight /\ Quiet /\ [Next]_vars => Quiet'
  <2> SUFFICES ASSUME Shape, AsyncPacketInFlight, Quiet, [Next]_vars PROVE Quiet'
    OBVIOUS
  <2>1. CASE UNCHANGED vars
    BY <2>1 DEF vars, regs, memory, frame, Quiet, ResetIsQuiet, AsyncIsQueued, InSeq
  <2>2. CASE Next
    BY <2>2, QuietFrame, QuietService, QuietDriver DEF Next, Controller
  <2> QED BY <2>1, <2>2
<1>3. Shape /\ Quiet => SkippedWasSubmitted
  <2> SUFFICES ASSUME Shape, Quiet, NEW e \in Eds, queue[e] # <<>>, Head(queue[e]) = async_td
               PROVE  async_td \in submitted
    BY DEF SkippedWasSubmitted
  <2>1. Head(queue[e]) \in Tds
    BY HeadAndTail DEF Shape, TypeOK
  <2> QED BY <2>1, ListConstants DEF Quiet, AsyncIsQueued
<1> QED BY <1>1, <1>2, <1>3, AsyncAgrees, ShapeInvariant, PTL DEF Spec

-----------------------------------------------------------------------------
(* What a frame does with the descriptors it finds.                        *)

\* While the bus is operational, a done queue in the HCCA is one the driver
\* has been told of and has not acknowledged.
HandedOverIsTold == (hcfs = "OPERATIONAL" /\ ~wd) => hcca_done = <<>>

LEMMA ToldStep ==
  ASSUME HandedOverIsTold, [Next]_vars
  PROVE  HandedOverIsTold'
<1> USE DEF HandedOverIsTold
<1>1. CASE SoftReset \/ HardReset \/ Wakeup
  BY <1>1 DEF SoftReset, HardReset, Wakeup, ResetTo
<1>2. CASE UNCHANGED <<hcfs, wd, hcca_done>>
  BY <1>2
<1>3. CASE EndFrame
  BY <1>3 DEF EndFrame
<1>4. CASE TakeDone \/ Reclaim
  BY <1>4 DEF TakeDone, Reclaim
<1>5. ASSUME NEW lists, NEW state, WriteControl(lists, state) PROVE HandedOverIsTold'
  <2>1. hcfs' = state /\ UNCHANGED <<wd, hcca_done>>
    BY <1>5 DEF WriteControl, memory
  <2> QED BY <1>5, <2>1 DEF WriteControl
<1>6. \/ SoftReset \/ HardReset \/ Wakeup \/ UNCHANGED <<hcfs, wd, hcca_done>> \/ EndFrame \/ TakeDone \/ Reclaim
      \/ \E lists \in ListChoices, state \in StateChoices : WriteControl(lists, state)
  BY DEF vars, Next, Controller, Service, Driver, StartFrame, EndPeriodic, EndControl, EndBulk,
         PausedEd, CancelPaused, ReadEd, BadEd, Wait, Defer, Nak, PartialOut, Complete, DeviceError, Underrun,
         BadTd, UnmappedTd, UnmappedBuffer, WriteFilled, HostControllerReset,
         AckError, HardReset, Wakeup, Detach, Enqueue, SetSkip, Resume, driverKeeps, regs, memory
<1> QED BY <1>1, <1>2, <1>3, <1>4, <1>5, <1>6

\* Retirement moves a descriptor and leaves the rest where they are.
LEMMA RetireHeld ==
  ASSUME Shape, cur # NoEd, NEW count \in 0 .. 7, NEW code \in Codes, RetireTo(count, code),
         hcca_done' = hcca_done
  PROVE  Held' = Held
<1>1. /\ cur \in Eds /\ queue[cur] \in Seq(Tds) /\ queue[cur] # <<>> /\ Td \in Tds
      /\ queue'[cur] = Tail(queue[cur])
  BY RetireType DEF Shape
<1>2. InSeq(queue[cur]) = InSeq(queue'[cur]) \cup {Td}
  BY <1>1, HeadAndTail DEF Td
<1>3. \A e \in Eds \ {cur} : queue'[e] = queue[e]
  BY DEF RetireTo, Shape, TypeOK
<1>4. InSeq(done') = InSeq(done) \cup {Td}
  <2>1. done' = <<Td>> \o done /\ done \in Seq(Tds)
    BY DEF RetireTo, Shape, TypeOK
  <2> QED BY <1>1, <2>1, NewHead
<1>5. Queued = Queued' \cup {Td}
  <2>1. \A t : t \in Queued <=> \E e \in Eds : t \in InSeq(queue[e])
    BY DEF Queued
  <2>2. \A t : t \in Queued' <=> \E e \in Eds : t \in InSeq(queue'[e])
    BY DEF Queued, InSeq
  <2> QED BY <1>1, <1>2, <1>3, <2>1, <2>2
<1>6. Held' = Queued' \cup InSeq(done') \cup InSeq(hcca_done')
  BY DEF Held, InSeq
<1> QED BY <1>4, <1>5, <1>6 DEF Held

LEMMA FrameStep ==
  ASSUME Shape, HandedOverIsTold, [Next]_vars, pc # "idle", hcfs' = "OPERATIONAL"
  PROVE  Held' = Held
<1>1. CASE UNCHANGED <<queue, done, hcca_done>>
  BY <1>1 DEF Held, Queued, InSeq
<1>2. ASSUME NEW count \in 0 .. 7, NEW code \in Codes, cur # NoEd, RetireTo(count, code),
             hcca_done' = hcca_done
      PROVE  Held' = Held
  BY <1>2, RetireHeld
<1>3. CASE EndFrame
  <2>1. hcfs = "OPERATIONAL" /\ queue' = queue
    BY <1>3 DEF EndFrame
  <2>2. CASE HandOver /\ hcca_done' = done /\ done' = <<>>
    <3>1. hcca_done = <<>>
      BY <2>1, <2>2 DEF HandOver, HandedOverIsTold
    <3> QED BY <2>1, <2>2, <3>1 DEF Held, Queued, InSeq
  <2>3. CASE UNCHANGED <<hcca_done, done>>
    BY <1>1, <2>1, <2>3
  <2> QED BY <1>3, <2>2, <2>3 DEF EndFrame, GiveDone, Countdown
<1>4. CASE Complete \/ Underrun \/ \E code \in DeviceCodes : DeviceError(code)
  <2>1. done_count \in 0 .. 7
    BY DEF Shape, TypeOK
  <2> QED BY <1>2, <1>4, <2>1, CodesAreCodes, ListConstants DEF Complete, Underrun, DeviceError
<1>5. ~SoftReset
  BY DEF SoftReset, ResetTo
<1>6. \/ UNCHANGED <<queue, done, hcca_done>> \/ EndFrame
      \/ Complete \/ Underrun \/ \E code \in DeviceCodes : DeviceError(code)
  BY <1>5
  DEF vars, Next, Controller, Service, Driver, StartFrame, EndPeriodic, EndControl, EndBulk,
      PausedEd, CancelPaused, ReadEd, BadEd, Wait, Defer, Nak, PartialOut,
      BadTd, UnmappedTd, UnmappedBuffer, WriteControl, WriteFilled, HostControllerReset,
      AckError, HardReset, Wakeup, TakeDone, Detach, Enqueue, SetSkip, Resume, Reclaim, memory
<1> QED BY <1>1, <1>3, <1>4, <1>6

\* A frame neither loses nor gains a descriptor unless the controller is
\* reset in it: what it retires is on the done queue or in the HCCA.
THEOREM FramesKeepTds == Spec => FrameKeepsTds
<1>1. Init => HandedOverIsTold
  BY DEF Init, HandedOverIsTold
<1>2. HandedOverIsTold /\ [Next]_vars => HandedOverIsTold'
  BY ToldStep
<1>3. Shape /\ HandedOverIsTold /\ [Next]_vars
        => [(pc # "idle" /\ hcfs' = "OPERATIONAL") => Held' = Held]_vars
  BY FrameStep
<1> QED BY <1>1, <1>2, <1>3, ShapeInvariant, PTL DEF Spec, FrameKeepsTds

-----------------------------------------------------------------------------
(* No descriptor at two places.                                            *)

\* What occurs in a sequence occurs once.
Once(s) == \A i, j \in 1 .. Len(s) : s[i] = s[j] => i = j

\* The queues, the done queue and the HCCA share nothing, and hold each of
\* their descriptors once: for the list of a retired descriptor to be empty of
\* it, it must not have been on the list a second time.
QueuesApart ==
  /\ \A e \in Eds : Once(queue[e])
  /\ \A e, f \in Eds : e # f => InSeq(queue[e]) \cap InSeq(queue[f]) = {}
DoneApart ==
  /\ Once(done) /\ Once(hcca_done) /\ InSeq(done) \cap InSeq(hcca_done) = {}
  /\ \A e \in Eds : InSeq(queue[e]) \cap (InSeq(done) \cup InSeq(hcca_done)) = {}
Apart == QueuesApart /\ DoneApart

LEMMA OnceEmpty == Once(<<>>) /\ InSeq(<<>>) = {}
BY DEF Once, InSeq

\* A head that occurs once is not in the tail.
LEMMA OnceTail ==
  ASSUME NEW S, NEW s \in Seq(S), s # <<>>, Once(s)
  PROVE  Once(Tail(s)) /\ Head(s) \notin InSeq(Tail(s))
<1>1. /\ Len(s) \in Nat \ {0} /\ Head(s) = s[1] /\ Len(Tail(s)) = Len(s) - 1
      /\ \A i \in 1 .. Len(s) - 1 : Tail(s)[i] = s[i + 1]
  OBVIOUS
<1>2. Once(Tail(s))
  <2> SUFFICES ASSUME NEW i \in 1 .. Len(s) - 1, NEW j \in 1 .. Len(s) - 1, s[i + 1] = s[j + 1]
               PROVE  i = j
    BY <1>1 DEF Once
  <2>1. i + 1 \in 1 .. Len(s) /\ j + 1 \in 1 .. Len(s)
    BY <1>1
  <2>2. i + 1 = j + 1
    BY <2>1 DEF Once
  <2> QED BY <2>2
<1>3. ASSUME NEW i \in 1 .. Len(s) - 1, s[i + 1] = s[1] PROVE FALSE
  <2>1. i + 1 \in 1 .. Len(s) /\ 1 \in 1 .. Len(s)
    BY <1>1
  <2>2. i + 1 = 1
    BY <1>3, <2>1 DEF Once
  <2> QED BY <2>2
<1> QED BY <1>1, <1>2, <1>3 DEF InSeq

LEMMA OnceNewHead ==
  ASSUME NEW S, NEW s \in Seq(S), Once(s), NEW x \in S, x \notin InSeq(s)
  PROVE  Once(<<x>> \o s)
<1> DEFINE r == <<x>> \o s
<1>1. /\ Len(r) = Len(s) + 1 /\ Len(s) \in Nat
      /\ r[1] = x /\ \A i \in 1 .. Len(s) : r[i + 1] = s[i]
  OBVIOUS
<1>2. ASSUME NEW i \in 1 .. Len(r), i # 1
      PROVE  i - 1 \in 1 .. Len(s) /\ r[i] = s[i - 1] /\ r[i] # x
  <2>1. i - 1 \in 1 .. Len(s) /\ r[i] = s[i - 1]
    BY <1>1, <1>2
  <2> QED BY <2>1 DEF InSeq
<1> HIDE DEF r
<1>3. ASSUME NEW i \in 1 .. Len(r), NEW j \in 1 .. Len(r), r[i] = r[j]
      PROVE  i = j
  <2>1. CASE i = 1 \/ j = 1
    BY <1>1, <1>2, <1>3, <2>1
  <2>2. CASE i # 1 /\ j # 1
    <3>1. i - 1 = j - 1
      BY <1>2, <1>3, <2>2 DEF Once
    <3> QED BY <3>1
  <2> QED BY <2>1, <2>2
<1> QED BY <1>3 DEF Once, r

LEMMA OnceNewTail ==
  ASSUME NEW S, NEW s \in Seq(S), Once(s), NEW x \in S, x \notin InSeq(s)
  PROVE  Once(Append(s, x)) /\ InSeq(Append(s, x)) = InSeq(s) \cup {x}
<1> DEFINE r == Append(s, x)
<1>1. /\ Len(r) = Len(s) + 1 /\ Len(s) \in Nat
      /\ r[Len(s) + 1] = x /\ \A i \in 1 .. Len(s) : r[i] = s[i]
  OBVIOUS
<1>2. \A i \in 1 .. Len(s) : r[i] # x
  BY <1>1 DEF InSeq
<1>3. 1 .. Len(r) = (1 .. Len(s)) \cup {Len(s) + 1}
  BY <1>1
<1> HIDE DEF r
<1>4. Once(r)
  BY <1>1, <1>2, <1>3 DEF Once
<1>5. InSeq(r) = InSeq(s) \cup {x}
  BY <1>1, <1>3 DEF InSeq
<1> QED BY <1>4, <1>5 DEF r

\* Retirement takes a descriptor off the one queue it is on.
LEMMA RetireApart ==
  ASSUME Shape, Apart, cur # NoEd, NEW count \in 0 .. 7, NEW code \in Codes,
         RetireTo(count, code), hcca_done' = hcca_done
  PROVE  Apart'
<1>1. /\ cur \in Eds /\ queue[cur] \in Seq(Tds) /\ queue[cur] # <<>> /\ Td \in Tds
      /\ queue'[cur] = Tail(queue[cur])
  BY RetireType DEF Shape
<1>2. /\ InSeq(queue[cur]) = InSeq(queue'[cur]) \cup {Td} /\ Td \notin InSeq(queue'[cur])
      /\ Once(queue'[cur])
  <2>1. Once(queue[cur])
    BY <1>1 DEF Apart, QueuesApart
  <2> QED BY <1>1, <2>1, HeadAndTail, OnceTail DEF Td
<1>3. \A e \in Eds \ {cur} : queue'[e] = queue[e]
  BY DEF RetireTo, Shape, TypeOK
<1>4. Td \in InSeq(queue[cur])
  BY <1>2
<1>5. \A e \in Eds : Td \notin InSeq(queue'[e]) /\ InSeq(queue'[e]) \subseteq InSeq(queue[e])
  BY <1>1, <1>2, <1>3, <1>4 DEF Apart, QueuesApart
<1>6. done' = <<Td>> \o done /\ done \in Seq(Tds) /\ Td \notin InSeq(done)
  BY <1>1, <1>4 DEF RetireTo, Shape, TypeOK, Apart, DoneApart
<1>7. Once(done') /\ InSeq(done') = InSeq(done) \cup {Td}
  BY <1>1, <1>6, NewHead, OnceNewHead DEF Apart, DoneApart
<1>8. QueuesApart'
  <2>1. \A e \in Eds : Once(queue'[e])
    BY <1>2, <1>3 DEF Apart, QueuesApart
  <2>2. ASSUME NEW e \in Eds, NEW f \in Eds, e # f
        PROVE  InSeq(queue'[e]) \cap InSeq(queue'[f]) = {}
    BY <1>5, <2>2 DEF Apart, QueuesApart
  <2> QED BY <2>1, <2>2 DEF QueuesApart, Once, InSeq
<1>9. DoneApart'
  <2>1. Once(hcca_done') /\ InSeq(hcca_done') = InSeq(hcca_done)
    BY DEF Apart, DoneApart
  <2>2. InSeq(done') \cap InSeq(hcca_done') = {}
    BY <1>1, <1>4, <1>7, <2>1 DEF Apart, DoneApart
  <2>3. \A e \in Eds : InSeq(queue'[e]) \cap (InSeq(done') \cup InSeq(hcca_done')) = {}
    BY <1>5, <1>7, <2>1 DEF Apart, DoneApart
  <2> QED BY <1>7, <2>1, <2>2, <2>3 DEF DoneApart, Once, InSeq
<1> QED BY <1>8, <1>9 DEF Apart

\* Queues are emptied, the done queue and the HCCA too, and the one moves to
\* the other.
LEMMA LessApart ==
  ASSUME Apart,
         \A e \in Eds : queue'[e] \in {queue[e], <<>>},
         \/ done' \in {done, <<>>} /\ hcca_done' \in {hcca_done, <<>>}
         \/ done' = <<>> /\ hcca_done' = done
  PROVE  Apart'
<1>1. \A e \in Eds : /\ InSeq(queue'[e]) \in {InSeq(queue[e]), {}}
                     /\ Once(queue'[e])
  BY OnceEmpty DEF Apart, QueuesApart
<1>2. /\ Once(done') /\ Once(hcca_done')
      /\ \/ InSeq(done') \in {InSeq(done), {}} /\ InSeq(hcca_done') \in {InSeq(hcca_done), {}}
         \/ InSeq(done') = {} /\ InSeq(hcca_done') = InSeq(done)
  BY OnceEmpty DEF Apart, DoneApart
<1>3. QueuesApart'
  <2>1. \A e, f \in Eds : e # f => InSeq(queue'[e]) \cap InSeq(queue'[f]) = {}
    BY <1>1 DEF Apart, QueuesApart
  <2> QED BY <1>1, <2>1 DEF QueuesApart, Once, InSeq
<1>4. DoneApart'
  <2>1. InSeq(done') \cap InSeq(hcca_done') = {}
    BY <1>2 DEF Apart, DoneApart
  <2>2. \A e \in Eds : InSeq(queue'[e]) \cap (InSeq(done') \cup InSeq(hcca_done')) = {}
    BY <1>1, <1>2 DEF Apart, DoneApart
  <2> QED BY <1>2, <2>1, <2>2 DEF DoneApart, Once, InSeq
<1> QED BY <1>3, <1>4 DEF Apart

LEMMA ApartStep ==
  ASSUME Shape, Apart, [Next]_vars
  PROVE  Apart'
<1>1. CASE /\ \A e \in Eds : queue'[e] \in {queue[e], <<>>}
           /\ \/ done' \in {done, <<>>} /\ hcca_done' \in {hcca_done, <<>>}
              \/ done' = <<>> /\ hcca_done' = done
  BY <1>1, LessApart
<1>2. ASSUME NEW e \in Eds, NEW t \in Tds, NEW d \in DelayInts, NEW n \in 1 .. MaxPackets,
             Enqueue(e, t, d, n)
      PROVE  Apart'
  <2>1. /\ t \notin InSeq(done) \cup InSeq(hcca_done)
        /\ \A f \in Eds : t \notin InSeq(queue[f])
    BY <1>2 DEF Enqueue, Held, Queued
  <2>2. UNCHANGED <<done, hcca_done>> /\ queue'[e] = Append(queue[e], t)
        /\ \A f \in Eds \ {e} : queue'[f] = queue[f]
    BY <1>2 DEF Enqueue, driverKeeps, Shape, TypeOK
  <2>3. Once(queue'[e]) /\ InSeq(queue'[e]) = InSeq(queue[e]) \cup {t}
    <3>1. queue[e] \in Seq(Tds) /\ Once(queue[e])
      BY DEF Shape, TypeOK, Apart, QueuesApart
    <3> QED BY <2>1, <2>2, <3>1, OnceNewTail
  <2>4. QueuesApart'
    <3>1. \A f \in Eds : Once(queue'[f])
      BY <2>2, <2>3 DEF Apart, QueuesApart
    <3>2. \A f \in Eds \ {e} : InSeq(queue'[f]) = InSeq(queue[f]) /\ t \notin InSeq(queue[f])
      BY <2>1, <2>2
    <3>3. \A f, g \in Eds : f # g => InSeq(queue'[f]) \cap InSeq(queue'[g]) = {}
      <4> SUFFICES ASSUME NEW f \in Eds, NEW g \in Eds, f # g
                   PROVE  InSeq(queue'[f]) \cap InSeq(queue'[g]) = {}
        OBVIOUS
      <4>1. InSeq(queue[f]) \cap InSeq(queue[g]) = {}
        BY DEF Apart, QueuesApart
      <4> QED BY <2>3, <3>2, <4>1
    <3> QED BY <3>1, <3>3 DEF QueuesApart, Once, InSeq
  <2>5. DoneApart'
    <3>1. \A f \in Eds : InSeq(queue'[f]) \cap (InSeq(done') \cup InSeq(hcca_done')) = {}
      BY <2>1, <2>2, <2>3 DEF Apart, DoneApart
    <3>2. Once(done') /\ Once(hcca_done') /\ InSeq(done') \cap InSeq(hcca_done') = {}
      BY <2>2 DEF Apart, DoneApart
    <3> QED BY <3>1, <3>2 DEF DoneApart, Once, InSeq
  <2> QED BY <2>4, <2>5 DEF Apart
<1>3. CASE Complete \/ Underrun \/ \E code \in DeviceCodes : DeviceError(code)
  <2>1. done_count \in 0 .. 7
    BY DEF Shape, TypeOK
  <2>2. cur # NoEd /\ hcca_done' = hcca_done
    BY <1>3 DEF Complete, Underrun, DeviceError
  <2> QED BY <1>3, <2>1, <2>2, RetireApart, CodesAreCodes, ListConstants
          DEF Complete, Underrun, DeviceError
<1>4. ASSUME NEW e \in Eds, Resume(e) PROVE Apart'
  <2>1. UNCHANGED <<done, hcca_done>> /\ \A f \in Eds : queue'[f] \in {queue[f], <<>>}
    BY <1>4 DEF Resume, driverKeeps, Shape, TypeOK
  <2> QED BY <1>1, <2>1
<1>5. CASE TakeDone \/ Reclaim \/ EndFrame
  BY <1>1, <1>5 DEF TakeDone, Reclaim, EndFrame, GiveDone
<1>6. CASE BadEd \/ UnmappedTd \/ UnmappedBuffer \/ HostControllerReset \/ HardReset
  BY <1>1, <1>6 DEF BadEd, UnmappedTd, UnmappedBuffer, HostControllerReset, HardReset,
                    SoftReset, ResetTo, memory
<1>7. CASE UNCHANGED <<queue, done, hcca_done>>
  BY <1>1, <1>7
<1>8. \/ UNCHANGED <<queue, done, hcca_done>>
      \/ TakeDone \/ Reclaim \/ EndFrame
      \/ BadEd \/ UnmappedTd \/ UnmappedBuffer \/ HostControllerReset \/ HardReset
      \/ \E e \in Eds : Resume(e)
      \/ Complete \/ Underrun \/ \E code \in DeviceCodes : DeviceError(code)
      \/ \E e \in Eds, t \in Tds, d \in DelayInts, n \in 1 .. MaxPackets : Enqueue(e, t, d, n)
  BY DEF vars, Next, Controller, Service, Driver, StartFrame, EndPeriodic, EndControl, EndBulk,
      PausedEd, CancelPaused, ReadEd, Wait, Defer, Nak, PartialOut,
      BadTd, WriteControl, WriteFilled, AckError, Wakeup, Detach, SetSkip, driverKeeps, memory
<1> QED BY <1>2, <1>3, <1>4, <1>5, <1>6, <1>7, <1>8

\* A sequence without repetitions is as long as its set is large.
LEMMA OnceLen ==
  ASSUME NEW S, IsFiniteSet(S), NEW s \in Seq(S), Once(s)
  PROVE  /\ InSeq(s) \subseteq S /\ IsFiniteSet(InSeq(s))
         /\ Cardinality(InSeq(s)) = Len(s) /\ Len(s) \in Nat
<1>1. Len(s) \in Nat /\ InSeq(s) \subseteq S
  BY DEF InSeq
<1>2. IsFiniteSet(InSeq(s))
  BY <1>1, FS_Subset
<1>3. ExistsBijection(1 .. Len(s), InSeq(s))
  <2> DEFINE f == [i \in 1 .. Len(s) |-> s[i]]
  <2>1. f \in [1 .. Len(s) -> InSeq(s)]
    BY DEF InSeq
  <2>2. \A i, j \in 1 .. Len(s) : f[i] = f[j] => i = j
    BY DEF Once
  <2>3. \A t \in InSeq(s) : \E i \in 1 .. Len(s) : f[i] = t
    BY DEF InSeq
  <2> HIDE DEF f
  <2> QED BY <2>1, <2>2, <2>3
          DEF ExistsBijection, Bijection, Injection, IsInjective, Surjection
<1> QED BY <1>1, <1>2, <1>3, FS_CountingElements

LEMMA ApartBounds ==
  ASSUME Shape, Apart
  PROVE  Len(done) + Len(hcca_done) <= Cardinality(Tds)
<1>1. done \in Seq(Tds) /\ hcca_done \in Seq(Tds) /\ IsFiniteSet(Tds)
  BY ListConstants DEF Shape, TypeOK
<1>2. /\ IsFiniteSet(InSeq(done)) /\ Cardinality(InSeq(done)) = Len(done)
      /\ InSeq(done) \subseteq Tds /\ Len(done) \in Nat
  BY <1>1, OnceLen DEF Apart, DoneApart
<1>3. /\ IsFiniteSet(InSeq(hcca_done)) /\ Cardinality(InSeq(hcca_done)) = Len(hcca_done)
      /\ InSeq(hcca_done) \subseteq Tds /\ Len(hcca_done) \in Nat
  BY <1>1, OnceLen DEF Apart, DoneApart
<1>4. Cardinality(InSeq(done) \cup InSeq(hcca_done)) = Len(done) + Len(hcca_done)
  <2>1. InSeq(done) \cap InSeq(hcca_done) = {}
    BY DEF Apart, DoneApart
  <2>2. Cardinality(InSeq(done) \cup InSeq(hcca_done))
          = Cardinality(InSeq(done)) + Cardinality(InSeq(hcca_done))
            - Cardinality(InSeq(done) \cap InSeq(hcca_done))
    BY <1>2, <1>3, FS_Union
  <2>3. Cardinality(InSeq(done) \cap InSeq(hcca_done)) = 0
    BY <2>1, FS_EmptySet, Zenon
  <2> QED BY <1>2, <1>3, <2>2, <2>3
<1>5. Cardinality(InSeq(done) \cup InSeq(hcca_done)) <= Cardinality(Tds)
  BY <1>1, <1>2, <1>3, FS_Subset
<1> QED BY <1>4, <1>5

LEMMA ApartPlaces ==
  ASSUME Shape, Apart, NEW p \in Places, NEW q \in Places,
         p[3] <= Len(SeqAt(p)), q[3] <= Len(SeqAt(q)), SeqAt(p)[p[3]] = SeqAt(q)[q[3]]
  PROVE  p = q
<1> DEFINE N == 1 .. Cardinality(Tds)
<1>1. \A r \in Places :
        /\ \/ r[1] = "q" /\ r[2] \in Eds /\ SeqAt(r) = queue[r[2]]
           \/ r[1] = "done" /\ r[2] = NoEd /\ SeqAt(r) = done
           \/ r[1] = "hcca" /\ r[2] = NoEd /\ SeqAt(r) = hcca_done
        /\ r = <<r[1], r[2], r[3]>> /\ r[3] \in N
  BY DEF Places, SeqAt
<1>2. Cardinality(Tds) \in Nat
  BY ListConstants, FS_CardinalityType
<1>3. /\ p[3] \in 1 .. Len(SeqAt(p)) /\ q[3] \in 1 .. Len(SeqAt(q))
      /\ SeqAt(p) \in Seq(Tds) /\ SeqAt(q) \in Seq(Tds)
  <2>1. /\ done \in Seq(Tds) /\ hcca_done \in Seq(Tds)
        /\ \A e \in Eds : queue[e] \in Seq(Tds)
    BY DEF Shape, TypeOK
  <2>2. SeqAt(p) \in Seq(Tds)
    BY <1>1, <2>1
  <2>3. SeqAt(q) \in Seq(Tds)
    BY <1>1, <2>1
  <2> QED BY <1>1, <1>2, <2>2, <2>3
<1>4. SeqAt(p)[p[3]] \in InSeq(SeqAt(p)) \cap InSeq(SeqAt(q))
  BY <1>3 DEF InSeq
<1>5. p[1] = q[1] /\ p[2] = q[2] /\ SeqAt(p) = SeqAt(q) /\ Once(SeqAt(p))
  BY <1>1, <1>4, SMTT(30) DEF Apart, QueuesApart, DoneApart
<1>6. p[3] = q[3]
  BY <1>3, <1>5 DEF Once
<1> QED BY <1>1, <1>5, <1>6

\* Whatever is retired, reset, dropped and queued again, no descriptor is at
\* two places of the queues, the done queue and the HCCA: none is handed to a
\* device or back to the driver twice.
THEOREM TdsInOnePlace == Spec => []TdInOnePlace
<1>1. Init => Apart
  <2> SUFFICES ASSUME Init PROVE Apart
    OBVIOUS
  <2>1. (\A e \in Eds : queue[e] = <<>>) /\ done = <<>> /\ hcca_done = <<>>
    BY DEF Init
  <2> QED BY <2>1, OnceEmpty DEF Apart, QueuesApart, DoneApart
<1>2. Shape /\ Apart /\ [Next]_vars => Apart'
  BY ApartStep
<1>3. Shape /\ Apart => TdInOnePlace
  BY ApartBounds, ApartPlaces DEF TdInOnePlace
<1> QED BY <1>1, <1>2, <1>3, ShapeInvariant, PTL DEF Spec
===============================================================================
