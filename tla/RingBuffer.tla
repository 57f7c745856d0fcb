------------------------------ MODULE RingBuffer ------------------------------
(***************************************************************************)
(* RingBuffer of src/shared/ringbuffer.cpp under its callers: memcpy to    *)
(* back() and write(n), or from front() and read(n), in pieces no larger   *)
(* than peek_write(true) and peek_read() say.  A byte is its serial        *)
(* number; memory that was never written since reserve holds none.         *)
(***************************************************************************)
EXTENDS Rings, Sequences

CONSTANTS
  Capacities,      \* sizes the buffer may be given
  Bytes,           \* how many bytes are written in all
  ReserveAnyTime   \* reserve is also called on a buffer in use

ASSUME RingConstants ==
  /\ Capacities \subseteq Nat \ {0}
  /\ Bytes \in Nat /\ ReserveAnyTime \in BOOLEAN

VARIABLES
  ring,      \* m_begin, m_end, m_capacity, m_overrun
  cell,      \* m_data
  written,   \* history: bytes written so far
  taken      \* history: serial number after the last byte read

vars == <<ring, cell, written, taken>>

Blank == -1
Memory(cap) == [i \in 0 .. cap - 1 |-> Blank]

Init ==
  /\ \E cap \in Capacities : ring = NewRing(cap) /\ cell = Memory(cap)
  /\ written = 0 /\ taken = 0

Reserve(cap) ==
  /\ ReserveAnyTime \/ ring = NewRing(ring.cap)
  /\ ring' = [ring EXCEPT !.cap = cap] /\ cell' = Memory(cap)
  /\ UNCHANGED <<written, taken>>

Write(n) ==
  /\ n \in 1 .. PeekWrite(ring) /\ written + n <= Bytes
  /\ cell' = [i \in DOMAIN cell |->
                IF i \in ring.end .. ring.end + n - 1
                THEN written + (i - ring.end) ELSE cell[i]]
  /\ ring' = Written(ring, n)
  /\ written' = written + n
  /\ UNCHANGED taken

Read(n) ==
  /\ n \in 1 .. PeekRead(ring)
  /\ taken' = cell[ring.begin + n - 1] + 1
  /\ ring' = Taken(ring, n)
  /\ UNCHANGED <<cell, written>>

\* read(dst, n) finds nothing.
ReadEmpty == Size(ring) = 0 /\ UNCHANGED vars

Next ==
  \/ \E cap \in Capacities : Reserve(cap)
  \/ \E n \in 1 .. Bytes : Write(n) \/ Read(n)
  \/ ReadEmpty

Spec == Init /\ [][Next]_vars

-----------------------------------------------------------------------------
TypeOK ==
  /\ ring \in [begin : Nat, end : Nat, cap : Capacities, overrun : BOOLEAN]
  /\ ring.begin < ring.cap /\ ring.end < ring.cap
  /\ cell \in [0 .. ring.cap - 1 -> Int]
  /\ written \in Nat /\ taken \in Nat

\* The bytes that size() counts, from front() on and around the end of the
\* memory, are the last ones written and in the order they were
\* (ringbuffer.h:63, "amount of valid data").
HoldsNewest ==
  \A i \in 0 .. Size(ring) - 1 :
    cell[Wrap(ring.begin + i, ring.cap)] = written - Size(ring) + i

\* No byte is read twice: what is left to read is newer than all that was
\* read, also after an overrun has moved the oldest byte.
EachReadOnce == taken <= written - Size(ring)

\* A write that leaves room loses nothing.
WriteKeepsOld ==
  [][\A n \in 1 .. Bytes : (written' = written + n /\ Size(ring) + n < ring.cap)
        => Size(ring') = Size(ring) + n]_vars

\* A write there is room for loses nothing (ringbuffer.h:46, "if you care
\* about old data, check how much can be written").
RoomIsKept ==
  [][\A n \in 1 .. Bytes : (written' = written + n /\ Size(ring) + n <= ring.cap)
        => Size(ring') = Size(ring) + n]_vars

\* The buffer is a queue that may drop its oldest bytes, never others.
Queue == INSTANCE LossyQueue WITH
  queue <- [i \in 1 .. Size(ring) |-> cell[Wrap(ring.begin + i - 1, ring.cap)]]
ImplementsLossyQueue == Queue!Spec
===============================================================================
