--------------------------------- MODULE Rings ---------------------------------
(***************************************************************************)
(* The index arithmetic of RingBuffer, src/shared/ringbuffer.cpp, as       *)
(* operators on the record of its members.                                 *)
(***************************************************************************)
EXTENDS Integers

NewRing(cap) == [begin |-> 0, end |-> 0, cap |-> cap, overrun |-> FALSE]

\* Mutant of Wrap: an offset equal to the capacity is kept.
WrapLate(i, cap) == IF i > cap THEN i - cap ELSE i
\* i % capacity, for the sums of two offsets that occur
Wrap(i, cap) == IF i >= cap THEN i - cap ELSE i

Size(r) ==
  IF r.begin = r.end THEN IF r.overrun THEN r.cap ELSE 0
  ELSE IF r.begin < r.end THEN r.end - r.begin ELSE r.cap - r.begin + r.end

\* What can be read in one piece.
PeekRead(r) ==
  IF r.begin = r.end THEN IF r.overrun THEN r.cap - r.begin ELSE 0
  ELSE IF r.begin < r.end THEN r.end - r.begin ELSE r.cap - r.begin

\* What can be written in one piece, over old data if need be.
PeekWrite(r) == r.cap - r.end

\* Mutant of Overruns: also a write that starts after the oldest byte.
OverrunsAhead(r, n) == r.end + n > r.begin
\* Does a write of n bytes go past the oldest byte?
Overruns(r, n) ==
  \/ r.end < r.begin /\ r.end + n > r.begin
  \/ r.end + n > r.begin + r.cap

\* RingBuffer::write(size_t)
Written(r, n) ==
  LET e == Wrap(r.end + n, r.cap) IN
  IF Overruns(r, n) THEN [r EXCEPT !.end = e, !.begin = e, !.overrun = TRUE]
  ELSE [r EXCEPT !.end = e]

\* Mutant of Taken: the flag survives.
TakenFull(r, n) == [r EXCEPT !.begin = Wrap(r.begin + n, r.cap)]
\* RingBuffer::read(size_t), within its assertion
Taken(r, n) == [r EXCEPT !.begin = Wrap(r.begin + n, r.cap), !.overrun = FALSE]
===============================================================================
