--------------------------- MODULE RingBufferProofs ---------------------------
(***************************************************************************)
(* RingBuffer for every capacity and every number of bytes, as long as     *)
(* reserve is only called on a buffer that is not in use.                  *)
(***************************************************************************)
EXTENDS RingBuffer, TLAPS

\* The record alone: what TypeOK says of it.
IsRing(r) ==
  /\ r \in [begin : Nat, end : Nat, cap : Nat \ {0}, overrun : BOOLEAN]
  /\ r.begin < r.cap /\ r.end < r.cap

LEMMA RingOfTypeOK == TypeOK => IsRing(ring)
BY RingConstants DEF TypeOK, IsRing

LEMMA SizeBound == \A r : IsRing(r) => Size(r) \in 0 .. r.cap /\ PeekRead(r) \in 0 .. Size(r)
BY DEF IsRing, Size, PeekRead

-----------------------------------------------------------------------------
(* What write and read do to the record.                                   *)

LEMMA WrittenFields ==
  ASSUME NEW r, IsRing(r), NEW n \in 1 .. PeekWrite(r)
  PROVE  /\ IsRing(Written(r, n)) /\ Written(r, n).cap = r.cap
         /\ Written(r, n).end = Wrap(r.end + n, r.cap)
         /\ Written(r, n).begin = IF Overruns(r, n) THEN Wrap(r.end + n, r.cap) ELSE r.begin
         /\ Written(r, n).overrun = IF Overruns(r, n) THEN TRUE ELSE r.overrun
<1>1. Wrap(r.end + n, r.cap) \in Nat /\ Wrap(r.end + n, r.cap) < r.cap
  BY DEF IsRing, PeekWrite, Wrap
<1>2. CASE Overruns(r, n)
  BY <1>1, <1>2 DEF IsRing, Written
<1>3. CASE ~Overruns(r, n)
  BY <1>1, <1>3 DEF IsRing, Written
<1> QED BY <1>2, <1>3

LEMMA TakenFields ==
  ASSUME NEW r, IsRing(r), NEW n \in 1 .. PeekRead(r)
  PROVE  /\ IsRing(Taken(r, n)) /\ Taken(r, n).cap = r.cap
         /\ Taken(r, n).end = r.end
         /\ Taken(r, n).begin = Wrap(r.begin + n, r.cap)
         /\ ~Taken(r, n).overrun
<1>1. Wrap(r.begin + n, r.cap) \in Nat /\ Wrap(r.begin + n, r.cap) < r.cap
  BY SizeBound DEF IsRing, PeekRead, Wrap
<1> QED BY <1>1 DEF IsRing, Taken

\* A write adds its bytes, or leaves the newest ones: all the memory after an
\* overrun or on top of what fills it, none but its own on a full buffer.
LEMMA WrittenSize ==
  ASSUME NEW r, IsRing(r), NEW n \in 1 .. PeekWrite(r)
  PROVE  /\ Overruns(r, n) => Size(Written(r, n)) = r.cap /\ Size(r) + n > r.cap
         /\ ~Overruns(r, n) =>
              \/ Size(r) + n <= r.cap /\ Size(Written(r, n)) = Size(r) + n
              \/ Size(r) + n = r.cap /\ Size(Written(r, n)) = 0
              \/ Size(r) = r.cap /\ Size(Written(r, n)) = n
<1> DEFINE w == Written(r, n)
<1>1. /\ w.cap = r.cap /\ w.end = Wrap(r.end + n, r.cap)
      /\ w.begin = IF Overruns(r, n) THEN Wrap(r.end + n, r.cap) ELSE r.begin
      /\ w.overrun = IF Overruns(r, n) THEN TRUE ELSE r.overrun
  BY WrittenFields
<1>2. /\ r.begin \in Nat /\ r.end \in Nat /\ r.cap \in Nat /\ r.overrun \in BOOLEAN
      /\ r.begin < r.cap /\ r.end < r.cap /\ n \in Nat /\ n > 0 /\ r.end + n <= r.cap
  BY DEF IsRing, PeekWrite
<1> HIDE DEF w
<1>3. CASE Overruns(r, n)
  <2>1. w.begin = w.end /\ w.overrun
    BY <1>1, <1>3
  <2>2. Size(w) = r.cap
    BY <1>1, <2>1 DEF Size
  <2>3. Size(r) + n > r.cap
    BY <1>2, <1>3 DEF Overruns, Size
  <2> QED BY <1>3, <2>2, <2>3 DEF w
<1>4. CASE ~Overruns(r, n)
  <2>1. w.begin = r.begin /\ w.overrun = r.overrun
    BY <1>1, <1>4
  <2>2. CASE r.begin < r.end
    <3>1. Size(r) = r.end - r.begin
      BY <1>2, <2>2 DEF Size
    <3>2. CASE r.end + n < r.cap
      <4>1. w.end = r.end + n
        BY <1>1, <1>2, <3>2 DEF Wrap
      <4>2. Size(w) = Size(r) + n
        BY <1>2, <2>1, <2>2, <3>1, <4>1 DEF Size
      <4> QED BY <1>2, <1>4, <2>2, <3>1, <3>2, <4>2 DEF w
    <3>3. CASE r.end + n = r.cap /\ r.begin > 0
      <4>1. w.end = 0
        BY <1>1, <1>2, <3>3 DEF Wrap
      <4>2. Size(w) = Size(r) + n
        BY <1>1, <1>2, <2>1, <2>2, <3>1, <3>3, <4>1 DEF Size
      <4> QED BY <1>2, <1>4, <2>2, <3>1, <3>3, <4>2 DEF w
    <3>4. CASE r.end + n = r.cap /\ r.begin = 0
      <4>1. w.end = 0
        BY <1>1, <1>2, <3>4 DEF Wrap
      <4>2. Size(w) = IF r.overrun THEN r.cap ELSE 0
        BY <1>1, <2>1, <3>4, <4>1 DEF Size
      <4>3. Size(r) + n = r.cap
        BY <1>2, <3>1, <3>4
      <4> QED BY <1>2, <1>4, <4>2, <4>3 DEF w
    <3> QED BY <1>2, <3>2, <3>3, <3>4
  <2>3. CASE r.begin = r.end
    <3>1. Size(r) = IF r.overrun THEN r.cap ELSE 0
      BY <2>3 DEF Size
    <3>2. CASE r.end + n < r.cap
      <4>1. w.end = r.end + n
        BY <1>1, <1>2, <3>2 DEF Wrap
      <4>2. Size(w) = n
        BY <1>2, <2>1, <2>3, <4>1 DEF Size
      <4> QED BY <1>2, <1>4, <3>1, <3>2, <4>2 DEF w
    <3>3. CASE r.end + n = r.cap /\ r.begin > 0
      <4>1. w.end = 0
        BY <1>1, <1>2, <3>3 DEF Wrap
      <4>2. Size(w) = n
        BY <1>1, <1>2, <2>1, <2>3, <3>3, <4>1 DEF Size
      <4> QED BY <1>2, <1>4, <3>1, <3>3, <4>2 DEF w
    <3>4. CASE r.end + n = r.cap /\ r.begin = 0
      <4>1. w.end = 0 /\ n = r.cap
        BY <1>1, <1>2, <2>3, <3>4 DEF Wrap
      <4>2. Size(w) = IF r.overrun THEN r.cap ELSE 0
        BY <1>1, <2>1, <3>4, <4>1 DEF Size
      <4> QED BY <1>2, <1>4, <3>1, <4>1, <4>2 DEF w
    <3> QED BY <1>2, <3>2, <3>3, <3>4
  <2>4. CASE r.end < r.begin
    BY <1>1, <1>2, <1>4, <2>1, <2>4 DEF Overruns, Size, Wrap, w
  <2> QED BY <1>2, <2>2, <2>3, <2>4
<1> QED BY <1>3, <1>4

LEMMA TakenSize ==
  ASSUME NEW r, IsRing(r), NEW n \in 1 .. PeekRead(r)
  PROVE  Size(Taken(r, n)) = Size(r) - n
<1>1. /\ Taken(r, n).end = r.end /\ Taken(r, n).cap = r.cap
      /\ Taken(r, n).begin = Wrap(r.begin + n, r.cap)
      /\ ~Taken(r, n).overrun
  BY TakenFields
<1>2. /\ r.begin \in Nat /\ r.end \in Nat /\ r.cap \in Nat /\ r.overrun \in BOOLEAN
      /\ r.begin < r.cap /\ r.end < r.cap /\ n \in Nat /\ n > 0
  BY SizeBound DEF IsRing
<1>3. CASE r.begin < r.end
  BY <1>1, <1>2, <1>3 DEF Size, PeekRead, Wrap
<1>4. CASE r.begin = r.end
  <2>1. r.overrun /\ Size(r) = r.cap /\ n <= r.cap - r.begin
    BY <1>2, <1>4 DEF Size, PeekRead
  <2>2. CASE n = r.cap - r.begin
    <3>1. Taken(r, n).begin = 0
      BY <1>1, <1>2, <2>2 DEF Wrap
    <3> QED BY <1>1, <1>2, <1>4, <2>1, <2>2, <3>1 DEF Size
  <2>3. CASE n < r.cap - r.begin
    <3>1. Taken(r, n).begin = r.begin + n
      BY <1>1, <1>2, <2>3 DEF Wrap
    <3> QED BY <1>1, <1>2, <1>4, <2>1, <2>3, <3>1 DEF Size
  <2> QED BY <1>2, <2>1, <2>2, <2>3
<1>5. CASE r.end < r.begin
  <2>1. n <= r.cap - r.begin
    BY <1>2, <1>5 DEF PeekRead
  <2>2. Size(r) = r.cap - r.begin + r.end
    BY <1>2, <1>5 DEF Size
  <2>3. CASE n = r.cap - r.begin
    <3>1. Taken(r, n).begin = 0
      BY <1>1, <1>2, <2>3 DEF Wrap
    <3>2. CASE r.end = 0
      BY <1>1, <1>2, <2>2, <2>3, <3>1, <3>2 DEF Size
    <3>3. CASE r.end > 0
      <4>1. Size(Taken(r, n)) = r.end
        BY <1>1, <1>2, <3>1, <3>3 DEF Size
      <4> QED BY <1>2, <2>2, <2>3, <4>1
    <3> QED BY <1>2, <3>2, <3>3
  <2>4. CASE n < r.cap - r.begin
    <3>1. Taken(r, n).begin = r.begin + n
      BY <1>1, <1>2, <2>4 DEF Wrap
    <3> QED BY <1>1, <1>2, <1>5, <2>2, <2>4, <3>1 DEF Size
  <2> QED BY <1>2, <2>1, <2>3, <2>4
<1> QED BY <1>2, <1>3, <1>4, <1>5

-----------------------------------------------------------------------------
(* How many bytes were written after the one at p, if p still holds one: a  *)
(* form of HoldsNewest that does not depend on where the oldest byte is.    *)

Behind(r, p) == IF p < r.end THEN r.end - 1 - p ELSE r.cap + r.end - 1 - p

NewestBehind ==
  \A p \in 0 .. ring.cap - 1 :
    Behind(ring, p) < Size(ring) => cell[p] = written - 1 - Behind(ring, p)

IInv == TypeOK /\ NewestBehind /\ EachReadOnce

\* The i-th byte that size() counts is Size - 1 - i bytes behind the end.
LEMMA BehindOfIndex ==
  ASSUME NEW r, IsRing(r), NEW i \in 0 .. Size(r) - 1
  PROVE  /\ Wrap(r.begin + i, r.cap) \in 0 .. r.cap - 1
         /\ Behind(r, Wrap(r.begin + i, r.cap)) = Size(r) - 1 - i
<1>1. /\ r.begin \in Nat /\ r.end \in Nat /\ r.cap \in Nat /\ r.overrun \in BOOLEAN
      /\ r.begin < r.cap /\ r.end < r.cap /\ i \in Nat
      /\ Size(r) \in Nat /\ i < Size(r)
  BY SizeBound DEF IsRing
<1>2. CASE r.begin < r.end
  BY <1>1, <1>2 DEF Size, Behind, Wrap
<1>3. CASE r.begin = r.end
  <2>1. Size(r) = r.cap
    BY <1>1, <1>3 DEF Size
  <2> QED BY <1>1, <1>3, <2>1 DEF Behind, Wrap
<1>4. CASE r.end < r.begin
  <2>1. Size(r) = r.cap - r.begin + r.end
    BY <1>1, <1>4 DEF Size
  <2> QED BY <1>1, <1>4, <2>1 DEF Behind, Wrap
<1> QED BY <1>1, <1>2, <1>3, <1>4

LEMMA InvHoldsNewest == IInv => HoldsNewest
<1> SUFFICES ASSUME IInv, NEW i \in 0 .. Size(ring) - 1
             PROVE  cell[Wrap(ring.begin + i, ring.cap)] = written - Size(ring) + i
  BY DEF HoldsNewest
<1>1. IsRing(ring)
  BY RingOfTypeOK DEF IInv
<1>2. Size(ring) \in Nat /\ written \in Nat
  BY <1>1, SizeBound DEF IInv, TypeOK, IsRing
<1>3. /\ Wrap(ring.begin + i, ring.cap) \in 0 .. ring.cap - 1
      /\ Behind(ring, Wrap(ring.begin + i, ring.cap)) = Size(ring) - 1 - i
  BY <1>1, BehindOfIndex
<1>4. cell[Wrap(ring.begin + i, ring.cap)] = written - 1 - (Size(ring) - 1 - i)
  BY <1>2, <1>3 DEF IInv, NewestBehind
<1> QED BY <1>2, <1>4

-----------------------------------------------------------------------------
(* The steps.                                                              *)

LEMMA InitInv == Init => IInv
<1> SUFFICES ASSUME Init PROVE IInv
  OBVIOUS
<1>1. PICK cap \in Capacities : ring = NewRing(cap) /\ cell = Memory(cap)
  BY DEF Init
<1>2. cap \in Nat /\ cap > 0
  BY RingConstants
<1>3. TypeOK
  BY <1>1, <1>2 DEF Init, NewRing, Memory, Blank, TypeOK
<1>4. Size(ring) = 0
  BY <1>1 DEF NewRing, Size
<1>5. \A p \in 0 .. ring.cap - 1 : ~(Behind(ring, p) < 0)
  BY <1>1, <1>2 DEF NewRing, Behind
<1>6. NewestBehind /\ EachReadOnce
  BY <1>4, <1>5 DEF NewestBehind, EachReadOnce, Init
<1> QED BY <1>3, <1>6 DEF IInv

LEMMA ReserveInv ==
  ASSUME ~ReserveAnyTime, IInv, NEW cap \in Capacities, Reserve(cap)
  PROVE  IInv' /\ Size(ring) = 0 /\ Size(ring') = 0
<1>1. cap \in Nat /\ cap > 0
  BY RingConstants
<1>2. ring' = NewRing(cap)
  <2>1. ring = NewRing(ring.cap)
    BY Zenon DEF Reserve
  <2>2. ring' = [ring EXCEPT !.cap = cap]
    BY Zenon DEF Reserve
  <2>3. ring' = [NewRing(ring.cap) EXCEPT !.cap = cap]
    BY <2>1, <2>2, Zenon
  <2> QED BY <2>3 DEF NewRing
<1>3. Size(ring) = 0 /\ Size(ring') = 0
  BY <1>2 DEF Reserve, NewRing, Size
<1>4. TypeOK'
  BY <1>1, <1>2 DEF Reserve, NewRing, Memory, Blank, IInv, TypeOK
<1>5. \A p \in 0 .. ring'.cap - 1 : ~(Behind(ring', p) < 0)
  BY <1>1, <1>2 DEF NewRing, Behind
<1>6. NewestBehind' /\ EachReadOnce'
  BY <1>3, <1>5 DEF NewestBehind, EachReadOnce, Reserve, IInv
<1> QED BY <1>3, <1>4, <1>6 DEF IInv

LEMMA WriteInv ==
  ASSUME IInv, NEW n \in 1 .. Bytes, Write(n)
  PROVE  IInv'
<1>1. IsRing(ring) /\ n \in 1 .. PeekWrite(ring) /\ ring' = Written(ring, n)
  BY RingOfTypeOK DEF IInv, Write
<1>2. /\ IsRing(ring') /\ ring'.cap = ring.cap
      /\ ring'.end = Wrap(ring.end + n, ring.cap)
  BY <1>1, WrittenFields
<1>3. /\ Size(ring) \in Nat /\ Size(ring') \in Nat /\ Size(ring') <= Size(ring) + n
      /\ n \in Nat /\ n > 0
  BY <1>1, <1>2, WrittenSize, SizeBound, RingConstants DEF IsRing
<1>4. /\ ring.end \in Nat /\ ring.cap \in Nat /\ ring.end < ring.cap
      /\ ring.end + n <= ring.cap /\ written \in Nat /\ taken \in Nat
      /\ ring.cap \in Capacities
  BY <1>1, <1>3 DEF IsRing, PeekWrite, IInv, TypeOK
<1>5. TypeOK'
  <2>1. cell' \in [0 .. ring.cap - 1 -> Int]
    BY <1>3, <1>4 DEF Write, IInv, TypeOK
  <2>2. written' \in Nat /\ taken' \in Nat
    BY <1>3, <1>4 DEF Write
  <2> QED BY <1>2, <1>4, <2>1, <2>2 DEF IsRing, TypeOK
<1>6. NewestBehind'
  <2> SUFFICES ASSUME NEW p \in 0 .. ring.cap - 1, Behind(ring', p) < Size(ring')
               PROVE  cell'[p] = written' - 1 - Behind(ring', p)
    BY <1>2 DEF NewestBehind
  <2>1. DOMAIN cell = 0 .. ring.cap - 1
    BY DEF IInv, TypeOK
  <2>2. CASE p \in ring.end .. ring.end + n - 1
    <3>1. cell'[p] = written + (p - ring.end)
      BY <2>1, <2>2 DEF Write
    <3>2. Behind(ring', p) = ring.end + n - 1 - p
      BY <1>2, <1>3, <1>4, <2>2 DEF Behind, Wrap
    <3> QED BY <1>3, <1>4, <2>2, <3>1, <3>2 DEF Write
  <2>3. CASE p \notin ring.end .. ring.end + n - 1
    <3>1. cell'[p] = cell[p]
      BY <2>1, <2>3 DEF Write
    <3>2. Behind(ring', p) = Behind(ring, p) + n /\ Behind(ring, p) \in Nat
      BY <1>2, <1>3, <1>4, <2>3 DEF Behind, Wrap
    <3>3. Behind(ring, p) < Size(ring)
      BY <1>3, <3>2
    <3>4. cell[p] = written - 1 - Behind(ring, p)
      BY <3>3 DEF IInv, NewestBehind
    <3> QED BY <1>3, <1>4, <3>1, <3>2, <3>4 DEF Write
  <2> QED BY <2>2, <2>3
<1>7. EachReadOnce'
  BY <1>3, <1>4 DEF Write, IInv, EachReadOnce
<1> QED BY <1>5, <1>6, <1>7 DEF IInv

\* A read also takes exactly the oldest bytes.
LEMMA ReadInv ==
  ASSUME IInv, NEW n \in 1 .. Bytes, Read(n)
  PROVE  /\ IInv' /\ taken' = written - Size(ring')
         /\ n \in 1 .. Size(ring) /\ Size(ring') = Size(ring) - n
<1>1. IsRing(ring) /\ n \in 1 .. PeekRead(ring) /\ ring' = Taken(ring, n)
  BY RingOfTypeOK DEF IInv, Read
<1>2. IsRing(ring') /\ ring'.cap = ring.cap /\ ring'.end = ring.end
  BY <1>1, TakenFields
<1>3. /\ Size(ring') = Size(ring) - n /\ Size(ring) \in Nat /\ Size(ring') \in Nat
      /\ n \in Nat /\ n > 0 /\ n <= Size(ring)
  BY <1>1, <1>2, TakenSize, SizeBound, RingConstants DEF IsRing
<1>4. written \in Nat /\ ring.cap \in Capacities /\ ring.begin \in Nat /\ ring.cap \in Nat
  BY <1>1 DEF IInv, TypeOK, IsRing
<1>5. ring.begin + n <= ring.cap
  BY <1>1, <1>3 DEF IsRing, PeekRead
<1>6. Wrap(ring.begin + (n - 1), ring.cap) = ring.begin + n - 1
  BY <1>3, <1>4, <1>5 DEF Wrap
<1>7. cell[ring.begin + n - 1] = written - Size(ring) + (n - 1)
  BY <1>3, <1>6, InvHoldsNewest DEF HoldsNewest
<1>8. taken' = written - Size(ring')
  BY <1>3, <1>4, <1>7 DEF Read
<1>9. taken' \in Nat
  <2>1. taken \in Nat /\ taken <= written - Size(ring)
    BY DEF IInv, TypeOK, EachReadOnce
  <2> QED BY <1>3, <1>4, <1>8, <2>1
<1>10. TypeOK'
  BY <1>2, <1>4, <1>9 DEF IsRing, IInv, TypeOK, Read
<1>11. NewestBehind'
  <2> SUFFICES ASSUME NEW p \in 0 .. ring.cap - 1, Behind(ring', p) < Size(ring')
               PROVE  cell[p] = written - 1 - Behind(ring', p)
    BY <1>2 DEF NewestBehind, Read
  <2>1. Behind(ring', p) = Behind(ring, p) /\ Behind(ring, p) \in Int
    BY <1>1, <1>2 DEF Behind, IsRing
  <2> QED BY <1>3, <2>1 DEF IInv, NewestBehind
<1>12. EachReadOnce'
  BY <1>3, <1>4, <1>8 DEF EachReadOnce, Read
<1> QED BY <1>3, <1>8, <1>10, <1>11, <1>12 DEF IInv

LEMMA StutterInv == IInv /\ UNCHANGED vars => IInv'
BY DEF vars, IInv, TypeOK, NewestBehind, EachReadOnce

LEMMA NextInv ==
  ASSUME ~ReserveAnyTime, IInv, [Next]_vars
  PROVE  IInv'
<1>1. ASSUME NEW cap \in Capacities, Reserve(cap) PROVE IInv'
  BY <1>1, ReserveInv
<1>2. ASSUME NEW n \in 1 .. Bytes, Write(n) PROVE IInv'
  BY <1>2, WriteInv
<1>3. ASSUME NEW n \in 1 .. Bytes, Read(n) PROVE IInv'
  BY <1>3, ReadInv
<1>4. CASE ReadEmpty \/ UNCHANGED vars
  BY <1>4, StutterInv DEF ReadEmpty
<1> QED BY <1>1, <1>2, <1>3, <1>4 DEF Next

LEMMA Invariance == ASSUME ~ReserveAnyTime PROVE Spec => []IInv
BY InitInv, NextInv, PTL DEF Spec

-----------------------------------------------------------------------------
(* The theorems.  ~ReserveAnyTime: reserve is called before the first use   *)
(* only, which SetResampling does not keep to.                              *)

\* The offsets of the buffer stay inside its memory (ringbuffer.cpp:163-171
\* and 189), whatever the capacity.
THEOREM TypeCorrect == ASSUME ~ReserveAnyTime PROVE Spec => []TypeOK
<1>1. IInv => TypeOK
  BY DEF IInv
<1> QED BY <1>1, Invariance, PTL

\* What size() counts are the last bytes written, in order (ringbuffer.h:63),
\* also around the end of the memory and after any overrun.
THEOREM NewestAreHeld == ASSUME ~ReserveAnyTime PROVE Spec => []HoldsNewest
BY InvHoldsNewest, Invariance, PTL

\* No byte is handed to the reader a second time (ringbuffer.cpp:177-191).
THEOREM ReadsOnce == ASSUME ~ReserveAnyTime PROVE Spec => []EachReadOnce
<1>1. IInv => EachReadOnce
  BY DEF IInv
<1> QED BY <1>1, Invariance, PTL

\* A write that leaves room keeps every byte that was not read yet
\* (ringbuffer.cpp:158-175).
THEOREM WritesKeepOld == ASSUME ~ReserveAnyTime PROVE Spec => WriteKeepsOld
<1>1. ASSUME IInv, [Next]_vars, NEW n \in 1 .. Bytes,
             written' = written + n, Size(ring) + n < ring.cap
      PROVE  Size(ring') = Size(ring) + n
  <2>1. IsRing(ring) /\ written \in Nat /\ n \in Nat /\ n > 0
    BY <1>1, RingOfTypeOK, RingConstants DEF IInv, TypeOK
  <2>2. PICK k \in 1 .. Bytes : Write(k)
    BY <1>1, <2>1 DEF Next, vars, Reserve, Read, ReadEmpty
  <2>3. k = n
    BY <1>1, <2>1, <2>2, RingConstants DEF Write
  <2>4. n \in 1 .. PeekWrite(ring) /\ ring' = Written(ring, n)
    BY <2>2, <2>3 DEF Write
  <2>5. Size(ring) \in Nat /\ ring.cap \in Nat
    BY <2>1, SizeBound DEF IsRing
  <2> QED BY <1>1, <2>1, <2>4, <2>5, WrittenSize
<1>2. ASSUME IInv, [Next]_vars
      PROVE  [\A n \in 1 .. Bytes :
                (written' = written + n /\ Size(ring) + n < ring.cap)
                  => Size(ring') = Size(ring) + n]_vars
  BY <1>1, <1>2
<1> QED BY <1>2, Invariance, PTL DEF Spec, WriteKeepsOld

-----------------------------------------------------------------------------
(* The queue of LossyQueue.                                                *)

\* The bytes that are left to read, oldest first
Held == [i \in 1 .. Size(ring) |-> cell[Wrap(ring.begin + i - 1, ring.cap)]]

\* The n serial numbers from first on
Serial(first, n) == [i \in 1 .. n |-> first + i - 1]

LEMMA HeldIsSerial == IInv => Held = Serial(written - Size(ring), Size(ring))
<1> SUFFICES ASSUME IInv, NEW i \in 1 .. Size(ring)
             PROVE  cell[Wrap(ring.begin + i - 1, ring.cap)] = written - Size(ring) + i - 1
  BY DEF Held, Serial
<1>1. /\ Size(ring) \in Nat /\ ring.begin \in Nat /\ i \in Nat /\ i - 1 \in 0 .. Size(ring) - 1
      /\ written \in Nat
  BY RingOfTypeOK, SizeBound DEF IInv, IsRing, TypeOK
<1>2. ring.begin + (i - 1) = ring.begin + i - 1
  BY <1>1
<1>3. cell[Wrap(ring.begin + (i - 1), ring.cap)] = written - Size(ring) + (i - 1)
  BY <1>1, InvHoldsNewest DEF HoldsNewest
<1> QED BY <1>1, <1>2, <1>3

LEMMA HeldIsSerialNext ==
  IInv' => Held' = Serial(written' - Size(ring'), Size(ring'))
<1>1. (IInv => Held = Serial(written - Size(ring), Size(ring)))'
  BY HeldIsSerial, PTL
<1> QED BY <1>1

\* Appending to a run of serial numbers and dropping from its front leaves one.
LEMMA SerialAppend ==
  ASSUME NEW first \in Int, NEW m \in Nat, NEW n \in Nat, NEW lost \in 0 .. m + n
  PROVE  LET all == Serial(first, m) \o Serial(first + m, n)
         IN  SubSeq(all, lost + 1, Len(all)) = Serial(first + lost, m + n - lost)
<1>1. Serial(first, m) \o Serial(first + m, n) = Serial(first, m + n)
  BY DEF Serial
<1>2. Len(Serial(first, m + n)) = m + n
  BY DEF Serial
<1>3. SubSeq(Serial(first, m + n), lost + 1, m + n) = Serial(first + lost, m + n - lost)
  BY DEF Serial
<1> QED BY <1>1, <1>2, <1>3

LEMMA SerialTail ==
  ASSUME NEW first \in Int, NEW m \in Nat, NEW n \in 1 .. m
  PROVE  /\ Len(Serial(first, m)) = m /\ Serial(first, m)[n] = first + n - 1
         /\ SubSeq(Serial(first, m), n + 1, m) = Serial(first + n, m - n)
BY DEF Serial

LEMMA InitQueue == Init => Queue!Init
<1> SUFFICES ASSUME Init PROVE Queue!Init
  OBVIOUS
<1>1. Size(ring) = 0
  BY DEF Init, NewRing, Size
<1> QED BY <1>1 DEF Init, Queue!Init

LEMMA WriteIsPut ==
  ASSUME IInv, NEW n \in 1 .. Bytes, Write(n)
  PROVE  Queue!Put
<1>1. IsRing(ring) /\ n \in 1 .. PeekWrite(ring) /\ ring' = Written(ring, n)
  BY RingOfTypeOK DEF IInv, Write
<1>2. /\ Size(ring) \in Nat /\ Size(ring') \in Nat /\ Size(ring') <= Size(ring) + n
      /\ n \in Nat /\ n > 0 /\ written \in Nat
  BY <1>1, WrittenFields, WrittenSize, SizeBound, RingConstants DEF IsRing, IInv, TypeOK
<1>3. written' = written + n /\ taken' = taken
  BY DEF Write
<1>4. Held = Serial(written - Size(ring), Size(ring))
  BY HeldIsSerial
<1>5. Held' = Serial(written + n - Size(ring'), Size(ring'))
  <2>1. IInv'
    BY WriteInv
  <2>2. Held' = Serial(written' - Size(ring'), Size(ring'))
    BY <2>1, HeldIsSerialNext
  <2>3. written' - Size(ring') = written + n - Size(ring')
    BY <1>2, <1>3
  <2> QED BY <2>2, <2>3
<1>6. PICK lost \in 0 .. Size(ring) + n : lost = Size(ring) + n - Size(ring')
  BY <1>2
<1>7. LET all == Held \o Queue!Run(written, written' - written)
      IN  Held' = SubSeq(all, lost + 1, Len(all))
  <2>1. Queue!Run(written, written' - written) = Serial(written - Size(ring) + Size(ring), n)
    <3>1. written' - written = n /\ written - Size(ring) + Size(ring) = written
      BY <1>2, <1>3
    <3> QED BY <3>1 DEF Queue!Run, Serial
  <2>2. /\ written - Size(ring) \in Int
        /\ written - Size(ring) + lost = written + n - Size(ring')
        /\ Size(ring) + n - lost = Size(ring')
    BY <1>2, <1>6
  <2>3. LET all == Serial(written - Size(ring), Size(ring))
                     \o Serial(written - Size(ring) + Size(ring), n)
        IN  SubSeq(all, lost + 1, Len(all))
              = Serial(written - Size(ring) + lost, Size(ring) + n - lost)
    BY <1>2, <2>2, SerialAppend
  <2> QED BY <1>4, <1>5, <2>1, <2>2, <2>3, Zenon
<1>8. Len(Held) = Size(ring)
  BY <1>2 DEF Held
<1>9. lost \in 0 .. Len(Held) + written' - written
  BY <1>2, <1>3, <1>6, <1>8
<1>10. written' > written
  BY <1>2, <1>3
<1> QED BY <1>3, <1>7, <1>9, <1>10, Zenon DEF Queue!Put, Held

LEMMA ReadIsGet ==
  ASSUME IInv, NEW n \in 1 .. Bytes, Read(n)
  PROVE  Queue!Get
<1>1. /\ IInv' /\ taken' = written - Size(ring')
      /\ n \in 1 .. Size(ring) /\ Size(ring') = Size(ring) - n
  BY ReadInv
<1>2. Size(ring) \in Nat /\ written \in Nat /\ written' = written
  BY RingOfTypeOK, SizeBound DEF IInv, IsRing, TypeOK, Read
<1>3. Held = Serial(written - Size(ring), Size(ring))
  BY HeldIsSerial
<1>4. Held' = Serial(written - (Size(ring) - n), Size(ring) - n)
  BY <1>1, <1>2, HeldIsSerialNext
<1>5. written - Size(ring) + n = written - (Size(ring) - n) /\ written - Size(ring) \in Int
  BY <1>1, <1>2
<1>6. Len(Held) = Size(ring) /\ Held[n] = written - Size(ring) + n - 1
  BY <1>1, <1>2, <1>3, <1>5, SerialTail
<1>7. Held' = SubSeq(Held, n + 1, Len(Held))
  BY <1>1, <1>2, <1>3, <1>4, <1>5, <1>6, SerialTail
<1>8. n \in 1 .. Len(Held) /\ taken' = Held[n] + 1
  BY <1>1, <1>2, <1>6
<1> QED BY <1>2, <1>7, <1>8, Zenon DEF Queue!Get, Held

LEMMA StepIsQueueStep ==
  ASSUME ~ReserveAnyTime, IInv, [Next]_vars
  PROVE  [Queue!Next]_(Queue!vars)
<1>1. ASSUME NEW cap \in Capacities, Reserve(cap) PROVE UNCHANGED Queue!vars
  <2>1. Size(ring) = 0 /\ Size(ring') = 0
    BY <1>1, ReserveInv
  <2> QED BY <1>1, <2>1 DEF Reserve, Queue!vars
<1>2. ASSUME NEW n \in 1 .. Bytes, Write(n) PROVE Queue!Next
  BY <1>2, WriteIsPut DEF Queue!Next
<1>3. ASSUME NEW n \in 1 .. Bytes, Read(n) PROVE Queue!Next
  BY <1>3, ReadIsGet DEF Queue!Next
<1>4. CASE ReadEmpty \/ UNCHANGED vars
  BY <1>4 DEF ReadEmpty, vars, Queue!vars
<1> QED BY <1>1, <1>2, <1>3, <1>4 DEF Next

\* The buffer is a queue that may drop its oldest bytes and no others: every
\* write puts, every read gets (ringbuffer.cpp:158-191).
THEOREM BufferImplementsQueue == ASSUME ~ReserveAnyTime PROVE Spec => ImplementsLossyQueue
BY InitQueue, StepIsQueueStep, Invariance, PTL DEF Spec, ImplementsLossyQueue, Queue!Spec
===============================================================================
