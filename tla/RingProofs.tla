----------------------------- MODULE RingProofs -----------------------------
(***************************************************************************)
(* For every size and whatever its client does: the indices of a ring      *)
(* never leave the array, and the ring is a first-in first-out queue that  *)
(* loses its bytes with the last slot after a wrap, and never else.        *)
(***************************************************************************)
EXTENDS Ring, SequenceTheorems, TLAPS

Val == Byte \cup {BUFFER_INIT_PATTERN}
RingType == [data : [Slots -> Val], start : Slots, finish : 0 .. Size]

\* Filling keeps a ring a ring: the slot it writes exists (ring.c 55-63).
LEMMA FillType ==
  ASSUME NEW r \in RingType, NEW b \in Byte
  PROVE  ring_byte_fill(r, b) \in RingType
BY SizeAssumption DEF RingType, ring_byte_fill, Slots, Val

\* Draining keeps a ring a ring: `start' wraps before it leaves the array
\* (ring.c 82-90).
LEMMA DrainType ==
  ASSUME NEW r \in RingType
  PROVE  ring_byte_drain(r) \in RingType
BY SizeAssumption DEF RingType, ring_byte_drain, Slots, Val

\* A ring that was cleared is a ring.
LEMMA ClearType ==
  ASSUME NEW r \in RingType
  PROVE  ring_clear(r) \in RingType
BY SizeAssumption DEF RingType, ring_clear, Slots, Val

\* The size ring_size computes is a number of slots (ring.c 21-30).
LEMMA SizeRange ==
  ASSUME NEW r \in RingType
  PROVE  ring_size(r) \in 0 .. Size
BY SizeAssumption DEF RingType, ring_size, Slots

\* An array is a sequence of bytes.
LEMMA ArraysAreSeqs == ASSUME NEW arr \in Arrays PROVE arr \in Seq(Byte)
<1>1. PICK n \in 0 .. MaxArray : arr \in [1 .. n -> Byte]
  BY DEF Arrays
<1>2. n \in Nat
  BY ClientAssumption
<1> QED
  BY <1>1, <1>2

LoopType == [op   : {"none", "fill", "drain"}, todo : Seq(Byte),
             left : Nat, got : Seq(Val)]
RetType == [ok : {0, 1}, bytes : Seq(Val)]

\* The type invariant, one conjunct per variable.
LEMMA TypeParts ==
  TypeOK <=> ring \in RingType /\ loop \in LoopType /\ ret \in RetType
BY DEF TypeOK, RingType, LoopType, RetType, Val

\* The bookkeeping of an array operation is made of typed parts.
LEMMA LoopParts ==
  ASSUME NEW op \in {"none", "fill", "drain"}, NEW todo \in Seq(Byte),
         NEW left \in Nat, NEW got \in Seq(Val)
  PROVE  Loop(op, todo, left, got) \in LoopType
BY DEF Loop, LoopType

\* The parts of an idle loop are of the right type (no array operation runs).
LEMMA NoLoopType == NoLoop \in LoopType
<1>1. <<>> \in Seq(Byte) /\ <<>> \in Seq(Val)
  BY EmptySeq
<1> QED
  BY <1>1, LoopParts DEF NoLoop

\* Every result an operation returns has the type of a result.
LEMMA ResultType ==
  /\ Failed \in RetType
  /\ \A bytes \in Seq(Val) : Done(bytes) \in RetType
  /\ Done(<<>>) \in RetType
<1>1. <<>> \in Seq(Val)
  BY EmptySeq
<1> QED
  BY <1>1 DEF Failed, Done, RetType

\* One step keeps the types: one case per operation.
LEMMA TypeStep == TypeOK /\ [Next]_vars => TypeOK'
<1> SUFFICES ASSUME TypeOK, [Next]_vars PROVE TypeOK'
  OBVIOUS
<1>0. ring \in RingType /\ loop \in LoopType /\ ret \in RetType
  BY TypeParts
<1>a. ring.data[ring.start] \in Val
  BY <1>0 DEF RingType
<1>b. <<ring.data[ring.start]>> \in Seq(Val)
  BY <1>a
<1>c. <<>> \in Seq(Byte) /\ <<>> \in Seq(Val)
  BY EmptySeq
<1>d. SUFFICES ring' \in RingType /\ loop' \in LoopType /\ ret' \in RetType
  BY DEF TypeOK, RingType, LoopType, RetType, Val
<1>1. CASE \E b \in Byte : ByteFill(b)
  BY <1>0, <1>1, FillType, ResultType DEF ByteFill
<1>2. CASE ByteDrain
  BY <1>0, <1>b, <1>2, DrainType, ResultType DEF ByteDrain
<1>3. CASE \E index \in 0 .. Size : ByteGet(index)
  <2>1. PICK index \in 0 .. Size : ByteGet(index)
    BY <1>3
  <2>2. index < Size => ring_byte_get(ring, index) \in Val
    BY <1>0, SizeAssumption DEF ring_byte_get, Slot, Slots, RingType
  <2>3. index < Size => <<ring_byte_get(ring, index)>> \in Seq(Val)
    BY <2>2
  <2> QED
    BY <1>0, <2>1, <2>3, ResultType DEF ByteGet
<1>4. CASE Clear
  BY <1>0, <1>4, ClearType DEF Clear
<1>5. CASE \E arr \in Arrays : ArrayFill(arr)
  BY <1>0, <1>c, <1>5, ArraysAreSeqs, LoopParts, ResultType DEF ArrayFill
<1>6. CASE ArrayFillNext
  <2>1. CASE loop.todo # <<>>
    <3>1. Head(loop.todo) \in Byte /\ Tail(loop.todo) \in Seq(Byte)
      BY <1>0, <2>1 DEF LoopType
    <3>2. loop' \in LoopType
      BY <1>c, <1>6, <2>1, <3>1, LoopParts DEF ArrayFillNext
    <3> QED
      BY <1>0, <1>6, <2>1, <3>1, <3>2, FillType DEF ArrayFillNext
  <2>2. CASE loop.todo = <<>>
    BY <1>0, <1>6, <2>2, NoLoopType, ResultType DEF ArrayFillNext
  <2> QED
    BY <2>1, <2>2
<1>7. CASE \E n \in 0 .. MaxArray : ArrayDrain(n)
  <2>1. PICK n \in 0 .. MaxArray : ArrayDrain(n)
    BY <1>7
  <2>2. n \in Nat
    BY ClientAssumption
  <2> QED
    BY <1>0, <1>c, <2>1, <2>2, LoopParts, ResultType DEF ArrayDrain
<1>8. CASE ArrayDrainNext
  <2>0. loop.left \in Nat /\ loop.got \in Seq(Val)
    BY <1>0 DEF LoopType
  <2>1. CASE loop.left > 0
    <3>1. Append(loop.got, ring.data[ring.start]) \in Seq(Val)
      BY <1>a, <2>0
    <3>2. loop.left - 1 \in Nat
      BY <2>0, <2>1
    <3>a. loop' = Loop("drain", <<>>, loop.left - 1, loop.got)
             \/ loop' = Loop("drain", <<>>, loop.left - 1,
                             Append(loop.got, ring.data[ring.start]))
      BY <1>8, <2>0, <2>1 DEF ArrayDrainNext
    <3>3. loop' \in LoopType
      BY <1>c, <2>0, <3>1, <3>2, <3>a, LoopParts
    <3> QED
      BY <1>0, <1>8, <2>0, <2>1, <3>3, DrainType DEF ArrayDrainNext
  <2>2. CASE loop.left = 0
    BY <1>0, <1>8, <2>0, <2>2, NoLoopType, ResultType DEF ArrayDrainNext
  <2> QED
    BY <2>0, <2>1, <2>2
<1>9. CASE UNCHANGED vars
  BY <1>0, <1>9 DEF vars
<1> QED
  BY <1>1, <1>2, <1>3, <1>4, <1>5, <1>6, <1>7, <1>8, <1>9 DEF Next

\* The indices and the bookkeeping of array operations keep their types for
\* every size and every client, also one that fills the last slot.
THEOREM RingTypeCorrect == Spec => []TypeOK
<1>1. Init => TypeOK
  <2>1. ring_init \in RingType
    BY SizeAssumption DEF ring_init, Slots, RingType, Val
  <2> QED
    BY <2>1, TypeParts, NoLoopType, ResultType DEF Init
<1>2. TypeOK /\ [Next]_vars => TypeOK'
  BY TypeStep
<1> QED
  BY <1>1, <1>2, PTL DEF Spec

-----------------------------------------------------------------------------
(***************************************************************************)
(* The contents of a ring.  A ring is in good shape when a zero `finish'   *)
(* means that it was reset; every fill and every drain keep it so, and act *)
(* on the contents as on the queue of module Fifo.                         *)
(***************************************************************************)
Good(r) == /\ r \in RingType
           /\ r.finish = 0 => r.start = 0

\* The byte that takes the last slot of a ring that has wrapped.
Swallows(r) == r.start > 0 /\ ring_size(r) + 1 = Size

\* The contents are as many bytes as ring_size counts.
LEMMA ContentsType ==
  ASSUME NEW r \in RingType
  PROVE  /\ Contents(r) \in Seq(Val)
         /\ Len(Contents(r)) = ring_size(r)
         /\ \A i \in 1 .. ring_size(r) :
               Contents(r)[i] = r.data[Slot(r, i - 1)]
<1>1. ring_size(r) \in Nat /\ ring_size(r) <= Size
  BY SizeRange, SizeAssumption
<1>2. \A i \in 1 .. ring_size(r) : Slot(r, i - 1) \in Slots
  BY <1>1, SizeAssumption DEF Slot, Slots, RingType
<1>3. \A i \in 1 .. ring_size(r) : r.data[Slot(r, i - 1)] \in Val
  BY <1>2 DEF RingType
<1> QED
  BY <1>1, <1>3 DEF Contents, ring_byte_get

\* A fill that does not take the last slot of a wrapped ring appends its byte
\* (ring.c 49-70).
LEMMA FillAppends ==
  ASSUME NEW r, Good(r), NEW b \in Byte,
         ring_size(r) + 1 <= Size, ~Swallows(r)
  PROVE  /\ Good(ring_byte_fill(r, b))
         /\ ring_byte_fill(r, b).start = r.start
         /\ ring_size(ring_byte_fill(r, b)) = ring_size(r) + 1
         /\ Contents(ring_byte_fill(r, b)) = Append(Contents(r), b)
<1> DEFINE f == ring_byte_fill(r, b)
           at == IF r.finish < Size THEN r.finish ELSE 0
<1>1. r \in RingType /\ f \in RingType
  BY FillType DEF Good
<1>2. /\ at \in Slots
      /\ f.start = r.start /\ f.finish = at + 1
      /\ f.data = [r.data EXCEPT ![at] = b]
  BY SizeAssumption, <1>1 DEF ring_byte_fill, Slots, RingType
<1> HIDE DEF f
<1>3. /\ r.start \in Nat /\ r.start < Size
      /\ r.finish \in Nat /\ r.finish <= Size
      /\ Size \in Nat /\ Size > 0
  BY <1>1, SizeAssumption DEF RingType, Slots
<1>4. ring_size(f) = ring_size(r) + 1
  BY <1>2, <1>3 DEF ring_size, Good, Swallows
<1>5. Good(f)
  BY <1>1, <1>2, <1>3 DEF ring_size, Good
<1>6. ring_size(r) \in Nat
  BY <1>1, SizeRange
<1>7. \A i \in 1 .. ring_size(r) : /\ Slot(f, i - 1) = Slot(r, i - 1)
                                  /\ Slot(r, i - 1) \in Slots
                                  /\ Slot(r, i - 1) # at
  BY <1>2, <1>3 DEF Slot, ring_size, Good, Slots, Swallows
<1>8. Slot(f, ring_size(r)) = at
  BY <1>2, <1>3 DEF Slot, ring_size, Good, Swallows
<1>9. /\ Contents(r) \in Seq(Val) /\ Len(Contents(r)) = ring_size(r)
      /\ Contents(f) \in Seq(Val) /\ Len(Contents(f)) = ring_size(r) + 1
      /\ Append(Contents(r), b) \in Seq(Val)
      /\ Len(Append(Contents(r), b)) = ring_size(r) + 1
  BY <1>1, <1>4, ContentsType, AppendProperties DEF Val
<1>10. \A i \in 1 .. ring_size(r) + 1 :
          Contents(f)[i] = Append(Contents(r), b)[i]
  <2> SUFFICES ASSUME NEW i \in 1 .. ring_size(r) + 1
               PROVE  Contents(f)[i] = Append(Contents(r), b)[i]
    OBVIOUS
  <2>1. Contents(f)[i] = f.data[Slot(f, i - 1)]
    BY <1>1, <1>4, ContentsType
  <2>2. CASE i \in 1 .. ring_size(r)
    <3>1. Append(Contents(r), b)[i] = Contents(r)[i]
      BY <1>9, <2>2
    <3>2. Contents(r)[i] = r.data[Slot(r, i - 1)]
      BY <1>1, <2>2, ContentsType
    <3>3. f.data[Slot(r, i - 1)] = r.data[Slot(r, i - 1)]
      BY <1>1, <1>2, <1>7, <2>2 DEF RingType
    <3> QED
      BY <1>7, <2>1, <2>2, <3>1, <3>2, <3>3
  <2>3. CASE i = ring_size(r) + 1
    <3>1. Append(Contents(r), b)[i] = b
      BY <1>6, <1>9, <2>3
    <3>2. i - 1 = ring_size(r)
      BY <1>6, <2>3
    <3>3. f.data[at] = b
      BY <1>1, <1>2 DEF RingType
    <3> QED
      BY <1>8, <2>1, <3>1, <3>2, <3>3
  <2>4. i \in 1 .. ring_size(r) \/ i = ring_size(r) + 1
    BY <1>6
  <2> QED
    BY <2>2, <2>3, <2>4
<1>11. Contents(f) = Append(Contents(r), b)
  BY <1>6, <1>9, <1>10, SeqEqual
<1> QED
  BY <1>2, <1>4, <1>5, <1>11 DEF f

\* The byte that takes the last slot of a wrapped ring makes the indices equal:
\* the ring reads as empty (ring.c 62).
LEMMA FillSwallows ==
  ASSUME NEW r, Good(r), NEW b \in Byte, Swallows(r)
  PROVE  /\ Good(ring_byte_fill(r, b))
         /\ ring_byte_fill(r, b).start = r.start
         /\ ring_size(ring_byte_fill(r, b)) = 0
         /\ Contents(ring_byte_fill(r, b)) = <<>>
<1> DEFINE f == ring_byte_fill(r, b)
<1>1. r \in RingType /\ f \in RingType
  BY FillType DEF Good
<1>2. /\ f.start = r.start
      /\ f.finish = (IF r.finish < Size THEN r.finish ELSE 0) + 1
  BY DEF ring_byte_fill
<1> HIDE DEF f
<1>3. /\ r.start \in Nat /\ r.start < Size
      /\ r.finish \in Nat /\ r.finish <= Size
      /\ Size \in Nat /\ Size > 0
  BY <1>1, SizeAssumption DEF RingType, Slots
<1>4. f.start = f.finish
  BY <1>2, <1>3 DEF ring_size, Good, Swallows
<1>5. ring_size(f) = 0
  BY <1>2, <1>3, <1>4 DEF ring_size
<1>6. Good(f)
  BY <1>1, <1>2, <1>3 DEF Good
<1>7. Contents(f) \in Seq(Val) /\ Len(Contents(f)) = 0
  BY <1>1, <1>5, ContentsType
<1> QED
  BY <1>2, <1>5, <1>6, <1>7, EmptySeq DEF f

\* A drain takes the oldest byte, the one at `start' (ring.c 72-97).
LEMMA DrainTails ==
  ASSUME NEW r, Good(r), ring_size(r) >= 1
  PROVE  /\ Good(ring_byte_drain(r))
         /\ ring_byte_drain(r).start = IF ring_size(r) = 1 \/ r.start + 1 = Size
                                       THEN 0 ELSE r.start + 1
         /\ ring_size(ring_byte_drain(r)) = ring_size(r) - 1
         /\ Contents(r) # <<>>
         /\ Head(Contents(r)) = r.data[r.start]
         /\ Contents(ring_byte_drain(r)) = Tail(Contents(r))
<1> DEFINE d == ring_byte_drain(r)
           next == r.start + 1
<1>1. r \in RingType /\ d \in RingType
  BY DrainType DEF Good
<1>2. /\ d.data = r.data
      /\ d.start = IF next = r.finish \/ next = Size THEN 0 ELSE next
      /\ d.finish = IF next = r.finish THEN 0 ELSE r.finish
  BY DEF ring_byte_drain
<1> HIDE DEF d
<1>3. /\ r.start \in Nat /\ r.start < Size
      /\ r.finish \in Nat /\ r.finish <= Size
      /\ Size \in Nat /\ Size > 0
  BY <1>1, SizeAssumption DEF RingType, Slots
<1>4. ring_size(d) = ring_size(r) - 1
  BY <1>2, <1>3 DEF ring_size, Good
<1>5. Good(d)
  BY <1>1, <1>2, <1>3 DEF ring_size, Good
<1>6. ring_size(r) \in Nat
  BY <1>1, SizeRange
<1>7. \A i \in 1 .. ring_size(r) - 1 : Slot(d, i - 1) = Slot(r, i)
  BY <1>2, <1>3 DEF Slot, ring_size, Good
<1>15. d.start = IF ring_size(r) = 1 \/ r.start + 1 = Size THEN 0 ELSE r.start + 1
  BY <1>2, <1>3 DEF ring_size, Good
<1>8. Slot(r, 0) = r.start
  BY <1>3 DEF Slot
<1>9. /\ Contents(r) \in Seq(Val) /\ Len(Contents(r)) = ring_size(r)
      /\ Contents(d) \in Seq(Val) /\ Len(Contents(d)) = ring_size(r) - 1
  BY <1>1, <1>4, ContentsType
<1>10. Contents(r) # <<>>
  BY <1>9, EmptySeq
<1>11. Head(Contents(r)) = r.data[r.start]
  <2>1. Contents(r)[1] = r.data[Slot(r, 0)]
    BY <1>1, <1>6, ContentsType
  <2> QED
    BY <1>8, <1>9, <1>10, <2>1
<1>12. /\ Tail(Contents(r)) \in Seq(Val)
       /\ Len(Tail(Contents(r))) = ring_size(r) - 1
       /\ \A i \in 1 .. ring_size(r) - 1 :
             Tail(Contents(r))[i] = Contents(r)[i + 1]
  BY <1>9, <1>10, HeadTailProperties
<1>13. \A i \in 1 .. ring_size(r) - 1 : Contents(d)[i] = Tail(Contents(r))[i]
  <2> SUFFICES ASSUME NEW i \in 1 .. ring_size(r) - 1
               PROVE  Contents(d)[i] = Tail(Contents(r))[i]
    OBVIOUS
  <2>1. Contents(d)[i] = d.data[Slot(d, i - 1)]
    BY <1>1, <1>4, ContentsType
  <2>2. i + 1 \in 1 .. ring_size(r) /\ (i + 1) - 1 = i
    BY <1>6
  <2>3. Contents(r)[i + 1] = r.data[Slot(r, i)]
    BY <1>1, <2>2, ContentsType
  <2> QED
    BY <1>2, <1>7, <1>12, <2>1, <2>3
<1>14. Contents(d) = Tail(Contents(r))
  BY <1>6, <1>9, <1>12, <1>13, SeqEqual
<1> QED
  BY <1>4, <1>5, <1>10, <1>11, <1>14, <1>15 DEF d

\* A ring that was cleared, or just initialised, is empty and in good shape.
LEMMA ResetEmpty ==
  ASSUME NEW r \in RingType, r.start = 0, r.finish = 0
  PROVE  Good(r) /\ ring_size(r) = 0 /\ Contents(r) = <<>>
<1>1. Good(r) /\ ring_size(r) = 0
  BY DEF Good, ring_size
<1>2. Contents(r) \in Seq(Val) /\ Len(Contents(r)) = 0
  BY <1>1, ContentsType
<1> QED
  BY <1>1, <1>2, EmptySeq

-----------------------------------------------------------------------------
(***************************************************************************)
(* The inductive invariant behind the refinement: the ring is in good      *)
(* shape and an accepted array operation fits.                             *)
(***************************************************************************)
IInv == TypeOK /\ Good(ring) /\ AcceptedArrayFits

\* One byte in, for the queue: it is appended, or takes everything with it.
LEMMA FillPuts ==
  ASSUME Good(ring), NEW b \in Byte, ring_size(ring) + 1 <= Size,
         ring' = ring_byte_fill(ring, b)
  PROVE  /\ Good(ring')
         /\ ring_size(ring') <= ring_size(ring) + 1
         /\ F!Put(b)
<1>1. /\ ring_size(ring) \in Nat /\ Size \in Nat
      /\ Len(Contents(ring)) = ring_size(ring)
  BY SizeRange, ContentsType, SizeAssumption DEF Good
<1>2. CASE Swallows(ring)
  <2>1. /\ Good(ring') /\ ring'.start = ring.start
        /\ ring_size(ring') = 0 /\ Contents(ring') = <<>>
    BY <1>2, FillSwallows
  <2>2. ring.start > 0 /\ Len(Contents(ring)) + 1 = Size
    BY <1>1, <1>2 DEF Swallows
  <2> QED
    BY <1>1, <2>1, <2>2 DEF F!Put
<1>3. CASE ~Swallows(ring)
  <2>1. /\ Good(ring') /\ ring'.start = ring.start
        /\ ring_size(ring') = ring_size(ring) + 1
        /\ Contents(ring') = Append(Contents(ring), b)
    BY <1>3, FillAppends
  <2>2. ~(ring.start > 0 /\ Len(Contents(ring)) + 1 = Size)
    BY <1>1, <1>3 DEF Swallows
  <2> QED
    BY <1>1, <2>1, <2>2 DEF F!Put
<1> QED
  BY <1>2, <1>3

\* One byte out.
LEMMA DrainTakes ==
  ASSUME Good(ring), ring_size(ring) >= 1, ring' = ring_byte_drain(ring)
  PROVE  /\ Good(ring')
         /\ ring_size(ring') = ring_size(ring) - 1
         /\ Contents(ring) # <<>>
         /\ Head(Contents(ring)) = ring.data[ring.start]
         /\ F!Take
<1>1. Len(Contents(ring)) = ring_size(ring)
  BY ContentsType DEF Good
<1>2. ring'.start = IF ring_size(ring) = 1 \/ ring.start + 1 = Size
                    THEN 0 ELSE ring.start + 1
  BY DrainTails
<1>3. Contents(ring') = Tail(Contents(ring))
  BY DrainTails
<1>4. F!Take
  BY <1>1, <1>2, <1>3 DEF F!Take
<1> QED
  BY <1>4, DrainTails

\* For every size and every client the ring is the queue of module Fifo; one
\* that leaves a slot free gets a plain first-in first-out queue.
THEOREM RingRefinesFifo == Spec => RingIsFifo
<1>1. Init => IInv /\ F!Init
  <2> SUFFICES ASSUME Init PROVE IInv /\ F!Init
    OBVIOUS
  <2>1. ring \in RingType /\ ring.start = 0 /\ ring.finish = 0
    BY SizeAssumption DEF Init, ring_init, RingType, Slots, Val
  <2>2. TypeOK
    BY <2>1, TypeParts, NoLoopType, ResultType DEF Init
  <2>3. Good(ring) /\ Contents(ring) = <<>>
    BY <2>1, ResetEmpty
  <2>4. AcceptedArrayFits
    BY DEF Init, AcceptedArrayFits, NoLoop, Loop
  <2> QED
    BY <2>1, <2>2, <2>3, <2>4
       DEF IInv, Init, F!Init, NoLoop, Loop, Failed,
           F!NoLoop, F!Loop, F!Failed
<1>2. IInv /\ [Next]_vars => IInv' /\ [F!Next]_(F!vars)
  <2> SUFFICES ASSUME IInv, [Next]_vars
               PROVE  IInv' /\ [F!Next]_(F!vars)
    OBVIOUS
  <2> USE DEF NoLoop, Loop, Failed, Done,
              F!NoLoop, F!Loop, F!Failed, F!Done, F!Arrays, Arrays
  <2>0. TypeOK'
    BY TypeStep DEF IInv
  <2>a. /\ ring \in RingType /\ loop \in LoopType /\ Good(ring)
        /\ AcceptedArrayFits
    BY TypeParts DEF IInv
  <2>b. /\ ring_size(ring) \in Nat /\ Size \in Nat
        /\ Contents(ring) \in Seq(Val)
        /\ Len(Contents(ring)) = ring_size(ring)
    BY <2>a, SizeRange, ContentsType, SizeAssumption
  <2>1. CASE \E b \in Byte : ByteFill(b)
    <3>1. PICK b \in Byte : ByteFill(b)
      BY <2>1
    <3>2. CASE ring_is_fillable(ring, 1)
      <4>1. ring_size(ring) + 1 <= Size
        BY <2>b, <3>2 DEF ring_is_fillable
      <4>2. ring' = ring_byte_fill(ring, b)
        BY <3>1, <3>2 DEF ByteFill
      <4>3. Good(ring') /\ F!Put(b)
        BY <2>a, <4>1, <4>2, FillPuts
      <4>4. F!Fill(b)
        BY <2>b, <3>1, <3>2, <4>1, <4>3 DEF ByteFill, F!Fill, F!Fits
      <4> QED
        BY <2>0, <3>1, <4>3, <4>4
           DEF IInv, AcceptedArrayFits, ByteFill, F!Next
    <3>3. CASE ~ring_is_fillable(ring, 1)
      <4>1. F!Fill(b)
        BY <2>b, <3>1, <3>3 DEF ByteFill, F!Fill, F!Fits, ring_is_fillable
      <4> QED
        BY <2>0, <2>a, <3>1, <3>3, <4>1
           DEF IInv, AcceptedArrayFits, ByteFill, F!Next
    <3> QED
      BY <3>2, <3>3
  <2>2. CASE ByteDrain
    <3>1. CASE ring_is_drainable(ring, 1)
      <4>1. ring_size(ring) >= 1
        BY <2>b, <3>1 DEF ring_is_drainable
      <4>2. ring' = ring_byte_drain(ring)
        BY <2>2, <3>1 DEF ByteDrain
      <4>3. /\ Good(ring') /\ F!Take
            /\ Contents(ring) # <<>>
            /\ Head(Contents(ring)) = ring.data[ring.start]
        BY <2>a, <4>1, <4>2, DrainTakes
      <4>4. F!Drain
        BY <2>2, <3>1, <4>3 DEF ByteDrain, F!Drain
      <4> QED
        BY <2>0, <2>2, <4>3, <4>4
           DEF IInv, AcceptedArrayFits, ByteDrain, F!Next
    <3>2. CASE ~ring_is_drainable(ring, 1)
      <4>1. Contents(ring) = <<>>
        BY <2>b, <3>2, EmptySeq DEF ring_is_drainable
      <4>2. F!Drain
        BY <2>2, <3>2, <4>1 DEF ByteDrain, F!Drain
      <4> QED
        BY <2>0, <2>a, <2>2, <3>2, <4>2
           DEF IInv, AcceptedArrayFits, ByteDrain, F!Next
    <3> QED
      BY <3>1, <3>2
  <2>3. CASE \E index \in 0 .. Size : ByteGet(index)
    <3>1. PICK index \in 0 .. Size : ByteGet(index)
      BY <2>3
    <3>2. CASE index < ring_size(ring)
      <4>1. index + 1 \in 1 .. ring_size(ring) /\ (index + 1) - 1 = index
        BY <2>b, <3>2
      <4>2. Contents(ring)[index + 1] = ring_byte_get(ring, index)
        BY <2>a, <4>1, ContentsType DEF ring_byte_get
      <4>3. index < Size /\ ring_is_drainable(ring, index + 1)
        BY <2>a, <2>b, <3>2, SizeRange DEF ring_is_drainable
      <4>4. F!Get(index)
        BY <2>b, <3>1, <3>2, <4>2, <4>3 DEF ByteGet, F!Get
      <4> QED
        BY <2>0, <2>a, <3>1, <4>4
           DEF IInv, AcceptedArrayFits, ByteGet, F!Next
    <3>3. CASE ~(index < ring_size(ring))
      <4>1. ~ring_is_drainable(ring, index + 1)
        BY <2>b, <3>3 DEF ring_is_drainable
      <4>2. F!Get(index)
        BY <2>b, <3>1, <3>3, <4>1 DEF ByteGet, F!Get
      <4> QED
        BY <2>0, <2>a, <3>1, <4>2
           DEF IInv, AcceptedArrayFits, ByteGet, F!Next
    <3> QED
      BY <3>2, <3>3
  <2>4. CASE Clear
    <3>1. /\ ring' \in RingType /\ ring'.start = 0 /\ ring'.finish = 0
      BY <2>a, <2>4, ClearType DEF Clear, ring_clear
    <3>2. Good(ring') /\ Contents(ring') = <<>>
      BY <3>1, ResetEmpty
    <3>3. F!Clear
      BY <2>4, <3>1, <3>2 DEF Clear, F!Clear
    <3> QED
      BY <2>0, <2>4, <3>2, <3>3 DEF IInv, AcceptedArrayFits, Clear, F!Next
  <2>5. CASE \E arr \in Arrays : ArrayFill(arr)
    <3>1. PICK arr \in Arrays : ArrayFill(arr)
      BY <2>5
    <3>2. arr \in Seq(Byte) /\ Len(arr) \in Nat
      BY <3>1, ArraysAreSeqs DEF Arrays
    <3>3. CASE ring_is_fillable(ring, Len(arr))
      <4>1. Len(arr) <= ring_space(ring)
        BY <2>b, <3>3 DEF ring_is_fillable, ring_space
      <4>2. F!FillArray(arr)
        BY <2>b, <3>1, <3>2, <3>3
           DEF ArrayFill, F!FillArray, F!Fits, ring_is_fillable
      <4>3. ring' = ring /\ loop'.op = "fill" /\ loop'.todo = arr
        BY <3>1, <3>3 DEF ArrayFill
      <4>4. AcceptedArrayFits'
        BY <4>1, <4>3 DEF AcceptedArrayFits
      <4> QED
        BY <2>0, <2>a, <4>2, <4>3, <4>4 DEF IInv, F!Next
    <3>4. CASE ~ring_is_fillable(ring, Len(arr))
      <4>1. F!FillArray(arr)
        BY <2>b, <3>1, <3>2, <3>4
           DEF ArrayFill, F!FillArray, F!Fits, ring_is_fillable
      <4> QED
        BY <2>0, <2>a, <3>1, <3>4, <4>1
           DEF IInv, AcceptedArrayFits, ArrayFill, F!Next
    <3> QED
      BY <3>3, <3>4
  <2>6. CASE ArrayFillNext
    <3>1. CASE loop.todo # <<>>
      <4>1. /\ Head(loop.todo) \in Byte
            /\ Len(loop.todo) \in Nat /\ Len(loop.todo) >= 1
            /\ Len(Tail(loop.todo)) = Len(loop.todo) - 1
        BY <2>a, <3>1 DEF LoopType
      <4>2. /\ Len(loop.todo) <= ring_space(ring)
            /\ ring_size(ring) + 1 <= Size /\ ring_is_fillable(ring, 1)
        BY <2>a, <2>b, <2>6, <4>1
           DEF ArrayFillNext, AcceptedArrayFits, ring_space, ring_is_fillable
      <4>3. /\ ring' = ring_byte_fill(ring, Head(loop.todo))
            /\ loop' = Loop("fill", Tail(loop.todo), 0, <<>>)
            /\ ret' = ret
        BY <2>6, <3>1, <4>2 DEF ArrayFillNext
      <4>4. /\ Good(ring') /\ ring_size(ring') <= ring_size(ring) + 1
            /\ F!Put(Head(loop.todo))
        BY <2>a, <4>1, <4>2, <4>3, FillPuts
      <4>5. AcceptedArrayFits'
        <5>1. ring_size(ring') \in Nat
          BY <4>4, SizeRange DEF Good
        <5> QED
          BY <2>b, <4>1, <4>2, <4>3, <4>4, <5>1 DEF AcceptedArrayFits, ring_space
      <4>6. F!FillNext
        BY <2>6, <3>1, <4>3, <4>4 DEF ArrayFillNext, F!FillNext
      <4> QED
        BY <2>0, <4>4, <4>5, <4>6 DEF IInv, F!Next
    <3>2. CASE loop.todo = <<>>
      <4>1. F!FillNext
        BY <2>6, <3>2 DEF ArrayFillNext, F!FillNext
      <4> QED
        BY <2>0, <2>a, <2>6, <3>2, <4>1
           DEF IInv, AcceptedArrayFits, ArrayFillNext, F!Next
    <3> QED
      BY <3>1, <3>2
  <2>7. CASE \E n \in 0 .. MaxArray : ArrayDrain(n)
    <3>1. PICK n \in 0 .. MaxArray : ArrayDrain(n)
      BY <2>7
    <3>2. n \in Nat
      BY ClientAssumption
    <3>3. F!DrainArray(n)
      BY <2>b, <3>1, <3>2 DEF ArrayDrain, F!DrainArray, ring_is_drainable
    <3>4. AcceptedArrayFits' /\ ring' = ring
      BY <3>1 DEF ArrayDrain, AcceptedArrayFits, ring_is_drainable
    <3> QED
      BY <2>0, <2>a, <3>3, <3>4 DEF IInv, F!Next
  <2>8. CASE ArrayDrainNext
    <3>0. loop.left \in Nat
      BY <2>a DEF LoopType
    <3>1. CASE loop.left > 0
      <4>1. loop.left <= ring_size(ring) /\ ring_size(ring) >= 1
            /\ ring_is_drainable(ring, 1)
        BY <2>a, <2>b, <2>8, <3>0, <3>1
           DEF ArrayDrainNext, AcceptedArrayFits, ring_is_drainable
      <4>2. /\ ring' = ring_byte_drain(ring)
            /\ loop' = Loop("drain", <<>>, loop.left - 1,
                            Append(loop.got, ring.data[ring.start]))
            /\ ret' = ret
        BY <2>8, <3>0, <3>1, <4>1 DEF ArrayDrainNext
      <4>3. /\ Good(ring') /\ ring_size(ring') = ring_size(ring) - 1
            /\ F!Take
            /\ Head(Contents(ring)) = ring.data[ring.start]
        BY <2>a, <4>1, <4>2, DrainTakes
      <4>4. AcceptedArrayFits'
        BY <2>b, <3>0, <4>1, <4>2, <4>3 DEF AcceptedArrayFits
      <4>5. F!DrainNext
        BY <2>8, <3>1, <4>2, <4>3 DEF ArrayDrainNext, F!DrainNext
      <4> QED
        BY <2>0, <4>3, <4>4, <4>5 DEF IInv, F!Next
    <3>2. CASE loop.left = 0
      <4>1. F!DrainNext
        BY <2>8, <3>2 DEF ArrayDrainNext, F!DrainNext
      <4> QED
        BY <2>0, <2>a, <2>8, <3>2, <4>1
           DEF IInv, AcceptedArrayFits, ArrayDrainNext, F!Next
    <3> QED
      BY <3>0, <3>1, <3>2
  <2>9. CASE UNCHANGED vars
    BY <2>0, <2>a, <2>9 DEF vars, F!vars, IInv, AcceptedArrayFits
  <2> QED
    BY <2>1, <2>2, <2>3, <2>4, <2>5, <2>6, <2>7, <2>8, <2>9 DEF Next
<1> QED
  BY <1>1, <1>2, PTL DEF Spec, RingIsFifo, F!Spec
=============================================================================
