------------------------------ MODULE RingOps ------------------------------
(***************************************************************************)
(* The ring of avr/ring.c, on which the fixed-size wrappers buf.c (64) and *)
(* buffer.c (255) are built, as operators on a record                      *)
(*                                                                         *)
(*    [data : [0..Size-1 -> bytes], start : 0..Size-1, finish : 0..Size]   *)
(*                                                                         *)
(* The three fields are the three members of struct buffer_t / buf_t.      *)
(* `finish' is one past the last byte and may be equal to Size; an empty   *)
(* ring is meant to have start = finish = 0.                               *)
(***************************************************************************)
EXTENDS Integers, Sequences

CONSTANTS Size,                \* capacity, 64 or 255 in the code
          BUFFER_INIT_PATTERN  \* what ring_init writes in every slot

ASSUME SizeAssumption == Size \in Nat \ {0}

Slots == 0 .. Size - 1

\* ring_init: every slot holds the pattern, nothing is stored.
ring_init == [data   |-> [i \in Slots |-> BUFFER_INIT_PATTERN],
              start  |-> 0,
              finish |-> 0]

ring_size(r) == IF r.finish >= r.start
                THEN r.finish - r.start
                ELSE Size - r.start + r.finish

ring_space(r) == Size - ring_size(r)

ring_is_fillable(r, n) == n <= Size - ring_size(r)

ring_is_drainable(r, n) == n <= ring_size(r)

\* ring_clear forgets the indices only, the bytes stay in place.
ring_clear(r) == [data |-> r.data, start |-> 0, finish |-> 0]

\* ring_byte_fill once ring_is_fillable(r, 1) has been found true: at `finish',
\* or in the first slot when `finish' has run past the end.
ring_byte_fill(r, b) ==
  LET at == IF r.finish < Size THEN r.finish ELSE 0
  IN  [data   |-> [r.data EXCEPT ![at] = b],
       start  |-> r.start,
       finish |-> at + 1]

\* ring_byte_drain once ring_is_drainable(r, 1) has been found true: the two
\* tests of the code, "empty" and "wrap", in their order.
ring_byte_drain_nowrap(r) ==
  LET empty == r.start + 1 = r.finish
  IN  [data   |-> r.data,
       start  |-> IF empty THEN 0 ELSE r.start + 1,
       finish |-> IF empty THEN 0 ELSE r.finish]
ring_byte_drain(r) ==
  LET next  == r.start + 1
      empty == next = r.finish
  IN  [data   |-> r.data,
       start  |-> IF empty \/ next = Size THEN 0 ELSE next,
       finish |-> IF empty THEN 0 ELSE r.finish]

\* The slot ring_byte_get reads for `index', and the byte it finds there.
Slot_off(r, index) == IF r.start + index < Size
                      THEN r.start + index
                      ELSE r.start + index - Size + 1
Slot(r, index) == IF r.start + index < Size
                  THEN r.start + index
                  ELSE r.start + index - Size

ring_byte_get(r, index) == r.data[Slot(r, index)]

\* The stored bytes, oldest first, as ring_byte_get shows them.
Contents(r) == [i \in 1 .. ring_size(r) |-> ring_byte_get(r, i - 1)]
=============================================================================
