-------------------------------- MODULE Ring --------------------------------
(***************************************************************************)
(* A ring and the operations its clients call, avr/ring.c with the         *)
(* wrappers of avr/buffer.c and avr/buf.c.  Every operation runs with      *)
(* interrupts disabled (ATOMIC_BLOCK), so that an array operation is a     *)
(* loop nobody can observe: `loop' holds what is left of it and the other  *)
(* operations wait.                                                        *)
(*                                                                         *)
(* The client fills whenever it likes, also the last slot, as the SPI      *)
(* receive interrupt, the timer interrupts, the rotary encoder and the     *)
(* watch do; the transmit buffer and the display buffer are filled only    *)
(* after postpone.c has seen LED_ARRAY_SIZE + MSG_OVERHEAD free slots,     *)
(* more than any message takes.                                            *)
(***************************************************************************)
EXTENDS RingOps

CONSTANTS Byte,      \* the values that are stored
          MaxArray   \* the longest array a client fills or drains

ASSUME ClientAssumption == MaxArray \in Nat

VARIABLES ring, loop, ret
vars == <<ring, loop, ret>>

Arrays == UNION {[1 .. n -> Byte] : n \in 0 .. MaxArray}
Loop(op, todo, left, got) ==
  [op |-> op, todo |-> todo, left |-> left, got |-> got]
NoLoop == Loop("none", <<>>, 0, <<>>)
Failed == [ok |-> 0, bytes |-> <<>>]
Done(bytes) == [ok |-> 1, bytes |-> bytes]

Init == ring = ring_init /\ loop = NoLoop /\ ret = Failed

ByteFill(b) ==
  /\ loop = NoLoop
  /\ \/ /\ ring_is_fillable(ring, 1)
        /\ ring' = ring_byte_fill(ring, b) /\ ret' = Done(<<>>)
     \/ ~ring_is_fillable(ring, 1) /\ ret' = Failed /\ UNCHANGED ring
  /\ UNCHANGED loop

ByteDrain ==
  /\ loop = NoLoop
  /\ \/ /\ ring_is_drainable(ring, 1)
        /\ ring' = ring_byte_drain(ring)
        /\ ret' = Done(<<ring.data[ring.start]>>)
     \/ ~ring_is_drainable(ring, 1) /\ ret' = Failed /\ UNCHANGED ring
  /\ UNCHANGED loop

ByteGet(index) ==
  /\ loop = NoLoop
  /\ ret' = IF index < Size /\ ring_is_drainable(ring, index + 1)
            THEN Done(<<ring_byte_get(ring, index)>>)
            ELSE Failed
  /\ UNCHANGED <<ring, loop>>

Clear == loop = NoLoop /\ ring' = ring_clear(ring) /\ UNCHANGED <<loop, ret>>

\* ring_array_fill checks the room for the whole array first ...
ArrayFill(arr) ==
  /\ loop = NoLoop
  /\ \/ /\ ring_is_fillable(ring, Len(arr))
        /\ loop' = Loop("fill", arr, 0, <<>>)
        /\ UNCHANGED ret
     \/ ~ring_is_fillable(ring, Len(arr)) /\ ret' = Failed /\ UNCHANGED loop
  /\ UNCHANGED ring

\* ... then calls ring_byte_fill for every byte and ignores its result.
ArrayFillNext ==
  /\ loop.op = "fill"
  /\ \/ /\ loop.todo # <<>>
        /\ ring' = IF ring_is_fillable(ring, 1)
                   THEN ring_byte_fill(ring, Head(loop.todo)) ELSE ring
        /\ loop' = Loop("fill", Tail(loop.todo), 0, <<>>)
        /\ UNCHANGED ret
     \/ /\ loop.todo = <<>>
        /\ loop' = NoLoop /\ ret' = Done(<<>>) /\ UNCHANGED ring

ArrayDrain(n) ==
  /\ loop = NoLoop
  /\ \/ /\ ring_is_drainable(ring, n)
        /\ loop' = Loop("drain", <<>>, n, <<>>)
        /\ UNCHANGED ret
     \/ ~ring_is_drainable(ring, n) /\ ret' = Failed /\ UNCHANGED loop
  /\ UNCHANGED ring

\* A byte that cannot be drained would leave a hole in the caller's array.
ArrayDrainNext ==
  /\ loop.op = "drain"
  /\ \/ /\ loop.left > 0
        /\ IF ring_is_drainable(ring, 1)
           THEN /\ ring' = ring_byte_drain(ring)
                /\ loop' = Loop("drain", <<>>, loop.left - 1,
                               Append(loop.got, ring.data[ring.start]))
           ELSE loop' = Loop("drain", <<>>, loop.left - 1, loop.got) /\ UNCHANGED ring
        /\ UNCHANGED ret
     \/ /\ loop.left = 0
        /\ loop' = NoLoop /\ ret' = Done(loop.got) /\ UNCHANGED ring

Next == \/ \E b \in Byte : ByteFill(b)
        \/ ByteDrain
        \/ \E index \in 0 .. Size : ByteGet(index)
        \/ Clear
        \/ \E arr \in Arrays : ArrayFill(arr)
        \/ ArrayFillNext
        \/ \E n \in 0 .. MaxArray : ArrayDrain(n)
        \/ ArrayDrainNext

Spec == Init /\ [][Next]_vars

-----------------------------------------------------------------------------
\* The indices stay inside the array and every field has its type (ring.c lines
\* 49-97).
TypeOK ==
  /\ ring \in [data   : [Slots -> Byte \cup {BUFFER_INIT_PATTERN}],
              start  : Slots,
              finish : 0 .. Size]
  /\ loop \in [op   : {"none", "fill", "drain"}, todo : Seq(Byte),
              left : Nat, got : Seq(Byte \cup {BUFFER_INIT_PATTERN})]
  /\ ret \in [ok : {0, 1}, bytes : Seq(Byte \cup {BUFFER_INIT_PATTERN})]

\* ring_array_fill and ring_array_drain ignore what happens to a single byte of
\* the array: once the array as a whole was accepted there is room for what is
\* left of it, or enough left to drain.
AcceptedArrayFits ==
  /\ loop.op = "fill" => Len(loop.todo) <= ring_space(ring)
  /\ loop.op = "drain" => loop.left <= ring_size(ring)

\* With the return values, for byte and for array operations, the ring is the
\* queue of module Fifo: first in, first out, up to the last slot.  The byte
\* that takes the last slot after a wrap makes the indices equal (line 62), and
\* the ring then reads as empty: that, and nothing else, loses bytes.
F == INSTANCE Fifo WITH Capacity <- Size, q <- Contents(ring),
                      start <- ring.start
RingIsFifo == F!Spec
=============================================================================
