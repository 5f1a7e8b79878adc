-------------------------------- MODULE Fifo --------------------------------
(***************************************************************************)
(* What a ring is for its clients: a bounded first-in first-out queue of   *)
(* bytes that loses all of them with its last slot, unless the oldest one  *)
(* lies in the first slot.  A client that leaves a slot free need not know *)
(* where that is.  An operation that does not fit is refused as a whole    *)
(* and changes nothing; an array operation that fits is carried out byte   *)
(* by byte with nothing in between (`loop'), and no byte of it is refused. *)
(***************************************************************************)
EXTENDS Integers, Sequences

CONSTANTS Capacity, Byte, MaxArray

VARIABLES q,     \* the stored bytes, oldest first
          start, \* the slot of the oldest one, 0 after a reset
          loop,  \* the array operation being carried out
          ret    \* what the last finished operation returned

vars == <<q, start, loop, ret>>

Arrays == UNION {[1 .. n -> Byte] : n \in 0 .. MaxArray}
Loop(op, todo, left, got) ==
  [op |-> op, todo |-> todo, left |-> left, got |-> got]
NoLoop == Loop("none", <<>>, 0, <<>>)
Failed == [ok |-> 0, bytes |-> <<>>]
Done(bytes) == [ok |-> 1, bytes |-> bytes]

Init == q = <<>> /\ start = 0 /\ loop = NoLoop /\ ret = Failed

Fits(n) == n <= Capacity - Len(q)

\* A byte more, at the end; a byte less, from the front.
Put(b) ==
  /\ q' = IF start > 0 /\ Len(q) + 1 = Capacity THEN <<>> ELSE Append(q, b)
  /\ start' = start
Take ==
  /\ q' = Tail(q)
  /\ start' = IF Len(q) = 1 \/ start + 1 = Capacity THEN 0 ELSE start + 1

Fill(b) ==
  /\ loop = NoLoop
  /\ \/ Fits(1) /\ Put(b) /\ ret' = Done(<<>>)
     \/ ~Fits(1) /\ ret' = Failed /\ UNCHANGED <<q, start>>
  /\ UNCHANGED loop

Drain ==
  /\ loop = NoLoop
  /\ \/ q # <<>> /\ Take /\ ret' = Done(<<Head(q)>>)
     \/ q = <<>> /\ ret' = Failed /\ UNCHANGED <<q, start>>
  /\ UNCHANGED loop

Get(index) ==
  /\ loop = NoLoop
  /\ ret' = IF index < Len(q) THEN Done(<<q[index + 1]>>) ELSE Failed
  /\ UNCHANGED <<q, start, loop>>

Clear == loop = NoLoop /\ q' = <<>> /\ start' = 0 /\ UNCHANGED <<loop, ret>>

FillArray(arr) ==
  /\ loop = NoLoop
  /\ \/ Fits(Len(arr)) /\ loop' = Loop("fill", arr, 0, <<>>)
                       /\ UNCHANGED ret
     \/ ~Fits(Len(arr)) /\ ret' = Failed /\ UNCHANGED loop
  /\ UNCHANGED <<q, start>>

FillNext ==
  /\ loop.op = "fill"
  /\ \/ /\ loop.todo # <<>>
        /\ Put(Head(loop.todo))
        /\ loop' = Loop("fill", Tail(loop.todo), 0, <<>>)
        /\ UNCHANGED ret
     \/ /\ loop.todo = <<>>
        /\ loop' = NoLoop /\ ret' = Done(<<>>) /\ UNCHANGED <<q, start>>

DrainArray(n) ==
  /\ loop = NoLoop
  /\ \/ n <= Len(q) /\ loop' = Loop("drain", <<>>, n, <<>>)
                    /\ UNCHANGED ret
     \/ n > Len(q) /\ ret' = Failed /\ UNCHANGED loop
  /\ UNCHANGED <<q, start>>

DrainNext ==
  /\ loop.op = "drain"
  /\ \/ /\ loop.left > 0
        /\ Take
        /\ loop' = Loop("drain", <<>>, loop.left - 1, Append(loop.got, Head(q)))
        /\ UNCHANGED ret
     \/ /\ loop.left = 0
        /\ loop' = NoLoop /\ ret' = Done(loop.got) /\ UNCHANGED <<q, start>>

Next == \/ \E b \in Byte : Fill(b)
        \/ Drain
        \/ \E index \in 0 .. Capacity : Get(index)
        \/ Clear
        \/ \E arr \in Arrays : FillArray(arr)
        \/ FillNext
        \/ \E n \in 0 .. MaxArray : DrainArray(n)
        \/ DrainNext

Spec == Init /\ [][Next]_vars
=============================================================================
