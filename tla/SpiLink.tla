------------------------------ MODULE SpiLink -------------------------------
(***************************************************************************)
(* The link byte by byte: the thread mcu_handle_t::start of the daemon,    *)
(* the kernel's queue of edges of the interrupt line, the asio callback    *)
(* that moves them to the thread, and on the AVR the SPI interrupt, the    *)
(* decoder and the postponed message.  Every byte the daemon clocks out    *)
(* brings back the byte that lies in SPDR, so that the AVR can only speak  *)
(* while the daemon sends; it asks for that with the interrupt line `irq'. *)
(*                                                                         *)
(* read_buf and write_buf are the byte queues that module Ring shows their *)
(* rings to be, as long as they are never filled to the last slot; that    *)
(* they are not is WriteBufKeepsMargin here and MainLoopKeepsUp.           *)
(*                                                                         *)
(* What may fail is an action of its own: a byte that finds read_buf full  *)
(* or fills its last slot (Clock), a transfer the kernel refuses           *)
(* (TransferFails), an edge that cannot be read (HandleEventFails).  None  *)
(* of them is made good by the code; MaxLost bounds them, and what needs   *)
(* a link without failures is checked and proved for MaxLost = 0.          *)
(*                                                                         *)
(* The initial states follow ISR (INT3_vect): the daemon has just raised   *)
(* the enable line, the AVR has written VERSION and raised `irq' - more    *)
(* than 500 ms before the daemon asked the kernel for the edges, so that   *)
(* nobody has seen that one (pi/spi-enable.cpp 70, pi/base.cpp 32-33).     *)
(***************************************************************************)
EXTENDS Protocol, SequencesExt

CONSTANTS BufSize,         \* capacity of read_buf and write_buf (255)
          ShiftSize, LED_ARRAY_SIZE, MSG_OVERHEAD, MIN_DATA_SIZE,
          SerialMax,       \* serial numbers are 1 .. SerialMax (255)
          MaxQueue,        \* bound: messages in m_to_queue, HANDSHAKE aside
          MaxNotes,        \* bound: how often the AVR raises irq by itself
          MaxLost,         \* bound: what fails on the link, from a byte that
                           \* is lost to an edge that is not read; both
                           \* bounds count notices and failures together
          Reconnect        \* the AVR still thinks it is connected

ENOUGH_SPACE == LED_ARRAY_SIZE + MSG_OVERHEAD
IN_SIZE      == LED_ARRAY_SIZE + MSG_OVERHEAD
IdleMsg      == Msg(SERIAL_ID_TO_IGNORE, MSG_ID_IDLE, <<>>)
HandshakeMsg == Msg(SERIAL_ID_TO_IGNORE, MSG_ID_HANDSHAKE, <<>>)
SuspendMsg   == Msg(SERIAL_ID_TO_IGNORE, MSG_ID_SUSPEND, <<>>)
Zeros(n)     == [i \in 1 .. n |-> 0]

\* A status and VERSION fit where there is ENOUGH_SPACE (constant.h 20-21: 26
\* bytes), and the rings have room for that much.
ASSUME SpiAssumption ==
  /\ BufSize \in Nat /\ ShiftSize \in Nat /\ LED_ARRAY_SIZE \in Nat
  /\ MSG_OVERHEAD \in Nat /\ MIN_DATA_SIZE \in Nat /\ SerialMax \in Nat \ {0}
  /\ MaxQueue \in Nat /\ MaxNotes \in Nat /\ MaxLost \in Nat
  /\ Reconnect \in BOOLEAN
  /\ ENOUGH_SPACE > 6 /\ BufSize >= ENOUGH_SPACE

VARIABLES
  \* mcu_handle_t
  pc,         \* where its thread is
  rised,      \* m_interrupt_rised
  intq,       \* m_interrupt_queue: TRUE for a rising edge
  toq,        \* m_to_queue
  pending,    \* m_block.m_pending_id
  tx, rx,     \* bytes left to send, bytes received in this transfer
  mbuf,       \* m_mcu_parse.m_buf
  \* handle_t, as far as it decides what is sent
  serial,     \* mcu_id::get's last number
  greet,      \* VERSION: not seen, to be answered, answered by HANDSHAKE
  \* the line and the kernel's queue of its edges
  irq, edges,
  armed,      \* m_descriptor waits for the next edge
  \* the AVR
  spdr,       \* the SPI data register
  read_buf, write_buf,
  hdr,        \* the header bytes decode_try has taken
  slot,       \* postponed_message
  shift,      \* bytes in the display buffer (the menu is closed)
  connected,  \* mode.c's is_connected
  notes,      \* notices and provocations so far
  lost        \* failures so far

pi    == <<pc, rised, intq, toq, pending, tx, rx, mbuf>>
wire  == <<irq, edges, armed, spdr, read_buf, write_buf, lost>>
avr   == <<hdr, slot, shift, connected, notes>>
user  == <<serial, greet>>
vars  == <<pi, wire, avr, user>>

Init ==
  /\ pc = "top" /\ rised = FALSE /\ intq = <<>> /\ toq = <<>>
  /\ pending = SERIAL_ID_TO_IGNORE /\ tx = <<>> /\ rx = <<>> /\ mbuf = <<>>
  /\ serial = 0 /\ greet = "no"
  /\ irq = TRUE /\ edges = <<>> /\ armed = TRUE
  /\ spdr \in {0, SPI_WRITE_UNDERFLOW}
  /\ read_buf = <<>> /\ write_buf = wrap(VersionMsg)
  /\ hdr = <<>> /\ slot = <<>> /\ shift = 0
  /\ connected = Reconnect /\ notes = 0 /\ lost = 0

is_engaged == pending # SERIAL_ID_TO_IGNORE

-----------------------------------------------------------------------------
(* The daemon.                                                             *)

\* condition_queue_t::push: wakes the thread if the queue was empty.
Notified_lost(q) == pc
Notified(q) == IF pc = "wait" /\ q = <<>> THEN "top" ELSE pc

\* write_msg up to the transfer: mcu_block_t::engage and encode::wrap.
Begin(m) ==
  /\ pending' = IF m.serial = SERIAL_ID_TO_IGNORE
                   \/ (is_engaged /\ pending # m.serial)
                THEN pending ELSE m.serial
  /\ tx' = wrap(m) /\ rx' = <<>> /\ pc' = "xfer"
  /\ UNCHANGED <<rised, intq, mbuf, wire, avr, user>>

\* start, step 1: an interrupt is served with an IDLE message ...
Top ==
  /\ pc = "top"
  /\ \/ rised /\ Begin(IdleMsg) /\ UNCHANGED toq
     \/ /\ ~rised /\ pc' = "pop"
        /\ UNCHANGED <<rised, intq, toq, pending, tx, rx, mbuf, wire, avr,
                       user>>

\* ... and one edge is taken from the queue.
Pop ==
  /\ pc = "pop"
  /\ rised' = IF intq = <<>> THEN rised ELSE Head(intq)
  /\ intq'  = IF intq = <<>> THEN intq ELSE Tail(intq)
  /\ pc' = IF rised' THEN "top" ELSE "check"
  /\ UNCHANGED <<toq, pending, tx, rx, mbuf, wire, avr, user>>

\* start, step 2: under the mutex, so that no push comes between the test and
\* the wait.
Check ==
  /\ pc = "check"
  /\ pc' = IF intq = <<>> /\ (is_engaged \/ toq = <<>>) THEN "wait" ELSE "send"
  /\ UNCHANGED <<rised, intq, toq, pending, tx, rx, mbuf, wire, avr, user>>

\* start, step 3.
Send ==
  /\ pc = "send"
  /\ \/ /\ ~is_engaged /\ toq # <<>>
        /\ toq' = Tail(toq) /\ Begin(Head(toq))
     \/ /\ is_engaged \/ toq = <<>>
        /\ pc' = "top"
        /\ UNCHANGED <<rised, intq, toq, pending, tx, rx, mbuf, wire, avr,
                       user>>

\* mcu_parse_t::push and decode::unwrap, for the bytes of m_buf and the new
\* ones: everything before an EYE_CATCH is dropped.
Strip(s) == LET at == SelectInSeq(s, LAMBDA b : b = EYE_CATCH)
            IN  IF at = 0 THEN <<>> ELSE SubSeq(s, at, Len(s))
Complete_late(s) == Len(s) >= 4 /\ s[2] <= Len(s) - 3
Complete(s) == Len(s) >= 4 /\ s[2] <= Len(s) - 2
Unwrapped(s) == Msg(s[3], s[4], SubSeq(s, 5, Len(s)))

\* The loop of write_msg over the received bytes, up to the first byte that
\* completes a message: mcu_block_t::relax, and m_from_queue.push or throw.
Parse ==
  LET Upto(k) == Strip(mbuf \o SubSeq(rx, 1, k))
      ends    == {k \in 1 .. Len(rx) : Complete(Upto(k))}
  IN
  /\ pc = "parse"
  /\ \/ /\ ends = {}
        /\ mbuf' = Upto(Len(rx)) /\ rx' = <<>>
        /\ pc' = IF rised THEN "pop" ELSE "top"
        /\ UNCHANGED <<pending, greet>>
     \/ \E k \in ends :
        LET m == Unwrapped(Upto(k))
        IN /\ \A j \in ends : k <= j
           /\ mbuf' = <<>> /\ rx' = SubSeq(rx, k + 1, Len(rx))
           /\ IF m.serial = SERIAL_ID_TO_IGNORE \/ ~is_engaged
                 \/ m.serial = pending
              THEN /\ pc' = pc
                   /\ pending' = IF m.serial = SERIAL_ID_TO_IGNORE
                                 THEN pending ELSE SERIAL_ID_TO_IGNORE
                   /\ greet' = IF m.id = MSG_ID_VERSION THEN "due" ELSE greet
              ELSE pc' = "dead" /\ UNCHANGED <<pending, greet>>
  /\ UNCHANGED <<rised, intq, toq, tx, wire, avr, serial>>

\* m_condition.wait may return without a notification.
SpuriousWakeup ==
  /\ pc = "wait" /\ pc' = "top"
  /\ UNCHANGED <<rised, intq, toq, pending, tx, rx, mbuf, wire, avr, user>>

\* spi_interrupt_t::handle_event: one edge from the kernel to the thread ...
HandleEvent ==
  /\ armed /\ edges # <<>>
  /\ edges' = Tail(edges)
  /\ intq' = Append(intq, Head(edges))
  /\ pc' = Notified(intq)
  /\ UNCHANGED <<rised, toq, pending, tx, rx, mbuf, irq, armed, spdr, read_buf,
                 write_buf, lost, avr, user>>

\* ... or an error: it returns without waiting for the next one, and no edge
\* leaves the kernel's queue any more.
HandleEventFails ==
  /\ armed /\ edges # <<>>
  /\ notes + lost < MaxLost
  /\ armed' = FALSE /\ lost' = lost + 1
  /\ UNCHANGED <<pi, irq, edges, spdr, read_buf, write_buf, avr, user>>

\* handle_t and content_t queue a message.
Push(m) ==
  /\ toq' = Append(toq, m)
  /\ pc' = Notified(toq)
  /\ UNCHANGED <<rised, intq, pending, tx, rx, mbuf, wire, avr>>

next_serial == (serial % SerialMax) + 1

\* content_t::sync_clock, whenever the clock stream has a line.
SyncClock ==
  /\ Len(toq) < MaxQueue
  /\ Push(Msg(next_serial, MSG_ID_SYNC_CLOCK, Zeros(2)))
  /\ serial' = next_serial /\ UNCHANGED greet

\* handle_t::mcu_version answers with HANDSHAKE and starts the information.
McuVersion ==
  /\ greet = "due"
  /\ Push(HandshakeMsg)
  /\ greet' = "done" /\ UNCHANGED serial

\* handle_t::info_push, one LED array of it.
InfoPush ==
  /\ greet = "done" /\ Len(toq) < MaxQueue
  /\ \E n \in 1 .. LED_ARRAY_SIZE :
       Push(Msg(next_serial, MSG_ID_LED_ARRAY, Zeros(n)))
  /\ serial' = next_serial /\ UNCHANGED greet

-----------------------------------------------------------------------------
(* The wire and the AVR.                                                   *)

\* The interrupt line; the kernel queues an edge when it changes.
SetIrq_rising(level) ==
  /\ irq' = level
  /\ edges' = IF level /\ ~irq THEN Append(edges, level) ELSE edges
SetIrq(level) ==
  /\ irq' = level
  /\ edges' = IF level = irq THEN edges ELSE Append(edges, level)

\* A byte takes about 2 ms on the wire (pi/spi-dev.cpp 31-32) and the main loop
\* takes it from read_buf in between, with MaxLost exceptions.
MainLoopKeepsUp == notes + lost < MaxLost \/ Len(read_buf) < BufSize - 1

\* The second half of ISR (SPI_STC_vect): the next byte for the daemon, and the
\* line goes low when there is none.
SpiSend_early ==
  /\ spdr' = IF write_buf = <<>> THEN SPI_WRITE_UNDERFLOW ELSE Head(write_buf)
  /\ write_buf' = IF write_buf = <<>> THEN <<>> ELSE Tail(write_buf)
  /\ IF Len(write_buf) <= 1 THEN SetIrq(FALSE) ELSE UNCHANGED <<irq, edges>>
SpiSend ==
  \/ /\ write_buf # <<>>
     /\ spdr' = Head(write_buf) /\ write_buf' = Tail(write_buf)
     /\ UNCHANGED <<irq, edges>>
  \/ /\ write_buf = <<>>
     /\ spdr' = SPI_WRITE_UNDERFLOW /\ SetIrq(FALSE)
     /\ UNCHANGED write_buf

\* One byte of spi_dev_t::transfer in each direction, and the interrupt.  The
\* byte is refused by a full ring; one that fills the last slot makes the ring
\* read as full, or as empty if its bytes wrap around (ring.c 62).
Clock ==
  /\ pc = "xfer" /\ tx # <<>>
  /\ MainLoopKeepsUp
  /\ rx' = Append(rx, spdr)
  /\ tx' = Tail(tx)
  /\ pc' = IF tx' = <<>> THEN "parse" ELSE "xfer"
  /\ \/ /\ Len(read_buf) = BufSize
        /\ spdr' = SPI_READ_OVERFLOW /\ lost' = lost + 1
        /\ UNCHANGED <<read_buf, write_buf, irq, edges>>
     \/ /\ Len(read_buf) < BufSize
        /\ read_buf' = Append(read_buf, Head(tx)) /\ UNCHANGED lost
        /\ SpiSend
     \/ /\ Len(read_buf) = BufSize - 1
        /\ read_buf' = <<>> /\ lost' = lost + 1
        /\ SpiSend
  /\ UNCHANGED <<rised, intq, toq, pending, mbuf, armed, avr, user>>

\* The kernel refuses the transfer (the ioctl fails before the first byte):
\* write_msg goes on with nothing received, and m_block stays engaged.
TransferFails ==
  /\ pc = "xfer" /\ rx = <<>>
  /\ notes + lost < MaxLost
  /\ tx' = <<>> /\ pc' = "parse"
  /\ lost' = lost + 1
  /\ UNCHANGED <<rised, intq, toq, pending, rx, mbuf, irq, edges, armed, spdr,
                 read_buf, write_buf, avr, user>>

\* is_writable, and flush with spi_write_array: the line is raised even if the
\* message does not fit.
is_writable_always == TRUE
is_writable == BufSize - Len(write_buf) >= ENOUGH_SPACE
Flush_quiet(m) ==
  /\ write_buf' = IF Len(wrap(m)) <= BufSize - Len(write_buf)
                  THEN write_buf \o wrap(m) ELSE write_buf
  /\ UNCHANGED <<irq, edges>>
Flush(m) ==
  /\ write_buf' = IF Len(wrap(m)) <= BufSize - Len(write_buf)
                  THEN write_buf \o wrap(m) ELSE write_buf
  /\ SetIrq(TRUE)

\* postpone_message.
PostponeMessage(m) ==
  IF m.serial = SERIAL_ID_TO_IGNORE
  THEN /\ IF is_writable THEN Flush(m) ELSE UNCHANGED <<write_buf, irq, edges>>
       /\ UNCHANGED slot
  ELSE /\ slot' = IF slot = <<>> THEN <<m>> ELSE slot
       /\ UNCHANGED <<write_buf, irq, edges>>

\* What decode_try has at hand: the header it keeps and the bytes in read_buf.
Taken == hdr \o read_buf
PayloadSize == (Taken[2] - 2) % 256
Ready == Len(Taken) >= 4 /\ Len(Taken) - 4 >= PayloadSize

\* decode_try ignores a byte that is not EYE_CATCH ...
DecodeSkip ==
  /\ read_buf # <<>> /\ hdr = <<>> /\ Head(read_buf) # EYE_CATCH
  /\ read_buf' = Tail(read_buf)
  /\ UNCHANGED <<pi, irq, edges, armed, spdr, write_buf, lost, avr, user>>

\* ... takes the header as far as it is there, and waits for the rest ...
DecodeWait ==
  /\ read_buf # <<>> /\ Taken[1] = EYE_CATCH /\ Len(hdr) < 4 /\ ~Ready
  /\ LET n == IF Len(Taken) < 4 THEN Len(Taken) ELSE 4
     IN  /\ hdr' = SubSeq(Taken, 1, n)
         /\ read_buf' = SubSeq(Taken, n + 1, Len(Taken))
  /\ UNCHANGED <<pi, irq, edges, armed, spdr, write_buf, lost, slot, shift,
                 connected, notes, user>>

\* ... and decodes a message that is complete.  A lost byte can make the serial
\* number the size; a payload of more than IN_SIZE bytes is then written beyond
\* in_buf (decode.c 32, 148).  What lies there is not known from the source:
\* the model decodes no further.
Decode(status) ==
  /\ read_buf # <<>> /\ Taken[1] = EYE_CATCH /\ Ready
  /\ PayloadSize <= IN_SIZE
  /\ hdr' = <<>> /\ read_buf' = SubSeq(Taken, 5 + PayloadSize, Len(Taken))
  /\ LET id    == Taken[4]
         fits  == PayloadSize <= ShiftSize - shift
         Reply(st) == PostponeMessage(StatusMsg(Taken[3], st, id))
     IN
     /\ \/ /\ id = MSG_ID_LED_ARRAY
           /\ status = IF fits THEN STATUS_SUCCESS ELSE STATUS_FAIL
           /\ shift' = IF fits THEN shift + PayloadSize ELSE shift
           /\ Reply(status)
           /\ UNCHANGED connected
        \/ /\ id = MSG_ID_SYNC_CLOCK /\ status = STATUS_SUCCESS
           /\ Reply(status)
           /\ UNCHANGED <<shift, connected>>
        \/ /\ id = MSG_ID_HANDSHAKE /\ status = STATUS_SUCCESS
           /\ connected' = TRUE
           /\ UNCHANGED <<shift, slot, write_buf, irq, edges>>
        \/ /\ id = MSG_ID_IDLE /\ status = STATUS_SUCCESS
           /\ UNCHANGED <<shift, connected, slot, write_buf, irq, edges>>
        \/ /\ id \notin {MSG_ID_LED_ARRAY, MSG_ID_SYNC_CLOCK, MSG_ID_HANDSHAKE,
                         MSG_ID_IDLE}
           /\ status = STATUS_UNKNOWN_MSG
           /\ Reply(status)
           /\ UNCHANGED <<shift, connected>>
  /\ UNCHANGED <<pi, armed, spdr, lost, notes, user>>

\* postpone_try, with is_enough_space.
PostponeTry ==
  /\ slot # <<>>
  /\ is_writable
  /\ BufSize - Len(read_buf) >= ENOUGH_SPACE
  /\ ShiftSize - shift >= ENOUGH_SPACE
  /\ Flush(slot[1])
  /\ slot' = <<>>
  /\ UNCHANGED <<pi, armed, spdr, lost, read_buf, hdr, shift, connected, notes,
                 user>>

\* The menu sends a notice; it is ignored when it cannot be written.
Notify ==
  /\ connected /\ notes + lost < MaxNotes
  /\ PostponeMessage(SuspendMsg)
  /\ notes' = notes + 1
  /\ UNCHANGED <<pi, armed, spdr, lost, read_buf, hdr, shift, connected, user>>

\* heartbeat.c's verify raises the line to provoke an answer.
Provoke ==
  /\ connected /\ notes + lost < MaxNotes
  /\ SetIrq(TRUE)
  /\ notes' = notes + 1
  /\ UNCHANGED <<pi, armed, spdr, lost, read_buf, write_buf, hdr, slot, shift,
                 connected, user>>

\* flush_shift_display, run by cron in MODE_RADIO only (mode.c 46, 58): the mode
\* the handshake sets, and keeps as long as the menu is closed and the heartbeat
\* confirmed.
ShiftDisplay ==
  /\ connected
  /\ shift >= MIN_DATA_SIZE /\ shift' = shift - 1
  /\ UNCHANGED <<pi, wire, hdr, slot, connected, notes, user>>

Statuses == {STATUS_SUCCESS, STATUS_FAIL, STATUS_UNKNOWN_MSG}

Next == \/ Top \/ Pop \/ Check \/ Send \/ Parse \/ SpuriousWakeup
        \/ HandleEvent \/ HandleEventFails
        \/ SyncClock \/ McuVersion \/ InfoPush
        \/ Clock \/ TransferFails
        \/ DecodeSkip \/ DecodeWait \/ \E status \in Statuses : Decode(status)
        \/ PostponeTry \/ Notify \/ Provoke
        \/ ShiftDisplay

Spec == Init /\ [][Next]_vars

\* Both threads of the daemon, the wire and the AVR's main loop and display
\* timer go on, and the clock stream has a line now and then.  The menu, the
\* heartbeat and the information are not obliged to do anything.  postpone_try
\* follows decode_try in the main loop, between any two bytes on the wire, so
\* that it does not miss the moments when read_buf is empty (SF).
Fairness ==
  /\ WF_vars(Top \/ Pop \/ Check \/ Send \/ Parse)
  /\ WF_vars(HandleEvent) /\ WF_vars(SyncClock) /\ WF_vars(McuVersion)
  /\ WF_vars(Clock)
  /\ WF_vars(\/ DecodeSkip \/ DecodeWait
             \/ \E status \in Statuses : Decode(status))
  /\ SF_vars(PostponeTry) /\ WF_vars(ShiftDisplay)

FairSpec == Spec /\ Fairness

-----------------------------------------------------------------------------
(* What the bytes on their way stand for.                                  *)

Frames[s \in Seq(Nat)] ==
  IF Len(s) < 4 THEN <<>>
  ELSE IF s[1] # EYE_CATCH THEN Frames[Tail(s)]
  ELSE IF s[2] > Len(s) - 2 THEN <<>>
  ELSE <<Unwrapped(SubSeq(s, 1, s[2] + 2))>>
         \o Frames[SubSeq(s, s[2] + 3, Len(s))]

Down == SelectSeq(Frames[Taken \o tx], LAMBDA m : m.id # MSG_ID_IDLE)
Received == Frames[mbuf \o rx]
Up == Frames[mbuf \o rx \o <<spdr>> \o write_buf]

-----------------------------------------------------------------------------
Byte == 0 .. 255

\* Bytes are bytes, the receive ring is not overrun, and no queue exceeds what
\* its bound and the code allow.
TypeOK ==
  /\ pc \in {"top", "pop", "check", "wait", "send", "xfer", "parse", "dead"}
  /\ rised \in BOOLEAN /\ irq \in BOOLEAN /\ armed \in BOOLEAN
  /\ connected \in BOOLEAN
  /\ intq \in Seq(BOOLEAN) /\ edges \in Seq(BOOLEAN)
  /\ pending \in 0 .. SerialMax /\ serial \in 0 .. SerialMax
  /\ greet \in {"no", "due", "done"} /\ notes \in 0 .. MaxNotes
  /\ tx \in Seq(Byte) /\ rx \in Seq(Byte) /\ mbuf \in Seq(Byte)
  /\ spdr \in Byte /\ read_buf \in Seq(Byte) /\ write_buf \in Seq(Byte)
  /\ Len(read_buf) <= BufSize /\ hdr \in Seq(Byte) /\ Len(hdr) <= 4
  /\ Len(toq) <= MaxQueue + 1 /\ Len(slot) <= 1 /\ shift \in 0 .. ShiftSize

\* A low interrupt line means that the AVR has nothing to say: every message
\* it wrote is complete in the daemon's hands (spi.c 136-142), as long as
\* nothing fails on the link.
LowMeansReceived == ~irq => Up = Received

\* The last edge on its way to the thread, or the level it has seen, is the
\* level of the line, from the first message on.  Edges are not lost between
\* the kernel, the callback and the thread, whatever else fails: an edge that
\* handle_event could not read stays with the kernel.
EdgesTellLevel == greet # "no" => Last(<<rised>> \o intq \o edges) = irq

\* flush() ignores what spi_write_array returns, and the ring must not be
\* filled to its last slot: is_writable leaves room for both.
WriteBufKeepsMargin == Len(write_buf) < BufSize

\* The daemon gets to see VERSION and answers it, although nobody saw the edge
\* that announced it.
Greeted == <>(greet = "done")

\* spi.c 20-21: the interrupt is there "to notify pi that avr wants to write
\* smth into the channel".  A status the AVR owes does reach the daemon, as
\* long as nothing fails on the link: a request the kernel refuses is lost, and
\* m_block stays engaged for it (spi-dev.cpp 123-128).
StatusReturns == is_engaged ~> ~is_engaged
=============================================================================
