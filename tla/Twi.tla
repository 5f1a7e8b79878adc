-------------------------------- MODULE Twi --------------------------------
(***************************************************************************)
(* The watch of the AVR: avr/watch.c asks the real-time clock (a DS3231)   *)
(* for the time and sets it, over the two-wire bus of avr/twi.c.           *)
(*                                                                         *)
(* Requests wait as bytes in one ring.  The main loop writes to the clock  *)
(* (watch_set, and watch_disable and watch_enable as mode_set calls them), *)
(* ISR (INT2_vect) reads the time once per pulse of the clock, as long as  *)
(* its square wave is on.  Both fill the same ring, and the interrupt may  *)
(* come between any two bytes of the main loop.  twi_try takes the oldest  *)
(* request out, ISR (TWI_vect) carries it out byte by byte, and twi_try    *)
(* reports it.                                                             *)
(*                                                                         *)
(* The ring is the sequence of its bytes and the index of the oldest one,  *)
(* which is all that module Fifo keeps of buffer.c.  This client leaves no *)
(* slot free: a ring that is filled to the last byte when start > 0 has    *)
(* equal indices and has lost everything.                                  *)
(*                                                                         *)
(* There is one slave, so that an id other than TWI_ID_RTC is read from a  *)
(* request that has lost its frame only.  The code then leaves its tables, *)
(* and the model ends in the mode "WILD".                                  *)
(***************************************************************************)
EXTENDS Integers, FiniteSets, SequencesExt

CONSTANTS Size,        \* bytes of the ring (255)
          Modes,       \* "WATCH" and other modes, of which the watch knows nothing
          Times,       \* <<hour, minute>> that SYNC_CLOCK may bring
          MaxCalls,    \* bound: calls of mode_set and watch_set
          MaxPulses,   \* bound: pulses of the clock
          MaxFaults    \* bound: answers of the bus that are not the expected one

\* The ring takes what avr.c asks for before the bus is served for the first
\* time, and the Pi sends numbers.
ASSUME TwiAssumption ==
  /\ Size \in Nat /\ Size >= 22
  /\ Times \subseteq Nat \X Nat
  /\ "WATCH" \in Modes

VARIABLES
  queue,         \* queue of twi.c, as [bytes, start]
  mode,          \* what the bus is doing
  status,        \* the result so far
  m,             \* m_action, m_tag, m_reg, m_index, m_max_index, m_data
  current_mode,  \* mode.c
  todo,          \* the requests the main loop is going to make
  rest,          \* bytes of the first of them that are still to be filled in
  buffer,        \* the time of watch.c, as it is drawn
  rtc,           \* the clock: its registers, and whether it has ignored its
                 \* address since the last start
  unheard,       \* history: the units of the time whose last reading came from
                 \* a clock that had ignored its address
  asked,         \* history: the whole requests in the ring, oldest first,
                 \* forgotten when one of them is spoilt
  spoilt,        \* history: what has gone wrong
  calls, pulses, faults

main == <<current_mode, todo, calls>>
bus  == <<mode, status, m, rtc, faults>>
vars == <<queue, rest, main, bus, buffer, unheard, asked, spoilt, pulses>>

OVERHEAD == 4
TWI_ID_RTC == 0
SECOND == 0      \* BUFFER_xxx, and REG_xxx
MINUTE == 1
HOUR == 2
REG_ENABLE == 14                        \* the control register
REG_ENABLE_32KHZ == 15                  \* the status register
Fields == {SECOND, MINUTE, HOUR}
Regs == Fields \cup {REG_ENABLE, REG_ENABLE_32KHZ}
REG_VALUE_ENABLE == 0
REG_VALUE_DISABLE == 4
INITIAL_TIME == 1

-----------------------------------------------------------------------------
(* The time, in and out of the clock's packed decimals.                    *)

Limit(unit) == IF unit = HOUR THEN 23 ELSE 59
Packed(n) == (n \div 10) * 16 + (n % 10)
rtc_to_any(n, unit) == Packed(n)
rtc_to(n, unit) == Packed(IF n > Limit(unit) THEN Limit(unit) ELSE n)
rtc_from(b, unit) ==
  ((b \div 16) % (IF unit = HOUR THEN 4 ELSE 8)) * 10 + (b % 16)

(* The requests.                                                           *)
Write(reg, data) == <<2 * Len(data), TWI_ID_RTC, 0, reg>> \o data
Read(tag, reg) == <<2 * 1 + 1, TWI_ID_RTC, tag, reg>>

watch_enable  == Write(REG_ENABLE, <<REG_VALUE_ENABLE>>)
watch_disable == Write(REG_ENABLE, <<REG_VALUE_DISABLE>>)
watch_set(hour, minute, second) ==
  Write(SECOND, <<rtc_to(second, SECOND), rtc_to(minute, MINUTE),
                  rtc_to(hour, HOUR)>>)

mode_set_swapped(new) == (IF new = "WATCH" THEN <<watch_enable>> ELSE <<>>)
                         \o <<watch_disable>>
mode_set_lazy(new) == IF new = "WATCH" THEN <<watch_enable>> ELSE <<>>
mode_set(new) == <<watch_disable>>
                 \o (IF new = "WATCH" THEN <<watch_enable>> ELSE <<>>)

-----------------------------------------------------------------------------
(* The ring.                                                               *)

buffer_space(q) == Size - Len(q.bytes)

\* buffer_byte_fill where there is room.
Fill(q, b) == [q EXCEPT !.bytes = IF Len(@) + 1 = Size /\ q.start > 0
                                  THEN <<>> ELSE Append(@, b)]

\* buffer_byte_drain, n times or until the ring is empty.
Drain(q, n) == IF n < Len(q.bytes)
               THEN [bytes |-> SubSeq(q.bytes, n + 1, Len(q.bytes)),
                     start |-> (q.start + n) % Size]
               ELSE [bytes |-> <<>>, start |-> 0]

Lost(q, r) == Len(q.bytes) > 0 /\ r.bytes = <<>>

Framing == {"torn", "short", "lost"}
Kept == spoilt \cap Framing = {}

-----------------------------------------------------------------------------
Idle == [action |-> "IDLE", tag |-> 0, reg |-> 0, index |-> 0, max |-> 0,
         data |-> <<>>]

\* watch_init asks to switch the 32 kHz signal off and to set the time, then
\* avr.c enters MODE_WATCH.  The clock has its own battery: its square wave is
\* off when it was never used and may be on when the AVR alone was restarted.
Boot == <<Write(REG_ENABLE_32KHZ, <<0>>),
          watch_set(INITIAL_TIME, INITIAL_TIME, INITIAL_TIME)>>
        \o mode_set("WATCH")

Init == /\ queue = [bytes |-> FlattenSeq(Boot), start |-> 0]
        /\ mode = "IDLE" /\ status = "SUCCESS" /\ m = Idle
        /\ current_mode = "WATCH" /\ todo = <<>> /\ rest = <<>>
        /\ buffer = [f \in Fields |-> 0]
        /\ \E control \in {REG_VALUE_ENABLE, 28} :
             rtc = [reg  |-> [r \in Regs |-> IF r = REG_ENABLE THEN control ELSE 0],
                    deaf |-> FALSE]
        /\ unheard = {} /\ asked = Boot /\ spoilt = {} /\ calls = 0 /\ pulses = 0
        /\ faults = 0

-----------------------------------------------------------------------------
(* The main loop makes requests.                                           *)

Free == todo = <<>> /\ rest = <<>>

ModeSet ==
  /\ Free /\ Kept /\ calls < MaxCalls /\ calls' = calls + 1
  /\ \E new \in Modes \ {current_mode} :
       current_mode' = new /\ todo' = mode_set(new)
  /\ UNCHANGED <<queue, rest, bus, buffer, unheard, asked, spoilt, pulses>>

SyncClock ==
  /\ Free /\ Kept /\ calls < MaxCalls /\ calls' = calls + 1
  /\ \E t \in Times : todo' = <<watch_set(t[1], t[2], 0)>>
  /\ UNCHANGED <<queue, rest, bus, buffer, unheard, current_mode, asked, spoilt, pulses>>

\* twi_write_array: is there space?  Nobody looks at its answer.
Ask ==
  /\ todo # <<>> /\ rest = <<>>
  /\ IF buffer_space(queue) >= Len(Head(todo))
     THEN rest' = Head(todo) /\ UNCHANGED <<todo, spoilt>>
     ELSE todo' = Tail(todo) /\ spoilt' = spoilt \cup {"refused"} /\ UNCHANGED rest
  /\ UNCHANGED <<queue, current_mode, calls, bus, buffer, unheard, asked, pulses>>

\* ... and one of its buffer_byte_fill; the first that fails ends it.
Put ==
  /\ rest # <<>>
  /\ IF buffer_space(queue) = 0
     THEN /\ rest' = <<>> /\ todo' = Tail(todo)
          /\ spoilt' = spoilt \cup {"short"} /\ asked' = <<>>
          /\ UNCHANGED queue
     ELSE /\ queue' = Fill(queue, Head(rest))
          /\ rest' = Tail(rest)
          /\ todo' = IF rest' = <<>> THEN Tail(todo) ELSE todo
          /\ asked' = IF Lost(queue, queue') THEN <<>>
                      ELSE IF rest' = <<>> THEN Append(asked, Head(todo)) ELSE asked
          /\ spoilt' = IF Lost(queue, queue') THEN spoilt \cup {"lost"} ELSE spoilt
  /\ UNCHANGED <<current_mode, calls, bus, buffer, unheard, pulses>>

-----------------------------------------------------------------------------
(* ISR (INT2_vect): the clock asks to be read, once per second.            *)

SquareWave == (rtc.reg[REG_ENABLE] \div 4) % 2 = 0     \* INTCN is 0

\* twi_read_array fills in a request of OVERHEAD bytes, or nothing.
twi_read(q, r) == IF buffer_space(q) < OVERHEAD THEN q
                  ELSE Fill(Fill(Fill(Fill(q, r[1]), r[2]), r[3]), r[4])
Reads == <<Read(HOUR, HOUR), Read(MINUTE, MINUTE), Read(SECOND, SECOND)>>
Begun == rest # <<>> /\ rest # Head(todo)

Int2 ==
  /\ SquareWave /\ Kept /\ pulses < MaxPulses /\ pulses' = pulses + 1
  /\ LET q1    == twi_read(queue, Reads[1])
         q2    == twi_read(q1, Reads[2])
         q3    == twi_read(q2, Reads[3])
         taken == IF q1 = queue THEN 0 ELSE IF q2 = q1 THEN 1
                  ELSE IF q3 = q2 THEN 2 ELSE 3
         lost  == Lost(queue, q1) \/ Lost(q1, q2) \/ Lost(q2, q3)
     IN  /\ taken > 0
         /\ queue' = q3
         /\ asked' = IF Begun \/ lost THEN <<>>
                     ELSE asked \o SubSeq(Reads, 1, taken)
         /\ spoilt' = spoilt \cup (IF lost THEN {"lost"} ELSE {})
                             \cup (IF Begun THEN {"torn"} ELSE {})
  /\ UNCHANGED <<rest, main, bus, buffer, unheard>>

-----------------------------------------------------------------------------
(* twi_try.                                                                *)

\* read_callback draws the time; nobody wants to know how a write went.
Report ==
  /\ Free /\ mode = "IDLE" /\ m.action # "IDLE"
  /\ IF m.action = "READ" /\ status = "SUCCESS"
        /\ m.tag \in Fields /\ m.max >= 1
     THEN /\ buffer' = [buffer EXCEPT ![m.tag] = m.data[1]]
          /\ unheard' = IF rtc.deaf THEN unheard \cup {m.tag}
                        ELSE unheard \ {m.tag}
     ELSE UNCHANGED <<buffer, unheard>>
  /\ m' = Idle /\ status' = "SUCCESS"
  /\ UNCHANGED <<queue, rest, main, mode, rtc, faults, asked, spoilt, pulses>>

\* action_set.  Of a request with no frame it takes what it finds.
Taken_always(q) == LET len == q.bytes[1] \div 2
                       n   == Len(q.bytes) - OVERHEAD
                   IN  IF len < n THEN len ELSE n
Taken(q) == LET len == q.bytes[1] \div 2
                n   == Len(q.bytes) - OVERHEAD
            IN  IF q.bytes[1] % 2 = 1 THEN 0 ELSE IF len < n THEN len ELSE n

action_set(q) == [m EXCEPT !.action = IF q.bytes[1] % 2 = 1 THEN "READ" ELSE "WRITE",
                 !.index = 0, !.max = q.bytes[1] \div 2,
                 !.tag = q.bytes[3], !.reg = q.bytes[4],
                 !.data = SubSeq(q.bytes, OVERHEAD + 1, OVERHEAD + Taken(q))
                          \o SubSeq(@, Taken(q) + 1, Len(@))]

Start ==
  /\ Free /\ mode = "IDLE" /\ m.action = "IDLE" /\ queue.bytes # <<>>
  /\ IF Len(queue.bytes) < OVERHEAD
     THEN queue' = Drain(queue, OVERHEAD) /\ mode' = "READ_START" /\ UNCHANGED m
     ELSE /\ queue' = Drain(queue, OVERHEAD + Taken(queue))
          /\ m' = action_set(queue)
          /\ mode' = IF queue.bytes[2] # TWI_ID_RTC THEN "WILD"
                     ELSE IF m'.action = "WRITE" THEN "WRITE_START" ELSE "READ_START"
  /\ asked' = IF asked = <<>> THEN asked ELSE Tail(asked)
  /\ UNCHANGED <<rest, main, status, rtc, faults, buffer, unheard, spoilt, pulses>>

-----------------------------------------------------------------------------
(* ISR (TWI_vect).  A status is the set of its bits in TWSR; the code asks *)
(* whether all bits of the expected status are there.                      *)

START == {3}
REP_START == {4}
MT_SLA_ACK == {3, 4}
MT_SLA_NACK == {5}
MT_DATA_ACK == {3, 5}
MT_DATA_NACK == {4, 5}
MR_SLA_ACK == {6}
MR_SLA_NACK == {3, 6}
MR_DATA_ACK == {4, 6}
MR_DATA_NACK == {3, 4, 6}
BUS_ERROR == {}

\* By mode: the status the code expects, what a healthy bus answers, what else
\* it may answer, the error, and the next mode.  TWEA is never set, so that
\* the AVR itself refuses every byte it reads.
Step(expected, healthy, other, next) ==
  [expected |-> expected, healthy |-> healthy, other |-> other, next |-> next]

Steps == [
  WRITE_START |-> Step(START, START, {}, "WRITE_SLAVE"),
  WRITE_SLAVE |-> Step(MT_SLA_ACK, MT_SLA_ACK, {MT_SLA_NACK}, "WRITE_REG"),
  WRITE_REG   |-> Step(MT_DATA_ACK, MT_DATA_ACK, {MT_DATA_NACK}, "WRITE_VALUE"),
  WRITE_VALUE |-> Step(MT_DATA_ACK, MT_DATA_ACK, {MT_DATA_NACK}, "WRITE_VALUE"),
  READ_START  |-> Step(START, START, {}, "READ_SLAVE"),
  READ_SLAVE  |-> Step(MT_SLA_ACK, MT_SLA_ACK, {MT_SLA_NACK}, "READ_REG"),
  READ_REG    |-> Step(MT_DATA_ACK, MT_DATA_ACK, {MT_DATA_NACK}, "READ_RESTART"),
  READ_RESTART       |-> Step(REP_START, REP_START, {}, "READ_RESTART_SLAVE"),
  READ_RESTART_SLAVE |-> Step(MR_SLA_ACK, MR_SLA_ACK, {MR_SLA_NACK}, "READ_VALUE"),
  READ_VALUE         |-> Step(MR_DATA_ACK, MR_DATA_NACK, {}, "READ_VALUE")]

check_status_register_any(st) == Steps[mode].expected \cap st # {}
check_status_register(st) == Steps[mode].expected \subseteq st

Datum(i) == IF i < Len(m.data) THEN m.data[i + 1] ELSE 0
Pointer == m.reg + m.index
Received == IF rtc.deaf \/ Pointer \notin Regs THEN 255 ELSE rtc.reg[Pointer]

\* What the clock does when the bus brings `st': it keeps the values it has
\* acknowledged; a clock that ignored its address leaves the line high.  It
\* points at the register after the last byte, from m_reg on.
Clock(st) ==
  CASE mode = "WRITE_VALUE" /\ st = MT_DATA_ACK /\ Pointer \in Regs ->
         [rtc EXCEPT !.reg[Pointer] = Datum(m.index)]
    [] mode = "READ_RESTART_SLAVE" -> [rtc EXCEPT !.deaf = st # MR_SLA_ACK]
    [] mode \in {"WRITE_START", "READ_START"} -> [rtc EXCEPT !.deaf = FALSE]
    [] OTHER -> rtc

Interrupt ==
  /\ mode \in DOMAIN Steps
  /\ \E st \in {Steps[mode].healthy} \cup
               (IF faults < MaxFaults THEN Steps[mode].other \cup {BUS_ERROR} ELSE {}) :
       /\ faults' = IF st = Steps[mode].healthy THEN faults ELSE faults + 1
       /\ rtc' = Clock(st)
       /\ IF ~check_status_register(st)
          THEN /\ mode' = "IDLE" /\ status' = mode
               /\ spoilt' = IF m.action = "WRITE" THEN spoilt \cup {"failed"} ELSE spoilt
               /\ UNCHANGED m
          ELSE /\ UNCHANGED <<status, spoilt>>
               /\ IF mode \notin {"WRITE_VALUE", "READ_VALUE"}
                  THEN mode' = Steps[mode].next /\ UNCHANGED m
                  ELSE /\ m' = [m EXCEPT !.index = @ + 1,
                                  !.data = IF mode = "WRITE_VALUE" THEN @
                                           ELSE IF m.index < Len(@)
                                           THEN [@ EXCEPT ![m.index + 1] = Received]
                                           ELSE Append(@, Received)]
                       /\ mode' = IF m'.index < m.max THEN mode ELSE "IDLE"
  /\ UNCHANGED <<queue, rest, main, buffer, unheard, asked, pulses>>

-----------------------------------------------------------------------------
Main == ModeSet \/ SyncClock \/ Ask \/ Put \/ Report \/ Start
Next == Main \/ Int2 \/ Interrupt

Spec == Init /\ [][Next]_vars

\* The main loop goes on with what it has begun and with what the bus has for
\* it; the bus answers.  Nothing makes anybody change the mode or the time.
FairSpec == /\ Spec
            /\ WF_vars(Ask \/ Put \/ Report \/ Start)
            /\ WF_vars(Interrupt)

-----------------------------------------------------------------------------
\* The ring stays inside its bounds, an action inside the bus's modes.
TypeOK ==
  /\ Len(queue.bytes) <= Size /\ queue.start \in 0 .. Size - 1
  /\ mode \in DOMAIN Steps \cup {"IDLE", "WILD"}
  /\ status \in DOMAIN Steps \cup {"SUCCESS"}
  /\ m.action \in {"IDLE", "READ", "WRITE"}
  /\ buffer \in [Fields -> 0 .. 255]
  /\ rtc.reg \in [Regs -> 0 .. 255]

\* twi.c, twi_write_array and twi_read_array against action_set: what is in the
\* ring are whole requests in the order they were made, and the beginning of
\* the one the main loop is filling in.  No request is misread, unless an
\* interrupt came in the middle of one, took the space one had been promised,
\* or filled the last slot.
Framed ==
  Kept => /\ mode # "WILD"
          /\ queue.bytes = FlattenSeq(asked) \o
               (IF rest = <<>> THEN <<>>
                ELSE SubSeq(Head(todo), 1, Len(Head(todo)) - Len(rest)))

\* ISR (TWI_vect) and twi_try: a request that is reported as a success has been
\* carried out.  What was written is in the clock, what was read is what the
\* clock has, but where the clock ignored its address for reading (the bits of
\* MR_SLA_ACK are among those of MR_SLA_NACK).
SuccessIsTrue ==
  mode = "IDLE" /\ status = "SUCCESS" /\ Kept =>
    /\ m.action = "WRITE" => \A i \in 0 .. m.max - 1 : rtc.reg[m.reg + i] = Datum(i)
    /\ m.action = "READ" /\ ~rtc.deaf => m.data = <<rtc.reg[m.reg]>>

\* watch.c, rtc: whatever the Pi sends as time, the clock is set to a time of
\* the day, and a unit of the time that was read from the clock is drawn as
\* such.  It is not when the clock ignored its address for reading: the code
\* takes that for an answer (see SuccessIsTrue) and draws the idle line, 255,
\* until the unit is read again.
TimeOfDay ==
  Kept => \A f \in Fields :
            /\ rtc_from(rtc.reg[f], f) <= Limit(f)
            /\ f \notin unheard => rtc_from(buffer[f], f) <= Limit(f)

\* watch_enable and watch_disable under mode_set: when all requests have been
\* served, the clock pulses in MODE_WATCH and in no other mode.  A request that
\* was refused or failed is not repeated.
PulsesInWatchMode ==
  Free /\ queue.bytes = <<>> /\ mode = "IDLE" /\ m.action = "IDLE" /\ spoilt = {}
    => SquareWave = (current_mode = "WATCH")

\* After MODE_WATCH has been left the clock is stopped, and the reads that were
\* waiting come to an end: the time is no more drawn over what is shown then.
WatchEnds ==
  current_mode # "WATCH" ~>
    \/ current_mode = "WATCH" \/ spoilt # {}
    \/ ~SquareWave /\ queue.bytes = <<>> /\ m.action = "IDLE"
=============================================================================
