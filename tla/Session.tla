------------------------------ MODULE Session -------------------------------
(***************************************************************************)
(* The message exchange between the daemon on the Pi and the AVR, message  *)
(* by message.  Three mechanisms make it work:                             *)
(*                                                                         *)
(*  - stop and wait: mcu_block_t lets the daemon send a message with a     *)
(*    serial number only after the status of the previous one has come     *)
(*    back (pi/mcu-block.cpp, pi/mcu-handle.cpp);                          *)
(*  - one slot: the AVR keeps the status it owes in postpone.c's single    *)
(*    postponed_message;                                                   *)
(*  - credit: it releases the status only when LED_ARRAY_SIZE +            *)
(*    MSG_OVERHEAD slots of the display buffer are free.                   *)
(*                                                                         *)
(* The two directions are lossless and ordered here (`down', `up'); module *)
(* SpiLink carries them over the wire byte by byte and is shown to         *)
(* implement this one.  MSG_ID_IDLE has no effect at this level.           *)
(***************************************************************************)
EXTENDS Protocol

CONSTANTS ShiftSize,       \* capacity of the display buffer shift_data (255)
          LED_ARRAY_SIZE,  \* columns in a full LED_ARRAY message (20)
          MSG_OVERHEAD,    \* added to it for the credit (6)
          MIN_DATA_SIZE,   \* columns needed before the display shifts (64)
          SerialMax,       \* serial numbers are 1 .. SerialMax (255)
          MaxDown,         \* bound: messages to the AVR that are under way
          MaxUp            \* bound: messages of the AVR that are under way

ENOUGH_SPACE == LED_ARRAY_SIZE + MSG_OVERHEAD

ASSUME SessionAssumption ==
  /\ ShiftSize \in Nat /\ LED_ARRAY_SIZE \in Nat /\ MSG_OVERHEAD \in Nat
  /\ MIN_DATA_SIZE \in Nat \ {0} /\ SerialMax \in Nat
  /\ MaxDown \in Nat /\ MaxUp \in Nat
  /\ MSG_OVERHEAD > 0
  /\ ENOUGH_SPACE <= ShiftSize

VARIABLES pending,  \* mcu_block_t::m_pending_id, 0 when not engaged
          down,     \* messages sent to the AVR and not decoded yet
          slot,     \* postponed_message: empty or one message
          shift,    \* bytes in the display buffer
          drain,    \* flush.c's drain flag, set while the menu is open
          radio,    \* mode.c is in MODE_RADIO: cron.c shifts the display
          up,       \* messages written by the AVR and not received yet
          failed    \* the daemon's thread ended with "id mismatch"

vars == <<pending, down, slot, shift, drain, radio, up, failed>>

Serials == 1 .. SerialMax

\* What the daemon sends: LED arrays of up to LED_ARRAY_SIZE columns, answers
\* to queries and clock synchronisation under a serial number, the handshake
\* without one.  The payload matters by its length only.
Columns(n) == [i \in 1 .. n |-> 0]
Requests ==
  {Msg(s, MSG_ID_LED_ARRAY, Columns(n)) : s \in Serials,
                                          n \in 1 .. LED_ARRAY_SIZE}
    \cup {Msg(s, MSG_ID_SYNC_CLOCK, Columns(2)) : s \in Serials}
    \cup {Msg(s, MSG_ID_QUERY_NAME, Columns(2)) : s \in Serials}
    \cup {Msg(SERIAL_ID_TO_IGNORE, MSG_ID_HANDSHAKE, <<>>)}

\* What the AVR sends on its own accord: without a serial number.
Notes == {Msg(SERIAL_ID_TO_IGNORE, MSG_ID_SUSPEND, <<>>)}

Init == /\ pending = SERIAL_ID_TO_IGNORE
        /\ down = <<>>
        /\ slot = <<>>
        /\ shift = 0
        /\ drain = FALSE
        /\ radio \in BOOLEAN
        /\ up = <<VersionMsg>>
        /\ failed = FALSE

is_engaged == pending # SERIAL_ID_TO_IGNORE

-----------------------------------------------------------------------------
\* mcu_handle_t::start, step 3, and write_msg: engage and put on the wire.
Send_nowait(m) ==
  /\ ~failed
  /\ Len(down) < MaxDown
  /\ pending' = m.serial
  /\ down' = Append(down, m)
  /\ UNCHANGED <<slot, shift, drain, radio, up, failed>>
Send(m) ==
  /\ ~failed
  /\ ~is_engaged
  /\ Len(down) < MaxDown
  /\ pending' = m.serial
  /\ down' = Append(down, m)
  /\ UNCHANGED <<slot, shift, drain, radio, up, failed>>

\* The rest of write_msg for one incoming message: mcu_block_t::relax decides
\* whether the message is passed on or the thread throws.
Receive_engaged ==
  /\ ~failed
  /\ up # <<>>
  /\ up' = Tail(up)
  /\ UNCHANGED <<pending, down, slot, shift, drain, radio, failed>>
Receive ==
  /\ ~failed
  /\ up # <<>>
  /\ up' = Tail(up)
  /\ LET serial == Head(up).serial
     IN  /\ pending' = IF serial = pending THEN SERIAL_ID_TO_IGNORE ELSE pending
         /\ failed' = (/\ serial # SERIAL_ID_TO_IGNORE
                       /\ is_engaged
                       /\ serial # pending)
  /\ UNCHANGED <<down, slot, shift, drain, radio>>

\* postpone_message for a message with a serial number: it is stored, or
\* silently dropped when the slot is taken.
Postpone(msg) == slot' = IF slot = <<>> THEN <<msg>> ELSE slot

\* decode(), case MSG_ID_LED_ARRAY, with flush_shift_data.
DecodeLed ==
  /\ down # <<>> /\ Head(down).id = MSG_ID_LED_ARRAY
  /\ LET m    == Head(down)
         fits == Len(m.pay) <= ShiftSize - shift
     IN  /\ shift' = IF ~drain /\ fits THEN shift + Len(m.pay) ELSE shift
         /\ Postpone(StatusMsg(m.serial,
                               IF drain \/ fits THEN STATUS_SUCCESS
                                                ELSE STATUS_FAIL, m.id))
  /\ down' = Tail(down)
  /\ UNCHANGED <<pending, drain, radio, up, failed>>

\* decode(), cases MSG_ID_SYNC_CLOCK and MSG_ID_QUERY_*: a status is owed, and
\* the menu may have refused the answer to a query.
DecodeOther(status) ==
  /\ down # <<>>
  /\ Head(down).id \in {MSG_ID_SYNC_CLOCK, MSG_ID_QUERY_NAME,
                        MSG_ID_QUERY_NUMBER}
  /\ Head(down).id = MSG_ID_SYNC_CLOCK => status = STATUS_SUCCESS
  /\ Postpone(StatusMsg(Head(down).serial, status, Head(down).id))
  /\ down' = Tail(down)
  /\ UNCHANGED <<pending, shift, drain, radio, up, failed>>

\* decode(), case MSG_ID_HANDSHAKE: the mode changes, nothing is owed.
DecodeHandshake ==
  /\ down # <<>> /\ Head(down).id = MSG_ID_HANDSHAKE
  /\ down' = Tail(down)
  /\ radio' = TRUE
  /\ UNCHANGED <<pending, slot, shift, drain, up, failed>>

\* postpone_try: the status goes out when there is credit for another LED
\* array.  (The room in the SPI buffers it also asks for is SpiLink's matter.)
PostponeTry_eager ==
  /\ slot # <<>>
  /\ up' = Append(up, slot[1])
  /\ slot' = <<>>
  /\ UNCHANGED <<pending, down, shift, drain, radio, failed>>
PostponeTry ==
  /\ slot # <<>>
  /\ ShiftSize - shift >= ENOUGH_SPACE
  /\ up' = Append(up, slot[1])
  /\ slot' = <<>>
  /\ UNCHANGED <<pending, down, shift, drain, radio, failed>>

\* postpone_message for a message without a serial number: written at once (or
\* ignored, which is no step).
Notify(m) ==
  /\ Len(up) < MaxUp
  /\ up' = Append(up, m)
  /\ UNCHANGED <<pending, down, slot, shift, drain, radio, failed>>

\* flush_shift_display, run by cron in MODE_RADIO and only there (mode.c 46,
\* 58): shows the buffer and drops one column.
ShiftDisplay ==
  /\ radio
  /\ shift >= MIN_DATA_SIZE
  /\ shift' = shift - 1
  /\ UNCHANGED <<pending, down, slot, drain, radio, up, failed>>

\* start() and set_state() of the menu: it covers the display.
DrainStart ==
  /\ drain' = TRUE /\ shift' = 0 /\ radio' = FALSE
  /\ UNCHANGED <<pending, down, slot, up, failed>>

\* stop() and set_state(): the menu closes, or shows a name.  The mode that is
\* set then may be any of the three (module Menu has them).
DrainStop ==
  /\ drain' = FALSE /\ radio' \in BOOLEAN
  /\ UNCHANGED <<pending, down, slot, shift, up, failed>>

\* switch_to_watch, after too many heartbeats without a message.
SwitchToWatch ==
  /\ radio /\ radio' = FALSE
  /\ UNCHANGED <<pending, down, slot, shift, drain, up, failed>>

Next == \/ \E m \in Requests : Send(m)
        \/ Receive
        \/ DecodeLed
        \/ \E status \in {STATUS_SUCCESS, STATUS_FAIL} : DecodeOther(status)
        \/ DecodeHandshake
        \/ PostponeTry
        \/ \E m \in Notes : Notify(m)
        \/ ShiftDisplay
        \/ DrainStart
        \/ DrainStop
        \/ SwitchToWatch

Spec == Init /\ [][Next]_vars

\* The daemon is stopped, or dies, and is started again: its state is new, and
\* the edge of the enable line makes the AVR clear both SPI buffers and the
\* decoder and write VERSION (spi.c, ISR (INT3_vect)).  The postponed message
\* and the display buffer stay.
Restart ==
  /\ pending' = SERIAL_ID_TO_IGNORE
  /\ down' = <<>>
  /\ up' = <<VersionMsg>>
  /\ failed' = FALSE
  /\ UNCHANGED <<slot, shift, drain, radio>>

RestartSpec == Init /\ [][Next \/ Restart]_vars

\* The main loops of both sides go on, and the display timer while the mode is
\* MODE_RADIO; nobody has to turn the knob, to produce information or to set a
\* mode.  The timer ticks every 0.02 s and the mode is left for the watch after
\* seconds only, so that no sequence of modes starves the display (SF).
Fairness == /\ WF_vars(Receive)
            /\ WF_vars(DecodeLed)
            /\ WF_vars(\E st \in {STATUS_SUCCESS, STATUS_FAIL} : DecodeOther(st))
            /\ WF_vars(DecodeHandshake)
            /\ WF_vars(PostponeTry)
            /\ SF_vars(ShiftDisplay)

FairSpec == Spec /\ Fairness

-----------------------------------------------------------------------------
\* The two directions carry messages, the slot at most one; the display buffer
\* is never filled beyond its size.
TypeOK == /\ pending \in 0 .. SerialMax
          /\ down \in Seq(Requests)
          /\ slot \in Seq(Messages) /\ Len(slot) <= 1
          /\ shift \in 0 .. ShiftSize
          /\ drain \in BOOLEAN /\ radio \in BOOLEAN
          /\ up \in Seq(Messages)
          /\ failed \in BOOLEAN

\* write_msg never throws "Incoming/outcoming message id mismatch": the only
\* serial number that comes back is the one the daemon waits for.
NoMismatch == ~failed

\* postpone_message returns without storing when the slot is taken (lines
\* 66-67).  No status is ever lost there: while one is postponed, no message
\* that would be owed another is on its way.
StatusNeverDropped ==
  slot # <<>> => \A i \in 1 .. Len(down) : down[i].serial = SERIAL_ID_TO_IGNORE

\* The credit is worth something: every LED array on its way fits in the
\* display buffer when it arrives and leaves MSG_OVERHEAD slots free, so that
\* no status reports a failure and the ring is never filled to its last slot.
CreditKept ==
  \A i \in 1 .. Len(down) :
    down[i].id = MSG_ID_LED_ARRAY
      => shift + Len(down[i].pay) + MSG_OVERHEAD <= ShiftSize

\* While the daemon is engaged its request or the answer to it exists exactly
\* once: on the way down, in the slot, or on the way up; otherwise no message
\* with a serial number exists.
Owing(q) == {i \in 1 .. Len(q) : q[i].serial # SERIAL_ID_TO_IGNORE}
OneUnderWay ==
  /\ \A i \in Owing(down) : /\ down[i].serial = pending
                            /\ Owing(down) = {i} /\ slot = <<>> /\ Owing(up) = {}
  /\ slot # <<>> => /\ slot[1].serial = pending /\ is_engaged
                    /\ Owing(down) = {} /\ Owing(up) = {}
  /\ \A i \in Owing(up) : /\ up[i].serial = pending
                          /\ Owing(up) = {i} /\ slot = <<>> /\ Owing(down) = {}
  /\ is_engaged => Owing(down) # {} \/ slot # <<>> \/ Owing(up) # {}

\* Every message with a serial number is answered in the end, with one
\* exception: the status waits for credit, and the display that would give it
\* is left outside of MODE_RADIO for good, where cron.c does not shift it.
Frozen == /\ ~radio
          /\ slot # <<>> /\ ShiftSize - shift < ENOUGH_SPACE
RequestAnswered == is_engaged ~> (~is_engaged \/ []Frozen)
=============================================================================
