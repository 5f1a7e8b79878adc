# A verification of led-server in TLA+

led-server is an internet radio with a clock: a daemon on a Raspberry Pi
(`src/src/pi`) prepares texts and runs shell commands, an AVR (`src/src/avr`)
drives the LED matrix, the knobs and the menu.  They talk over SPI, where the Pi
is the master, and two extra lines: the AVR raises the *interrupt line* when it
wants to say something, the Pi raises the *enable line* when a daemon starts.

This directory models both programs and the protocol between them, checks the
models with TLC and proves the most important results with TLAPS.
`PROJECT.json` ties each definition to the lines it stands for, each property to
a mutation of the code it catches, and each hazard of the code to the
properties that watch it.

## 1. The system

### The AVR

One main loop (`avr.c` 65-82) calls `counter_try`, `cron_try`, `decode_try`,
`postpone_try`, `rotor_try` and `twi_try` for ever.  Interrupts fill the rings in
between.

| part | state | operations | what makes it correct |
|---|---|---|---|
| byte ring: `ring.c`, `buf.c`, `buffer.c` | `start`, `finish`, the array | fill, drain, get, clear, arrays of bytes, all under ATOMIC_BLOCK: producer and consumer may be an interrupt and the main loop | it is a queue as long as its last slot is left free; no byte is read that was not stored |
| SPI side: `spi.c`, `encode.c` | SPDR, `read_buf`, `write_buf`, the lines | `ISR (SPI_STC_vect)` exchanges a byte; `ISR (INT3_vect)` restarts the link | what is written arrives; the line is low only when nothing is left to say |
| messages: `decode.c`, `postpone.c` | header, `postponed_message` | `decode_try`, `decode`, `postpone_message`, `postpone_try` | each message with a serial number is owed one status, and gets it |
| display: `flush.c` | `shift_data`, `drain` | fill, shift, drain | the credit in the statuses keeps it from overrunning |
| menu: `menu.c`, `rotor.c`, `boot.c` | `state`, `param_id`, the values, `backup_mode` | a knob, an answer, a name, the timers | it always closes, and leaves mode, connection, display and flow as they belong |
| mode: `mode.c`, `heartbeat.c` | `mode`, `is_connected`, misses | `mode_set`, verify, confirm | only silence ends a connection |
| timers: `counter.c`, `cron.c`, `at.c` | a hardware timer, two tables, two queues | enable, disable, schedule, cancel, verify | what is scheduled is served, the timer runs for nothing else |
| clock: `watch.c`, `twi.c` | the ring of requests, the action that is under way, the time as drawn | `watch_set`, `watch_enable`, `watch_disable`, `ISR (INT2)`, `twi_try`, `ISR (TWI)` | requests keep their frames; a success is one; the clock pulses in MODE_WATCH only |

### The daemon

Three threads and the asio loop of `main`: the handle thread (`handle.cpp`), the
bash thread (`bash.cpp`) and the mcu thread (`mcu-handle.cpp`); asio runs the
callbacks of the interrupt line (`spi-interrupt.cpp`), of pipes (`popen.cpp`)
and of timers.  Their only shared state is a set of `condition_queue_t`s.

| part | state | operations | what makes it correct |
|---|---|---|---|
| mcu thread: `mcu-handle.cpp`, `mcu-block.cpp`, `mcu-parse.cpp`, `mcu-encode.hpp`, `mcu-decode.hpp` | `m_interrupt_rised`, `m_pending_id`, the parser's buffer, two queues | serve the line, send, cut messages out of the bytes | stop and wait; never asleep while there is work; no serial number out of turn |
| interrupt line: `spi-interrupt.cpp` | the kernel's queue of edges | `handle_event` | the thread's idea of the line agrees with the line |
| handle thread: `handle.cpp`, `content.cpp` | `m_suspend`, the texts, `m_playlist_id` | a status of a command, a message of the AVR, `info_push` | queries are answered once; the flow of LED arrays keeps going and keeps bounded |
| bash: `bash.cpp`, `popen.cpp`, `command.cpp` | `m_command_map`, timers, pipes | start a command, its output, its end, its timeout | every command is reported, nothing is forgotten in the map |
| life cycle: `base.cpp`, `led-d.cpp`, `spi-enable.cpp` | threads, their `m_go`, the enable line | start, a start that fails, stop, restart | every thread ends and is joined |

### How they meet, and what is hard

A message with a serial number engages the daemon (`mcu_block_t`) until its
status is back.  The AVR may hold the status back in its single slot until the
display has room: this is the only flow control.  Messages of the AVR (VERSION,
SUSPEND, RESUME, queries, commands) have no serial number and are written
directly.  Every byte from the AVR needs a byte from the Pi, so the AVR raises
the interrupt line and the daemon sends IDLE messages until it falls.

Hard to test are: the interleaving of interrupts with the main loop; edges that
lag behind levels; queues whose `push` notifies only when they were empty; one
postponed slot for all statuses; answers that come after the menu has closed; a
daemon that restarts under a running AVR; two handlers for the same command
(its end and its timeout); a flow of information that has no timer behind it;
a ring of requests with two producers; and `stop()`, which notifies threads
that may be just about to wait.  `PROJECT.json`, "hazards", lists them at their lines.

## 2. The modules

| module | models | composed with |
|---|---|---|
| `RingOps` | the functions of `ring.c` as operators on a record | |
| `Ring` | a ring and any client; an array operation is a loop of byte operations that nobody can observe | `RingOps` |
| `Fifo` | the abstract specification: a bounded queue, and when it loses its bytes | |
| `RingProofs` | theorems about `Ring` | `Ring`, `Fifo` |
| `Protocol` | ids, messages, `wrap` | |
| `Session` | the exchange message by message: stop and wait, slot, credit; also the specification of the link | `Protocol` |
| `SessionProofs` | theorems about `Session` | `Session` |
| `SpiLink` | the link byte by byte: mcu thread, kernel edges, asio callback, SPI interrupt, decoder, slot | `Protocol` |
| `SpiLinkProofs` | theorems about `SpiLink` | `SpiLink` |
| `LinkCarries` | the refinement: `SpiLink` implements `Session` | `SpiLink`, `Session` |
| `Menu` | `menu.c`, `mode.c`, `heartbeat.c`, the drain flag, against a Pi that answers late, falls silent or is restarted | |
| `MenuProofs` | theorems about `Menu` | `Menu` |
| `Timers` | `counter.c`, `cron.c`, `at.c` with the interrupt that uses them | |
| `TimersProofs` | theorems about `Timers` | `Timers` |
| `Twi` | `twi.c` and `watch.c` with the bus and the clock behind it | |
| `TwiProofs` | theorems about `Twi` | `Twi` |
| `Daemon` | `handle.cpp`, `bash.cpp`, asio's callbacks, the flow of LED arrays | |
| `DaemonProofs` | theorems about `Daemon` | `Daemon` |
| `Threads` | `base.cpp` and the loops of the three threads: sleep, wakeup, start and stop | |
| `ThreadsProofs` | theorems about `Threads` | `Threads` |
| `MCRing`, `MCSession`, `MCSpiLink`, `MCMenu`, `MCTwi` | instances for TLC | |

How state and actions correspond to the code:

* **Ring.**  `ring` is `{start, finish, data}`.  Every function of `ring.c` has
  an operator of the same name.  `ring_array_fill` and `_drain` check the whole
  array and then call the byte functions without looking at what they return;
  `ATOMIC_BLOCK` holds over all of it (`ring.c` 132, 149), so that the steps of
  `loop` only unfold the C loop: every other operation waits for `NoLoop`.  The
  client is not restricted.  It may fill the last slot after a wrap, which
  empties the ring (`ring.c` 62), and `Fifo` says so.  The transmit and the
  display buffer keep away from it by `ENOUGH_SPACE`; `read_buf` and the rings of
  `cron.c`, `counter.c`, `rotor.c` and `twi.c` have no such rule.
* **Session.**  `down` and `up` are lossless queues of messages, `slot` is
  `postponed_message`, `shift` the fill of the display buffer, `radio` whether
  `mode.c` is in MODE_RADIO, where alone `cron.c` shifts the display.  Each `case`
  of `decode` is an action; `relax`, which may throw, is `Receive`.
* **SpiLink.**  `pc` runs through `mcu_handle_t::start`; the test and the wait
  under the mutex are one step (`Check`), pushes from the other threads are
  actions.  `Clock` exchanges one byte and runs the SPI interrupt.
  `read_buf` and `write_buf` are sequences, justified by `RingRefinesFifo` as
  long as their last slot is left free; a byte that fills the last slot of
  `read_buf` may empty it (`Clock`).  What else may fail is a transfer that the
  kernel refuses (`TransferFails`) and an edge that cannot be read, after which
  `handle_event` is not called again (`HandleEventFails`); `MaxLost` bounds all
  three.  A payload that is longer than `in_buf`, which needs a lost byte, is
  where the model stops (`Decode`, `IN_SIZE`).
* **Menu.**  All of it runs in the main loop, one handler after the other, so a
  handler is an operator from one record of static variables to the next, with
  the names and the order of calls of the C functions.  A timer of `at.c`
  is a member of `at` and may fire at any time.  `met` remembers
  whether an answer came late or a handshake came into an open menu, `from` the
  state before the last knob.
* **Timers.**  `pc` is the place in the main loop, `vid` the index of `verify`'s
  loop.  `++current[id]` is read (`Verify`) and written and compared (`Store`)
  before the callback is called (`Call`) and removed (`Clear`), and INT3 may come
  between any two of these steps, and inside `++counter_array[i]`
  (`CounterTryInt3`).  `struck` remembers whether it came where the main loop is
  about to undo what it does (`Window`).
* **Twi.**  The ring is the sequence of its bytes and its `start`, so that the
  case in which filling the last slot empties the ring is kept (`Fill`).
  `twi_write_array` is cut into its test (`Ask`) and its bytes (`Put`), with
  `ISR (INT2)` (`Int2`) in between; `Steps` is the table of the states of
  `ISR (TWI_vect)`, a status of the bus is the set of its bits.  `asked` is what
  a correct reader of the ring would find, `spoilt` what has gone wrong, `unheard`
  which unit of the time was last read from a clock that had ignored its address.
* **Threads.**  `Program` is what the main thread does from `base_t::start` to
  the last join.  A thread is at one of the places of its loop; at `checked` it
  holds its mutex.  Messages are counted.  `gap` remembers the threads that were
  between their test of `m_go` and their wait when `stop()` notified them.
* **Daemon.**  The handle thread alternates between its two queues, the bash
  thread goes through `execute_command` step by step (`Steps`), asio's callbacks
  (`Eof`, `Timeout`) come at any time.  The mcu thread and the AVR are reduced to
  what `Session` promises: a message is sent, its status comes back once.

## 3. The runs

Passing runs:

| run | checks | bounds |
|---|---|---|
| `ring` | the indices and bytes keep their types, and the ring implements `Fifo`, last slot included | 4 slots, 2 byte values, arrays up to 3: both indices wrap repeatedly, arrays straddle the wrap |
| `session` | no serial number out of turn, no status dropped in the slot, every LED array on its way fits, the request exists exactly once, every request is answered or waits for a display that is no longer shifted | display of 7, arrays of 1-2 columns, 2 serial numbers (they are reused), 3 messages each way |
| `link` | a low line means nothing is left to read; `write_buf` is never filled; the link implements `Session`; the daemon greets; owed statuses come back | rings of 9 bytes (a notice and a status do not fit together), 2 serial numbers, one notice |
| `link_overflow` | the newest edge tells the level of the line with notices, and when something fails | rings of 9 bytes; one notice, or one byte lost in `read_buf`, one transfer refused or one edge that cannot be read |
| `menu` | the drain flag, the timer of an open menu, the mode a closed menu leaves, the heartbeat, the suspension of the Pi, the connection, the value that is sent, the selection that is applied, the range of the list | knobs PARAM, PLAYLIST and APPLY, values 0..1 but one brightness (no property reads it), the two ends of the list, one miss of the heartbeat; any number of openings, late answers and handshakes |
| `timers` | served callbacks, CONFIRM held long enough and lowered | `at.c` ticks every third and FLUSH runs every second tick of the timer, which is the least that lets `cron_try` keep up; two starts, any number of turns of the knobs |
| `daemon` | the command map, single answers, every command reported, the flow alive and bounded, the suspension | one query with all races of its timer, two lines of the clock, one opening of the menu, texts of 1-2 arrays, the real `QUEUE_SIZE_LIMIT` |
| `twi` | whole requests in the ring, successes of the bus, what is drawn as time, the pulse of the clock and the end of its readings | a ring of 24 bytes, which the requests of `watch_init` and one pulse fill; two calls of the main loop, two pulses, one answer of the bus that is not the expected one, a time out of range |
| `threads` | nobody sleeps over work; who sleeps after `stop()` was in the gap; otherwise the daemon ends | three messages in all queues, which fills and empties each of them |

The bounds are enough in the sense that every guard of the code is seen both
ways in each run: rings wrap, buffers become unwritable, the credit runs out,
serial numbers come round, the queue limit refuses, timers fire before and after
what they guard.  `MaxBehind` of `Daemon` is more than a bound on the search:
without the credit that paces the AVR the flow of LED arrays would multiply,
since a text of two arrays is pushed for every status.

Type invariants are defined in every module that keeps state.  `ring` checks
the one of `Ring`; those of `Ring`, `Session`, `Threads` and `Daemon` are
proved.  The others hold in the instances above and document the state; no run
is spent on them, and the proofs about `Menu`, `SpiLink`, `Timers` and `Twi`
carry the types they need in their own invariants (`Body`, `Typed`, `RingInv`,
`BusInv`, `ClockInv`).

Deadlock is checked except in `link_overflow`, where a failure
may really stop both sides; in `daemon`, where nothing is left to do
once the bounded clock stream has ended and the flow has died (`crowded`); and in
`twi`, where all is quiet once the clock is stopped and the bounded calls and
pulses are used up.

### Fairness

`Session`, `SpiLink`: both threads, the wire and the AVR's main loop go on (loops
without a blocking call but the waits they model); nobody has to turn a knob, to
produce a text or to set a mode.  The display is shifted in MODE_RADIO only
(`mode.c` 46, 58).  `Session` takes the shifting as strongly fair: it comes every
0.02 s, while the mode is kept for seconds, so that no sequence of modes that
returns to MODE_RADIO again and again starves it.  If the mode stays away - the heartbeat
has switched to the watch, or the menu's mode is never left - a full display gives
no credit, and a status that waits for it stays where it is: `RequestAnswered`
names that case, `Frozen`.  `SpiLink` has no menu and no fall back to
the watch: the handshake's mode is kept, `ShiftDisplay` is guarded by `connected`.
`PostponeTry` is strongly fair in `SpiLink`: the main loop calls `postpone_try`
after every `decode_try`, hence between any two bytes, and does not miss the
moments when `read_buf` is empty.  Nothing is fair about failures.
`Timers`: the main loop goes round; the running timer interrupts it again and
again (strong, since the bound on the backlog disables it).  `ConfirmEnds`
supposes that the knobs come to rest (`<>[][~MenuCancel]_vars`): every
`at_schedule` starts the period of `at.c` anew, and turns that follow each other
faster than that hold CONFIRM for as long as they go on.  `Daemon`: the
threads run and timers expire; a script need not end.  `Twi`: the main loop goes
on with a request it has begun and with what the bus has for it, and the bus
answers (the TWI hardware raises its interrupt after every byte); nobody has to
change the mode or the time, and the clock need not pulse.  `Threads`: each of the
three threads and the main thread run when they can; no signal has to come, and a
condition need not wake anybody without reason.

### Disagreements with the comments

Three runs are expected to find a violation; each checks what a comment or a
message of the code states.

* `session_restart`: a status postponed before a daemon was restarted survives
  `ISR (INT3_vect)` and ends the new daemon with "id mismatch".
* `link_reconnect`: an AVR that still counts as connected raises the line before
  the daemon asks the kernel for edges; while the daemon waits for a status, no
  further edge comes.
* `menu_late`: an answer after the menu has closed schedules its timer;
  `stop()` then restores `backup_mode`, which `reset()` set to MODE_MENU, and
  display and heartbeat stay disabled.  The next menu opens, but takes MODE_MENU
  for the mode to go back to; only a handshake, that is a restart of the daemon,
  sets another one.

Other deviations that the models contain and that need no run of their own:

* `ring_byte_fill` accepts a byte into the last slot after a wrap; then `start`
  equals `finish`, and the full ring is an empty one (`ring.c` 62): `Fifo` loses
  its bytes there.  The margins of two callers prevent it
  (`WriteBufKeepsMargin`, `CreditKept`), the other rings rely on a main loop that
  keeps up.
* A status that waits for credit when the mode falls back to the watch is kept
  until MODE_RADIO returns, and the daemon stays engaged: `Frozen`.
* A transfer that the kernel refuses is lost, and the daemon stays engaged for it
  (`spi-dev.cpp` 123-128); an edge that cannot be read is the last one that
  `handle_event` is called for (`spi-interrupt.cpp` 71-85).  What is
  shown under such failures is `EdgesTellLevel` and the theorem
  `WriteBufferHasRoom`; the rest is about a link on which nothing fails
  (`MaxLost = 0`).
* A handshake while a menu opened from the watch is open is undone when it
  closes (`menu.c` 373): `ConnectionKept` and `NotLeftSuspended` exclude it.
* From a displayed name to the knob APPLY, `secondary_param` is what the last
  selection left, PARAM_TRACK at first, and `apply' applies that instead of what
  was shown (`menu.c` 223): `AppliesSelection` excludes this way.
  So does a name that arrives late: it opens the closed menu without a
  selection, and the knob of the parameters then runs through the range that
  APPLY left behind (`menu.c` 770): `"late" \notin met`.
* The range of the list is not set on the way from VALUE to PARAM
  (`menu.c` 219): `ListInRange` excludes it.
* INT3 inside the counting of its own entry in `at.c`, between the test of the
  count and the callback, or between the callback and the clearing of the entry
  (`at.c` 40-42), or inside `cron_disable` (`cron.c` 102): CONFIRM is lowered at
  once, held too short or left high for ever: `struck`.
* `stop()` sets `m_go` and notifies without the mutex of the thread
  (`mcu-handle.cpp` 83, `handle.cpp` 145): a thread between test and wait misses
  the only notice it gets, and the join waits for it: `gap`.
* A request on the two-wire bus that INT2 interrupts is torn, one whose space INT2
  has taken is short, and one that fills the last slot of a ring that has wrapped
  empties it (`twi.c` 166-180): `Kept`.  After it the bytes of one
  request are read as the head of another.
* A refusal of the address for reading (MR_SLA_NACK) has all bits of its
  acknowledgement and passes for it (`twi.c` 206); what is read then is
  the idle bus, 255, and it is drawn: `SuccessIsTrue` excludes it by `rtc.deaf`,
  `TimeOfDay` by `unheard`.  A lost arbitration (0x38) would pass for an
  acknowledgement as well; with one master on the bus it is not modelled.
* A request that was refused or failed is not repeated, so that the clock may go
  on pulsing in another mode or stay dark in MODE_WATCH (`watch.c` 205):
  `spoilt`.  Readings that were waiting are drawn after MODE_WATCH has been left.
* A value that only a late answer to an earlier menu made known is
  changed by the knob but never sent (`menu.c` 326): `KnobTakesEffect` excludes it.
* `info_push` gives up when three other messages are queued, and nothing calls
  it again before the next RESUME (`handle.cpp` 449): `crowded`.
* A script that ends before `command->popen` is set is reported as failed
  (`bash.cpp` 81); a command and its popen are never released (`command.cpp` 45).
* A popen that fails throws (`popen.cpp` 30-33, or the descriptor before it) in the
  bash thread, where nobody catches it: the daemon ends.  `Daemon` has no such
  step; `NothingForgotten` and `EveryCommandReported` are about a daemon that
  runs.
* A name that arrives after RESUME stays on top of the display until the menu is
  opened again (`content.cpp` 52).

## 4. The proofs

Proved by TLAPS, for every value of the constants that the named assumptions
allow:

* `RingTypeCorrect` (`RingProofs`): the indices and bytes of the ring are typed,
  for every size and every client, including one that fills the last slot
  (assumption: `Size` is a positive natural number).
* `RingRefinesFifo`: for every size and every client, `Ring` implements `Fifo`.  The
  inductive invariant adds to the types `Good(ring)` (`finish` is 0 only in a
  ring that has been reset) and `AcceptedArrayFits`, without which an accepted
  array might stop half way.
  `FillAppends`, `FillSwallows` and `DrainTails` say what one byte does to the
  contents.
* `SessionTypeCorrect`, `SessionSafe` (`SessionProofs`) with its parts
  `NoStatusDropped`, `CreditNeverOverrun` and `RequestUnderWayOnce`: no mismatch, no
  dropped status, the credit, and one request under way, for every display size,
  serial range and number of messages.  `IInv` adds `Credit`: a request may only be on
  its way while the display has room for the largest LED array.  None of the
  four is inductive alone: `NoMismatch` needs the request to exist exactly once,
  that needs the slot to be empty when a request is sent, and the credit needs
  both.
* `WriteBufferHasRoom`, `ThreadFollowsLine`, `LowLineMeansReceived`
  (`SpiLinkProofs`): for rings of every size that takes a status and VERSION where
  `is_writable` sees space (`SpiAssumption`), any payloads, messages, notices and
  provocations.
  * `WriteBufKeepsMargin` is inductive with the types of the messages: the AVR
    writes at most six bytes at a time.
  * `EdgesTellLevel` only speaks of the time after VERSION.  Before, nobody saw the
    edge that announced it, and `Unheard` describes that first exchange byte by
    byte: as long as it lasts the AVR has no whole message and can raise nothing.
    The theorem supposes `~Reconnect`, as `link_reconnect` shows that it must; lost
    bytes do not matter to it.
  * `LowMeansReceived` compares what two sequences of bytes stand for.  `Whole` says
    that the bytes received and not parsed, the one in SPDR and `write_buf` are
    `Clean`: made of whole messages and of bytes between them.  `ParseWhole`
    shows that `write_msg` cuts messages where the AVR has put them together,
    although it looks for the first byte that completes one (`FirstIsWhole`).  The
    theorem supposes `MaxLost = 0`: an overflow replaces a byte in the middle of a
    message.
* `NobodySleepsOverWork`, `SleepersWereInTheGap`, `ThreadsTypeCorrect`
  (`ThreadsProofs`): for any number of waiting messages.  `IInv` adds `EmptyHanded`
  (a thread that is about to wait and holds its mutex has nothing to take: the
  property speaks of sleepers only, and its mutex is what keeps messages out until
  it sleeps), `StopOrder` (what `stop()` has done before the main thread is where
  it is) and `DoomedInGap` (a notified thread that does not test `m_go` again
  before it waits is in the gap).
* `TimersServed` (`TimersProofs`): for every delay, number of starts and backlog.
  `Served` speaks of the moments between two calls of the main loop; inside
  `verify` and `cron_disable` its parts hold in weaker forms, which `AtServed`,
  `TimerServed` and `ConfirmServed` state place by place, as long as INT3 has not
  struck in a `Window`.
* `ConfirmIsHeld` (`TimersProofs`): `HeldLongEnough`, for every hold time and periods
  of at least two ticks (`TimersAssumption`; 200 and 5 in the code).  `Short` shows what
  the assumption is for: at most one call is left over by `cron_try`, and while it is,
  all counts start from 0, so that a tick of `at.c` never waits for a second round.
  `HeldFor` weighs the ticks the entry of SPI has counted against those that have
  passed since CONFIRM was raised; it is tight but for the one tick that was
  `Pending` then, the one the property concedes.
* `DrainIsRight`, `OpenMenuHasTimer`, `ClosedMenuLeft`, `ConnectionIsWatched`,
  `PiIsResumed`, `OnlySilenceDisconnects`, `ChangeIsSent`, `ListStaysInRange`,
  `ShownIsApplied` (`MenuProofs`): for every list of parameters between POWER_OFF and
  REBOOT, all answers and any number of them, knobs, timers and handshakes
  (`MenuAssumption`: the list names each parameter once, and what the Pi answers are
  numbers).  A handler is a composition of the C functions; one lemma per function
  says which fields it may change, and the invariants are preserved by the handlers,
  not by every function in them.
  * `Sound` (the display and the timer) needs nothing else.
  * `MenuInv` adds `Prompt`, for runs without a late answer (a closed menu waits for
    nothing, an open one knows only what it asked for over a connection), and
    `Lasting`, for runs without a handshake into an open menu (the mode to go
    back to keeps the connection).
  * `ShownInv` adds `Offered` (the ends of the list are those of a mode) and
    `Shown` (what is selected is on the display, or was before the choice between
    "Apply" and "Cancel").  The attempt to prove `AppliesSelection` for late names too
    failed, and for a reason: see the deviations above.
* `RequestsKeepTheirFrame`, `SuccessMeansDone`, `ClockTellsTimeOfDay`,
  `ClockFollowsMode` (`TwiProofs`): for every ring that takes the requests of
  `watch_init` (`TwiAssumption`), any number of mode changes, pulses and errors of the
  bus, and any times.  `IInv` says, as long as no request is torn, short or wiped
  out: the ring holds whole requests and the beginning of one (`RingInv`), the bus
  has moved as many bytes as its index says (`BusInv`), the clock keeps packed decimals
  of times (`ClockInv`).  `PulseInv` adds that the last request about the pulse, wherever
  it is - with the main loop, in the ring, on the bus, in the clock -, asks for what
  the mode wants.
* `DaemonTypeCorrect`, `FlowStaysAlive`, `NobodyForgotten`, `BothAgree`,
  `NeverAnsweredTwice`, `QueueIsBounded` (`DaemonProofs`): for any set of queries, text
  sizes, limit and backlog (`DaemonAssumption`: a text makes at least one array, there
  is a largest text, and a command is none of the messages).  Each has an invariant of its own on top of the types:
  * `Alive` is `FlowAlive` said of positions in the queues: what is taken from the
    head of one queue comes out at the end of the next.
  * `Remembered` adds that a command at the last step of `execute_command` is
    already waited for by its timer or its pipe, since the thread lets go of it then.
  * `Agree` speaks of the last SUSPEND or RESUME under way, as `SuspendAgrees` only
    speaks of the moments when there is none; it needs `Greeting` (one VERSION, one
    handshake, and both before the menu can open) and `Quiet` (no query before them),
    without which an early name could open the menu that the handshake closes.
  * `Once` follows a query: `Waiting` (at one place only until its script runs) and
    `Ended` (its one good status comes from the end of the script, and none is left
    when it has been answered).

Every invariant of a passing run is proved.  Only model-checked are liveness and
fairness (out of the prover's reach), and the refinement of `Session` by `SpiLink`,
whose mapping reads messages off four sequences of bytes.

No induction schema of the library can be used here, since each takes an operator as
a parameter.  Where a proof needs one it uses sets instead: `Induction` of
`SpiLinkProofs` is stated for a set of numbers and comes from the well-founded order
of the naturals (`Least`), `Clean` is the smallest set that is closed under adding a
message or a byte (`CleanInduction`), and `FramesEquation` shows that the
recursive function `Frames` is defined, by its approximations up to a length.

## 5. What is not modelled

* The alarm of `watch.c`, which nothing arms; the buzzer and the debug output.
* The drawing of texts and fonts, the decoding of the rotary encoder.
* The daemon's arguments and logging, the opening of the GPIO lines, the texts of
  `content_t`, the commands of PARAM_SET.
* `encode.c`'s shared output buffer and the interrupt inside `decode_try`: both
  need the main loop cut inside these functions, and what a daemon that starts at
  that moment finds is no property the code promises.
* The loss of a SUSPEND or RESUME for want of space (`postpone.c` 61) as the
  daemon sees it: `Daemon` takes the notices as delivered.
* A transfer that the kernel breaks off after some bytes, what lies behind `in_buf`
  of `decode.c`, a popen that throws.
* Reference counts of commands and pipes.
* The scripts in `src/src/bash` are external: they answer, fail or hang.
* `src/obsoleted` (most of the repository's lines: a copy of asio and earlier
  versions of the programs) and `src/test` are not part of the system.

## 6. What could come next

The link (ring, session, bytes), the menu and the timers, the daemon, its threads
and the two-wire bus are done.  Of the rest the following is within reach:

1. lost notices between `SpiLink` and `Daemon`, with the flow of information run
   against them;
2. the texts of `content_t` and `m_playlist_id` of `handle.cpp`;
3. the safety part of the refinement `CarriesMessages` as a theorem: the bytes from the
   Pi to the AVR as `Clean` as those in the other direction are shown to be, and the
   steps of `SpiLink` mapped to those of `Session` one by one.
