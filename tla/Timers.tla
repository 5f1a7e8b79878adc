------------------------------- MODULE Timers -------------------------------
(***************************************************************************)
(* The software timers of the AVR: counter.c (one hardware timer and its   *)
(* queue of interrupts), cron.c (periodic callbacks) and at.c (one-shot    *)
(* callbacks), with the client that uses them from an interrupt: ISR       *)
(* (INT3_vect) raises the CONFIRM pin and asks at.c to lower it again.     *)
(*                                                                         *)
(* The main loop is cut where an interrupt makes a difference, and INT3    *)
(* comes anywhere.  The history variable `struck' keeps whether it came    *)
(* where the code does not expect it (Window).  The FLUSH callback stands  *)
(* for all clients of cron.c but at.c, the MENU callback for all clients   *)
(* of at.c that the main loop itself serves.                               *)
(***************************************************************************)
EXTENDS Integers, Sequences

CONSTANTS AT_DELAY,           \* timer ticks per tick of at.c (200)
          SLAVE_DELAY,        \* timer ticks per run of FLUSH (5)
          CONFIRM_HOLD_TIME,  \* ticks of at.c that CONFIRM is held (2)
          DELAY_SELECT,       \* ticks of at.c until the menu closes (5)
          MaxStarts,          \* bound: how often the daemon is started
          MaxQueued           \* bound: ticks and calls the main loop is behind

\* A callback of cron.c is not due at every tick: cron_try, which calls one in
\* each round of the main loop, keeps up with counter_try.
ASSUME TimersAssumption == /\ {AT_DELAY, SLAVE_DELAY} \subseteq Nat \ {0, 1}
                           /\ CONFIRM_HOLD_TIME \in Nat \ {0}

VARIABLES
  timer,    \* COUNTER_1 runs and interrupts
  ticks,    \* invoke_queue of counter.c: interrupts that are not served yet
  cron,     \* callback_array, factor_array, counter_array of cron.c
  queue,    \* the queue of cron.c
  at,       \* callback, current and max of at.c
  confirm,  \* the CONFIRM pin
  pc,       \* where the main loop is
  vid,      \* the index of verify's loop, "none" outside of it
  counted,  \* current[id] + 1, which verify has in a register
  did,      \* the argument of cron_disable
  held,     \* ticks served since CONFIRM was raised, up to what matters
  struck,   \* history: INT3 came in a Window
  starts

shared == <<timer, cron, at>>
past   == <<struck, starts>>
vars == <<timer, ticks, cron, queue, at, confirm, pc, vid, counted, did, held,
          struck, starts>>

AtIds   == {"MENU", "SPI"}     \* in this order in at.h
CronIds == {"AT", "FLUSH"}
Minimum == (CONFIRM_HOLD_TIME - 1) * AT_DELAY

Cron(on, factor) == [on |-> on, factor |-> factor, count |-> 0]

Init == /\ timer = FALSE /\ ticks = 0 /\ queue = <<>>
        /\ cron = [id \in CronIds |-> Cron(FALSE, 0)]
        /\ at = [id \in AtIds |-> [on |-> FALSE, current |-> 0, max |-> 0]]
        /\ confirm = FALSE
        /\ pc = "counter" /\ vid = "none" /\ counted = 0 /\ did = "none"
        /\ held = 0 /\ struck = FALSE /\ starts = 0

empty(a) == \A id \in AtIds : ~a[id].on
is_required(c) == \E id \in CronIds : c[id].on

\* cron_enable, with engage_timer.
cron_enable(id, factor) ==
  /\ cron' = [cron EXCEPT ![id] = Cron(TRUE, factor)]
  /\ timer' = TRUE

at_schedule_alone(id, delay) ==
  /\ at' = [at EXCEPT ![id] = [on |-> TRUE, current |-> 0, max |-> delay]]
  /\ UNCHANGED <<cron, timer>>
at_schedule_quick(id, delay) ==
  /\ at' = [at EXCEPT ![id] = [on |-> TRUE, current |-> delay, max |-> delay]]
  /\ cron_enable("AT", AT_DELAY)
at_schedule(id, delay) ==
  /\ at' = [at EXCEPT ![id] = [on |-> TRUE, current |-> 0, max |-> delay]]
  /\ cron_enable("AT", AT_DELAY)

-----------------------------------------------------------------------------
(* Interrupts.                                                             *)

\* ISR (TIMER1_COMPA_vect).  The main loop is never far behind.
TimerInterrupt ==
  /\ timer
  /\ ticks + Len(queue) < MaxQueued
  /\ ticks' = ticks + 1
  /\ UNCHANGED <<shared, queue, confirm, pc, vid, counted, did, held, past>>

\* Where the main loop undoes what an interrupt has just done: verify is about
\* to write SPI's old count over the new one, to call misconfirm for the old
\* entry, or to clear it; or cron_disable has found nobody that needs at.c's
\* callback, or nobody that needs the timer.
Window == \/ pc \in {"store", "call", "clear"} /\ vid = "SPI"
          \/ pc \in {"disable", "disable2"} /\ did = "AT"
          \/ pc = "disengage"

\* ISR (INT3_vect): the daemon is started.
Int3 ==
  /\ starts < MaxStarts
  /\ struck' = (struck \/ Window)
  /\ confirm' = TRUE
  /\ at_schedule("SPI", CONFIRM_HOLD_TIME)
  /\ held' = 0 /\ starts' = starts + 1
  /\ UNCHANGED <<ticks, queue, pc, vid, counted, did>>

-----------------------------------------------------------------------------
(* The main loop.                                                          *)

\* counter_try and interrupt_function: every callback counts the tick, those
\* that are due are queued.
Counted(id) == cron[id].count + 1
Due(id) == cron[id].on /\ Counted(id) >= cron[id].factor
CountAll == [id \in CronIds |->
               [cron[id] EXCEPT !.count = IF ~cron[id].on THEN @
                                          ELSE IF Due(id) THEN 0
                                          ELSE Counted(id)]]
Queued == queue \o (IF Due("AT") THEN <<"AT">> ELSE <<>>)
                \o (IF Due("FLUSH") THEN <<"FLUSH">> ELSE <<>>)
CounterTry ==
  /\ pc = "counter" /\ pc' = "cron"
  /\ \/ /\ ticks > 0
        /\ ticks' = ticks - 1
        /\ held' = IF confirm /\ held < Minimum THEN held + 1 ELSE held
        /\ cron' = CountAll
        /\ queue' = Queued
     \/ ticks = 0 /\ UNCHANGED <<ticks, cron, queue, held>>
  /\ UNCHANGED <<timer, at, confirm, vid, counted, did, past>>

\* The same with INT3 inside `++counter_array[i]' for at.c's callback: the
\* count that was read is written over the 0 of cron_enable.  Everywhere else
\* in the function INT3 comes as if it came before or after.
CounterTryInt3 ==
  /\ pc = "counter" /\ pc' = "cron"
  /\ ticks > 0 /\ cron["AT"].on /\ ~Due("AT")
  /\ starts < MaxStarts /\ starts' = starts + 1
  /\ ticks' = ticks - 1
  /\ cron' = [CountAll EXCEPT !["AT"].factor = AT_DELAY]
  /\ queue' = Queued
  /\ timer' = TRUE /\ confirm' = TRUE /\ held' = 0
  /\ at' = [at EXCEPT !["SPI"] = [on |-> TRUE, current |-> 0,
                                 max |-> CONFIRM_HOLD_TIME]]
  /\ UNCHANGED <<vid, counted, did, struck>>

\* cron_try: one queued callback is called if it is still there.
CronTry ==
  /\ pc = "cron"
  /\ queue' = IF queue = <<>> THEN queue ELSE Tail(queue)
  /\ IF queue # <<>> /\ Head(queue) = "AT" /\ cron["AT"].on
     THEN pc' = "verify" /\ vid' = "MENU"
     ELSE pc' = "rest" /\ vid' = vid
  /\ UNCHANGED <<shared, ticks, confirm, counted, did, held, past>>

\* The end of verify's loop over the ids, or of one round of it.
NextId == /\ pc' = IF vid = "MENU" THEN "verify" ELSE "rest"
          /\ vid' = IF vid = "MENU" THEN "SPI" ELSE "none"

\* verify: `++current[id]` is read ...
Verify ==
  /\ pc = "verify"
  /\ IF at[vid].on
     THEN pc' = "store" /\ counted' = at[vid].current + 1 /\ UNCHANGED vid
     ELSE NextId /\ UNCHANGED counted
  /\ UNCHANGED <<shared, ticks, queue, confirm, did, held, past>>

\* ... and written, and compared; ...
Store ==
  /\ pc = "store"
  /\ at' = [at EXCEPT ![vid].current = counted]
  /\ IF counted >= at[vid].max THEN pc' = "call" /\ UNCHANGED vid ELSE NextId
  /\ counted' = 0
  /\ UNCHANGED <<timer, cron, ticks, queue, confirm, did, held, past>>

\* ... a callback that is due is called; MENU's is in module Menu, SPI's is
\* misconfirm; ...
Call ==
  /\ pc = "call" /\ pc' = "clear"
  /\ confirm' = (confirm /\ vid # "SPI")
  /\ UNCHANGED <<shared, ticks, queue, vid, counted, did, held, past>>

\* ... and then removed; ...
Clear ==
  /\ pc = "clear" /\ pc' = "empty"
  /\ at' = [at EXCEPT ![vid].on = FALSE]
  /\ UNCHANGED <<timer, cron, ticks, queue, confirm, vid, counted, did, held,
                 past>>

\* ... the last one disables at.c's callback.
Empty_always ==
  /\ pc = "empty"
  /\ pc' = "disable" /\ did' = "AT"
  /\ UNCHANGED <<shared, ticks, queue, confirm, vid, counted, held, past>>
Empty ==
  /\ pc = "empty"
  /\ IF empty(at) THEN pc' = "disable" /\ did' = "AT" /\ UNCHANGED vid
                  ELSE NextId /\ UNCHANGED did
  /\ UNCHANGED <<shared, ticks, queue, confirm, counted, held, past>>

\* cron_disable returns to verify, to schedule() of the menu or to mode_set.
Return == IF vid # "none" THEN NextId /\ UNCHANGED did
          ELSE /\ pc' = IF did = "AT" THEN "schedule" ELSE "counter"
               /\ UNCHANGED <<vid, did>>

\* cron_disable: the callback, then the factor and the count, then the timer
\* if nobody needs it.
Disable ==
  /\ pc = "disable" /\ pc' = "disable2"
  /\ cron' = [cron EXCEPT ![did].on = FALSE]
  /\ UNCHANGED <<timer, at, ticks, queue, confirm, vid, counted, did, held, past>>

Disable2 ==
  /\ pc = "disable2"
  /\ cron' = [cron EXCEPT ![did].factor = 0, ![did].count = 0]
  /\ IF is_required(cron') THEN Return
                           ELSE pc' = "disengage" /\ UNCHANGED <<vid, did>>
  /\ UNCHANGED <<timer, at, ticks, queue, confirm, counted, held, past>>

Disengage ==
  /\ pc = "disengage"
  /\ timer' = FALSE
  /\ Return
  /\ UNCHANGED <<cron, at, ticks, queue, confirm, counted, held, past>>

\* schedule() of menu.c, after a knob or an answer: at_cancel ...
MenuCancel ==
  /\ pc = "rest"
  /\ at' = [at EXCEPT !["MENU"].on = FALSE]
  /\ IF empty(at') THEN pc' = "disable" /\ did' = "AT"
                   ELSE pc' = "schedule" /\ UNCHANGED did
  /\ UNCHANGED <<timer, cron, ticks, queue, confirm, vid, counted, held, past>>

\* ... and at_schedule.
MenuSchedule ==
  /\ pc = "schedule" /\ pc' = "counter"
  /\ at_schedule("MENU", DELAY_SELECT)
  /\ UNCHANGED <<ticks, queue, confirm, vid, counted, did, held, past>>

\* mode_set enables or disables the other clients of cron.c.
FlushEnable ==
  /\ pc = "rest" /\ pc' = "counter" /\ ~cron["FLUSH"].on
  /\ cron_enable("FLUSH", SLAVE_DELAY)
  /\ UNCHANGED <<at, ticks, queue, confirm, vid, counted, did, held, past>>

FlushDisable ==
  /\ pc = "rest" /\ pc' = "disable" /\ did' = "FLUSH" /\ cron["FLUSH"].on
  /\ UNCHANGED <<shared, ticks, queue, confirm, vid, counted, held, past>>

\* Nothing else to do in this round.
Rest == /\ pc = "rest" /\ pc' = "counter"
        /\ UNCHANGED <<shared, ticks, queue, confirm, vid, counted, did, held, past>>

Main == \/ CounterTry \/ CronTry
        \/ Verify \/ Store \/ Call \/ Clear \/ Empty
        \/ Disable \/ Disable2 \/ Disengage
        \/ MenuCancel \/ MenuSchedule \/ FlushEnable \/ FlushDisable \/ Rest

Next == Main \/ TimerInterrupt \/ Int3 \/ CounterTryInt3

Spec == Init /\ [][Next]_vars

\* The main loop goes round; a timer that runs interrupts it (SF: the main loop
\* catches up again and again).
FairSpec == Spec /\ WF_vars(Main) /\ SF_vars(TimerInterrupt)

-----------------------------------------------------------------------------
Calls == {"counter", "cron", "rest"}

\* The arrays and queues of the three files; no count runs past its limit.
TypeOK ==
  /\ timer \in BOOLEAN /\ confirm \in BOOLEAN /\ ticks \in 0 .. MaxQueued
  /\ cron \in [CronIds -> [on : BOOLEAN, factor : {0, AT_DELAY, SLAVE_DELAY},
                           count : 0 .. AT_DELAY + SLAVE_DELAY]]
  /\ queue \in Seq(CronIds) /\ Len(queue) <= MaxQueued + 1
  /\ at \in [AtIds -> [on : BOOLEAN, current : Nat,
                       max : {0, CONFIRM_HOLD_TIME, DELAY_SELECT}]]
  /\ \A id \in AtIds : at[id].current <= at[id].max
  /\ pc \in Calls \cup {"verify", "store", "call", "clear", "empty", "disable",
                        "disable2", "disengage", "schedule"}
  /\ counted \in Nat
  /\ held \in 0 .. Minimum

\* Between two calls of the main loop, what is scheduled is also served: a
\* pending one-shot callback has cron.c's callback with the right period,
\* cron.c's callbacks have the timer, and the timer runs for nothing else;
\* CONFIRM is high only while somebody is going to lower it.
\* INT3 spoils it in a Window and nowhere else.
Served ==
  pc \in Calls /\ ~struck =>
                  /\ ~empty(at) => cron["AT"].on /\ cron["AT"].factor = AT_DELAY
                  /\ timer = is_required(cron)
                  /\ confirm => at["SPI"].on

\* CONFIRM is held for the hold time, less the tick of at.c that was under way
\* when it was raised; in a Window it may lose its period as well.
HeldLongEnough == [][confirm /\ ~confirm' /\ ~struck => held >= Minimum]_vars

\* spi.c, lines 40-43, "How long should we confirm? ~ 2 seconds": CONFIRM is
\* lowered in the end, unless INT3 came in a Window - once the knobs rest: each
\* schedule() of the menu starts at.c's period anew (cron.c 89), so that turns
\* that never pause for a period hold CONFIRM for as long as they go on.
ConfirmEnds == <>[][~MenuCancel]_vars => (confirm ~> ~confirm \/ struck)
=============================================================================
