---------------------------- MODULE TimersProofs ----------------------------
(***************************************************************************)
(* For all delays and any number of interrupts: what is scheduled is       *)
(* served, the timer runs for nothing else, and CONFIRM is not left high   *)
(* nor lowered early, unless ISR (INT3_vect) came in a Window of the main  *)
(* loop.                                                                   *)
(***************************************************************************)
EXTENDS Timers, SequenceTheorems, TLAPS

\* What the proof needs to know of the types.
Typed ==
  /\ timer \in BOOLEAN /\ confirm \in BOOLEAN /\ struck \in BOOLEAN
  /\ cron \in [CronIds -> [on : BOOLEAN, factor : {0, AT_DELAY, SLAVE_DELAY},
                           count : Int]]
  /\ at \in [AtIds -> [on : BOOLEAN, current : Nat,
                       max : {0, CONFIRM_HOLD_TIME, DELAY_SELECT}]]
  /\ pc \in Calls \cup {"verify", "store", "call", "clear", "empty", "disable",
                        "disable2", "disengage", "schedule"}
  /\ counted \in Nat
  /\ vid \in AtIds \cup {"none"}

\* The main loop is inside verify, inside cron_disable, or in neither.
Placed ==
  /\ pc \in {"verify", "store", "call", "clear", "empty"} => vid \in AtIds
  /\ pc \in {"disable", "disable2", "disengage"} => did \in CronIds

Disabling == pc \in {"disable", "disable2"} /\ did = "AT"

\* A pending one-shot callback has cron.c's with its period; where it is being
\* disabled nothing is pending.
AtServed ==
  /\ ~empty(at) => cron["AT"].on
  /\ cron["AT"].on => cron["AT"].factor = AT_DELAY
  /\ Disabling => empty(at)
  /\ pc = "disable2" => ~cron[did].on

\* The timer follows cron.c's callbacks; cron_disable is late to stop it.
TimerServed ==
  CASE pc = "disable2"  -> is_required(cron) => timer
    [] pc = "disengage" -> ~is_required(cron)
    [] OTHER            -> timer = is_required(cron)

\* CONFIRM waits for misconfirm, which has run where its entry is cleared.
ConfirmServed ==
  /\ confirm => at["SPI"].on
  /\ pc = "clear" /\ vid = "SPI" => ~confirm

IInv == /\ Typed /\ Placed
        /\ ~struck => AtServed /\ TimerServed /\ ConfirmServed

-----------------------------------------------------------------------------
(* What the calls of the three files do to the state.                      *)

\* at_schedule makes a callback pending, with cron.c's and with the timer.
LEMMA ScheduleEffect ==
  ASSUME Typed, NEW id \in AtIds,
         NEW delay \in {CONFIRM_HOLD_TIME, DELAY_SELECT}, at_schedule(id, delay)
  PROVE  /\ at' \in [AtIds -> [on : BOOLEAN, current : Nat,
                               max : {0, CONFIRM_HOLD_TIME, DELAY_SELECT}]]
         /\ cron' \in [CronIds -> [on : BOOLEAN,
                                   factor : {0, AT_DELAY, SLAVE_DELAY}, count : Int]]
         /\ timer' = TRUE
         /\ at'[id].on /\ \A other \in AtIds \ {id} : at'[other] = at[other]
         /\ cron'["AT"].on /\ cron'["AT"].factor = AT_DELAY
         /\ cron'["FLUSH"] = cron["FLUSH"]
<1>1. at' = [at EXCEPT ![id] = [on |-> TRUE, current |-> 0, max |-> delay]]
  BY DEF at_schedule
<1>2. /\ cron' = [cron EXCEPT !["AT"] = [on |-> TRUE, factor |-> AT_DELAY,
                                         count |-> 0]]
      /\ timer' = TRUE
  BY DEF at_schedule, cron_enable, Cron
<1> QED
  BY <1>1, <1>2 DEF Typed, AtIds, CronIds

\* Nothing in the state changes but who is served next.
LEMMA Unserved ==
  ASSUME IInv, UNCHANGED <<timer, cron, at, confirm, struck>>,
         pc \notin {"disable", "disable2", "disengage"},
         pc' \in Calls \cup {"verify", "store", "schedule"}, counted' \in Nat,
         vid' \in AtIds \cup {"none"},
         pc' \in {"verify", "store"} => vid' \in AtIds
  PROVE  IInv'
<1>1. Typed' /\ Placed'
  BY DEF IInv, Typed, Placed, Calls
<1>2. ASSUME ~struck'
      PROVE  AtServed' /\ TimerServed' /\ ConfirmServed'
  BY <1>2 DEF IInv, AtServed, Disabling, TimerServed, ConfirmServed,
              empty, is_required, Calls
<1> QED
  BY <1>1, <1>2 DEF IInv

\* Where NextId leads.
LEMMA NextIdEffect ==
  ASSUME vid \in AtIds, NextId
  PROVE  /\ pc' \in {"verify", "rest"} /\ vid' \in AtIds \cup {"none"}
         /\ pc' = "verify" => vid' \in AtIds
BY DEF NextId, AtIds

\* Where Return leads.
LEMMA ReturnEffect ==
  ASSUME vid \in AtIds \cup {"none"}, Return
  PROVE  /\ pc' \in {"verify", "rest", "schedule", "counter"}
         /\ vid' \in AtIds \cup {"none"}
         /\ pc' = "verify" => vid' \in AtIds
BY DEF Return, NextId, AtIds

-----------------------------------------------------------------------------
(* The steps.                                                              *)

LEMMA Int3Step ==
  ASSUME IInv, Int3
  PROVE  IInv'
<1>1. /\ "SPI" \in AtIds /\ Typed /\ at_schedule("SPI", CONFIRM_HOLD_TIME)
      /\ confirm' = TRUE /\ struck' = (struck \/ Window)
      /\ UNCHANGED <<pc, vid, counted, did>>
  BY DEF Int3, IInv, AtIds
<1>2. /\ at' \in [AtIds -> [on : BOOLEAN, current : Nat,
                            max : {0, CONFIRM_HOLD_TIME, DELAY_SELECT}]]
      /\ cron' \in [CronIds -> [on : BOOLEAN,
                                factor : {0, AT_DELAY, SLAVE_DELAY}, count : Int]]
      /\ timer' = TRUE /\ at'["SPI"].on
      /\ cron'["AT"].on /\ cron'["AT"].factor = AT_DELAY
      /\ cron'["FLUSH"] = cron["FLUSH"]
  BY <1>1, ScheduleEffect
<1>3. confirm' \in BOOLEAN /\ timer' \in BOOLEAN /\ struck' \in BOOLEAN
  <2>1. confirm' \in BOOLEAN /\ timer' \in BOOLEAN
    BY <1>1, <1>2
  <2>2. struck' \in BOOLEAN
    BY <1>1
  <2> QED
    BY <2>1, <2>2
<1>4. Typed' /\ Placed'
  BY <1>1, <1>2, <1>3 DEF IInv, Typed, Placed
<1>5. ASSUME ~struck'
      PROVE  AtServed' /\ TimerServed' /\ ConfirmServed'
  <2>1. ~struck /\ ~Window
    BY <1>1, <1>5
  <2>2. AtServed /\ TimerServed /\ ConfirmServed /\ Placed
    BY <2>1 DEF IInv
  <2>3. AtServed'
    BY <1>1, <1>2, <2>1, <2>2 DEF AtServed, Disabling, Window, Placed, CronIds
  <2>4. TimerServed'
    BY <1>1, <1>2, <2>1 DEF TimerServed, Window, is_required, CronIds
  <2>5. ConfirmServed'
    BY <1>1, <1>2, <2>1 DEF ConfirmServed, Window
  <2> QED
    BY <2>3, <2>4, <2>5
<1> QED
  BY <1>4, <1>5 DEF IInv

\* counter.c and cron.c count, and do not change what is on.
LEMMA CountAllEffect ==
  ASSUME Typed
  PROVE  /\ CountAll \in [CronIds -> [on : BOOLEAN,
                                      factor : {0, AT_DELAY, SLAVE_DELAY},
                                      count : Int]]
         /\ \A id \in CronIds : /\ CountAll[id].on = cron[id].on
                                /\ CountAll[id].factor = cron[id].factor
<1>1. \A id \in CronIds :
         /\ cron[id] \in [on : BOOLEAN, factor : {0, AT_DELAY, SLAVE_DELAY},
                          count : Int]
         /\ Counted(id) \in Int
  BY DEF Typed, Counted
<1> QED
  BY <1>1 DEF CountAll

LEMMA CounterTryStep ==
  ASSUME IInv, CounterTry
  PROVE  IInv'
<1>1. /\ pc = "counter" /\ pc' = "cron"
      /\ UNCHANGED <<timer, at, confirm, vid, counted, did, struck>> /\ Typed
  BY DEF CounterTry, IInv, past
<1>2. /\ cron' \in [CronIds -> [on : BOOLEAN,
                                factor : {0, AT_DELAY, SLAVE_DELAY}, count : Int]]
      /\ \A id \in CronIds : /\ cron'[id].on = cron[id].on
                             /\ cron'[id].factor = cron[id].factor
  <2>1. CASE UNCHANGED cron
    BY <2>1, <1>1 DEF Typed
  <2>2. CASE cron' = CountAll
    BY <1>1, <2>2, CountAllEffect
  <2> QED
    BY <2>1, <2>2 DEF CounterTry
<1>3. Typed' /\ Placed'
  BY <1>1, <1>2 DEF Typed, Placed, Calls
<1>4. ASSUME ~struck'
      PROVE  AtServed' /\ TimerServed' /\ ConfirmServed'
  <2>1. AtServed /\ TimerServed /\ ConfirmServed
    BY <1>1, <1>4 DEF IInv
  <2> QED
    BY <1>1, <1>2, <2>1 DEF AtServed, Disabling, TimerServed, ConfirmServed,
                            empty, is_required, CronIds
<1> QED
  BY <1>3, <1>4 DEF IInv

\* INT3 inside the count: SPI's entry and at.c's callback are fresh, but for the
\* count.
LEMMA CounterTryInt3Step ==
  ASSUME IInv, CounterTryInt3
  PROVE  IInv'
<1>1. /\ pc = "counter" /\ pc' = "cron" /\ Typed
      /\ timer' = TRUE /\ confirm' = TRUE /\ UNCHANGED <<vid, counted, did, struck>>
      /\ cron' = [CountAll EXCEPT !["AT"].factor = AT_DELAY]
      /\ at' = [at EXCEPT !["SPI"] = [on |-> TRUE, current |-> 0,
                                     max |-> CONFIRM_HOLD_TIME]]
      /\ cron["AT"].on /\ "AT" \in CronIds /\ "SPI" \in AtIds
  BY DEF CounterTryInt3, IInv, CronIds, AtIds
<1>2. /\ cron' \in [CronIds -> [on : BOOLEAN,
                                factor : {0, AT_DELAY, SLAVE_DELAY}, count : Int]]
      /\ cron'["AT"].on /\ cron'["AT"].factor = AT_DELAY
  BY <1>1, CountAllEffect
<1>3. /\ at' \in [AtIds -> [on : BOOLEAN, current : Nat,
                            max : {0, CONFIRM_HOLD_TIME, DELAY_SELECT}]]
      /\ at'["SPI"].on
  BY <1>1 DEF Typed
<1>4. timer' \in BOOLEAN /\ confirm' \in BOOLEAN
  BY <1>1
<1>5. Typed' /\ Placed'
  BY <1>1, <1>2, <1>3, <1>4 DEF Typed, Placed, Calls
<1>6. is_required(cron') = TRUE
  BY <1>1, <1>2 DEF is_required
<1>7. AtServed' /\ TimerServed' /\ ConfirmServed'
  BY <1>1, <1>2, <1>3, <1>6 DEF AtServed, Disabling, TimerServed, ConfirmServed
<1> QED
  BY <1>5, <1>7 DEF IInv

LEMMA CronTryStep ==
  ASSUME IInv, CronTry
  PROVE  IInv'
<1>1. /\ pc = "cron" /\ pc' \in {"verify", "rest"}
      /\ UNCHANGED <<timer, cron, at, confirm, struck>>
      /\ vid' \in AtIds \cup {"none"} /\ counted' \in Nat
      /\ pc' = "verify" => vid' \in AtIds
  BY DEF CronTry, IInv, Typed, AtIds, shared, past
<1>2. /\ pc \notin {"disable", "disable2", "disengage"}
      /\ pc' \in Calls \cup {"verify", "store", "schedule"}
  BY <1>1 DEF Calls
<1> QED
  BY <1>1, <1>2, Unserved

\* verify reads a count ...
LEMMA VerifyStep ==
  ASSUME IInv, Verify
  PROVE  IInv'
<1>1. /\ pc = "verify" /\ UNCHANGED <<timer, cron, at, confirm, did, struck>>
      /\ vid \in AtIds /\ Typed /\ "verify" \notin {"disable", "disable2", "disengage"}
  BY DEF Verify, IInv, Placed, shared, past
<1>2. CASE ~at[vid].on
  <2>1. NextId /\ counted' = counted
    BY <1>2 DEF Verify
  <2>2. /\ pc' \in {"verify", "rest"} /\ vid' \in AtIds \cup {"none"}
        /\ pc' = "verify" => vid' \in AtIds
    BY <1>1, <2>1, NextIdEffect
  <2>3. counted' \in Nat
    BY <1>1, <2>1 DEF Typed
  <2> QED
    BY <1>1, <2>2, <2>3, Unserved DEF Calls
<1>3. CASE at[vid].on
  <2>1. pc' = "store" /\ vid' = vid /\ counted' = at[vid].current + 1
    BY <1>3 DEF Verify
  <2>2. counted' \in Nat
    BY <1>1, <2>1 DEF Typed
  <2> QED
    BY <1>1, <2>1, <2>2, Unserved
<1> QED
  BY <1>2, <1>3

\* ... and writes it.
LEMMA StoreStep ==
  ASSUME IInv, Store
  PROVE  IInv'
<1>1. /\ pc = "store" /\ UNCHANGED <<timer, cron, confirm, did, struck>>
      /\ counted' = 0 /\ at' = [at EXCEPT ![vid].current = counted]
      /\ vid \in AtIds /\ Typed
  BY DEF Store, IInv, Placed, past
<1>2. /\ at' \in [AtIds -> [on : BOOLEAN, current : Nat,
                            max : {0, CONFIRM_HOLD_TIME, DELAY_SELECT}]]
      /\ \A id \in AtIds : at'[id].on = at[id].on
  BY <1>1 DEF Typed
<1>3. /\ pc' \in {"verify", "rest", "call"} /\ vid' \in AtIds \cup {"none"}
      /\ pc' \in {"verify", "call"} => vid' \in AtIds
  <2>1. CASE pc' = "call" /\ vid' = vid
    BY <1>1, <2>1
  <2>2. CASE NextId
    <3>1. /\ pc' \in {"verify", "rest"} /\ vid' \in AtIds \cup {"none"}
          /\ pc' = "verify" => vid' \in AtIds
      BY <1>1, <2>2, NextIdEffect
    <3> QED
      BY <3>1
  <2> QED
    BY <2>1, <2>2 DEF Store
<1>4. Typed' /\ Placed'
  BY <1>1, <1>2, <1>3 DEF Typed, Placed, Calls
<1>5. ASSUME ~struck'
      PROVE  AtServed' /\ TimerServed' /\ ConfirmServed'
  <2>1. AtServed /\ TimerServed /\ ConfirmServed
    BY <1>1, <1>5 DEF IInv
  <2> QED
    BY <1>1, <1>2, <1>3, <2>1 DEF AtServed, Disabling, TimerServed,
       ConfirmServed, empty, is_required, AtIds
<1> QED
  BY <1>4, <1>5 DEF IInv

\* misconfirm has lowered CONFIRM before its entry is cleared.
LEMMA CallStep ==
  ASSUME IInv, Call
  PROVE  IInv'
<1>1. /\ pc = "call" /\ pc' = "clear" /\ confirm' = (confirm /\ vid # "SPI")
      /\ UNCHANGED <<timer, cron, at, vid, counted, did, struck>>
      /\ vid \in AtIds /\ Typed
  BY DEF Call, IInv, Placed, shared, past
<1>2. confirm' \in BOOLEAN /\ (confirm' => confirm) /\ ~(confirm' /\ vid = "SPI")
  BY <1>1
<1>3. Typed' /\ Placed'
  BY <1>1, <1>2 DEF Typed, Placed
<1>4. ASSUME ~struck'
      PROVE  AtServed' /\ TimerServed' /\ ConfirmServed'
  <2>1. AtServed /\ TimerServed /\ ConfirmServed
    BY <1>1, <1>4 DEF IInv
  <2> QED
    BY <1>1, <1>2, <2>1 DEF AtServed, Disabling, TimerServed, ConfirmServed,
       empty, is_required
<1> QED
  BY <1>3, <1>4 DEF IInv

\* What clearing a callback leaves: at.c's callback is disabled if it was the
\* last one.
LEMMA Cleared ==
  ASSUME Typed, NEW id \in AtIds, at' = [at EXCEPT ![id].on = FALSE]
  PROVE  /\ at' \in [AtIds -> [on : BOOLEAN, current : Nat,
                               max : {0, CONFIRM_HOLD_TIME, DELAY_SELECT}]]
         /\ ~at'[id].on
         /\ \A other \in AtIds \ {id} : at'[other] = at[other]
         /\ ~empty(at') => ~empty(at)
BY DEF Typed, empty

LEMMA ClearStep ==
  ASSUME IInv, Clear
  PROVE  IInv'
<1>1. /\ pc = "clear" /\ pc' = "empty" /\ vid \in AtIds /\ Typed
      /\ UNCHANGED <<timer, cron, confirm, vid, counted, did, struck>>
      /\ at' = [at EXCEPT ![vid].on = FALSE]
  BY DEF Clear, IInv, Placed, past
<1>2. /\ at' \in [AtIds -> [on : BOOLEAN, current : Nat,
                            max : {0, CONFIRM_HOLD_TIME, DELAY_SELECT}]]
      /\ \A other \in AtIds \ {vid} : at'[other] = at[other]
      /\ ~empty(at') => ~empty(at)
  BY <1>1, Cleared
<1>3. Typed' /\ Placed'
  BY <1>1, <1>2 DEF Typed, Placed
<1>4. ASSUME ~struck'
      PROVE  AtServed' /\ TimerServed' /\ ConfirmServed'
  <2>1. AtServed /\ TimerServed /\ ConfirmServed
    BY <1>1, <1>4 DEF IInv
  <2>2. AtServed'
    BY <1>1, <1>2, <2>1 DEF AtServed, Disabling
  <2>3. TimerServed'
    BY <1>1, <2>1 DEF TimerServed, is_required
  <2>4. ConfirmServed'
    BY <1>1, <1>2, <2>1 DEF ConfirmServed, AtIds
  <2> QED
    BY <2>2, <2>3, <2>4
<1> QED
  BY <1>3, <1>4 DEF IInv

LEMMA EmptyStep ==
  ASSUME IInv, Empty
  PROVE  IInv'
<1>1. /\ pc = "empty" /\ vid \in AtIds /\ Typed
      /\ UNCHANGED <<timer, cron, at, confirm, counted, struck>>
      /\ IF empty(at) THEN pc' = "disable" /\ did' = "AT" /\ vid' = vid
                      ELSE NextId /\ did' = did
  BY DEF Empty, IInv, Placed, shared, past
<1>2. /\ pc' \in {"verify", "rest", "disable"} /\ vid' \in AtIds \cup {"none"}
      /\ pc' = "verify" => vid' \in AtIds
      /\ pc' = "disable" => did' = "AT" /\ empty(at)
  BY <1>1, NextIdEffect
<1>3. Typed' /\ Placed'
  BY <1>1, <1>2 DEF Typed, Placed, Calls, CronIds
<1>4. ASSUME ~struck'
      PROVE  AtServed' /\ TimerServed' /\ ConfirmServed'
  BY <1>1, <1>2, <1>4 DEF IInv, AtServed, Disabling, TimerServed, ConfirmServed,
                          empty, is_required
<1> QED
  BY <1>3, <1>4 DEF IInv

\* cron_disable in its three parts.
LEMMA DisableStep ==
  ASSUME IInv, Disable
  PROVE  IInv'
<1>1. /\ pc = "disable" /\ pc' = "disable2" /\ did \in CronIds /\ Typed
      /\ UNCHANGED <<timer, at, confirm, struck, vid, counted, did>>
      /\ cron' = [cron EXCEPT ![did].on = FALSE]
  BY DEF Disable, IInv, Placed, past
<1>2. /\ cron' \in [CronIds -> [on : BOOLEAN,
                                factor : {0, AT_DELAY, SLAVE_DELAY}, count : Int]]
      /\ ~cron'[did].on
      /\ \A id \in CronIds \ {did} : cron'[id] = cron[id]
  BY <1>1 DEF Typed
<1>3. Typed' /\ Placed'
  BY <1>1, <1>2 DEF Typed, Placed, Calls
<1>4. ASSUME ~struck'
      PROVE  AtServed' /\ TimerServed' /\ ConfirmServed'
  <2>1. AtServed /\ TimerServed /\ ConfirmServed
    BY <1>1, <1>4 DEF IInv
  <2>2. AtServed'
    BY <1>1, <1>2, <2>1 DEF AtServed, Disabling, empty, CronIds
  <2>3. TimerServed' /\ ConfirmServed'
    BY <1>1, <1>2, <2>1 DEF TimerServed, ConfirmServed, is_required
  <2> QED
    BY <2>2, <2>3
<1> QED
  BY <1>3, <1>4 DEF IInv

LEMMA Disable2Step ==
  ASSUME IInv, Disable2
  PROVE  IInv'
<1>1. /\ pc = "disable2" /\ did \in CronIds /\ Typed
      /\ UNCHANGED <<timer, at, confirm, counted, struck>>
      /\ cron' = [cron EXCEPT ![did].factor = 0, ![did].count = 0]
      /\ IF is_required(cron') THEN Return
         ELSE pc' = "disengage" /\ vid' = vid /\ did' = did
  BY DEF Disable2, IInv, Placed, past
<1>2. /\ cron' \in [CronIds -> [on : BOOLEAN,
                                factor : {0, AT_DELAY, SLAVE_DELAY}, count : Int]]
      /\ \A id \in CronIds : cron'[id].on = cron[id].on
      /\ \A id \in CronIds \ {did} : cron'[id] = cron[id]
  BY <1>1 DEF Typed
<1>3. vid \in AtIds \cup {"none"}
  BY <1>1 DEF Typed
<1>4. /\ pc' \in {"verify", "rest", "schedule", "counter", "disengage"}
      /\ vid' \in AtIds \cup {"none"}
      /\ pc' = "verify" => vid' \in AtIds
      /\ pc' = "disengage" => did' \in CronIds
      /\ pc' = "disengage" <=> ~is_required(cron')
  BY <1>1, <1>3, ReturnEffect
<1>5. Typed' /\ Placed'
  BY <1>1, <1>2, <1>4 DEF Typed, Placed, Calls
<1>6. ASSUME ~struck'
      PROVE  AtServed' /\ TimerServed' /\ ConfirmServed'
  <2>1. AtServed /\ TimerServed /\ ConfirmServed
    BY <1>1, <1>6 DEF IInv
  <2>2. AtServed'
    BY <1>1, <1>2, <1>4, <2>1 DEF AtServed, Disabling, empty, CronIds
  <2>3. is_required(cron') <=> is_required(cron)
    BY <1>2 DEF is_required
  <2>4. TimerServed'
    BY <1>1, <1>4, <2>1, <2>3 DEF TimerServed, Typed
  <2>5. ConfirmServed'
    BY <1>1, <1>4, <2>1 DEF ConfirmServed
  <2> QED
    BY <2>2, <2>4, <2>5
<1> QED
  BY <1>5, <1>6 DEF IInv

LEMMA DisengageStep ==
  ASSUME IInv, Disengage
  PROVE  IInv'
<1>1. /\ pc = "disengage" /\ Typed /\ timer' = FALSE /\ Return
      /\ UNCHANGED <<cron, at, confirm, counted, struck>>
  BY DEF Disengage, IInv, past
<1>2. vid \in AtIds \cup {"none"}
  BY <1>1 DEF Typed
<1>3. /\ pc' \in {"verify", "rest", "schedule", "counter"}
      /\ vid' \in AtIds \cup {"none"}
      /\ pc' = "verify" => vid' \in AtIds
  BY <1>1, <1>2, ReturnEffect
<1>4. timer' \in BOOLEAN
  BY <1>1
<1>5. Typed' /\ Placed'
  BY <1>1, <1>3, <1>4 DEF Typed, Placed, Calls
<1>6. ASSUME ~struck'
      PROVE  AtServed' /\ TimerServed' /\ ConfirmServed'
  <2>1. AtServed /\ TimerServed /\ ConfirmServed
    BY <1>1, <1>6 DEF IInv
  <2>2. AtServed' /\ ConfirmServed'
    BY <1>1, <1>3, <2>1 DEF AtServed, ConfirmServed, Disabling, empty
  <2>3. is_required(cron') = FALSE
    BY <1>1, <2>1 DEF TimerServed, is_required
  <2>4. TimerServed'
    BY <1>1, <1>3, <2>3 DEF TimerServed
  <2> QED
    BY <2>2, <2>4
<1> QED
  BY <1>5, <1>6 DEF IInv

LEMMA MenuCancelStep ==
  ASSUME IInv, MenuCancel
  PROVE  IInv'
<1>1. /\ pc = "rest" /\ Typed /\ "MENU" \in AtIds
      /\ UNCHANGED <<timer, cron, confirm, struck, vid, counted>>
      /\ at' = [at EXCEPT !["MENU"].on = FALSE]
      /\ IF empty(at') THEN pc' = "disable" /\ did' = "AT"
                       ELSE pc' = "schedule" /\ did' = did
  BY DEF MenuCancel, IInv, AtIds, past
<1>2. /\ at' \in [AtIds -> [on : BOOLEAN, current : Nat,
                            max : {0, CONFIRM_HOLD_TIME, DELAY_SELECT}]]
      /\ at'["SPI"] = at["SPI"]
      /\ ~empty(at') => ~empty(at)
  <2>1. /\ at' \in [AtIds -> [on : BOOLEAN, current : Nat,
                              max : {0, CONFIRM_HOLD_TIME, DELAY_SELECT}]]
        /\ \A other \in AtIds \ {"MENU"} : at'[other] = at[other]
        /\ ~empty(at') => ~empty(at)
    BY <1>1, Cleared
  <2> QED
    BY <2>1 DEF AtIds
<1>3. Typed' /\ Placed'
  BY <1>1, <1>2 DEF Typed, Placed, Calls, CronIds
<1>4. ASSUME ~struck'
      PROVE  AtServed' /\ TimerServed' /\ ConfirmServed'
  <2>1. AtServed /\ TimerServed /\ ConfirmServed
    BY <1>1, <1>4 DEF IInv
  <2>2. AtServed'
    BY <1>1, <1>2, <2>1 DEF AtServed, Disabling
  <2>3. TimerServed' /\ ConfirmServed'
    BY <1>1, <1>2, <2>1 DEF TimerServed, ConfirmServed, is_required
  <2> QED
    BY <2>2, <2>3
<1> QED
  BY <1>3, <1>4 DEF IInv

LEMMA MenuScheduleStep ==
  ASSUME IInv, MenuSchedule
  PROVE  IInv'
<1>1. /\ pc = "schedule" /\ pc' = "counter" /\ Typed /\ "MENU" \in AtIds
      /\ at_schedule("MENU", DELAY_SELECT)
      /\ UNCHANGED <<confirm, struck, vid, counted, did>>
  BY DEF MenuSchedule, IInv, AtIds, past
<1>2. /\ at' \in [AtIds -> [on : BOOLEAN, current : Nat,
                            max : {0, CONFIRM_HOLD_TIME, DELAY_SELECT}]]
      /\ cron' \in [CronIds -> [on : BOOLEAN,
                                factor : {0, AT_DELAY, SLAVE_DELAY}, count : Int]]
      /\ timer' = TRUE
      /\ \A other \in AtIds \ {"MENU"} : at'[other] = at[other]
      /\ cron'["AT"].on /\ cron'["AT"].factor = AT_DELAY
  BY <1>1, ScheduleEffect
<1>3. timer' \in BOOLEAN
  BY <1>2
<1>4. Typed' /\ Placed'
  BY <1>1, <1>2, <1>3 DEF Typed, Placed, Calls
<1>5. ASSUME ~struck'
      PROVE  AtServed' /\ TimerServed' /\ ConfirmServed'
  <2>1. AtServed /\ TimerServed /\ ConfirmServed
    BY <1>1, <1>5 DEF IInv
  <2>2. AtServed' /\ ConfirmServed'
    BY <1>1, <1>2, <2>1 DEF AtServed, ConfirmServed, Disabling, AtIds
  <2>3. is_required(cron') = TRUE
    BY <1>2 DEF is_required, CronIds
  <2>4. TimerServed'
    BY <1>1, <1>2, <2>3 DEF TimerServed
  <2> QED
    BY <2>2, <2>4
<1> QED
  BY <1>4, <1>5 DEF IInv

LEMMA FlushEnableStep ==
  ASSUME IInv, FlushEnable
  PROVE  IInv'
<1>1. /\ pc = "rest" /\ pc' = "counter" /\ Typed /\ timer' = TRUE
      /\ cron' = [cron EXCEPT !["FLUSH"] = [on |-> TRUE, factor |-> SLAVE_DELAY,
                                            count |-> 0]]
      /\ UNCHANGED <<at, confirm, struck, vid, counted, did>>
  BY DEF FlushEnable, cron_enable, Cron, IInv, past
<1>2. /\ cron' \in [CronIds -> [on : BOOLEAN,
                                factor : {0, AT_DELAY, SLAVE_DELAY}, count : Int]]
      /\ cron'["AT"] = cron["AT"] /\ cron'["FLUSH"].on
  BY <1>1 DEF Typed, CronIds
<1>3. timer' \in BOOLEAN
  BY <1>1
<1>4. Typed' /\ Placed'
  BY <1>1, <1>2, <1>3 DEF Typed, Placed, Calls
<1>5. ASSUME ~struck'
      PROVE  AtServed' /\ TimerServed' /\ ConfirmServed'
  <2>1. AtServed /\ TimerServed /\ ConfirmServed
    BY <1>1, <1>5 DEF IInv
  <2>2. AtServed' /\ ConfirmServed'
    BY <1>1, <1>2, <2>1 DEF AtServed, ConfirmServed, Disabling, empty
  <2>3. is_required(cron') = TRUE
    BY <1>2 DEF is_required, CronIds
  <2>4. TimerServed'
    BY <1>1, <2>3 DEF TimerServed
  <2> QED
    BY <2>2, <2>4
<1> QED
  BY <1>4, <1>5 DEF IInv

LEMMA FlushDisableStep ==
  ASSUME IInv, FlushDisable
  PROVE  IInv'
<1>1. /\ pc = "rest" /\ pc' = "disable" /\ did' = "FLUSH" /\ Typed
      /\ UNCHANGED <<timer, cron, at, confirm, struck, vid, counted>>
  BY DEF FlushDisable, IInv, shared, past
<1>2. Typed' /\ Placed'
  BY <1>1 DEF Typed, Placed, CronIds
<1>3. ASSUME ~struck'
      PROVE  AtServed' /\ TimerServed' /\ ConfirmServed'
  BY <1>1, <1>3 DEF IInv, AtServed, Disabling, TimerServed, ConfirmServed,
                    empty, is_required
<1> QED
  BY <1>2, <1>3 DEF IInv

-----------------------------------------------------------------------------
\* Nothing is scheduled and the timer is off.
LEMMA InitInv == Init => IInv
<1> SUFFICES ASSUME Init PROVE IInv
  OBVIOUS
<1>1. timer \in BOOLEAN /\ confirm \in BOOLEAN /\ struck \in BOOLEAN
      /\ counted \in Nat
  BY DEF Init
<1>2. /\ cron \in [CronIds -> [on : BOOLEAN, factor : {0, AT_DELAY, SLAVE_DELAY},
                               count : Int]]
      /\ at \in [AtIds -> [on : BOOLEAN, current : Nat,
                           max : {0, CONFIRM_HOLD_TIME, DELAY_SELECT}]]
      /\ \A id \in CronIds : cron[id].on = FALSE
      /\ \A id \in AtIds : at[id].on = FALSE
  BY DEF Init, Cron
<1>3. Typed /\ Placed
  BY <1>1, <1>2 DEF Init, Typed, Placed, Calls
<1>4. empty(at) /\ is_required(cron) = FALSE
  BY <1>2 DEF empty, is_required
<1>5. AtServed /\ TimerServed /\ ConfirmServed
  BY <1>2, <1>4 DEF Init, AtServed, Disabling, TimerServed, ConfirmServed, CronIds
<1> QED
  BY <1>3, <1>5 DEF IInv

LEMMA NextInv == IInv /\ [Next]_vars => IInv'
<1> SUFFICES ASSUME IInv, [Next]_vars PROVE IInv'
  OBVIOUS
<1>1. CASE TimerInterrupt
  BY <1>1 DEF TimerInterrupt, shared, past, IInv, Typed, Placed, AtServed,
     Disabling, TimerServed, ConfirmServed, empty, is_required
<1>2. CASE Rest
  BY <1>2 DEF Rest, shared, past, IInv, Typed, Placed, AtServed, Calls,
     Disabling, TimerServed, ConfirmServed, empty, is_required
<1>3. CASE UNCHANGED vars
  BY <1>3 DEF vars, IInv, Typed, Placed, AtServed, Disabling, TimerServed,
     ConfirmServed, empty, is_required
<1> QED
  BY <1>1, <1>2, <1>3, Int3Step, CounterTryStep, CounterTryInt3Step, CronTryStep,
     VerifyStep, StoreStep, CallStep, ClearStep, EmptyStep, DisableStep, Disable2Step, DisengageStep, MenuCancelStep,
     MenuScheduleStep, FlushEnableStep, FlushDisableStep
  DEF Next, Main

\* at.c, cron.c and counter.c, for every delay: between two calls of the main
\* loop what is scheduled is served, whatever INT3 did outside of a Window.
THEOREM TimersServed == Spec => []Served
<1>1. IInv => Served
  BY DEF IInv, AtServed, TimerServed, ConfirmServed, Served, Calls
<1> QED
  BY <1>1, InitInv, NextInv, PTL DEF Spec

-----------------------------------------------------------------------------
(* How long CONFIRM is held.                                               *)

\* What the proof needs to know of the numbers.
CountInv ==
  /\ held \in Nat /\ counted \in Nat
  /\ \A id \in CronIds : cron[id].count \in Nat
  /\ at["SPI"].current \in Nat
  /\ at["SPI"].on => at["SPI"].max = CONFIRM_HOLD_TIME

Behind == queue = <<"AT", "FLUSH">> \/ (pc # "cron" /\ queue # <<>>)

\* cron_try keeps up: a tick of at.c does not wait in the queue for more than
\* the round it is due in.  While a call does wait, all counts start from 0.
Short ==
  /\ queue \in IF pc = "cron"
               THEN {<<>>, <<"AT">>, <<"FLUSH">>, <<"AT", "FLUSH">>}
               ELSE {<<>>, <<"FLUSH">>}
  /\ Behind => \A id \in CronIds : cron[id].on => cron[id].count = 0

\* A tick of at.c is due that SPI's entry has not counted yet.
Pending == \/ pc = "cron" /\ queue \in {<<"AT">>, <<"AT", "FLUSH">>}
           \/ pc \in {"verify", "store", "call", "clear", "empty"} /\ vid = "MENU"
           \/ pc \in {"verify", "store"} /\ vid = "SPI"

\* The timer ticks that SPI's entry and the count of at.c's callback stand for.
Reached == at["SPI"].current * AT_DELAY + cron["AT"].count

\* They have passed since CONFIRM was raised, but for the tick of at.c that was
\* due when it was.
HeldFor ==
  confirm /\ held < Minimum =>
    Reached <= held + (IF Pending THEN 0 ELSE AT_DELAY)

\* The other clients of cron.c keep their period while they are on, and are
\* disabled outside of verify.
Others ==
  /\ cron["FLUSH"].on => cron["FLUSH"].factor = SLAVE_DELAY
  /\ pc \in Calls \cup {"schedule"} => vid = "none"
  /\ pc \in {"disable", "disable2", "disengage"} => did = "AT" \/ vid = "none"
  /\ pc = "disable2" /\ did = "FLUSH" => ~cron["FLUSH"].on

\* Where verify deals with SPI's entry while CONFIRM is high, its register
\* holds the entry's count, and misconfirm is called in time.
InTime == confirm /\ vid = "SPI" =>
            /\ pc = "store" => counted = at["SPI"].current + 1
            /\ pc = "call" => held >= Minimum

HoldInv == /\ CountInv
           /\ ~struck => Short /\ HeldFor /\ InTime

LEMMA Products ==
  /\ AT_DELAY \in Nat /\ AT_DELAY >= 2 /\ SLAVE_DELAY \in Nat /\ SLAVE_DELAY >= 2
  /\ CONFIRM_HOLD_TIME \in Nat /\ CONFIRM_HOLD_TIME >= 1
  /\ Minimum \in Nat
  /\ \A c \in Nat : c * AT_DELAY \in Nat /\ (c + 1) * AT_DELAY = c * AT_DELAY + AT_DELAY
  /\ \A c \in Nat : c + 1 >= CONFIRM_HOLD_TIME => c * AT_DELAY >= Minimum
<1>1. /\ AT_DELAY \in Nat /\ AT_DELAY >= 2
      /\ SLAVE_DELAY \in Nat /\ SLAVE_DELAY >= 2
      /\ CONFIRM_HOLD_TIME \in Nat /\ CONFIRM_HOLD_TIME >= 1
  BY TimersAssumption
<1>2. \A c \in Nat : c * AT_DELAY \in Nat
                     /\ (c + 1) * AT_DELAY = c * AT_DELAY + AT_DELAY
  BY <1>1
<1>3. CONFIRM_HOLD_TIME - 1 \in Nat
  BY <1>1
<1>4. Minimum \in Nat
  BY <1>2, <1>3 DEF Minimum
<1>5. ASSUME NEW c \in Nat, c + 1 >= CONFIRM_HOLD_TIME
      PROVE  c * AT_DELAY >= Minimum
  <2>1. PICK m \in Nat : c = m + (CONFIRM_HOLD_TIME - 1)
    <3>1. c - (CONFIRM_HOLD_TIME - 1) \in Nat
      BY <1>1, <1>5
    <3>2. c = (c - (CONFIRM_HOLD_TIME - 1)) + (CONFIRM_HOLD_TIME - 1)
      BY <1>1
    <3> QED
      BY <3>1, <3>2
  <2>2. \A k, n, d \in Nat : (k + n) * d = k * d + n * d
    OBVIOUS
  <2>3. c * AT_DELAY = m * AT_DELAY + (CONFIRM_HOLD_TIME - 1) * AT_DELAY
    BY <1>1, <1>3, <2>1, <2>2
  <2> QED
    BY <1>2, <1>4, <2>3 DEF Minimum
<1> QED
  BY <1>1, <1>2, <1>4, <1>5

LEMMA ReachedIsNat == CountInv => Reached \in Nat
BY Products DEF CountInv, Reached, CronIds

\* at_schedule and cron_enable start the count of at.c's callback anew.
LEMMA ScheduleCounts ==
  ASSUME Typed, CountInv, NEW id \in AtIds,
         NEW delay \in {CONFIRM_HOLD_TIME, DELAY_SELECT}, at_schedule(id, delay),
         id = "SPI" => delay = CONFIRM_HOLD_TIME,
         held' \in Nat, counted' \in Nat
  PROVE  /\ CountInv' /\ cron'["AT"].count = 0 /\ cron'["FLUSH"] = cron["FLUSH"]
         /\ id = "SPI" => at'["SPI"].current = 0
         /\ id # "SPI" => at'["SPI"] = at["SPI"]
<1>1. at' = [at EXCEPT ![id] = [on |-> TRUE, current |-> 0, max |-> delay]]
  BY DEF at_schedule
<1>2. cron' = [cron EXCEPT !["AT"] = [on |-> TRUE, factor |-> AT_DELAY, count |-> 0]]
  BY DEF at_schedule, cron_enable, Cron
<1>3. /\ cron'["AT"].count = 0 /\ cron'["FLUSH"] = cron["FLUSH"]
  BY <1>2 DEF Typed, CronIds
<1>4. /\ id = "SPI" => at'["SPI"].current = 0 /\ at'["SPI"].max = CONFIRM_HOLD_TIME
      /\ id # "SPI" => at'["SPI"] = at["SPI"]
  BY <1>1 DEF Typed, AtIds
<1> QED
  BY <1>3, <1>4 DEF CountInv, CronIds

LEMMA Int3Hold ==
  ASSUME IInv, HoldInv, Int3
  PROVE  HoldInv'
<1>1. /\ Typed /\ CountInv /\ "SPI" \in AtIds /\ held' = 0
      /\ at_schedule("SPI", CONFIRM_HOLD_TIME)
      /\ struck' = (struck \/ Window) /\ UNCHANGED <<queue, pc, vid, counted, did>>
  BY DEF IInv, HoldInv, Int3, AtIds
<1>4. held' \in Nat /\ counted' \in Nat
  BY <1>1 DEF CountInv
<1>2. /\ CountInv' /\ cron'["AT"].count = 0 /\ cron'["FLUSH"] = cron["FLUSH"]
      /\ at'["SPI"].current = 0
  BY <1>1, <1>4, ScheduleCounts
<1>3. ASSUME ~struck'
      PROVE  Short' /\ HeldFor' /\ InTime'
  <2>1. Short /\ ~Window
    BY <1>1, <1>3 DEF HoldInv
  <2>2. Short'
    BY <1>1, <1>2, <2>1 DEF Short, Behind, CronIds
  <2>3. Reached' = 0
    BY <1>2, Products DEF Reached
  <2>4. InTime'
    BY <1>1, <2>1 DEF InTime, Window
  <2> QED
    BY <1>1, <2>2, <2>3, <2>4, Products DEF HeldFor
<1> QED
  BY <1>2, <1>3 DEF HoldInv

\* What counter_try leaves of the counts of a tick that is served.
LEMMA TickCounts ==
  ASSUME Typed, CountInv, NEW id \in CronIds
  PROVE  /\ CountAll[id].on = cron[id].on /\ CountAll[id].factor = cron[id].factor
         /\ CountAll[id].count \in Nat
         /\ Due(id) => CountAll[id].count = 0 /\ cron[id].count + 1 >= cron[id].factor
         /\ CountAll[id].count <= cron[id].count + 1
         /\ cron[id].on /\ ~Due(id) => /\ CountAll[id].count = cron[id].count + 1
                                       /\ CountAll[id].count < cron[id].factor
<1>1. /\ cron[id] \in [on : BOOLEAN, factor : {0, AT_DELAY, SLAVE_DELAY}, count : Int]
      /\ cron[id].count \in Nat /\ cron[id].factor \in Nat
  BY Products DEF Typed, CountInv
<1>2. CountAll[id] = [cron[id] EXCEPT !.count = IF ~cron[id].on THEN cron[id].count
                                                ELSE IF Due(id) THEN 0 ELSE Counted(id)]
  BY DEF CountAll
<1>3. /\ CountAll[id].on = cron[id].on /\ CountAll[id].factor = cron[id].factor
      /\ CountAll[id].count = IF ~cron[id].on THEN cron[id].count
                              ELSE IF Due(id) THEN 0 ELSE Counted(id)
  BY <1>1, <1>2
<1> QED
  BY <1>1, <1>3 DEF Due, Counted

\* counter_try queues in the order of cron.c's ids.
LEMMA BothQueued == <<"AT">> \o <<"FLUSH">> = <<"AT", "FLUSH">>
<1>1. /\ <<"AT">> \in Seq(CronIds) /\ <<"FLUSH">> \in Seq(CronIds)
      /\ <<"AT", "FLUSH">> \in Seq(CronIds)
      /\ Len(<<"AT">>) = 1 /\ Len(<<"FLUSH">>) = 1 /\ Len(<<"AT", "FLUSH">>) = 2
  BY DEF CronIds
<1> DEFINE both == <<"AT">> \o <<"FLUSH">>
<1>2. both \in Seq(CronIds) /\ Len(both) = 2
  BY <1>1, ConcatProperties
<1>3. both[1] = "AT" /\ both[2] = "FLUSH"
  BY <1>1
<1> HIDE DEF both
<1>4. both = <<"AT", "FLUSH">>
  BY <1>1, <1>2, <1>3, SeqEqual
<1> QED
  BY <1>4 DEF both

\* What counter_try leaves in the queue when it serves a tick.
LEMMA TickQueue ==
  ASSUME Typed, CountInv, Short, AtServed, Others, pc = "counter"
  PROVE  /\ Queued \in {<<>>, <<"AT">>, <<"FLUSH">>, <<"AT", "FLUSH">>}
         /\ Due("AT") <=> Queued \in {<<"AT">>, <<"AT", "FLUSH">>}
         /\ Queued = <<"AT", "FLUSH">> => Due("AT") /\ Due("FLUSH")
<1>1. queue \in {<<>>, <<"FLUSH">>}
  BY DEF Short
<1>2. \A id \in CronIds : cron[id].on => cron[id].factor >= 2
  BY Products DEF AtServed, Others, CronIds
<1>3. \A id \in CronIds : Due(id) => cron[id].on /\ cron[id].count + 1 >= cron[id].factor
  BY DEF Due, Counted
<1>4. ASSUME queue = <<"FLUSH">>
      PROVE  \A id \in CronIds : ~Due(id)
  <2>1. \A id \in CronIds : cron[id].on => cron[id].count = 0
    BY <1>4 DEF Short, Behind
  <2>2. \A id \in CronIds : cron[id].factor \in Nat
    BY Products DEF Typed
  <2> QED
    BY <1>2, <1>3, <2>1, <2>2
<1>5. CASE queue = <<"FLUSH">>
  <2>1. ~Due("AT") /\ ~Due("FLUSH")
    BY <1>4, <1>5 DEF CronIds
  <2>2. Queued = <<"FLUSH">>
    BY <1>5, <2>1 DEF Queued
  <2> QED
    BY <2>1, <2>2
<1>6. CASE queue = <<>>
  <2>1. CASE Due("AT") /\ Due("FLUSH")
    <3>1. Queued = <<>> \o <<"AT">> \o <<"FLUSH">>
      BY <1>6, <2>1 DEF Queued
    <3>2. <<>> \o <<"AT">> = <<"AT">>
      OBVIOUS
    <3>3. Queued = <<"AT", "FLUSH">>
      BY <3>1, <3>2, BothQueued
    <3> QED
      BY <2>1, <3>3
  <2>2. CASE Due("AT") /\ ~Due("FLUSH")
    <3>1. Queued = <<"AT">>
      BY <1>6, <2>2 DEF Queued
    <3> QED
      BY <2>2, <3>1
  <2>3. CASE ~Due("AT") /\ Due("FLUSH")
    <3>1. Queued = <<"FLUSH">>
      BY <1>6, <2>3 DEF Queued
    <3> QED
      BY <2>3, <3>1
  <2>4. CASE ~Due("AT") /\ ~Due("FLUSH")
    <3>1. Queued = <<>>
      BY <1>6, <2>4 DEF Queued
    <3> QED
      BY <2>4, <3>1
  <2> QED
    BY <2>1, <2>2, <2>3, <2>4
<1> QED
  BY <1>1, <1>5, <1>6

\* A tick is served: it is held longer and counted once.
LEMMA TickHold ==
  ASSUME IInv, HoldInv, Others, CounterTry, ticks > 0
  PROVE  HoldInv'
<1>1. /\ Typed /\ CountInv /\ pc = "counter" /\ pc' = "cron"
      /\ UNCHANGED <<at, confirm, struck, vid, counted>>
  BY DEF IInv, HoldInv, CounterTry, past
<1>2. /\ held' = IF confirm /\ held < Minimum THEN held + 1 ELSE held
      /\ cron' = CountAll /\ queue' = Queued
  <2>1. ~(ticks = 0)
    OBVIOUS
  <2> QED
    BY <2>1 DEF CounterTry
<1>3. \A id \in CronIds :
         /\ cron'[id].on = cron[id].on /\ cron'[id].factor = cron[id].factor
         /\ cron'[id].count \in Nat
         /\ Due(id) => cron'[id].count = 0 /\ cron[id].count + 1 >= cron[id].factor
         /\ cron'[id].count <= cron[id].count + 1
         /\ cron[id].on /\ ~Due(id) => /\ cron'[id].count = cron[id].count + 1
                                       /\ cron'[id].count < cron[id].factor
  BY <1>1, <1>2, TickCounts
<1>4. held' \in Nat
  BY <1>1, <1>2 DEF CountInv
<1>5. CountInv'
  BY <1>1, <1>3, <1>4 DEF CountInv, CronIds
<1>6. ASSUME ~struck'
      PROVE  Short' /\ HeldFor' /\ InTime'
  <2>1. Short /\ HeldFor /\ AtServed /\ ConfirmServed
    BY <1>1, <1>6 DEF HoldInv, IInv
  <2>2. /\ queue' \in {<<>>, <<"AT">>, <<"FLUSH">>, <<"AT", "FLUSH">>}
        /\ Due("AT") <=> queue' \in {<<"AT">>, <<"AT", "FLUSH">>}
        /\ queue' = <<"AT", "FLUSH">> => Due("AT") /\ Due("FLUSH")
    BY <1>1, <1>2, <2>1, TickQueue
  <2>3. Short'
    BY <1>1, <1>3, <2>2 DEF Short, Behind, CronIds
  <2>4. ASSUME confirm', (held < Minimum)'
        PROVE  Reached' <= held' + (IF Pending' THEN 0 ELSE AT_DELAY)
    <3>1. confirm /\ held < Minimum /\ held' = held + 1
      BY <1>1, <1>2, <2>4, Products DEF CountInv, Minimum
    <3>2. cron["AT"].on /\ cron["AT"].factor = AT_DELAY
      BY <2>1, <3>1 DEF AtServed, ConfirmServed, empty, AtIds
    <3>3. ~Pending
      BY <1>1 DEF Pending
    <3>4. Reached <= held + AT_DELAY
      BY <2>1, <3>1, <3>3 DEF HeldFor
    <3>5. Reached = at["SPI"].current * AT_DELAY + cron["AT"].count
          /\ Reached' = at["SPI"].current * AT_DELAY + cron'["AT"].count
          /\ at["SPI"].current * AT_DELAY \in Nat
      BY <1>1, Products DEF Reached, CountInv
    <3>6. /\ Due("AT") => cron'["AT"].count = 0
                          /\ cron["AT"].count + 1 >= cron["AT"].factor
          /\ cron'["AT"].count <= cron["AT"].count + 1
          /\ cron'["AT"].count \in Nat /\ cron["AT"].count \in Nat
      BY <1>1, <1>3 DEF CronIds, CountInv
    <3>7. Pending' <=> Due("AT")
      BY <1>1, <2>2 DEF Pending
    <3>8. CASE Due("AT")
      <4>1. Reached' <= held'
        BY <1>1, <3>1, <3>2, <3>4, <3>5, <3>6, <3>8, Products DEF CountInv
      <4> QED
        BY <3>7, <3>8, <4>1, <1>4
    <3>9. CASE ~Due("AT")
      <4>1. \A p, c, d, h, a \in Nat :
               p + c <= h + a /\ d <= c + 1 => p + d <= (h + 1) + a
        OBVIOUS
      <4>2. held \in Nat /\ AT_DELAY \in Nat
        BY <1>1, Products DEF CountInv
      <4>3. Reached' <= held' + AT_DELAY
        BY <3>1, <3>4, <3>5, <3>6, <4>1, <4>2
      <4> QED
        BY <3>7, <3>9, <4>3
    <3> QED
      BY <3>8, <3>9
  <2>5. HeldFor'
    BY <2>4 DEF HeldFor
  <2>6. InTime'
    BY <1>1 DEF InTime
  <2> QED
    BY <2>3, <2>5, <2>6
<1> QED
  BY <1>5, <1>6 DEF HoldInv

\* INT3 inside the count: it is not due, so that less than a period is left over
\* from before.
LEMMA CounterTryInt3Hold ==
  ASSUME IInv, HoldInv, Others, CounterTryInt3
  PROVE  HoldInv'
<1>1. /\ Typed /\ CountInv /\ pc = "counter" /\ pc' = "cron"
      /\ UNCHANGED <<struck, vid, counted>> /\ held' = 0 /\ queue' = Queued
      /\ cron' = [CountAll EXCEPT !["AT"].factor = AT_DELAY]
      /\ at' = [at EXCEPT !["SPI"] = [on |-> TRUE, current |-> 0,
                                     max |-> CONFIRM_HOLD_TIME]]
      /\ cron["AT"].on /\ ~Due("AT")
      /\ "SPI" \in AtIds /\ "AT" \in CronIds /\ "FLUSH" \in CronIds
  BY DEF IInv, HoldInv, CounterTryInt3, AtIds, CronIds
<1>2. /\ \A id \in CronIds : CountAll[id].count \in Nat
      /\ CountAll["AT"].count < cron["AT"].factor
  BY <1>1, TickCounts
<1>3. \A id \in CronIds : cron'[id].count = CountAll[id].count
  BY <1>1, CountAllEffect
<1>4. at'["SPI"].current = 0 /\ at'["SPI"].max = CONFIRM_HOLD_TIME
  BY <1>1 DEF Typed
<1>5. CountInv'
  BY <1>1, <1>2, <1>3, <1>4 DEF CountInv
<1>6. ASSUME ~struck'
      PROVE  Short' /\ HeldFor' /\ InTime'
  <2>1. Short /\ AtServed
    BY <1>1, <1>6 DEF HoldInv, IInv
  <2>2. /\ queue' \in {<<>>, <<"AT">>, <<"FLUSH">>, <<"AT", "FLUSH">>}
        /\ queue' \notin {<<"AT">>, <<"AT", "FLUSH">>}
    BY <1>1, <2>1, TickQueue
  <2>3. Short' /\ ~Pending'
    BY <1>1, <2>2 DEF Short, Behind, Pending
  <2>4. Reached' = cron'["AT"].count /\ cron'["AT"].count < AT_DELAY
    BY <1>1, <1>2, <1>3, <1>4, <2>1, Products DEF Reached, AtServed
  <2>5. HeldFor'
    BY <1>1, <1>2, <1>3, <2>3, <2>4, Products DEF HeldFor
  <2>6. InTime'
    BY <1>1 DEF InTime
  <2> QED
    BY <2>3, <2>5, <2>6
<1> QED
  BY <1>5, <1>6 DEF HoldInv

LEMMA CounterTryHold ==
  ASSUME IInv, HoldInv, Others, CounterTry
  PROVE  HoldInv'
<1>1. CASE ticks > 0
  BY <1>1, TickHold
<1>2. CASE ~(ticks > 0)
  <2>1. /\ pc = "counter" /\ pc' = "cron"
        /\ UNCHANGED <<cron, queue, held, at, confirm, struck, vid, counted>>
    BY <1>2 DEF CounterTry, past
  <2>2. CountInv'
    BY <2>1 DEF HoldInv, CountInv
  <2>3. ASSUME ~struck'
        PROVE  Short' /\ HeldFor' /\ InTime'
    <3>1. Short /\ HeldFor
      BY <2>1, <2>3 DEF HoldInv
    <3>2. Short' /\ InTime'
      BY <2>1, <3>1 DEF Short, Behind, InTime
    <3>3. ~Pending /\ ~Pending'
      BY <2>1, <3>1 DEF Pending, Short
    <3> QED
      BY <2>1, <3>1, <3>2, <3>3 DEF HeldFor, Reached, Minimum
  <2> QED
    BY <2>2, <2>3 DEF HoldInv
<1> QED
  BY <1>1, <1>2

\* One call leaves the queue; at.c's leads to verify.
LEMMA CronTryHold ==
  ASSUME IInv, HoldInv, CronTry
  PROVE  HoldInv'
<1>1. /\ pc = "cron" /\ UNCHANGED <<timer, cron, at, confirm, counted, held, struck>>
      /\ queue' = IF queue = <<>> THEN queue ELSE Tail(queue)
      /\ IF queue # <<>> /\ Head(queue) = "AT" /\ cron["AT"].on
         THEN pc' = "verify" /\ vid' = "MENU"
         ELSE pc' = "rest" /\ vid' = vid
  BY DEF CronTry, shared, past
<1>2. CountInv'
  BY <1>1 DEF HoldInv, CountInv
<1>3. ASSUME ~struck'
      PROVE  Short' /\ HeldFor' /\ InTime'
  <2>1. Short /\ HeldFor /\ AtServed /\ ConfirmServed
    BY <1>1, <1>3 DEF HoldInv, IInv
  <2>2. queue \in {<<>>, <<"AT">>, <<"FLUSH">>, <<"AT", "FLUSH">>}
    BY <1>1, <2>1 DEF Short
  <2>3. /\ queue' = IF queue = <<"AT", "FLUSH">> THEN <<"FLUSH">> ELSE <<>>
        /\ queue # <<>> /\ Head(queue) = "AT"
             <=> queue \in {<<"AT">>, <<"AT", "FLUSH">>}
    <3>1. CASE queue = <<>>
      BY <1>1, <3>1
    <3>2. CASE queue = <<"AT">>
      BY <1>1, <3>2
    <3>3. CASE queue = <<"FLUSH">>
      BY <1>1, <3>3
    <3>4. CASE queue = <<"AT", "FLUSH">>
      BY <1>1, <3>4
    <3> QED
      BY <2>2, <3>1, <3>2, <3>3, <3>4
  <2>4. pc' # "cron"
    BY <1>1
  <2>5. Short'
    <3>1. queue' \in {<<>>, <<"FLUSH">>}
      BY <2>3
    <3>2. <<"AT", "FLUSH">> \notin {<<>>, <<"FLUSH">>}
      OBVIOUS
    <3>3. Behind' => Behind
      BY <2>3, <2>4, <3>1, <3>2 DEF Behind
    <3>4. Behind' => \A id \in CronIds : cron'[id].on => cron'[id].count = 0
      BY <1>1, <2>1, <3>3 DEF Short
    <3> QED
      BY <2>4, <3>1, <3>4 DEF Short
  <2>6. confirm => (Pending' <=> Pending)
    <3>1. confirm => cron["AT"].on
      BY <2>1 DEF AtServed, ConfirmServed, empty, AtIds
    <3> QED
      BY <1>1, <2>3, <3>1 DEF Pending
  <2>7. HeldFor'
    BY <1>1, <2>1, <2>6 DEF HeldFor, Reached, Minimum
  <2>8. InTime'
    BY <1>1 DEF InTime
  <2> QED
    BY <2>5, <2>7, <2>8
<1> QED
  BY <1>2, <1>3 DEF HoldInv

\* What leaves the counts and the queue alone outside of cron_try, and makes
\* no tick pending, leaves CONFIRM its time.
LEMMA Kept ==
  ASSUME CountInv, ~struck => Short /\ HeldFor, CountInv',
         UNCHANGED <<queue, held, struck>>,
         pc # "cron", pc' # "cron",
         \A id \in CronIds : /\ cron'[id].on => cron[id].on \/ cron'[id].count = 0
                             /\ cron'[id].count \in {0, cron[id].count},
         confirm' => confirm /\ at'["SPI"].current = at["SPI"].current,
         ~struck /\ confirm' /\ Pending' => Pending,
         pc' \notin {"store", "call"} \/ (~struck => InTime')
  PROVE  HoldInv'
<1>1. ASSUME ~struck'
      PROVE  Short' /\ HeldFor' /\ InTime'
  <2>1. Short /\ HeldFor /\ ~struck
    BY <1>1
  <2>2. \A id \in CronIds : cron[id].count \in Nat /\ cron'[id].count \in Nat
    BY DEF CountInv
  <2>3. Short'
    BY <2>1, <2>2 DEF Short, Behind
  <2>4. ASSUME confirm', (held < Minimum)'
        PROVE  Reached' <= held' + (IF Pending' THEN 0 ELSE AT_DELAY)
    <3>1. Reached <= held + (IF Pending THEN 0 ELSE AT_DELAY)
      BY <2>1, <2>4 DEF HeldFor, Minimum
    <3>2. Reached' <= Reached
      BY <2>2, <2>4, Products DEF Reached, CountInv, CronIds
    <3>3. Reached \in Nat /\ Reached' \in Nat
      <4>1. Reached \in Nat
        BY ReachedIsNat
      <4>2. /\ at'["SPI"].current * AT_DELAY \in Nat
            /\ cron'["AT"].count \in Nat
        BY <2>2, <2>4, Products DEF CountInv, CronIds
      <4> QED
        BY <4>1, <4>2 DEF Reached
    <3>4. Pending' => Pending
      BY <2>1, <2>4
    <3> QED
      BY <3>1, <3>2, <3>3, <3>4, Products DEF CountInv
  <2>5. InTime'
    BY <2>1 DEF InTime
  <2> QED
    BY <2>3, <2>4, <2>5 DEF HeldFor
<1> QED
  BY <1>1 DEF HoldInv

LEMMA OthersStep == IInv /\ Others /\ [Next]_vars => Others'
<1> SUFFICES ASSUME IInv, Others, [Next]_vars PROVE Others'
  OBVIOUS
<1>1. Placed /\ Typed /\ vid \in AtIds \cup {"none"}
  BY DEF IInv, Typed
<1>2. CASE TimerInterrupt
  BY <1>2 DEF TimerInterrupt, shared, Others
<1>3. CASE Int3
  <2>1. cron'["FLUSH"] = cron["FLUSH"] /\ UNCHANGED <<pc, vid, did>>
    BY <1>1, <1>3 DEF Int3, at_schedule, cron_enable, Typed, CronIds
  <2> QED
    BY <2>1 DEF Others
<1>4. CASE CounterTry
  <2>1. /\ pc' = "cron" /\ pc = "counter" /\ UNCHANGED <<vid, did>>
    BY <1>4 DEF CounterTry
  <2>2. /\ cron'["FLUSH"].on = cron["FLUSH"].on
        /\ cron'["FLUSH"].factor = cron["FLUSH"].factor
    <3>1. CASE UNCHANGED cron
      BY <3>1
    <3>2. CASE cron' = CountAll
      BY <1>1, <3>2, CountAllEffect DEF CronIds
    <3> QED
      BY <1>4, <3>1, <3>2 DEF CounterTry
  <2> QED
    BY <2>1, <2>2 DEF Others, Calls
<1>16. CASE CounterTryInt3
  <2>1. /\ pc' = "cron" /\ pc = "counter" /\ UNCHANGED <<vid, did>>
        /\ cron' = [CountAll EXCEPT !["AT"].factor = AT_DELAY]
    BY <1>16 DEF CounterTryInt3
  <2>2. /\ cron'["FLUSH"].on = cron["FLUSH"].on
        /\ cron'["FLUSH"].factor = cron["FLUSH"].factor
    BY <1>1, <2>1, CountAllEffect DEF CronIds
  <2> QED
    BY <2>1, <2>2 DEF Others, Calls
<1>5. CASE CronTry
  BY <1>5 DEF CronTry, shared, Others, Calls
<1>6. CASE Verify
  BY <1>1, <1>6 DEF Verify, shared, NextId, Others, Calls, Placed, AtIds
<1>17. CASE Store
  BY <1>1, <1>17 DEF Store, NextId, Others, Calls, Placed, AtIds
<1>18. CASE Call \/ Clear
  BY <1>1, <1>18 DEF Call, Clear, shared, Others, Calls, Placed
<1>7. CASE Empty
  BY <1>1, <1>7 DEF Empty, shared, NextId, Others, Calls, Placed, AtIds
<1>8. CASE Disable
  <2>1. /\ pc = "disable" /\ pc' = "disable2" /\ UNCHANGED <<vid, did>>
        /\ did \in CronIds /\ ~cron'[did].on
        /\ cron'["FLUSH"].on => cron["FLUSH"].on
        /\ cron'["FLUSH"].factor = cron["FLUSH"].factor
    BY <1>1, <1>8 DEF Disable, Placed, Typed, CronIds
  <2> QED
    BY <2>1 DEF Others, Calls
<1>9. CASE Disable2
  <2>1. /\ pc = "disable2" /\ did \in CronIds
        /\ cron'["FLUSH"].on = cron["FLUSH"].on
        /\ did = "FLUSH" \/ cron'["FLUSH"].factor = cron["FLUSH"].factor
        /\ Return \/ (pc' = "disengage" /\ UNCHANGED <<vid, did>>)
    BY <1>1, <1>9 DEF Disable2, Placed, Typed, CronIds
  <2>2. CASE pc' = "disengage" /\ UNCHANGED <<vid, did>>
    BY <2>1, <2>2 DEF Others, Calls
  <2>3. CASE Return
    BY <1>1, <2>1, <2>3 DEF Return, NextId, Others, Calls, AtIds
  <2> QED
    BY <2>1, <2>2, <2>3
<1>10. CASE Disengage
  BY <1>1, <1>10 DEF Disengage, Return, NextId, Others, Calls, AtIds
<1>11. CASE MenuCancel
  BY <1>11 DEF MenuCancel, Others, Calls
<1>12. CASE MenuSchedule
  <2>1. cron'["FLUSH"] = cron["FLUSH"]
    BY <1>1, <1>12 DEF MenuSchedule, at_schedule, cron_enable, Typed, CronIds
  <2> QED
    BY <1>12, <2>1 DEF MenuSchedule, Others, Calls
<1>13. CASE FlushEnable
  <2>1. cron'["FLUSH"].factor = SLAVE_DELAY
    BY <1>1, <1>13 DEF FlushEnable, cron_enable, Cron, Typed, CronIds
  <2> QED
    BY <1>13, <2>1 DEF FlushEnable, Others, Calls
<1>14. CASE FlushDisable \/ Rest
  BY <1>14 DEF FlushDisable, Rest, shared, Others, Calls
<1>15. CASE UNCHANGED vars
  BY <1>15 DEF vars, Others
<1> QED
  BY <1>2, <1>3, <1>4, <1>5, <1>6, <1>7, <1>8, <1>9, <1>10, <1>11, <1>12, <1>13,
     <1>14, <1>15, <1>16, <1>17, <1>18 DEF Next, Main

\* verify goes on with SPI's entry after MENU's, and reads its count ...
LEMMA VerifyHold ==
  ASSUME IInv, HoldInv, Verify
  PROVE  HoldInv'
<1>1. /\ pc = "verify" /\ UNCHANGED <<timer, cron, at, queue, confirm, held, struck>>
      /\ vid \in AtIds /\ Typed /\ CountInv
  BY DEF Verify, IInv, Placed, past, shared, HoldInv
<1>2. CASE ~at[vid].on
  <2>1. NextId /\ UNCHANGED counted
    BY <1>2 DEF Verify
  <2>2. CountInv'
    BY <1>1, <2>1 DEF CountInv
  <2>3. pc' \in {"verify", "rest"} /\ (Pending' => Pending)
    BY <1>1, <2>1 DEF NextId, Pending, AtIds
  <2> QED
    BY <1>1, <2>2, <2>3, Kept DEF HoldInv
<1>3. CASE at[vid].on
  <2>1. pc' = "store" /\ vid' = vid /\ counted' = at[vid].current + 1
    BY <1>3 DEF Verify
  <2>2. counted' \in Nat
    BY <1>1, <2>1 DEF Typed
  <2>3. CountInv'
    BY <1>1, <2>2 DEF CountInv
  <2>4. Pending' => Pending
    BY <1>1, <2>1 DEF Pending
  <2>5. InTime'
    BY <1>1, <2>1 DEF InTime
  <2> QED
    BY <1>1, <2>1, <2>3, <2>4, <2>5, Kept DEF HoldInv
<1> QED
  BY <1>2, <1>3

\* ... and writes it: SPI's entry has counted the tick that was due.
LEMMA StoreHold ==
  ASSUME IInv, HoldInv, Store
  PROVE  HoldInv'
<1>1. /\ pc = "store" /\ UNCHANGED <<timer, cron, queue, confirm, held, struck>>
      /\ vid \in AtIds /\ Typed /\ CountInv
      /\ counted' = 0 /\ at' = [at EXCEPT ![vid].current = counted]
      /\ IF counted >= at[vid].max THEN pc' = "call" /\ vid' = vid ELSE NextId
  BY DEF Store, IInv, Placed, past, HoldInv
<1>2. /\ at'["SPI"].on = at["SPI"].on /\ at'["SPI"].max = at["SPI"].max
      /\ at'["SPI"].current = IF vid = "SPI" THEN counted ELSE at["SPI"].current
  BY <1>1 DEF Typed, AtIds
<1>3. CountInv'
  BY <1>1, <1>2 DEF CountInv
<1>4. pc' \in {"call", "verify", "rest"}
  BY <1>1 DEF NextId
<1>5. CASE vid = "MENU"
  <2>1. Pending /\ (pc' = "call" => vid' = "MENU")
    BY <1>1, <1>5 DEF NextId, Pending
  <2>2. InTime'
    BY <1>4, <2>1 DEF InTime
  <2> QED
    BY <1>1, <1>2, <1>3, <1>4, <1>5, <2>1, <2>2, Kept DEF HoldInv
<1>6. CASE vid = "SPI"
  <2>1. Pending /\ ~Pending'
    BY <1>1, <1>4, <1>6 DEF NextId, Pending
  <2>2. ASSUME ~struck'
        PROVE  Short' /\ HeldFor' /\ InTime'
    <3>1. Short /\ HeldFor /\ InTime /\ ConfirmServed
      BY <1>1, <2>2 DEF HoldInv, IInv
    <3>2. Short'
      BY <1>1, <1>4, <3>1 DEF Short, Behind
    <3>3. SUFFICES ASSUME confirm
                   PROVE  HeldFor' /\ InTime'
      BY <1>1, <3>2 DEF HeldFor, InTime
    <3>4. counted = at["SPI"].current + 1
      BY <1>1, <1>6, <3>1, <3>3 DEF InTime
    <3>5. Reached' = Reached + AT_DELAY /\ Reached \in Nat
      <4>1. /\ at["SPI"].current \in Nat /\ cron["AT"].count \in Nat
            /\ cron'["AT"].count = cron["AT"].count
            /\ at'["SPI"].current = at["SPI"].current + 1
        BY <1>1, <1>2, <1>6, <3>4 DEF CountInv, CronIds
      <4>2. /\ at'["SPI"].current * AT_DELAY
                 = at["SPI"].current * AT_DELAY + AT_DELAY
            /\ at["SPI"].current * AT_DELAY \in Nat
        BY <4>1, Products
      <4>3. /\ Reached' = (at["SPI"].current * AT_DELAY + AT_DELAY)
                           + cron["AT"].count
            /\ Reached = at["SPI"].current * AT_DELAY + cron["AT"].count
        BY <4>1, <4>2 DEF Reached
      <4>4. \A a, d, n \in Nat : (a + d) + n = (a + n) + d /\ a + n \in Nat
        OBVIOUS
      <4> QED
        BY <4>1, <4>2, <4>3, <4>4, Products
    <3>6. held < Minimum => Reached <= held
      BY <1>1, <2>1, <3>1, <3>3 DEF HeldFor, CountInv
    <3>7. HeldFor'
      BY <1>1, <2>1, <3>5, <3>6, Products DEF HeldFor, CountInv, Minimum
    <3>8. ASSUME pc' = "call", held < Minimum
          PROVE  FALSE
      <4>1. counted >= CONFIRM_HOLD_TIME
        <5>1. at["SPI"].on /\ at["SPI"].max = CONFIRM_HOLD_TIME
          BY <1>1, <3>1, <3>3 DEF ConfirmServed, CountInv
        <5> QED
          BY <1>1, <1>6, <3>8, <5>1 DEF NextId
      <4>2. /\ at["SPI"].current + 1 >= CONFIRM_HOLD_TIME
            /\ at["SPI"].current \in Nat
        BY <1>1, <3>4, <4>1 DEF CountInv
      <4>3. /\ at["SPI"].current * AT_DELAY >= Minimum
            /\ at["SPI"].current * AT_DELAY \in Nat
        BY <4>2, Products
      <4>4. Reached >= Minimum
        BY <1>1, <4>3, Products DEF Reached, CountInv, CronIds
      <4> QED
        BY <1>1, <3>5, <3>6, <3>8, <4>4, Products DEF CountInv
    <3>9. InTime'
      <4>1. pc' = "call" => held' >= Minimum'
        BY <1>1, <3>8, Products DEF CountInv, Minimum
      <4> QED
        BY <1>4, <4>1 DEF InTime
    <3> QED
      BY <3>7, <3>9
  <2> QED
    BY <1>1, <1>3, <2>2 DEF HoldInv
<1> QED
  BY <1>1, <1>5, <1>6 DEF AtIds

\* misconfirm is called when the time is over.
LEMMA CallHold ==
  ASSUME IInv, HoldInv, Call
  PROVE  HoldInv' /\ (confirm /\ ~confirm' /\ ~struck => held >= Minimum)
<1>1. /\ pc = "call" /\ pc' = "clear" /\ confirm' = (confirm /\ vid # "SPI")
      /\ UNCHANGED <<cron, at, queue, vid, counted, held, struck>> /\ CountInv
  BY DEF Call, past, shared, HoldInv
<1>2. CountInv' /\ (confirm' => confirm) /\ (Pending' => Pending)
  BY <1>1 DEF CountInv, Pending
<1>3. confirm /\ ~confirm' => vid = "SPI"
  BY <1>1
<1>4. confirm /\ ~confirm' /\ ~struck => held >= Minimum
  BY <1>1, <1>3 DEF HoldInv, InTime
<1> QED
  BY <1>1, <1>2, <1>4, Kept DEF HoldInv

\* Clearing MENU's entry is not the last thing verify does while CONFIRM is high.
LEMMA ClearHold ==
  ASSUME IInv, HoldInv, Clear
  PROVE  HoldInv'
<1>1. /\ pc = "clear" /\ pc' = "empty" /\ vid' = vid /\ vid \in AtIds
      /\ Typed /\ CountInv
      /\ UNCHANGED <<cron, queue, confirm, counted, held, struck>>
      /\ at' = [at EXCEPT ![vid].on = FALSE]
  BY DEF Clear, IInv, Placed, past, HoldInv
<1>2. /\ at'["SPI"].current = at["SPI"].current /\ at'["SPI"].max = at["SPI"].max
      /\ at'["SPI"].on => at["SPI"].on
  BY <1>1 DEF Typed, AtIds
<1>3. CountInv'
  BY <1>1, <1>2 DEF CountInv
<1>4. Pending' => Pending
  BY <1>1 DEF Pending
<1> QED
  BY <1>1, <1>2, <1>3, <1>4, Kept DEF HoldInv

LEMMA EmptyHold ==
  ASSUME IInv, HoldInv, Empty
  PROVE  HoldInv'
<1>1. /\ pc = "empty" /\ vid \in AtIds /\ CountInv
      /\ UNCHANGED <<at, cron, queue, confirm, counted, held, struck>>
      /\ (pc' = "disable" /\ vid' = vid) \/ NextId
  BY DEF Empty, IInv, Placed, shared, past, HoldInv
<1>2. CountInv'
  BY <1>1 DEF CountInv
<1>3. pc' \in {"disable", "verify", "rest"} /\ (Pending' => Pending)
  BY <1>1 DEF NextId, Pending, AtIds
<1> QED
  BY <1>1, <1>2, <1>3, Kept DEF HoldInv

\* cron_disable: at.c's callback is disabled while CONFIRM is low, another
\* outside of verify.
LEMMA DisableHold ==
  ASSUME IInv, HoldInv, Others, Disable \/ Disable2 \/ Disengage
  PROVE  HoldInv'
<1>1. /\ pc \in {"disable", "disable2", "disengage"} /\ Typed /\ CountInv
      /\ did \in CronIds /\ UNCHANGED <<at, queue, confirm, counted, held, struck>>
      /\ vid \in AtIds \cup {"none"}
  BY DEF Disable, Disable2, Disengage, IInv, Placed, past, HoldInv, Typed
<1>2. \A id \in CronIds :
         /\ cron'[id].on => cron[id].on
         /\ cron'[id].count \in {0, cron[id].count}
  <2>1. CASE Disable
    BY <1>1, <2>1 DEF Disable, Typed
  <2>2. CASE Disable2
    BY <1>1, <2>2 DEF Disable2, Typed
  <2>3. CASE Disengage
    BY <1>1, <2>3 DEF Disengage
  <2> QED
    BY <2>1, <2>2, <2>3
<1>3. CountInv'
  BY <1>1, <1>2 DEF CountInv, CronIds
<1>4. /\ pc' \in {"disable2", "disengage"} \/ Return
      /\ pc = "disengage" => Return
  BY DEF Disable, Disable2, Disengage
<1>5. pc' \notin {"cron", "store", "call"}
  BY <1>4 DEF Return, NextId
<1>6. ~struck /\ confirm /\ Pending' => Pending
  <2>1. SUFFICES ASSUME ~struck, confirm
                 PROVE  ~Pending'
    OBVIOUS
  <2>2. AtServed /\ TimerServed /\ ConfirmServed
    BY <2>1 DEF IInv
  <2>3. ~empty(at) /\ cron["AT"].on
    BY <2>1, <2>2 DEF AtServed, ConfirmServed, empty, AtIds
  <2>4. pc # "disengage" /\ did # "AT"
    BY <1>1, <2>2, <2>3 DEF AtServed, TimerServed, Disabling, is_required, CronIds
  <2>5. vid = "none"
    BY <1>1, <2>4 DEF Others
  <2> QED
    BY <1>4, <1>5, <2>5 DEF Return, Pending
<1> QED
  BY <1>1, <1>2, <1>3, <1>5, <1>6, Kept DEF HoldInv

\* schedule() of the menu: the entry of SPI is left alone.
LEMMA MenuHold ==
  ASSUME IInv, HoldInv, Others, MenuCancel \/ MenuSchedule
  PROVE  HoldInv'
<1>1. /\ Typed /\ CountInv /\ "MENU" \in AtIds /\ vid = "none" /\ vid' = vid
      /\ pc \in {"rest", "schedule"} /\ pc' \in {"disable", "schedule", "counter"}
      /\ UNCHANGED <<queue, confirm, counted, held, struck>>
  BY DEF IInv, HoldInv, Others, Calls, AtIds, MenuCancel, MenuSchedule, past
<1>2. ~Pending'
  BY <1>1 DEF Pending
<1>3. CASE MenuCancel
  <2>1. cron' = cron /\ at'["SPI"] = at["SPI"]
    BY <1>1, <1>3 DEF MenuCancel, Typed, AtIds
  <2>2. CountInv'
    BY <1>1, <2>1 DEF CountInv
  <2> QED
    BY <1>1, <1>2, <2>1, <2>2, Kept DEF HoldInv
<1>4. CASE MenuSchedule
  <2>1. at_schedule("MENU", DELAY_SELECT) /\ held' \in Nat /\ counted' \in Nat
    BY <1>1, <1>4 DEF MenuSchedule, CountInv
  <2>2. /\ CountInv' /\ cron'["AT"].count = 0 /\ cron'["FLUSH"] = cron["FLUSH"]
        /\ at'["SPI"] = at["SPI"]
    BY <1>1, <2>1, ScheduleCounts
  <2>3. \A id \in CronIds : /\ cron'[id].on => cron[id].on \/ cron'[id].count = 0
                            /\ cron'[id].count \in {0, cron[id].count}
    BY <2>2 DEF CronIds
  <2> QED
    BY <1>1, <1>2, <2>2, <2>3, Kept DEF HoldInv
<1> QED
  BY <1>3, <1>4

LEMMA FlushHold ==
  ASSUME IInv, HoldInv, Others, FlushEnable \/ FlushDisable \/ Rest
  PROVE  HoldInv'
<1>1. /\ Typed /\ CountInv /\ vid = "none" /\ vid' = vid
      /\ pc = "rest" /\ pc' \in {"disable", "counter"}
      /\ UNCHANGED <<at, queue, confirm, counted, held, struck>>
  BY DEF IInv, HoldInv, Others, Calls, FlushEnable, FlushDisable, Rest, past, shared
<1>2. ~Pending'
  BY <1>1 DEF Pending
<1>3. /\ cron'["AT"] = cron["AT"]
      /\ cron'["FLUSH"] = cron["FLUSH"] \/ cron'["FLUSH"].count = 0
  BY <1>1 DEF FlushEnable, FlushDisable, Rest, shared, cron_enable, Cron, Typed,
              CronIds
<1>4. CountInv'
  BY <1>1, <1>3 DEF CountInv, CronIds
<1>5. \A id \in CronIds : /\ cron'[id].on => cron[id].on \/ cron'[id].count = 0
                          /\ cron'[id].count \in {0, cron[id].count}
  BY <1>3 DEF CronIds
<1> QED
  BY <1>1, <1>2, <1>4, <1>5, Kept DEF HoldInv

-----------------------------------------------------------------------------
\* CONFIRM is low.
LEMMA HoldInit == Init => Others /\ HoldInv
<1> SUFFICES ASSUME Init PROVE Others /\ HoldInv
  OBVIOUS
<1>1. /\ queue = <<>> /\ pc = "counter" /\ vid = "none" /\ held = 0 /\ ~confirm /\ counted = 0
      /\ \A id \in CronIds : ~cron[id].on /\ cron[id].count = 0
      /\ ~at["SPI"].on /\ at["SPI"].current = 0
  BY DEF Init, Cron, AtIds
<1> QED
  BY <1>1 DEF Others, HoldInv, CountInv, Short, Behind, HeldFor, InTime, CronIds

LEMMA HoldStep == IInv /\ Others /\ HoldInv /\ [Next]_vars => HoldInv'
<1> SUFFICES ASSUME IInv, Others, HoldInv, [Next]_vars PROVE HoldInv'
  OBVIOUS
<1>1. CASE TimerInterrupt
  BY <1>1 DEF TimerInterrupt, shared, past, HoldInv, CountInv, Short, Behind,
     HeldFor, Pending, Reached, Minimum, InTime
<1>2. CASE UNCHANGED vars
  BY <1>2 DEF vars, HoldInv, CountInv, Short, Behind, HeldFor, Pending, Reached,
     Minimum, InTime
<1> QED
  BY <1>1, <1>2, Int3Hold, CounterTryHold, CounterTryInt3Hold, CronTryHold,
     VerifyHold, StoreHold, CallHold, ClearHold, EmptyHold, DisableHold, MenuHold, FlushHold DEF Next, Main

\* Only misconfirm lowers CONFIRM.
LEMMA Lowered ==
  ASSUME [Next]_vars, confirm, ~confirm'
  PROVE  Call
<1>1. CASE Int3 \/ CounterTryInt3
  BY <1>1 DEF Int3, CounterTryInt3
<1>2. CASE UNCHANGED vars
  BY <1>2 DEF vars
<1> QED
  BY <1>1, <1>2 DEF Next, Main, TimerInterrupt, CounterTry, CronTry, Verify,
     Store, Clear, Empty, Disable, Disable2, Disengage, MenuCancel, MenuSchedule, FlushEnable,
     FlushDisable, Rest

\* at.c and cron.c, for all delays of at least two ticks, any hold time, and any
\* order of openings of the menu, starts of the daemon and other callbacks:
\* CONFIRM is held for the hold time, less one tick of at.c, unless INT3 came in
\* a Window.
THEOREM ConfirmIsHeld == Spec => HeldLongEnough
<1> DEFINE Inv == IInv /\ Others /\ HoldInv
<1>1. Init => Inv
  BY InitInv, HoldInit
<1>2. Inv /\ [Next]_vars => Inv'
  BY NextInv, OthersStep, HoldStep
<1>3. Inv /\ [Next]_vars => [confirm /\ ~confirm' /\ ~struck => held >= Minimum]_vars
  BY Lowered, CallHold
<1> QED
  BY <1>1, <1>2, <1>3, PTL DEF Spec, HeldLongEnough
=============================================================================
