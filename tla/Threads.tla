------------------------------ MODULE Threads ------------------------------
(***************************************************************************)
(* The life of the three threads of the daemon: pi/base.cpp and led-d.cpp  *)
(* start and stop them, handle.cpp, bash.cpp and mcu-handle.cpp go round   *)
(* until m_go is false and sleep on a condition when they have nothing to  *)
(* do, and util/condition-queue.hpp wakes them.                            *)
(*                                                                         *)
(* Every thread has a mutex and a condition of its own, which all queues   *)
(* it reads from share.  Messages are counted, what is in them decides     *)
(* nothing here.  A thread holds its mutex for longer than one step where  *)
(* it has found its queues empty and is about to wait ("checked").         *)
(*                                                                         *)
(* stop() sets m_go and notifies.  The history variable `gap' keeps the    *)
(* threads that were then on their way from the test of m_go to the wait:  *)
(* they go to sleep after the only notice they were ever to get.           *)
(***************************************************************************)
EXTENDS Integers, Sequences

CONSTANT MaxWaiting   \* bound: messages in all queues

VARIABLES
  at,        \* the main thread: the index in Program, or "end"
  pc,        \* the three threads
  go,        \* m_go of each
  queue,     \* how many messages each queue holds
  rised,     \* m_interrupt_rised
  engaged,   \* m_block
  open,      \* m_device
  notified,  \* history: the threads stop() has notified
  gap        \* history: those of them that were between test and wait

vars == <<at, pc, go, queue, rised, engaged, open, notified, gap>>
kept == <<at, go, notified, gap>>

Threads == {"handle", "bash", "mcu"}

\* Who reads from a queue.
Reader == [status |-> "handle", from_mcu |-> "handle", command |-> "bash",
           edges |-> "mcu", to_mcu |-> "mcu"]
Queues == DOMAIN Reader

\* base_t::start, context.run (), and base_t::stop.
Op(do, t) == [do |-> do, t |-> t]
Program_unlocked == <<
  Op("create", "handle"), Op("create", "bash"), Op("create", "mcu"),
  Op("run", "handle"),
  Op("clear", "handle"), Op("notify", "handle"),
  Op("clear", "bash"), Op("notify", "bash"),
  Op("clear", "mcu"), Op("close", "mcu"), Op("notify", "mcu"),
  Op("join", "handle"), Op("join", "bash"), Op("join", "mcu") >>
Program == <<
  Op("create", "handle"), Op("create", "bash"), Op("create", "mcu"),
  Op("run", "handle"),
  Op("clear", "handle"), Op("notify", "handle"),
  Op("clear", "bash"), Op("lock", "bash"), Op("notify", "bash"),
  Op("clear", "mcu"), Op("close", "mcu"), Op("notify", "mcu"),
  Op("join", "handle"), Op("join", "bash"), Op("join", "mcu") >>

Run  == 4
Stop == Run + 1
End  == Len(Program) + 1

Init == /\ at = 1
        /\ pc = [t \in Threads |-> "none"]
        /\ go = [t \in Threads |-> TRUE]
        /\ queue = [q \in Queues |-> 0]
        /\ rised = FALSE /\ engaged = FALSE /\ open = FALSE
        /\ notified = {} /\ gap = {}

-----------------------------------------------------------------------------
(* condition_queue_t.                                                      *)

\* notify_one: every condition has one thread that may wait on it.
Woken(p, t) == IF p[t] = "asleep" THEN [p EXCEPT ![t] = "awake"] ELSE p

\* push needs the mutex, and notifies if the queue was empty.
Waiting == queue["status"] + queue["from_mcu"] + queue["command"]
           + queue["edges"] + queue["to_mcu"]
CanPush(q) == pc[Reader[q]] # "checked" /\ Waiting < MaxWaiting
Pushed_quiet(p, n, q) ==
  IF n[q] = 0 /\ q # "from_mcu" THEN Woken(p, Reader[q]) ELSE p
Pushed(p, n, q) == IF n[q] = 0 THEN Woken(p, Reader[q]) ELSE p

\* The thread t goes on to `next', after it has taken from `n', and may have
\* pushed to one of the queues qs.
GoOn(t, next, n, qs) ==
  LET p == [pc EXCEPT ![t] = next]
  IN  \/ pc' = p /\ queue' = n
      \/ \E q \in qs : /\ CanPush(q)
                       /\ pc' = Pushed(p, n, q)
                       /\ queue' = [n EXCEPT ![q] = @ + 1]

Pop(q) == [queue EXCEPT ![q] = @ - 1]

-----------------------------------------------------------------------------
(* All threads.                                                            *)

Begin(t) == pc' = [pc EXCEPT ![t] = "test"]

\* while (m_go.load () == true)
Test(t) ==
  /\ pc[t] = "test"
  /\ pc' = [pc EXCEPT ![t] = IF go[t] THEN "look" ELSE "ended"]
  /\ UNCHANGED <<kept, queue, rised, engaged, open>>

\* m_condition.wait (lock): the mutex is released and the thread sleeps.
Wait(t) ==
  /\ pc[t] = "checked"
  /\ pc' = [pc EXCEPT ![t] = "asleep"]
  /\ UNCHANGED <<kept, queue, rised, engaged, open>>

\* A condition may wake a thread for no reason.
Spurious(t) ==
  /\ pc[t] = "asleep"
  /\ pc' = [pc EXCEPT ![t] = "awake"]
  /\ UNCHANGED <<kept, queue, rised, engaged, open>>

-----------------------------------------------------------------------------
(* handle_t::start.                                                        *)

\* Two pops.  What is taken is answered with commands and messages.
HandleTake(q, here, next) ==
  /\ pc["handle"] = here
  /\ IF queue[q] = 0 THEN GoOn("handle", next, queue, {})
                     ELSE GoOn("handle", next, Pop(q), {"command", "to_mcu"})
  /\ UNCHANGED <<kept, rised, engaged, open>>

HandleCheck ==
  /\ pc["handle"] = "check"
  /\ pc' = [pc EXCEPT !["handle"] =
              IF queue["status"] = 0 /\ queue["from_mcu"] = 0 THEN "checked" ELSE "test"]
  /\ UNCHANGED <<kept, queue, rised, engaged, open>>

HandleAwake ==
  /\ pc["handle"] = "awake"
  /\ pc' = [pc EXCEPT !["handle"] = "test"]
  /\ UNCHANGED <<kept, queue, rised, engaged, open>>

Handle == \/ HandleTake("status", "look", "look2")
          \/ HandleTake("from_mcu", "look2", "check")
          \/ HandleCheck \/ HandleAwake

-----------------------------------------------------------------------------
(* bash_t::start.  Three commands are waiting when it starts; commands are *)
(* executed by the main thread, so that none reports after context.run ().  *)

\* pop<true>
BashTake(here, otherwise) ==
  /\ pc["bash"] = here
  /\ IF queue["command"] > 0 THEN GoOn("bash", "test", Pop("command"), {})
                             ELSE GoOn("bash", otherwise, queue, {})
  /\ UNCHANGED <<kept, rised, engaged, open>>

Bash == BashTake("look", "checked") \/ BashTake("awake", "test")

-----------------------------------------------------------------------------
(* mcu_handle_t::start.                                                    *)

\* write_msg, after which the thread goes to `next': without a device there is
\* no answer.  Message and IDLE alike may bring what the AVR has to say.
Write(message, next, n) ==
  \/ /\ engaged' = (engaged \/ message)
     /\ GoOn("mcu", next, n, {})
  \/ /\ open
     /\ engaged' \in {engaged \/ message, FALSE}
     /\ GoOn("mcu", next, n, {"from_mcu"})

\* 1. an IDLE while the line is high, and the next edge
McuWrite ==
  /\ pc["mcu"] = "look"
  /\ IF rised THEN Write(FALSE, "look2", queue)
              ELSE GoOn("mcu", "look2", queue, {}) /\ UNCHANGED engaged
  /\ UNCHANGED <<kept, rised, open>>

McuEdge ==
  /\ pc["mcu"] = "look2"
  /\ \/ queue["edges"] = 0 /\ UNCHANGED <<queue, rised>>
     \/ queue["edges"] > 0 /\ queue' = Pop("edges") /\ rised' \in BOOLEAN
  /\ pc' = [pc EXCEPT !["mcu"] = IF rised' THEN "test" ELSE "check"]
  /\ UNCHANGED <<kept, engaged, open>>

\* 2. nothing to do?
McuIdle_blind == queue["edges"] = 0 /\ (engaged \/ queue["to_mcu"] = 0)
McuIdle == go["mcu"] /\ queue["edges"] = 0 /\ (engaged \/ queue["to_mcu"] = 0)
McuCheck ==
  /\ pc["mcu"] = "check"
  /\ pc' = [pc EXCEPT !["mcu"] = IF McuIdle THEN "checked" ELSE "send"]
  /\ UNCHANGED <<kept, queue, rised, engaged, open>>

McuAwake ==
  /\ pc["mcu"] = "awake"
  /\ pc' = [pc EXCEPT !["mcu"] = "test"]
  /\ UNCHANGED <<kept, queue, rised, engaged, open>>

\* 3. a message, if none is under way
McuSend ==
  /\ pc["mcu"] = "send"
  /\ IF engaged \/ queue["to_mcu"] = 0
     THEN GoOn("mcu", "test", queue, {}) /\ UNCHANGED engaged
     ELSE Write(TRUE, "test", Pop("to_mcu"))
  /\ UNCHANGED <<kept, rised, open>>

Mcu == McuWrite \/ McuEdge \/ McuCheck \/ McuAwake \/ McuSend

-----------------------------------------------------------------------------
(* The main thread.                                                        *)

Now(do) == at < End /\ Program[at].do = do
Whom == Program[at].t

\* std::thread, and what the thread does before its loop.  A thread that cannot
\* be created makes start() stop those there are.
Create ==
  /\ Now("create")
  /\ \/ /\ at' = at + 1 /\ Begin(Whom)
        /\ queue' = IF Whom = "bash" THEN [queue EXCEPT !["command"] = 3] ELSE queue
        /\ open' = (open \/ Whom = "mcu")
     \/ at' = Stop /\ UNCHANGED <<pc, queue, open>>
  /\ UNCHANGED <<go, rised, engaged, notified, gap>>

\* context.run (): scripts bring statuses, the line brings edges ...
Callback ==
  /\ Now("run")
  /\ \E q \in {"status", "edges"} :
       CanPush(q) /\ pc' = Pushed(pc, queue, q) /\ queue' = [queue EXCEPT ![q] = @ + 1]
  /\ UNCHANGED <<kept, rised, engaged, open>>

\* ... until a signal.
Signal ==
  /\ Now("run") /\ at' = Stop
  /\ UNCHANGED <<pc, go, queue, rised, engaged, open, notified, gap>>

Clear ==
  /\ Now("clear") /\ at' = at + 1
  /\ go' = [go EXCEPT ![Whom] = FALSE]
  /\ UNCHANGED <<pc, queue, rised, engaged, open, notified, gap>>

\* spi_dev_t::stop
Close ==
  /\ Now("close") /\ at' = at + 1 /\ open' = FALSE
  /\ UNCHANGED <<pc, go, queue, rised, engaged, notified, gap>>

\* Where m_go has been read as true and the wait is still to come; mcu_handle_t
\* reads it again under its mutex.
BeforeWait(t) == CASE t = "handle" -> {"look", "look2", "check", "checked"}
                   [] t = "bash"   -> {"look"}
                   [] t = "mcu"    -> {"checked"}

\* notify_one<true> of bash takes the mutex and releases it again at once.
Lock ==
  /\ Now("lock") /\ at' = at + 1
  /\ pc[Whom] # "checked"
  /\ gap' = IF pc[Whom] \in BeforeWait(Whom) THEN gap \cup {Whom} ELSE gap
  /\ UNCHANGED <<pc, go, queue, rised, engaged, open, notified>>

Notify ==
  /\ Now("notify") /\ at' = at + 1
  /\ pc' = Woken(pc, Whom)
  /\ notified' = notified \cup {Whom}
  /\ gap' = IF Whom # "bash" /\ pc[Whom] \in BeforeWait(Whom)
            THEN gap \cup {Whom} ELSE gap
  /\ UNCHANGED <<go, queue, rised, engaged, open>>

\* A thread that was never created is not joinable.
Join ==
  /\ Now("join") /\ at' = at + 1
  /\ pc[Whom] \in {"none", "ended"}
  /\ UNCHANGED <<pc, go, queue, rised, engaged, open, notified, gap>>

Main == Create \/ Clear \/ Close \/ Lock \/ Notify \/ Join

Ended == at = End /\ UNCHANGED vars

Each == Handle \/ Bash \/ Mcu \/ \E t \in Threads : Test(t) \/ Wait(t)
Next == \/ Main \/ Callback \/ Signal \/ Each \/ Ended
        \/ \E t \in Threads : Spurious(t)

Spec == Init /\ [][Next]_vars

\* The three threads and the main thread run; nobody has to send a signal, and
\* a condition need not wake anybody for no reason.
FairSpec ==
  /\ Spec /\ WF_vars(Main)
  /\ WF_vars(Handle \/ Test("handle") \/ Wait("handle"))
  /\ WF_vars(Bash \/ Test("bash") \/ Wait("bash"))
  /\ WF_vars(Mcu \/ Test("mcu") \/ Wait("mcu"))

-----------------------------------------------------------------------------
\* The queues are never popped empty; places and threads are those of the code.
TypeOK ==
  /\ at \in 1 .. End
  /\ pc \in [Threads -> {"none", "test", "look", "look2", "check", "checked",
                         "asleep", "awake", "send", "ended"}]
  /\ go \in [Threads -> BOOLEAN]
  /\ queue \in [Queues -> Nat]
  /\ rised \in BOOLEAN /\ engaged \in BOOLEAN /\ open \in BOOLEAN
  /\ notified \subseteq Threads /\ gap \subseteq Threads

\* base.cpp, stop, against the three loops: a thread that sleeps after stop()
\* has notified it was between its test of m_go and its wait when that notice
\* came.  For mcu_handle_t, which tests again under its mutex, only the moment
\* before the wait is left; for bash_t, whose mutex the notice takes, only the
\* moment before pop.
SleepsInGapOnly ==
  \A t \in notified : pc[t] = "asleep" => t \in gap

\* condition_queue_t::push notifies only a queue that was empty, and two queues
\* share a condition: still, nobody sleeps over a message it would take.
NoSleepOverWork ==
  /\ pc["handle"] = "asleep" => queue["status"] = 0 /\ queue["from_mcu"] = 0
  /\ pc["bash"] = "asleep" => queue["command"] = 0
  /\ pc["mcu"] = "asleep" => /\ queue["edges"] = 0
                             /\ engaged \/ queue["to_mcu"] = 0

\* base.cpp, start and stop: once start() has failed or a signal has come, the
\* threads end and the daemon exits, unless the notice fell into a gap.
StopEnds == at >= Stop ~> at = End \/ gap # {}
=============================================================================
