------------------------------- MODULE Daemon -------------------------------
(***************************************************************************)
(* The daemon above its mcu thread: handle.cpp (the thread that reacts to  *)
(* messages of the AVR and to statuses of commands), bash.cpp (the thread  *)
(* that starts shell commands, and the callbacks of asio that end them)    *)
(* and the flow of information, which has no timer of its own: the status  *)
(* of one LED array calls for the next ones (info_push).                   *)
(*                                                                         *)
(* The mcu thread, the wire and the AVR are taken together: a message is   *)
(* sent, and its status comes back once (module Session).  Of the menu the *)
(* daemon sees SUSPEND, RESUME and the queries (module Menu).              *)
(***************************************************************************)
EXTENDS Naturals, FiniteSets, SequencesExt

CONSTANTS Numbers,           \* the commands of QUERY_NUMBER messages
          Names,             \* the commands of QUERY_NAME messages
          QUEUE_SIZE_LIMIT,  \* 3
          Arrays,            \* how many LED arrays one text may make
          MaxClocks,         \* bound: lines of the clock stream
          MaxMenus,          \* bound: how often the menu opens
          MaxBehind          \* bound: messages the handle thread is behind

Queries == Numbers \cup Names

\* A text makes at least one LED array and no text is endless; a command is none
\* of the messages.
ASSUME DaemonAssumption ==
  /\ QUEUE_SIZE_LIMIT \in Nat /\ Arrays \subseteq Nat \ {0}
  /\ \E most \in Arrays : \A n \in Arrays : n <= most
  /\ Queries \cap {"none", "CLOCK", "LED", "HANDSHAKE", "VERSION", "SUSPEND",
                   "RESUME", "STATUS", "STATUS_LED"} = {}

VARIABLES
  turn,      \* the queue the handle thread looks at next
  statusq,   \* m_status_queue of the handle thread: [cmd, value]
  fromq,     \* m_from_mcu_queue: kinds of messages, queries by their command
  toq,       \* m_to_mcu_queue, the same with answers by their command
  suspend,   \* m_suspend
  crowded,   \* the last info_push was refused, no LED array being queued
  commandq,  \* m_command_queue of the bash thread
  busy,      \* the command in execute_command, and the step that is next
  timer,     \* a command's timer: "off", "armed", "due" (its callback waits)
  script,    \* ... its process and pipe: "none", "running", "over"
  kept,      \* ... those whose m_popen is set
  map,       \* m_command_map
  reported,  \* commands a status was pushed for
  answers,   \* how often a query was answered to the AVR
  engaged,   \* the message the AVR owes a status for, or "none"
  menu,      \* the AVR's: "off" (not greeted), "closed", "open" or "tag"
  clocks, menus

handle == <<turn, statusq, fromq, toq, suspend, crowded, answers>>
bash == <<commandq, busy, timer, script, kept, map, reported>>
avr == <<engaged, menu>>
vars == <<turn, statusq, fromq, toq, suspend, crowded, answers, commandq, busy,
          timer, script, kept, map, reported, engaged, menu, clocks, menus>>

Idle == [cmd |-> "none", step |-> 1]

\* The commands of the three streams are running already.
Init == /\ turn = "status" /\ statusq = <<>> /\ fromq = <<"VERSION">>
        /\ toq = <<>> /\ suspend = FALSE /\ crowded = FALSE
        /\ answers = [q \in Queries |-> 0]
        /\ commandq = <<>> /\ busy = Idle
        /\ timer = [q \in Queries |-> "off"]
        /\ script = [q \in Queries |-> "none"]
        /\ kept = {} /\ map = {} /\ reported = {}
        /\ engaged = "none" /\ menu = "off" /\ clocks = 0 /\ menus = 0

-----------------------------------------------------------------------------
(* handle_t::start: a status, a message, a status, ...; it waits only while *)
(* both queues are empty.                                                   *)

Awake == statusq # <<>> \/ fromq # <<>>

\* handle_status: only a good status that can be split is answered; a line of
\* the clock stream makes content_t send the time.
HandleStatus_unchecked ==
  /\ turn = "status" /\ Awake /\ turn' = "mcu"
  /\ IF statusq = <<>> THEN UNCHANGED <<statusq, toq, answers>>
     ELSE LET st == Head(statusq)
          IN  /\ statusq' = Tail(statusq)
              /\ toq' = Append(toq, st.cmd)
              /\ answers' = [q \in Queries |->
                              answers[q] + IF st.cmd = q THEN 1 ELSE 0]
  /\ UNCHANGED <<fromq, suspend, crowded, bash, avr, clocks, menus>>
HandleStatus ==
  /\ turn = "status" /\ Awake /\ turn' = "mcu"
  /\ IF statusq = <<>> THEN UNCHANGED <<statusq, toq, answers>>
     ELSE LET st == Head(statusq)
              ok == st.value = "good"
          IN  /\ statusq' = Tail(statusq)
              /\ toq' = IF ok THEN Append(toq, st.cmd) ELSE toq
              /\ answers' = [q \in Queries |->
                              answers[q] + IF ok /\ st.cmd = q THEN 1 ELSE 0]
  /\ UNCHANGED <<fromq, suspend, crowded, bash, avr, clocks, menus>>

HasRoom_always(queue) == TRUE
HasRoom(queue) == Len(queue) < QUEUE_SIZE_LIMIT

\* info_push, with m_suspend and the queue as its caller left them.
info_push(suspended, queue) ==
  IF suspended \/ ~HasRoom(queue)
  THEN /\ toq' = queue
       /\ crowded' = (crowded \/ (~suspended /\ ~Contains(queue, "LED")))
  ELSE /\ \E n \in Arrays : toq' = queue \o [i \in 1 .. n |-> "LED"]
       /\ crowded' = FALSE

\* mcu_suspend, mcu_resume: m_suspend after a message.
Suspended_sticky(m) == m = "SUSPEND" \/ suspend
Suspended(m) == m = "SUSPEND" \/ (suspend /\ m # "RESUME")

\* The messages after which the handlers call info_push.
Pushing_deaf == {"VERSION", "STATUS_LED"}
Pushing == {"VERSION", "STATUS_LED", "RESUME"}

\* handle_mcu.  (PARAM_SET, POWEROFF and REBOOT issue commands without answer
\* and are left out.)
HandleMcu ==
  /\ turn = "mcu" /\ Awake /\ turn' = "status"
  /\ IF fromq = <<>>
     THEN UNCHANGED <<fromq, toq, suspend, crowded, commandq>>
     ELSE LET m == Head(fromq)
              queue == IF m = "VERSION" THEN Append(toq, "HANDSHAKE") ELSE toq
          IN  /\ fromq' = Tail(fromq)
              /\ suspend' = Suspended(m)
              /\ commandq' = IF m \in Queries THEN Append(commandq, m)
                                              ELSE commandq
              /\ IF m \in Pushing THEN info_push(Suspended(m), queue)
                 ELSE UNCHANGED <<toq, crowded>>
  /\ UNCHANGED <<statusq, answers, busy, timer, script, kept, map, reported,
                 avr, clocks, menus>>

-----------------------------------------------------------------------------
(* The bash thread: execute_command for one command after the other.       *)

BashPop ==
  /\ busy = Idle /\ commandq # <<>>
  /\ commandq' = Tail(commandq)
  /\ busy' = [cmd |-> Head(commandq), step |-> 1]
  /\ UNCHANGED <<handle, timer, script, kept, map, reported, avr, clocks, menus>>

\* The order of execute_command: the timer is started, the command is put into
\* the map, the process is started and read, the command gets it.
Steps_late == <<"timer", "popen", "insert", "keep">>
Steps == <<"timer", "insert", "popen", "keep">>

BashStep ==
  LET q == busy.cmd
      step == Steps[busy.step]
  IN  /\ busy # Idle
      /\ timer'  = IF step = "timer" THEN [timer EXCEPT ![q] = "armed"] ELSE timer
      /\ map'    = IF step = "insert" THEN map \cup {q} ELSE map
      /\ script' = IF step = "popen" THEN [script EXCEPT ![q] = "running"]
                                     ELSE script
      /\ kept'   = IF step = "keep" THEN kept \cup {q} ELSE kept
      /\ busy'   = IF busy.step = Len(Steps) THEN Idle
                                             ELSE [busy EXCEPT !.step = @ + 1]
      /\ UNCHANGED <<handle, commandq, reported, avr, clocks, menus>>

-----------------------------------------------------------------------------
(* The callbacks of asio, in a thread of their own.                        *)

\* A status is pushed and the command leaves the map.
Report(q, value) ==
  /\ statusq' = Append(statusq, [cmd |-> q, value |-> value])
  /\ reported' = reported \cup {q}
  /\ map' = map \ {q}

\* What popen_t reads from the script up to the end of the pipe: "status: 0" or
\* another status, or none.  It counts if the command has its popen by now; an
\* output that handle_status cannot split is bad as well.
Outcomes(q) == IF q \in kept THEN {"good", "bad"} ELSE {"bad"}

\* The pipe ends (handle_read, clot_error): the timer is cancelled, which does
\* not stop a callback that is due already.
Eof(q) ==
  /\ script[q] = "running"
  /\ script' = [script EXCEPT ![q] = "over"]
  /\ timer' = [timer EXCEPT ![q] = IF @ = "armed" THEN "off" ELSE @]
  /\ \E value \in Outcomes(q) : Report(q, value)
  /\ UNCHANGED <<turn, fromq, toq, suspend, crowded, answers, commandq, busy,
                 kept, avr, clocks, menus>>

Expire(q) ==
  /\ timer[q] = "armed"
  /\ timer' = [timer EXCEPT ![q] = "due"]
  /\ UNCHANGED <<handle, commandq, busy, script, kept, map, reported, avr,
                 clocks, menus>>

\* timeout: the process is not stopped.
Timeout_silent(q) ==
  /\ timer[q] = "due"
  /\ timer' = [timer EXCEPT ![q] = "off"]
  /\ map' = map \ {q}
  /\ UNCHANGED <<handle, commandq, busy, script, kept, reported, avr, clocks,
                 menus>>
Timeout(q) ==
  /\ timer[q] = "due"
  /\ timer' = [timer EXCEPT ![q] = "off"]
  /\ Report(q, "timeout")
  /\ UNCHANGED <<turn, fromq, toq, suspend, crowded, answers, commandq, busy,
                 script, kept, avr, clocks, menus>>

\* A line of the clock stream (stream_info).
StreamClock ==
  /\ clocks < MaxClocks /\ clocks' = clocks + 1
  /\ statusq' = Append(statusq, [cmd |-> "CLOCK", value |-> "good"])
  /\ UNCHANGED <<turn, fromq, toq, suspend, crowded, answers, bash, avr, menus>>

-----------------------------------------------------------------------------
(* The mcu thread and the AVR.                                             *)

\* mcu_handle_t::start: the next message, when no status is awaited; the
\* handshake has none.
McuSend ==
  /\ engaged = "none" /\ toq # <<>>
  /\ toq' = Tail(toq)
  /\ IF Head(toq) = "HANDSHAKE" THEN menu' = "closed" /\ UNCHANGED engaged
                                ELSE engaged' = Head(toq) /\ UNCHANGED menu
  /\ UNCHANGED <<turn, statusq, fromq, suspend, crowded, answers, bash, clocks,
                 menus>>

\* The display is slower than the handle thread, and the display's credit paces
\* what comes from the AVR.
AvrSends(messages) ==
  /\ Len(fromq) < MaxBehind
  /\ fromq' = fromq \o messages
  /\ UNCHANGED <<turn, statusq, toq, suspend, crowded, answers, bash, clocks>>

\* decode() of the AVR; a name may make the menu show it.
McuStatus ==
  /\ engaged # "none" /\ engaged' = "none"
  /\ \/ /\ engaged \in Names /\ menu # "tag" /\ menu' = "tag"
        /\ AvrSends(<<"RESUME", "STATUS">>)
     \/ /\ AvrSends(<<IF engaged = "LED" THEN "STATUS_LED" ELSE "STATUS">>)
        /\ UNCHANGED menu
  /\ UNCHANGED menus

MenuOpens ==
  /\ menu = "closed" /\ menus < MaxMenus
  /\ menu' = "open" /\ menus' = menus + 1
  /\ AvrSends(<<"SUSPEND">>) /\ UNCHANGED engaged

MenuLeavesTag ==
  /\ menu = "tag" /\ menu' = "open"
  /\ AvrSends(<<"SUSPEND">>) /\ UNCHANGED <<engaged, menus>>

\* What was chosen is sent before RESUME; it does not touch the flow.
MenuCloses ==
  /\ menu \in {"open", "tag"} /\ menu' = "closed"
  /\ AvrSends(IF menu = "tag" THEN <<"SUSPEND", "RESUME">> ELSE <<"RESUME">>)
  /\ UNCHANGED <<engaged, menus>>

\* Each command of Queries stands for one query.
Asked == {q \in Queries : \/ Contains(fromq, q) \/ Contains(commandq, q)
                          \/ busy.cmd = q \/ script[q] # "none"}
Ask(q) == /\ menu = "open" /\ q \notin Asked
          /\ AvrSends(<<q>>) /\ UNCHANGED <<avr, menus>>

Next == \/ HandleStatus \/ HandleMcu \/ BashPop \/ BashStep
        \/ \E q \in Queries : Eof(q) \/ Expire(q) \/ Timeout(q) \/ Ask(q)
        \/ StreamClock \/ McuSend \/ McuStatus
        \/ MenuOpens \/ MenuLeavesTag \/ MenuCloses

Spec == Init /\ [][Next]_vars

\* The threads run and timers expire; a script may hang, and nobody has to
\* open the menu.
FairSpec == /\ Spec
            /\ WF_vars(HandleStatus) /\ WF_vars(HandleMcu)
            /\ WF_vars(BashPop) /\ WF_vars(BashStep)
            /\ \A q \in Queries : WF_vars(Expire(q)) /\ WF_vars(Timeout(q))
            /\ WF_vars(McuSend) /\ WF_vars(McuStatus)

-----------------------------------------------------------------------------
Kinds == {"LED", "HANDSHAKE", "CLOCK"} \cup Queries

\* The queues carry what their consumers know, and a command has a popen only
\* when its process was started.
TypeOK ==
  /\ turn \in {"status", "mcu"}
  /\ \A i \in 1 .. Len(statusq) :
       statusq[i] \in [cmd : Queries \cup {"CLOCK"},
                       value : {"good", "bad", "timeout"}]
  /\ ToSet(fromq) \subseteq {"VERSION", "SUSPEND", "RESUME", "STATUS",
                             "STATUS_LED"} \cup Queries
  /\ ToSet(toq) \subseteq Kinds /\ engaged \in (Kinds \cup {"none"})
  /\ timer \in [Queries -> {"off", "armed", "due"}]
  /\ script \in [Queries -> {"none", "running", "over"}]
  /\ \A q \in kept : script[q] # "none"
  /\ menu \in {"off", "closed", "open", "tag"}
  /\ suspend \in BOOLEAN /\ crowded \in BOOLEAN

\* bash.cpp, line 76, "insert cmd before creating popen": whatever is in the
\* map still has a callback to come that takes it out.
NothingForgotten ==
  \A q \in map : \/ timer[q] # "off" \/ script[q] = "running"
                 \/ busy.cmd = q

\* A query is answered at most once, although a command may report twice, its
\* timeout and its end.
AnsweredOnce == \A q \in Queries : answers[q] <= 1

\* The flow of information feeds itself: unless the AVR has suspended it, an
\* LED array or the message that calls for the next one is on its way.  It
\* ends in one case only, when info_push finds QUEUE_SIZE_LIMIT messages
\* waiting that are no LED arrays.
FlowAlive ==
  \/ suspend \/ crowded \/ Contains(toq, "LED") \/ engaged = "LED"
  \/ Pushing \cap ToSet(fromq) # {}

\* However often STATUS, RESUME and VERSION come together, the queue to the AVR
\* never holds more LED arrays than the limit and one text.
ArraysBounded ==
  Cardinality({i \in 1 .. Len(toq) : toq[i] = "LED"})
    <= QUEUE_SIZE_LIMIT - 1 + (CHOOSE n \in Arrays : \A k \in Arrays : k <= n)

\* When the daemon has read what the AVR sent, both agree on the suspension.
SuspendAgrees ==
  {"SUSPEND", "RESUME"} \cap ToSet(fromq) = {} => suspend = (menu = "open")

\* Every command that is issued is reported, also when its script hangs.
EveryCommandReported ==
  \A q \in Queries : Contains(commandq, q) ~> q \in reported

\* LED arrays reach the AVR again and again while nothing suspends the flow.
FlowGoesOn == []<>(engaged = "LED" \/ suspend \/ crowded)
=============================================================================
