--------------------------- MODULE ThreadsProofs ----------------------------
(***************************************************************************)
(* For any number of waiting messages: no thread of the daemon sleeps over *)
(* work, and a thread that sleeps after stop() has notified it was between *)
(* its test of m_go and its wait when the notice came.                     *)
(***************************************************************************)
EXTENDS Threads, TLAPS

Places == {"none", "test", "look", "look2", "check", "checked", "asleep",
           "awake", "send", "ended"}

\* What stop() has done before the main thread is where it is: m_go is cleared
\* before the notice, and who was notified was notified at its operation.
StopOrder ==
  /\ at > 5  => ~go["handle"]
  /\ at > 7  => ~go["bash"]
  /\ at > 10 => ~go["mcu"]
  /\ "handle" \in notified => at > 6
  /\ "bash" \in notified => at > 9
  /\ "mcu" \in notified => at > 12

\* Where a thread that does not test m_go any more is, before it sleeps.
Doomed(t) == CASE t = "handle" -> {"look", "look2", "check", "checked", "asleep"}
               [] t = "bash"   -> {"look", "checked", "asleep"}
               [] t = "mcu"    -> {"checked", "asleep"}

\* Such a thread is in the gap once it has been notified; for bash the notice
\* begins with the mutex.
DoomedInGap ==
  /\ \A t \in notified : pc[t] \in Doomed(t) => t \in gap
  /\ at > 8 /\ pc["bash"] \in {"look", "checked"} => "bash" \in gap

\* What a thread takes when it has not found anything.
NothingFor(t) ==
  CASE t = "handle" -> queue["status"] = 0 /\ queue["from_mcu"] = 0
    [] t = "bash"   -> queue["command"] = 0
    [] t = "mcu"    -> queue["edges"] = 0 /\ (engaged \/ queue["to_mcu"] = 0)

\* No message comes between the test under the mutex and the wait.
EmptyHanded ==
  \A t \in Threads : pc[t] \in {"checked", "asleep"} => NothingFor(t)

IInv == TypeOK /\ StopOrder /\ DoomedInGap /\ EmptyHanded

-----------------------------------------------------------------------------
(* The queues.                                                             *)

\* Every queue has one of the threads as its reader.
LEMMA QueueFacts ==
  /\ Queues = {"status", "from_mcu", "command", "edges", "to_mcu"}
  /\ \A q \in Queues : Reader[q] \in Threads
  /\ Reader["status"] = "handle" /\ Reader["from_mcu"] = "handle"
  /\ Reader["command"] = "bash"
  /\ Reader["edges"] = "mcu" /\ Reader["to_mcu"] = "mcu"
BY DEF Queues, Reader, Threads

\* What happens to the threads other than t: nothing, or a notice.
Disturbed(p, p2, t) ==
  \A u \in Threads \ {t} : p2[u] = p[u] \/ (p[u] = "asleep" /\ p2[u] = "awake")

\* Nobody who is still waiting finds his empty queues filled.
Undisturbed(p2, n, n2, S) ==
  \A u \in S : p2[u] \in {"checked", "asleep"} =>
    \A q \in Queues : Reader[q] = u /\ n[q] = 0 => n2[q] = 0

\* condition_queue_t::push, which notifies when the queue was empty.
LEMMA PushEffect ==
  ASSUME NEW p \in [Threads -> Places], NEW n \in [Queues -> Nat],
         NEW q \in Queues, p[Reader[q]] # "checked"
  PROVE  LET p2 == Pushed(p, n, q)
             n2 == [n EXCEPT ![q] = @ + 1]
         IN  /\ p2 \in [Threads -> Places] /\ n2 \in [Queues -> Nat]
             /\ \A u \in Threads :
                  p2[u] = p[u] \/ (p[u] = "asleep" /\ p2[u] = "awake")
             /\ Undisturbed(p2, n, n2, Threads)
<1> DEFINE p2 == Pushed(p, n, q)
           n2 == [n EXCEPT ![q] = @ + 1]
<1>1. Reader[q] \in Threads
  BY QueueFacts
<1>2. /\ p2 \in [Threads -> Places]
      /\ \A u \in Threads : p2[u] = p[u] \/ (p[u] = "asleep" /\ p2[u] = "awake")
      /\ n[q] = 0 => p2[Reader[q]] # "asleep"
  BY <1>1 DEF Pushed, Woken, Places
<1>3. n2 \in [Queues -> Nat] /\ \A r \in Queues \ {q} : n2[r] = n[r]
  OBVIOUS
<1>4. p2[Reader[q]] # "checked"
  BY <1>1, <1>2
<1>5. Undisturbed(p2, n, n2, Threads)
  <2> SUFFICES ASSUME NEW u \in Threads, p2[u] \in {"checked", "asleep"},
                      NEW r \in Queues, Reader[r] = u, n[r] = 0
               PROVE  n2[r] = 0
    BY DEF Undisturbed
  <2>1. r # q
    BY <1>2, <1>4
  <2> QED
    BY <2>1, <1>3
<1> QED
  BY <1>2, <1>3, <1>5

\* A thread goes on, and may have pushed to a queue on the way.
LEMMA GoOnEffect ==
  ASSUME NEW t \in Threads, NEW next \in Places \ {"asleep"},
         NEW n \in [Queues -> Nat], NEW qs \in SUBSET Queues,
         next = "checked" => qs = {},
         pc \in [Threads -> Places], GoOn(t, next, n, qs)
  PROVE  /\ pc' \in [Threads -> Places] /\ queue' \in [Queues -> Nat]
         /\ pc'[t] = next
         /\ Disturbed(pc, pc', t)
         /\ Undisturbed(pc', n, queue', Threads)
<1> DEFINE p == [pc EXCEPT ![t] = next]
<1>1. p \in [Threads -> Places] /\ p[t] = next
      /\ \A u \in Threads \ {t} : p[u] = pc[u]
  OBVIOUS
<1>2. CASE pc' = p /\ queue' = n
  BY <1>1, <1>2 DEF Disturbed, Undisturbed
<1>3. CASE \E q \in qs : /\ CanPush(q) /\ pc' = Pushed(p, n, q)
                         /\ queue' = [n EXCEPT ![q] = @ + 1]
  <2>1. PICK q \in qs : /\ CanPush(q) /\ pc' = Pushed(p, n, q)
                        /\ queue' = [n EXCEPT ![q] = @ + 1]
    BY <1>3
  <2>2. Reader[q] \in Threads /\ q \in Queues
    BY QueueFacts
  <2>3. p[Reader[q]] # "checked"
    BY <2>1, <2>2, <1>1 DEF CanPush
  <2> DEFINE p2 == Pushed(p, n, q)
             n2 == [n EXCEPT ![q] = @ + 1]
  <2> HIDE DEF p
  <2>4. /\ p2 \in [Threads -> Places] /\ n2 \in [Queues -> Nat]
        /\ \A u \in Threads : p2[u] = p[u] \/ (p[u] = "asleep" /\ p2[u] = "awake")
        /\ Undisturbed(p2, n, n2, Threads)
    BY <2>2, <2>3, <1>1, PushEffect
  <2>5. pc' = p2 /\ queue' = n2
    BY <2>1
  <2> HIDE DEF p2, n2
  <2>6. /\ pc' \in [Threads -> Places] /\ queue' \in [Queues -> Nat]
        /\ \A u \in Threads :
             pc'[u] = p[u] \/ (p[u] = "asleep" /\ pc'[u] = "awake")
        /\ Undisturbed(pc', n, queue', Threads)
    BY <2>4, <2>5
  <2>7. pc'[t] = next
    BY <2>6, <1>1
  <2>8. Disturbed(pc, pc', t)
    BY <2>6, <1>1 DEF Disturbed
  <2> QED
    BY <2>6, <2>7, <2>8
<1> QED
  BY <1>2, <1>3 DEF GoOn

-----------------------------------------------------------------------------
(* A step of a thread.                                                     *)

\* What the steps of the thread t have in common: the main thread stands still,
\* nobody begins to ignore m_go who has not read it as true, and who waits, or
\* is about to, has nothing to take.
ThreadStep(t) ==
  /\ UNCHANGED kept
  /\ pc' \in [Threads -> Places] /\ queue' \in [Queues -> Nat]
  /\ rised' \in BOOLEAN /\ engaged' \in BOOLEAN /\ open' \in BOOLEAN
  /\ Disturbed(pc, pc', t)
  /\ pc'[t] \in Doomed(t) => pc[t] \in Doomed(t) \/ go[t]
  /\ t = "bash" /\ pc'[t] \in {"look", "checked"} =>
       pc[t] \in {"look", "checked"} \/ go[t]
  /\ EmptyHanded'

LEMMA ThreadStepPreserves ==
  ASSUME IInv, NEW t \in Threads, ThreadStep(t)
  PROVE  IInv'
<1> USE DEF IInv
<1>1. /\ TypeOK' /\ StopOrder' /\ EmptyHanded'
  BY DEF ThreadStep, TypeOK, kept, StopOrder, Places
<1>2. \A u \in Threads : u \in notified => ~go[u]
  BY DEF StopOrder, Threads, TypeOK, End, Program
<1>3. ASSUME NEW u \in notified', pc'[u] \in Doomed(u)
      PROVE  u \in gap'
  <2>1. u \in notified /\ u \in Threads /\ gap' = gap
    BY DEF ThreadStep, kept, TypeOK
  <2>2. CASE u = t
    BY <2>1, <2>2, <1>2, <1>3 DEF ThreadStep, DoomedInGap
  <2>3. CASE u # t
    <3>1. "awake" \notin Doomed(u)
      BY <2>1 DEF Doomed, Threads
    <3>2. pc'[u] = pc[u]
      BY <3>1, <2>1, <2>3, <1>3 DEF ThreadStep, Disturbed
    <3> QED
      BY <3>2, <2>1, <1>3 DEF DoomedInGap
  <2> QED
    BY <2>2, <2>3
<1>4. ASSUME at' > 8, pc'["bash"] \in {"look", "checked"}
      PROVE  "bash" \in gap'
  <2>1. at' = at /\ gap' = gap /\ at \in Nat
    BY DEF ThreadStep, kept, TypeOK, End, Program
  <2>2. ~go["bash"]
    BY <2>1, <1>4 DEF StopOrder
  <2>3. pc["bash"] \in {"look", "checked"}
    <3>1. CASE t = "bash"
      BY <3>1, <2>2, <1>4 DEF ThreadStep
    <3>2. CASE t # "bash"
      BY <3>2, <1>4 DEF ThreadStep, Disturbed, Threads
    <3> QED
      BY <3>1, <3>2
  <2> QED
    BY <2>1, <2>3, <1>4 DEF DoomedInGap
<1> QED
  BY <1>1, <1>3, <1>4 DEF DoomedInGap

\* The threads other than t stay empty-handed, if t takes from its own queues
\* and what it pushes wakes who waits for it.
LEMMA OthersEmptyHanded ==
  ASSUME IInv, NEW t \in Threads, NEW n \in [Queues -> Nat],
         \A q \in Queues : Reader[q] # t => n[q] = queue[q],
         Disturbed(pc, pc', t), Undisturbed(pc', n, queue', Threads),
         t # "mcu" => engaged' = engaged
  PROVE  \A u \in Threads \ {t} :
           pc'[u] \in {"checked", "asleep"} => NothingFor(u)'
<1> SUFFICES ASSUME NEW u \in Threads \ {t}, pc'[u] \in {"checked", "asleep"}
             PROVE  NothingFor(u)'
  OBVIOUS
<1>1. pc[u] \in {"checked", "asleep"}
  BY DEF Disturbed
<1>2. NothingFor(u)
  BY <1>1 DEF IInv, EmptyHanded
<1>3. \A q \in Queues : Reader[q] = u /\ queue[q] = 0 => queue'[q] = 0
  BY DEF Undisturbed
<1>4. CASE u = "handle"
  BY <1>2, <1>3, <1>4, QueueFacts DEF NothingFor
<1>5. CASE u = "bash"
  BY <1>2, <1>3, <1>5, QueueFacts DEF NothingFor
<1>6. CASE u = "mcu"
  <2>1. engaged' = engaged
    BY <1>6
  <2> QED
    BY <2>1, <1>2, <1>3, <1>6, QueueFacts DEF NothingFor
<1> QED
  BY <1>4, <1>5, <1>6 DEF Threads

\* The thread t goes on, to the place before its wait only with empty hands.
LEMMA GoingOn ==
  ASSUME IInv, NEW t \in Threads, NEW next \in Places \ {"asleep"},
         NEW n \in [Queues -> Nat], NEW qs \in SUBSET Queues,
         \A q \in Queues : Reader[q] # t => n[q] = queue[q],
         GoOn(t, next, n, qs), next = "checked" => qs = {} /\ NothingFor(t)',
         next \in Doomed(t) => pc[t] \in Doomed(t) \/ go[t],
         t = "bash" /\ next \in {"look", "checked"} =>
           pc[t] \in {"look", "checked"} \/ go[t],
         t # "mcu" => engaged' = engaged,
         UNCHANGED kept,
         rised' \in BOOLEAN, engaged' \in BOOLEAN, open' \in BOOLEAN
  PROVE  ThreadStep(t)
<1>1. pc \in [Threads -> Places]
  BY DEF IInv, TypeOK, Places
<1>2. /\ pc' \in [Threads -> Places] /\ queue' \in [Queues -> Nat]
      /\ pc'[t] = next
      /\ Disturbed(pc, pc', t)
      /\ Undisturbed(pc', n, queue', Threads)
  BY <1>1, GoOnEffect
<1>3. \A u \in Threads \ {t} :
        pc'[u] \in {"checked", "asleep"} => NothingFor(u)'
  BY <1>2, OthersEmptyHanded
<1>4. EmptyHanded'
  BY <1>2, <1>3 DEF EmptyHanded
<1> QED
  BY <1>2, <1>4 DEF ThreadStep

\* What the lemma asks of a thread's queues.
LEMMA OwnQueues ==
  ASSUME TypeOK, NEW q \in Queues, queue[q] # 0
  PROVE  /\ Pop(q) \in [Queues -> Nat]
         /\ \A r \in Queues \ {q} : Pop(q)[r] = queue[r]
BY DEF TypeOK, Pop

-----------------------------------------------------------------------------
(* The loops of the threads.                                               *)

LEMMA TestStep ==
  ASSUME IInv, NEW t \in Threads, Test(t)
  PROVE  ThreadStep(t)
<1> DEFINE next == IF go[t] THEN "look" ELSE "ended"
<1>1. /\ GoOn(t, next, queue, {}) /\ next \in Places \ {"checked", "asleep"}
      /\ UNCHANGED kept /\ queue \in [Queues -> Nat]
      /\ rised' \in BOOLEAN /\ engaged' = engaged /\ engaged' \in BOOLEAN
      /\ open' \in BOOLEAN
  BY DEF Test, GoOn, Places, kept, IInv, TypeOK
<1>2. next \in Doomed(t) => go[t]
  BY DEF Doomed, Threads
<1>3. t = "bash" /\ next \in {"look", "checked"} => go[t]
  OBVIOUS
<1> HIDE DEF next
<1> QED
  BY <1>1, <1>2, <1>3, GoingOn

LEMMA WaitStep ==
  ASSUME IInv, NEW t \in Threads, Wait(t)
  PROVE  ThreadStep(t)
<1>1. /\ pc' \in [Threads -> Places] /\ queue' \in [Queues -> Nat]
      /\ rised' \in BOOLEAN /\ engaged' \in BOOLEAN /\ open' \in BOOLEAN
      /\ \A u \in Threads \ {t} : pc'[u] = pc[u]
      /\ pc[t] = "checked" /\ pc'[t] = "asleep" /\ UNCHANGED kept
      /\ queue' = queue /\ engaged' = engaged
  BY DEF Wait, Places, kept, IInv, TypeOK
<1>2. pc[t] \in Doomed(t)
  BY <1>1 DEF Doomed, Threads
<1>3. EmptyHanded'
  BY <1>1 DEF IInv, EmptyHanded, NothingFor
<1> QED
  BY <1>1, <1>2, <1>3 DEF ThreadStep, Disturbed

LEMMA SpuriousStep ==
  ASSUME IInv, NEW t \in Threads, Spurious(t)
  PROVE  ThreadStep(t)
<1>1. /\ GoOn(t, "awake", queue, {}) /\ "awake" \in Places
      /\ UNCHANGED kept /\ queue \in [Queues -> Nat]
      /\ rised' \in BOOLEAN /\ engaged' = engaged /\ engaged' \in BOOLEAN
      /\ open' \in BOOLEAN
  BY DEF Spurious, GoOn, Places, kept, IInv, TypeOK
<1>2. "awake" \notin Doomed(t)
  BY DEF Doomed, Threads
<1> QED
  BY <1>1, <1>2, GoingOn

LEMMA HandleStep ==
  ASSUME IInv, Handle
  PROVE  ThreadStep("handle")
<1>1. /\ "handle" \in Threads /\ queue \in [Queues -> Nat]
      /\ UNCHANGED <<kept, rised, engaged, open>>
      /\ rised' \in BOOLEAN /\ engaged' \in BOOLEAN /\ open' \in BOOLEAN
  BY DEF Threads, Handle, HandleTake, HandleCheck, HandleAwake, IInv, TypeOK, kept
<1>2. Doomed("handle") = {"look", "look2", "check", "checked", "asleep"}
  BY DEF Doomed
<1>3. ASSUME NEW q \in {"status", "from_mcu"}, NEW here \in {"look", "look2"},
             NEW next \in {"look2", "check"}, HandleTake(q, here, next)
      PROVE  ThreadStep("handle")
  <2>1. next \in Places \ {"checked", "asleep"} /\ pc["handle"] \in Doomed("handle")
    BY <1>2, <1>3 DEF HandleTake, Places
  <2>2. {"command", "to_mcu"} \in SUBSET Queues /\ q \in Queues
        /\ Reader[q] = "handle" /\ {} \in SUBSET Queues
    BY QueueFacts
  <2>3. CASE queue[q] = 0
    <3>1. GoOn("handle", next, queue, {})
      BY <1>3, <2>3 DEF HandleTake
    <3> QED
      BY <3>1, <1>1, <2>1, <2>2, GoingOn
  <2>4. CASE queue[q] # 0
    <3>1. GoOn("handle", next, Pop(q), {"command", "to_mcu"})
      BY <1>3, <2>4 DEF HandleTake
    <3>2. /\ Pop(q) \in [Queues -> Nat]
          /\ \A r \in Queues : Reader[r] # "handle" => Pop(q)[r] = queue[r]
      BY <2>2, <2>4, OwnQueues DEF IInv
    <3> QED
      BY <3>1, <3>2, <1>1, <2>1, <2>2, GoingOn
  <2> QED
    BY <2>3, <2>4
<1>4. CASE HandleCheck
  <2> DEFINE next == IF queue["status"] = 0 /\ queue["from_mcu"] = 0
                     THEN "checked" ELSE "test"
  <2>1. /\ GoOn("handle", next, queue, {}) /\ next \in Places \ {"asleep"}
        /\ pc["handle"] \in Doomed("handle")
    BY <1>2, <1>4 DEF HandleCheck, GoOn, Places
  <2>2. next = "checked" => NothingFor("handle")'
    BY <1>4 DEF HandleCheck, NothingFor
  <2> HIDE DEF next
  <2> QED
    BY <2>1, <2>2, <1>1, GoingOn
<1>5. CASE HandleAwake
  <2>1. GoOn("handle", "test", queue, {}) /\ "test" \in Places
    BY <1>5 DEF HandleAwake, GoOn, Places
  <2> QED
    BY <2>1, <1>1, <1>2, GoingOn
<1> QED
  BY <1>3, <1>4, <1>5 DEF Handle

LEMMA BashStep ==
  ASSUME IInv, Bash
  PROVE  ThreadStep("bash")
<1>1. /\ "bash" \in Threads /\ queue \in [Queues -> Nat]
      /\ UNCHANGED <<kept, rised, engaged, open>>
      /\ rised' \in BOOLEAN /\ engaged' \in BOOLEAN /\ open' \in BOOLEAN
  BY DEF Threads, Bash, BashTake, IInv, TypeOK, kept
<1>2. Doomed("bash") = {"look", "checked", "asleep"}
  BY DEF Doomed
<1>3. "command" \in Queues /\ Reader["command"] = "bash"
      /\ \A q \in Queues : q # "command" => Reader[q] # "bash"
  BY QueueFacts
<1>4. ASSUME NEW here \in {"look", "awake"}, NEW next \in {"checked", "test"},
             next = "checked" => here = "look", BashTake(here, next)
      PROVE  ThreadStep("bash")
  <2>1. pc["bash"] = here /\ {next, "test"} \subseteq Places \ {"asleep"}
    BY <1>4 DEF BashTake, Places
  <2>2. CASE queue["command"] > 0
    <3>1. GoOn("bash", "test", Pop("command"), {})
      BY <1>4, <2>2 DEF BashTake
    <3>2. /\ Pop("command") \in [Queues -> Nat]
          /\ \A r \in Queues : Reader[r] # "bash" => Pop("command")[r] = queue[r]
      BY <1>3, <2>2, OwnQueues DEF IInv
    <3> QED
      BY <3>1, <3>2, <1>1, <1>2, <2>1, GoingOn
  <2>3. CASE ~(queue["command"] > 0)
    <3>1. GoOn("bash", next, queue, {}) /\ queue' = queue
      BY <1>4, <2>3 DEF BashTake, GoOn
    <3>2. queue["command"] = 0
      BY <1>1, <1>3, <2>3
    <3>3. NothingFor("bash")'
      BY <3>1, <3>2 DEF NothingFor
    <3> QED
      BY <3>1, <3>3, <1>1, <1>2, <1>4, <2>1, GoingOn
  <2> QED
    BY <2>2, <2>3
<1> QED
  BY <1>4 DEF Bash

\* What write_msg brings, if there is a device, goes to the handle thread.
LEMMA WriteStep ==
  ASSUME IInv, NEW next \in {"look2", "test"}, NEW message \in BOOLEAN,
         NEW n \in [Queues -> Nat],
         \A q \in Queues : Reader[q] # "mcu" => n[q] = queue[q],
         Write(message, next, n), UNCHANGED <<kept, rised, open>>
  PROVE  ThreadStep("mcu")
<1>1. /\ "mcu" \in Threads /\ next \in Places \ {"checked", "asleep"}
      /\ next \notin Doomed("mcu")
      /\ UNCHANGED kept /\ rised' \in BOOLEAN /\ open' \in BOOLEAN
      /\ engaged' \in BOOLEAN
  BY DEF Threads, Places, Doomed, IInv, TypeOK, Write, kept
<1>2. {} \in SUBSET Queues /\ {"from_mcu"} \in SUBSET Queues
  BY QueueFacts
<1>3. CASE GoOn("mcu", next, n, {})
  BY <1>1, <1>2, <1>3, GoingOn
<1>4. CASE GoOn("mcu", next, n, {"from_mcu"})
  BY <1>1, <1>2, <1>4, GoingOn
<1> QED
  BY <1>3, <1>4 DEF Write

LEMMA McuStep ==
  ASSUME IInv, Mcu
  PROVE  ThreadStep("mcu")
<1>1. /\ "mcu" \in Threads /\ queue \in [Queues -> Nat]
      /\ UNCHANGED <<kept, open>>
      /\ rised \in BOOLEAN /\ engaged \in BOOLEAN /\ open' \in BOOLEAN
  BY DEF Threads, Mcu, McuWrite, McuEdge, McuCheck, McuAwake, McuSend,
         IInv, TypeOK, kept
<1>2. Doomed("mcu") = {"checked", "asleep"}
  BY DEF Doomed
<1>3. /\ {"edges", "to_mcu"} \subseteq Queues
      /\ \A q \in Queues : Reader[q] # "mcu" => q \notin {"edges", "to_mcu"}
  BY QueueFacts
<1>4. {"test", "look2", "check", "send"} \subseteq Places \ {"checked", "asleep"}
      /\ "checked" \in Places \ {"asleep"}
  BY DEF Places
<1>5. CASE McuWrite
  <2>1. CASE rised
    <3>1. Write(FALSE, "look2", queue) /\ UNCHANGED <<kept, rised, open>>
      BY <1>5, <2>1 DEF McuWrite
    <3> QED
      BY <3>1, <1>1, WriteStep
  <2>2. CASE ~rised
    <3>1. /\ GoOn("mcu", "look2", queue, {}) /\ engaged' = engaged
          /\ rised' = rised
      BY <1>5, <2>2 DEF McuWrite
    <3> QED
      BY <3>1, <1>1, <1>2, <1>4, GoingOn
  <2> QED
    BY <2>1, <2>2
<1>6. CASE McuEdge
  <2> DEFINE next == IF rised' THEN "test" ELSE "check"
  <2>1. next \in {"test", "check"} /\ engaged' = engaged
    BY <1>6 DEF McuEdge
  <2>2. CASE queue["edges"] = 0 /\ UNCHANGED <<queue, rised>>
    <3>1. GoOn("mcu", next, queue, {}) /\ rised' = rised
      BY <1>6, <2>2 DEF McuEdge, GoOn
    <3> HIDE DEF next
    <3> QED
      BY <3>1, <2>1, <1>1, <1>2, <1>4, GoingOn
  <2>3. CASE queue["edges"] > 0 /\ queue' = Pop("edges") /\ rised' \in BOOLEAN
    <3>1. GoOn("mcu", next, Pop("edges"), {})
      BY <1>6, <2>3 DEF McuEdge, GoOn
    <3>2. /\ Pop("edges") \in [Queues -> Nat]
          /\ \A r \in Queues : Reader[r] # "mcu" => Pop("edges")[r] = queue[r]
      BY <1>3, <2>3, OwnQueues DEF IInv
    <3> HIDE DEF next
    <3> QED
      BY <3>1, <3>2, <2>1, <2>3, <1>1, <1>2, <1>4, GoingOn
  <2> QED
    BY <1>6, <2>2, <2>3 DEF McuEdge
<1>7. CASE McuCheck
  <2> DEFINE next == IF McuIdle THEN "checked" ELSE "send"
  <2>1. /\ GoOn("mcu", next, queue, {}) /\ queue' = queue /\ engaged' = engaged
        /\ rised' = rised
    BY <1>7 DEF McuCheck, GoOn
  <2>2. next \in {"checked", "send"}
        /\ (next = "checked" => NothingFor("mcu")' /\ go["mcu"])
    BY <2>1 DEF McuIdle, NothingFor
  <2> HIDE DEF next
  <2> QED
    BY <2>1, <2>2, <1>1, <1>2, <1>4, GoingOn
<1>8. CASE McuAwake
  <2>1. GoOn("mcu", "test", queue, {}) /\ rised' = rised /\ engaged' = engaged
    BY <1>8 DEF McuAwake, GoOn
  <2> QED
    BY <2>1, <1>1, <1>2, <1>4, GoingOn
<1>9. CASE McuSend
  <2>1. CASE engaged \/ queue["to_mcu"] = 0
    <3>1. /\ GoOn("mcu", "test", queue, {}) /\ engaged' = engaged
          /\ rised' = rised
      BY <1>9, <2>1 DEF McuSend
    <3> QED
      BY <3>1, <1>1, <1>2, <1>4, GoingOn
  <2>2. CASE ~(engaged \/ queue["to_mcu"] = 0)
    <3>1. Write(TRUE, "test", Pop("to_mcu")) /\ UNCHANGED <<kept, rised, open>>
      BY <1>9, <2>2 DEF McuSend
    <3>2. /\ Pop("to_mcu") \in [Queues -> Nat]
          /\ \A r \in Queues : Reader[r] # "mcu" => Pop("to_mcu")[r] = queue[r]
      BY <1>3, <2>2, OwnQueues DEF IInv
    <3> QED
      BY <3>1, <3>2, WriteStep
  <2> QED
    BY <2>1, <2>2
<1> QED
  BY <1>5, <1>6, <1>7, <1>8, <1>9 DEF Mcu

-----------------------------------------------------------------------------
(* The main thread.                                                        *)

\* Which operation of Program is which.
LEMMA Where ==
  ASSUME at \in 1 .. End
  PROVE  /\ End = 16 /\ Stop = 5
         /\ Now("create") => at \in {1, 2, 3} /\ Whom \in Threads
         /\ Now("run") => at = 4
         /\ Now("clear") => \/ at = 5 /\ Whom = "handle"
                            \/ at = 7 /\ Whom = "bash"
                            \/ at = 10 /\ Whom = "mcu"
         /\ Now("lock") => at = 8 /\ Whom = "bash"
         /\ Now("notify") => \/ at = 6 /\ Whom = "handle"
                             \/ at = 9 /\ Whom = "bash"
                             \/ at = 12 /\ Whom = "mcu"
         /\ Now("close") => at = 11
         /\ Now("join") => at \in {13, 14, 15}
<1>1. End = 16 /\ Stop = 5
  BY DEF End, Program, Stop, Run
<1>2. at = 16 \/ at \in 1 .. 15
  BY <1>1
<1>3. CASE at = 16
  BY <1>1, <1>3 DEF Now
<1>4. CASE at \in 1 .. 15
  <2>1. \/ at = 1 \/ at = 2 \/ at = 3 \/ at = 4 \/ at = 5 \/ at = 6 \/ at = 7
        \/ at = 8 \/ at = 9 \/ at = 10 \/ at = 11 \/ at = 12 \/ at = 13
        \/ at = 14 \/ at = 15
    BY <1>4
  <2> QED
    BY <2>1, <1>1 DEF Now, Whom, Program, Op, Threads
<1> QED
  BY <1>2, <1>3, <1>4

\* Nobody has been notified before stop(), and start() sends threads to their
\* loops.
LEMMA CreateStep ==
  ASSUME IInv, Create
  PROVE  IInv'
<1>1. /\ at \in {1, 2, 3} /\ Whom \in Threads /\ Stop = 5 /\ End = 16
      /\ at' \in {2, 3, 4, 5}
  BY Where DEF Create, IInv, TypeOK
<1>2. notified = {} /\ notified' = {}
  BY <1>1 DEF Create, IInv, StopOrder, TypeOK, Threads
<1>3. /\ pc' \in [Threads -> Places] /\ queue' \in [Queues -> Nat]
      /\ open' \in BOOLEAN
      /\ \A u \in Threads : \/ pc'[u] = pc[u] /\ u # Whom
                            \/ pc'[u] = "test"
                            \/ pc' = pc /\ queue' = queue
      /\ \A q \in Queues : queue'[q] = queue[q] \/ (q = "command" /\ Whom = "bash")
  <2>1. /\ pc \in [Threads -> Places] /\ queue \in [Queues -> Nat]
        /\ open \in BOOLEAN /\ "command" \in Queues
    BY QueueFacts DEF IInv, TypeOK, Places
  <2>2. CASE UNCHANGED <<pc, queue, open>>
    BY <2>1, <2>2
  <2>3. CASE /\ Begin(Whom) /\ open' = (open \/ Whom = "mcu")
             /\ queue' = IF Whom = "bash" THEN [queue EXCEPT !["command"] = 3]
                                          ELSE queue
    <3>1. /\ pc' \in [Threads -> Places]
          /\ \A u \in Threads : pc'[u] = IF u = Whom THEN "test" ELSE pc[u]
      BY <1>1, <2>1, <2>3 DEF Begin, Places
    <3>2. /\ queue' \in [Queues -> Nat]
          /\ \A q \in Queues :
               queue'[q] = queue[q] \/ (q = "command" /\ Whom = "bash")
      BY <2>1, <2>3
    <3>3. open' \in BOOLEAN
      BY <2>3
    <3> QED
      BY <3>1, <3>2, <3>3
  <2> QED
    BY <2>2, <2>3 DEF Create
<1>4. TypeOK' /\ StopOrder'
  BY <1>1, <1>2, <1>3 DEF Create, IInv, TypeOK, StopOrder, Places
<1>5. DoomedInGap'
  BY <1>1, <1>2 DEF DoomedInGap
<1>6. EmptyHanded'
  <2> SUFFICES ASSUME NEW u \in Threads, pc'[u] \in {"checked", "asleep"}
               PROVE  NothingFor(u)'
    BY DEF EmptyHanded
  <2>1. pc[u] = pc'[u] /\ (u # Whom \/ queue' = queue) /\ engaged' = engaged
    BY <1>3 DEF Create
  <2>2. NothingFor(u)
    BY <2>1 DEF IInv, EmptyHanded
  <2> QED
    BY <1>3, <2>1, <2>2, QueueFacts DEF NothingFor, Threads
<1> QED
  BY <1>4, <1>5, <1>6 DEF IInv

\* A status or an edge comes while context.run () is under way.
LEMMA CallbackStep ==
  ASSUME IInv, Callback
  PROVE  IInv'
<1>1. at = 4 /\ End = 16
  BY Where DEF Callback, IInv, TypeOK
<1>2. notified = {}
  BY <1>1 DEF IInv, StopOrder, TypeOK, Threads
<1>3. PICK q \in {"status", "edges"} :
        /\ CanPush(q) /\ pc' = Pushed(pc, queue, q)
        /\ queue' = [queue EXCEPT ![q] = @ + 1]
  BY DEF Callback
<1>4. q \in Queues /\ pc[Reader[q]] # "checked"
  BY <1>3, QueueFacts DEF CanPush
<1>5. pc \in [Threads -> Places] /\ queue \in [Queues -> Nat]
  BY DEF IInv, TypeOK, Places
<1> DEFINE p2 == Pushed(pc, queue, q)
           n2 == [queue EXCEPT ![q] = @ + 1]
<1>6. /\ p2 \in [Threads -> Places] /\ n2 \in [Queues -> Nat]
      /\ \A u \in Threads :
           p2[u] = pc[u] \/ (pc[u] = "asleep" /\ p2[u] = "awake")
      /\ Undisturbed(p2, queue, n2, Threads)
  BY <1>4, <1>5, PushEffect
<1>7. pc' = p2 /\ queue' = n2
  BY <1>3
<1> HIDE DEF p2, n2
<1>8. UNCHANGED <<kept, rised, engaged, open>>
  BY DEF Callback
<1>9. TypeOK' /\ StopOrder'
  BY <1>6, <1>7, <1>8 DEF IInv, TypeOK, StopOrder, Places, kept
<1>10. DoomedInGap'
  BY <1>1, <1>2, <1>8 DEF DoomedInGap, kept
<1>11. EmptyHanded'
  <2> SUFFICES ASSUME NEW u \in Threads, pc'[u] \in {"checked", "asleep"}
               PROVE  NothingFor(u)'
    BY DEF EmptyHanded
  <2>1. pc[u] \in {"checked", "asleep"}
    BY <1>6, <1>7
  <2>2. NothingFor(u)
    BY <2>1 DEF IInv, EmptyHanded
  <2>3. \A r \in Queues : Reader[r] = u /\ queue[r] = 0 => queue'[r] = 0
    BY <1>6, <1>7 DEF Undisturbed
  <2>4. engaged' = engaged
    BY <1>8
  <2> QED
    BY <2>2, <2>3, <2>4, QueueFacts DEF NothingFor, Threads
<1> QED
  BY <1>9, <1>10, <1>11 DEF IInv

\* The rest of the main thread leaves the queues alone.
LEMMA StillEmptyHanded ==
  ASSUME IInv, UNCHANGED <<queue, engaged>>,
         \A u \in Threads : pc'[u] \in {"checked", "asleep"} => pc'[u] = pc[u]
  PROVE  EmptyHanded'
BY DEF IInv, EmptyHanded, NothingFor

LEMMA SignalStep ==
  ASSUME IInv, Signal
  PROVE  IInv'
<1>1. at = 4 /\ at' = 5 /\ End = 16
  BY Where DEF Signal, IInv, TypeOK
<1>2. UNCHANGED <<pc, go, queue, rised, engaged, open, notified, gap>>
  BY DEF Signal
<1>3. EmptyHanded'
  BY <1>2, StillEmptyHanded
<1>4. TypeOK' /\ StopOrder'
  BY <1>1, <1>2 DEF IInv, TypeOK, StopOrder
<1>5. DoomedInGap'
  BY <1>1, <1>2 DEF IInv, DoomedInGap
<1> QED
  BY <1>3, <1>4, <1>5 DEF IInv

\* m_go is cleared before the notice.
LEMMA ClearStep ==
  ASSUME IInv, Clear
  PROVE  IInv'
<1>1. /\ \/ at = 5 /\ Whom = "handle"
         \/ at = 7 /\ Whom = "bash"
         \/ at = 10 /\ Whom = "mcu"
      /\ at' = at + 1 /\ End = 16 /\ at \in 1 .. End
  BY Where DEF Clear, IInv, TypeOK
<1>2. UNCHANGED <<pc, queue, rised, engaged, open, notified, gap>>
      /\ go' = [go EXCEPT ![Whom] = FALSE] /\ go \in [Threads -> BOOLEAN]
  BY DEF Clear, IInv, TypeOK
<1>3. EmptyHanded'
  BY <1>2, StillEmptyHanded
<1>4. TypeOK'
  <2>1. go' \in [Threads -> BOOLEAN]
    BY <1>2, ZenonT(20)
  <2> QED
    BY <2>1, <1>1, <1>2 DEF IInv, TypeOK
<1>5. StopOrder'
  BY <1>1, <1>2 DEF IInv, StopOrder, Threads
<1>6. DoomedInGap'
  BY <1>1, <1>2 DEF IInv, DoomedInGap
<1> QED
  BY <1>3, <1>4, <1>5, <1>6 DEF IInv

LEMMA CloseStep ==
  ASSUME IInv, Close
  PROVE  IInv'
<1>1. at = 11 /\ at' = 12 /\ End = 16
  BY Where DEF Close, IInv, TypeOK
<1>2. UNCHANGED <<pc, go, queue, rised, engaged, notified, gap>> /\ open' \in BOOLEAN
  BY DEF Close
<1>3. EmptyHanded'
  BY <1>2, StillEmptyHanded
<1>4. TypeOK' /\ StopOrder'
  BY <1>1, <1>2 DEF IInv, TypeOK, StopOrder
<1>5. DoomedInGap'
  BY <1>1, <1>2 DEF IInv, DoomedInGap
<1> QED
  BY <1>3, <1>4, <1>5 DEF IInv

\* With the mutex of bash_t, its thread waits already, or is noted in the gap,
\* or will read m_go.
LEMMA LockStep ==
  ASSUME IInv, Lock
  PROVE  IInv'
<1>1. at = 8 /\ at' = 9 /\ Whom = "bash" /\ End = 16
  BY Where DEF Lock, IInv, TypeOK
<1>2. /\ UNCHANGED <<pc, go, queue, rised, engaged, open, notified>>
      /\ pc["bash"] # "checked" /\ gap \subseteq gap'
      /\ pc["bash"] = "look" => "bash" \in gap'
      /\ gap' \subseteq gap \cup {"bash"}
  BY <1>1 DEF Lock, BeforeWait
<1>3. EmptyHanded'
  BY <1>2, StillEmptyHanded
<1>4. TypeOK' /\ StopOrder'
  BY <1>1, <1>2 DEF IInv, TypeOK, StopOrder, Threads
<1>5. DoomedInGap'
  BY <1>1, <1>2 DEF IInv, DoomedInGap
<1> QED
  BY <1>3, <1>4, <1>5 DEF IInv

\* The notice wakes who sleeps, and notes who is about to.
LEMMA NotifyStep ==
  ASSUME IInv, Notify
  PROVE  IInv'
<1>1. /\ \/ at = 6 /\ Whom = "handle"
         \/ at = 9 /\ Whom = "bash"
         \/ at = 12 /\ Whom = "mcu"
      /\ at' = at + 1 /\ End = 16 /\ at \in 1 .. End
  BY Where DEF Notify, IInv, TypeOK
<1>2. /\ UNCHANGED <<go, queue, rised, engaged, open>>
      /\ notified' = notified \cup {Whom}
      /\ gap \subseteq gap' /\ gap' \subseteq gap \cup {Whom}
      /\ Whom \in Threads
  BY <1>1 DEF Notify, Threads
<1>3. /\ pc' \in [Threads -> Places]
      /\ \A u \in Threads :
           pc'[u] = pc[u] \/ (pc[u] = "asleep" /\ pc'[u] = "awake")
      /\ pc'[Whom] # "asleep"
  BY <1>2 DEF Notify, Woken, IInv, TypeOK, Places
<1>4. EmptyHanded'
  <2>1. \A u \in Threads : pc'[u] \in {"checked", "asleep"} => pc'[u] = pc[u]
    BY <1>3
  <2> QED
    BY <1>2, <2>1, StillEmptyHanded
<1>5. TypeOK'
  BY <1>1, <1>2, <1>3 DEF IInv, TypeOK, Places
<1>6. StopOrder'
  BY <1>1, <1>2 DEF IInv, StopOrder, Threads
<1>7. pc'[Whom] \in Doomed(Whom) => Whom \in gap'
  <2>1. CASE Whom = "bash"
    <3>1. pc'[Whom] \in Doomed(Whom) => pc["bash"] \in {"look", "checked"}
      BY <1>2, <1>3, <2>1 DEF Doomed
    <3> QED
      BY <3>1, <1>1, <1>2, <2>1 DEF IInv, DoomedInGap
  <2>2. CASE Whom # "bash"
    <3>1. pc'[Whom] \in Doomed(Whom) => pc[Whom] \in BeforeWait(Whom)
      BY <1>2, <1>3, <2>2 DEF Doomed, BeforeWait, Threads
    <3> QED
      BY <3>1, <2>2 DEF Notify
  <2> QED
    BY <2>1, <2>2
<1>8. ASSUME NEW u \in notified, pc'[u] \in Doomed(u)
      PROVE  u \in gap'
  <2>1. u \in Threads /\ "awake" \notin Doomed(u)
    BY DEF IInv, TypeOK, Threads, Doomed
  <2>2. pc'[u] = pc[u]
    BY <1>3, <1>8, <2>1
  <2> QED
    BY <1>2, <1>8, <2>2 DEF IInv, DoomedInGap
<1>9. at' > 8 /\ pc'["bash"] \in {"look", "checked"} => "bash" \in gap'
  BY <1>1, <1>2, <1>3 DEF IInv, DoomedInGap, Threads
<1>10. DoomedInGap'
  BY <1>2, <1>7, <1>8, <1>9 DEF DoomedInGap
<1> QED
  BY <1>4, <1>5, <1>6, <1>10 DEF IInv

LEMMA JoinStep ==
  ASSUME IInv, Join
  PROVE  IInv'
<1>1. at \in {13, 14, 15} /\ at' = at + 1 /\ End = 16
  BY Where DEF Join, IInv, TypeOK
<1>2. UNCHANGED <<pc, go, queue, rised, engaged, open, notified, gap>>
  BY DEF Join
<1>3. EmptyHanded'
  BY <1>2, StillEmptyHanded
<1>4. TypeOK' /\ StopOrder'
  BY <1>1, <1>2 DEF IInv, TypeOK, StopOrder
<1>5. DoomedInGap'
  BY <1>1, <1>2 DEF IInv, DoomedInGap
<1> QED
  BY <1>3, <1>4, <1>5 DEF IInv

-----------------------------------------------------------------------------
(* The theorems.                                                           *)

\* The threads have not begun, and nobody has to be told to stop.
LEMMA InitInv == Init => IInv
<1> SUFFICES ASSUME Init PROVE IInv
  OBVIOUS
<1>1. TypeOK
  <2>1. End = 16
    BY DEF End, Program
  <2>2. rised \in BOOLEAN /\ engaged \in BOOLEAN /\ open \in BOOLEAN
    BY DEF Init
  <2>3. go \in [Threads -> BOOLEAN]
    BY DEF Init
  <2> QED
    BY <2>1, <2>2, <2>3 DEF Init, TypeOK, Threads
<1>2. StopOrder /\ DoomedInGap /\ EmptyHanded
  BY DEF Init, StopOrder, DoomedInGap, EmptyHanded, Threads
<1> QED
  BY <1>1, <1>2 DEF IInv

LEMMA NextInv == IInv /\ [Next]_vars => IInv'
<1> SUFFICES ASSUME IInv, [Next]_vars PROVE IInv'
  OBVIOUS
<1> "handle" \in Threads /\ "bash" \in Threads /\ "mcu" \in Threads
  BY DEF Threads
<1>1. CASE Main
  BY <1>1, CreateStep, ClearStep, CloseStep, LockStep, NotifyStep, JoinStep
  DEF Main
<1>2. CASE Callback
  BY <1>2, CallbackStep
<1>3. CASE Signal
  BY <1>3, SignalStep
<1>4. CASE Each
  <2>1. CASE Handle
    BY <2>1, HandleStep, ThreadStepPreserves
  <2>2. CASE Bash
    BY <2>2, BashStep, ThreadStepPreserves
  <2>3. CASE Mcu
    BY <2>3, McuStep, ThreadStepPreserves
  <2>4. CASE \E t \in Threads : Test(t) \/ Wait(t)
    BY <2>4, TestStep, WaitStep, ThreadStepPreserves
  <2> QED
    BY <1>4, <2>1, <2>2, <2>3, <2>4 DEF Each
<1>5. CASE \E t \in Threads : Spurious(t)
  BY <1>5, SpuriousStep, ThreadStepPreserves
<1>6. CASE UNCHANGED vars
  BY ZenonT(60), <1>6 DEF vars, IInv, TypeOK, StopOrder, DoomedInGap, EmptyHanded, NothingFor
<1> QED
  BY <1>1, <1>2, <1>3, <1>4, <1>5, <1>6 DEF Next, Ended

LEMMA InvAlways == Spec => []IInv
BY InitInv, NextInv, PTL DEF Spec

\* base.cpp, handle.cpp, bash.cpp and mcu-handle.cpp: no queue is popped empty,
\* however many messages wait.
THEOREM ThreadsTypeCorrect == Spec => []TypeOK
<1>1. IInv => TypeOK
  BY DEF IInv
<1> QED
  BY <1>1, InvAlways, PTL

\* condition_queue_t with shared conditions: however many messages wait, no
\* thread sleeps over one it would take.
THEOREM NobodySleepsOverWork == Spec => []NoSleepOverWork
<1>1. IInv => NoSleepOverWork
  BY DEF IInv, EmptyHanded, NothingFor, NoSleepOverWork, Threads
<1> QED
  BY <1>1, InvAlways, PTL

\* base_t::stop against the loops: who sleeps after his notice was between the
\* test of m_go and the wait when it came.
THEOREM SleepersWereInTheGap == Spec => []SleepsInGapOnly
<1>1. IInv => SleepsInGapOnly
  <2> SUFFICES ASSUME IInv, NEW t \in notified, pc[t] = "asleep"
               PROVE  t \in gap
    BY DEF SleepsInGapOnly
  <2>1. t \in Threads
    BY DEF IInv, TypeOK
  <2>2. "asleep" \in Doomed(t)
    BY <2>1 DEF Doomed, Threads
  <2> QED
    BY <2>2 DEF IInv, DoomedInGap
<1> QED
  BY <1>1, InvAlways, PTL
=============================================================================
