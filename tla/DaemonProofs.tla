---------------------------- MODULE DaemonProofs ----------------------------
(***************************************************************************)
(* For any number of queries, any size of a text and any backlog: the flow *)
(* of information stays alive and bounded, no command is forgotten in the  *)
(* map, every query is answered at most once, and both sides agree on the  *)
(* suspension.                                                             *)
(***************************************************************************)
EXTENDS Daemon, SequenceTheorems, FiniteSetTheorems, TLAPS

Statuses == [cmd : Queries \cup {"CLOCK"}, value : {"good", "bad", "timeout"}]
FromKinds == {"VERSION", "SUSPEND", "RESUME", "STATUS", "STATUS_LED"} \cup Queries

\* The types of the variables, with what TypeOK leaves open.
Typed ==
  /\ turn \in {"status", "mcu"}
  /\ statusq \in Seq(Statuses) /\ fromq \in Seq(FromKinds)
  /\ toq \in Seq(Kinds) /\ commandq \in Seq(Queries)
  /\ suspend \in BOOLEAN /\ crowded \in BOOLEAN
  /\ busy = Idle \/ busy \in [cmd : Queries, step : 1 .. 4]
  /\ timer \in [Queries -> {"off", "armed", "due"}]
  /\ script \in [Queries -> {"none", "running", "over"}]
  /\ kept \subseteq Queries /\ map \subseteq Queries
  /\ answers \in [Queries -> Nat]
  /\ engaged \in Kinds \cup {"none"}
  /\ menu \in {"off", "closed", "open", "tag"}
  /\ busy # Idle /\ busy.step = 4 => script[busy.cmd] # "none"
  /\ \A q \in kept : script[q] # "none"

-----------------------------------------------------------------------------
(* The messages and the queues.                                            *)

\* Commands, messages and the idle thread are told apart.
LEMMA Distinct ==
  /\ \A q \in Queries : /\ q \notin {"none", "CLOCK", "LED", "HANDSHAKE"}
                        /\ q \notin {"VERSION", "SUSPEND", "RESUME", "STATUS",
                                     "STATUS_LED"}
  /\ \A q \in Queries : [cmd |-> q, step |-> 1] # Idle
BY DaemonAssumption DEF Idle

LEMMA FourSteps ==
  /\ Len(Steps) = 4
  /\ Steps[1] = "timer" /\ Steps[2] = "insert" /\ Steps[3] = "popen"
  /\ Steps[4] = "keep"
BY DEF Steps

\* What the AVR sends at once.
LEMMA Sent ==
  ASSUME NEW a \in FromKinds
  PROVE  /\ <<a>> \in Seq(FromKinds) /\ Len(<<a>>) = 1 /\ <<a>>[1] = a
         /\ \A b \in FromKinds : /\ <<a, b>> \in Seq(FromKinds)
                                 /\ Len(<<a, b>>) = 2
                                 /\ <<a, b>>[1] = a /\ <<a, b>>[2] = b
OBVIOUS

LEMMA Sending ==
  ASSUME fromq \in Seq(FromKinds), NEW messages \in Seq(FromKinds),
         AvrSends(messages)
  PROVE  /\ fromq' \in Seq(FromKinds)
         /\ Len(fromq') = Len(fromq) + Len(messages)
         /\ Len(fromq) \in Nat /\ Len(messages) \in Nat
         /\ \A i \in 1 .. Len(fromq') :
              fromq'[i] = IF i <= Len(fromq) THEN fromq[i]
                                             ELSE messages[i - Len(fromq)]
<1>1. fromq' = fromq \o messages
  BY DEF AvrSends
<1> QED
  BY <1>1, ConcatProperties, LenProperties

LEMMA Appending ==
  ASSUME NEW S, NEW s \in Seq(S), NEW e \in S
  PROVE  /\ Append(s, e) \in Seq(S) /\ Len(Append(s, e)) = Len(s) + 1
         /\ Len(s) \in Nat
         /\ \A i \in 1 .. Len(s) + 1 :
              Append(s, e)[i] = IF i <= Len(s) THEN s[i] ELSE e
OBVIOUS

\* info_push leaves what is queued, and queues LED arrays behind it.
LEMMA Pushed ==
  ASSUME NEW s \in BOOLEAN, NEW queue \in Seq(Kinds), crowded \in BOOLEAN,
         info_push(s, queue)
  PROVE  /\ toq' \in Seq(Kinds) /\ crowded' \in BOOLEAN
         /\ Len(queue) \in Nat /\ Len(toq') \in Nat /\ Len(queue) <= Len(toq')
         /\ \A i \in 1 .. Len(queue) : toq'[i] = queue[i]
         /\ \A i \in Len(queue) + 1 .. Len(toq') : toq'[i] = "LED"
         /\ s \/ crowded' \/ \E i \in 1 .. Len(toq') : toq'[i] = "LED"
<1>1. CASE s \/ ~HasRoom(queue)
  <2> DEFINE some == \E i \in 1 .. Len(queue) : queue[i] = "LED"
  <2>1. toq' = queue /\ crowded' = (crowded \/ (~s /\ ~some))
    BY <1>1 DEF info_push, Contains
  <2>2. crowded' \in BOOLEAN /\ (s \/ crowded' \/ some)
    BY <2>1
  <2>3. Len(queue) \in Nat
    BY LenProperties
  <2> QED
    BY <2>1, <2>2, <2>3
<1>2. CASE ~(s \/ ~HasRoom(queue))
  <2>1. crowded' = FALSE
    BY <1>2 DEF info_push
  <2>2. PICK n \in Arrays : toq' = queue \o [i \in 1 .. n |-> "LED"]
    BY <1>2 DEF info_push
  <2> DEFINE leds == [i \in 1 .. n |-> "LED"]
  <2>3. n \in Nat \ {0}
    BY DaemonAssumption
  <2>4. leds \in Seq(Kinds) /\ Len(leds) = n
    BY <2>3 DEF Kinds
  <2>5. \A i \in 1 .. n : leds[i] = "LED"
    OBVIOUS
  <2>6. toq' = queue \o leds
    BY <2>2
  <2> HIDE DEF leds
  <2>7. /\ toq' \in Seq(Kinds) /\ Len(toq') = Len(queue) + n
        /\ Len(queue) \in Nat
        /\ \A i \in 1 .. Len(queue) + n :
             toq'[i] = IF i <= Len(queue) THEN queue[i] ELSE leds[i - Len(queue)]
    BY <2>4, <2>6, ConcatProperties, LenProperties
  <2>8. \A i \in Len(queue) + 1 .. Len(toq') : toq'[i] = "LED"
    BY <2>3, <2>5, <2>7
  <2>9. Len(queue) + 1 \in 1 .. Len(toq') /\ toq'[Len(queue) + 1] = "LED"
    BY <2>3, <2>7, <2>8
  <2>10. crowded' \in BOOLEAN
    BY <2>1
  <2> QED
    BY <2>3, <2>7, <2>8, <2>9, <2>10
<1> QED
  BY <1>1, <1>2

\* What handle_mcu does with a message.
LEMMA Handled ==
  ASSUME Typed, HandleMcu, fromq # <<>>, NEW m, m = Head(fromq)
  PROVE  /\ m \in FromKinds
         /\ fromq' \in Seq(FromKinds) /\ fromq' = Tail(fromq)
         /\ suspend' = Suspended(m) /\ suspend' \in BOOLEAN
         /\ toq' \in Seq(Kinds) /\ crowded' \in BOOLEAN
         /\ Len(toq) \in Nat /\ Len(toq') \in Nat /\ Len(toq) <= Len(toq')
         /\ \A i \in 1 .. Len(toq) : toq'[i] = toq[i]
         /\ \A i \in Len(toq) + 1 .. Len(toq') :
              \/ toq'[i] = "LED"
              \/ toq'[i] = "HANDSHAKE" /\ m = "VERSION" /\ i = Len(toq) + 1
         /\ m \in Pushing => \/ suspend' \/ crowded'
                            \/ \E i \in 1 .. Len(toq') : toq'[i] = "LED"
         /\ m \notin Pushing => toq' = toq /\ crowded' = crowded
         /\ commandq' = (IF m \in Queries THEN Append(commandq, m) ELSE commandq)
<1> DEFINE queue == IF m = "VERSION" THEN Append(toq, "HANDSHAKE") ELSE toq
<1>1. /\ fromq' = Tail(fromq) /\ suspend' = Suspended(m)
      /\ commandq' = (IF m \in Queries THEN Append(commandq, m) ELSE commandq)
      /\ IF m \in Pushing THEN info_push(Suspended(m), queue)
                          ELSE toq' = toq /\ crowded' = crowded
  BY DEF HandleMcu
<1>2. m \in FromKinds /\ fromq' \in Seq(FromKinds)
  BY <1>1, HeadTailProperties DEF Typed
<1>3. suspend' \in BOOLEAN
  BY <1>1 DEF Typed, Suspended
<1>4. /\ queue \in Seq(Kinds) /\ Len(queue) \in Nat /\ Len(toq) \in Nat
      /\ Len(toq) <= Len(queue)
      /\ \A i \in 1 .. Len(toq) : queue[i] = toq[i]
      /\ \A i \in Len(toq) + 1 .. Len(queue) :
           queue[i] = "HANDSHAKE" /\ m = "VERSION" /\ i = Len(toq) + 1
  <2>1. toq \in Seq(Kinds) /\ "HANDSHAKE" \in Kinds /\ Len(toq) \in Nat
    BY LenProperties DEF Typed, Kinds
  <2>2. CASE m = "VERSION"
    <3>1. queue = Append(toq, "HANDSHAKE")
      BY <2>2
    <3> QED
      BY <2>1, <2>2, <3>1, Appending
  <2>3. CASE m # "VERSION"
    BY <2>1, <2>3
  <2> QED
    BY <2>2, <2>3
<1> HIDE DEF queue
<1>5. CASE m \in Pushing
  <2>1. info_push(suspend', queue) /\ crowded \in BOOLEAN
    BY <1>1, <1>5 DEF Typed
  <2>2. /\ toq' \in Seq(Kinds) /\ crowded' \in BOOLEAN
        /\ Len(toq') \in Nat /\ Len(queue) <= Len(toq')
        /\ \A i \in 1 .. Len(queue) : toq'[i] = queue[i]
        /\ \A i \in Len(queue) + 1 .. Len(toq') : toq'[i] = "LED"
        /\ suspend' \/ crowded' \/ \E i \in 1 .. Len(toq') : toq'[i] = "LED"
    BY <1>1, <1>3, <1>4, <2>1, Pushed
  <2>3. \A i \in 1 .. Len(toq) : toq'[i] = toq[i]
    BY <1>4, <2>2
  <2>4. ASSUME NEW i \in Len(toq) + 1 .. Len(toq')
        PROVE  \/ toq'[i] = "LED"
               \/ toq'[i] = "HANDSHAKE" /\ m = "VERSION" /\ i = Len(toq) + 1
    <3>1. CASE i <= Len(queue)
      BY <1>4, <2>2, <3>1
    <3>2. CASE i > Len(queue)
      BY <1>4, <2>2, <3>2
    <3> QED
      BY <1>4, <2>2, <3>1, <3>2
  <2> QED
    BY <1>1, <1>2, <1>3, <1>4, <1>5, <2>2, <2>3, <2>4
<1>6. CASE m \notin Pushing
  BY <1>1, <1>2, <1>3, <1>4, <1>6 DEF Typed
<1> QED
  BY <1>5, <1>6

\* With nothing from the AVR only the turn passes on.
LEMMA Passed ==
  ASSUME HandleMcu, fromq = <<>>
  PROVE  /\ turn' = "status"
         /\ UNCHANGED <<fromq, toq, suspend, crowded, statusq, answers, bash,
                        engaged, menu>>
BY DEF HandleMcu, bash, avr

\* The AVR's own steps, by what they send and what becomes of the menu.
Says(messages) ==
  /\ AvrSends(messages) /\ Len(messages) \in {1, 2}
  /\ \/ /\ McuStatus /\ engaged \in Names /\ menu' = "tag"
        /\ messages[1] = "RESUME" /\ messages[2] = "STATUS"
        /\ Len(messages) = 2 /\ menu # "tag"
     \/ /\ McuStatus /\ menu' = menu /\ Len(messages) = 1
        /\ messages[1] = IF engaged = "LED" THEN "STATUS_LED" ELSE "STATUS"
     \/ /\ menu \in {"closed", "tag"} /\ menu' = "open"
        /\ Len(messages) = 1 /\ messages[1] = "SUSPEND"
     \/ /\ menu = "open" /\ menu' = "closed"
        /\ Len(messages) = 1 /\ messages[1] = "RESUME"
     \/ /\ menu = "tag" /\ menu' = "closed" /\ Len(messages) = 2
        /\ messages[1] = "SUSPEND" /\ messages[2] = "RESUME"
     \/ /\ menu = "open" /\ menu' = menu /\ Len(messages) = 1
        /\ \E q \in Queries : Ask(q) /\ messages[1] = q

AvrStep == \/ McuStatus \/ MenuOpens \/ MenuLeavesTag \/ MenuCloses
           \/ \E q \in Queries : Ask(q)

LEMMA Spoken ==
  ASSUME Typed, AvrStep
  PROVE  /\ \E messages \in Seq(FromKinds) : Says(messages)
         /\ engaged' = engaged \/ (McuStatus /\ engaged # "none" /\ engaged' = "none")
         /\ UNCHANGED <<turn, statusq, toq, suspend, crowded, answers, bash>>
<1>0. /\ {"RESUME", "STATUS", "STATUS_LED", "SUSPEND"} \subseteq FromKinds
      /\ Queries \subseteq FromKinds
  BY DEF FromKinds
<1>1. CASE McuStatus
  <2>1. CASE engaged \in Names /\ menu # "tag" /\ menu' = "tag"
                /\ AvrSends(<<"RESUME", "STATUS">>)
    <3>1. /\ <<"RESUME", "STATUS">> \in Seq(FromKinds)
          /\ Says(<<"RESUME", "STATUS">>)
      BY <1>0, <1>1, <2>1, Sent DEF Says
    <3>2. engaged' = "none" /\ engaged # "none"
      BY <1>1 DEF McuStatus
    <3> QED
      BY <1>1, <2>1, <3>1, <3>2 DEF AvrSends
  <2>2. CASE /\ menu' = menu
             /\ AvrSends(<<IF engaged = "LED" THEN "STATUS_LED" ELSE "STATUS">>)
    <3> DEFINE a == IF engaged = "LED" THEN "STATUS_LED" ELSE "STATUS"
    <3>1. a \in FromKinds /\ <<a>> \in Seq(FromKinds)
      BY <1>0, Sent
    <3>2. Says(<<a>>)
      BY <1>1, <2>2, <3>1, Sent DEF Says
    <3>3. engaged' = "none" /\ engaged # "none"
      BY <1>1 DEF McuStatus
    <3> QED
      BY <1>1, <2>2, <3>1, <3>2, <3>3 DEF AvrSends
  <2> QED
    BY <1>1, <2>1, <2>2 DEF McuStatus
<1>2. CASE MenuOpens \/ MenuLeavesTag
  <2>1. /\ menu \in {"closed", "tag"} /\ menu' = "open" /\ engaged' = engaged
        /\ AvrSends(<<"SUSPEND">>)
    BY <1>2 DEF MenuOpens, MenuLeavesTag
  <2>2. <<"SUSPEND">> \in Seq(FromKinds) /\ Says(<<"SUSPEND">>)
    BY <1>0, <2>1, Sent DEF Says
  <2> QED
    BY <2>1, <2>2 DEF AvrSends
<1>3. CASE MenuCloses
  <2>1. /\ menu \in {"open", "tag"} /\ menu' = "closed" /\ engaged' = engaged
        /\ AvrSends(IF menu = "tag" THEN <<"SUSPEND", "RESUME">> ELSE <<"RESUME">>)
    BY <1>3 DEF MenuCloses
  <2>2. CASE menu = "tag"
    <3>1. /\ <<"SUSPEND", "RESUME">> \in Seq(FromKinds)
          /\ Says(<<"SUSPEND", "RESUME">>)
      BY <1>0, <2>1, <2>2, Sent DEF Says
    <3> QED
      BY <2>1, <2>2, <3>1 DEF AvrSends
  <2>3. CASE menu = "open"
    <3>1. <<"RESUME">> \in Seq(FromKinds) /\ Says(<<"RESUME">>)
      BY <1>0, <2>1, <2>3, Sent DEF Says
    <3> QED
      BY <2>1, <2>3, <3>1 DEF AvrSends
  <2> QED
    BY <2>1, <2>2, <2>3
<1>4. ASSUME NEW q \in Queries, Ask(q)
      PROVE  /\ <<q>> \in Seq(FromKinds) /\ Says(<<q>>) /\ engaged' = engaged
             /\ AvrSends(<<q>>)
  <2>1. menu = "open" /\ AvrSends(<<q>>) /\ engaged' = engaged /\ menu' = menu
    BY <1>4 DEF Ask, avr
  <2> QED
    BY <1>0, <1>4, <2>1, Sent DEF Says
<1>5. CASE \E q \in Queries : Ask(q)
  BY <1>4, <1>5 DEF AvrSends
<1> QED
  BY <1>1, <1>2, <1>3, <1>5 DEF AvrStep

-----------------------------------------------------------------------------
(* Types.                                                                  *)

LEMMA InitTyped == Init => Typed
<1> SUFFICES ASSUME Init
             PROVE  Typed
  OBVIOUS
<1>1. fromq \in Seq(FromKinds)
  BY Sent DEF Init, FromKinds
<1>2. statusq \in Seq(Statuses) /\ toq \in Seq(Kinds) /\ commandq \in Seq(Queries)
  BY EmptySeq DEF Init
<1>3. timer \in [Queries -> {"off", "armed", "due"}]
  BY DEF Init
<1>4. script \in [Queries -> {"none", "running", "over"}]
  BY DEF Init
<1>5. answers \in [Queries -> Nat]
  BY DEF Init
<1>6. /\ turn \in {"status", "mcu"} /\ suspend \in BOOLEAN /\ crowded \in BOOLEAN
      /\ busy = Idle /\ kept = {} /\ map = {} /\ engaged = "none" /\ menu = "off"
  BY DEF Init
<1> QED
  BY <1>1, <1>2, <1>3, <1>4, <1>5, <1>6 DEF Typed

LEMMA TypedStep == Typed /\ [Next]_vars => Typed'
<1> SUFFICES ASSUME Typed, [Next]_vars
             PROVE  Typed'
  OBVIOUS
<1> USE DEF Typed
<1>1. CASE HandleStatus
  <2>1. CASE statusq = <<>>
    BY <1>1, <2>1 DEF HandleStatus, bash, avr
  <2>2. CASE statusq # <<>>
    <3> DEFINE st == Head(statusq)
    <3>1. st \in Statuses /\ statusq' \in Seq(Statuses)
      <4>1. statusq' = Tail(statusq)
        BY <1>1, <2>2 DEF HandleStatus
      <4> QED
        BY <2>2, <4>1, HeadTailProperties
    <3>2. st.cmd \in Kinds
      BY <3>1 DEF Statuses, Kinds
    <3>3. toq' \in Seq(Kinds)
      <4>1. Append(toq, st.cmd) \in Seq(Kinds)
        BY <3>2, Appending
      <4>2. toq' \in {toq, Append(toq, st.cmd)}
        BY <1>1, <2>2 DEF HandleStatus
      <4> QED
        BY <4>1, <4>2
    <3>4. answers' \in [Queries -> Nat]
      <4> DEFINE more(q) == IF st.value = "good" /\ st.cmd = q THEN 1 ELSE 0
      <4>1. answers' = [q \in Queries |-> answers[q] + more(q)]
        BY <1>1, <2>2 DEF HandleStatus
      <4>2. \A q \in Queries : answers[q] + more(q) \in Nat
        OBVIOUS
      <4> QED
        BY <4>1, <4>2
    <3> QED
      BY <1>1, <3>1, <3>3, <3>4 DEF HandleStatus, bash, avr
  <2> QED
    BY <2>1, <2>2
<1>2. CASE HandleMcu
  <2>1. CASE fromq = <<>>
    BY <1>2, <2>1, Passed DEF bash
  <2>2. CASE fromq # <<>>
    <3> DEFINE m == Head(fromq)
    <3>1. /\ fromq' \in Seq(FromKinds) /\ suspend' \in BOOLEAN
          /\ toq' \in Seq(Kinds) /\ crowded' \in BOOLEAN
          /\ commandq' = (IF m \in Queries THEN Append(commandq, m) ELSE commandq)
      BY <1>2, <2>2, Handled
    <3>2. commandq' \in Seq(Queries)
      BY <3>1, Appending
    <3> QED
      BY <1>2, <3>1, <3>2 DEF HandleMcu, avr
  <2> QED
    BY <2>1, <2>2
<1>3. CASE BashPop
  <2>1. Head(commandq) \in Queries /\ commandq' \in Seq(Queries)
    BY <1>3, HeadTailProperties DEF BashPop
  <2> QED
    BY <1>3, <2>1 DEF BashPop, handle, avr
<1>4. CASE BashStep
  <2>1. busy \in [cmd : Queries, step : 1 .. 4]
    BY <1>4 DEF BashStep
  <2>2. /\ timer' \in [Queries -> {"off", "armed", "due"}]
        /\ script' \in [Queries -> {"none", "running", "over"}]
        /\ map' \subseteq Queries /\ kept' \subseteq Queries
    BY <1>4, <2>1 DEF BashStep
  <2>3. CASE busy.step = 4
    <3>1. busy' = Idle /\ kept' = kept \cup {busy.cmd} /\ script' = script
      BY <1>4, <2>3, FourSteps DEF BashStep
    <3> QED
      BY <1>4, <2>1, <2>2, <2>3, <3>1 DEF BashStep, handle, avr
  <2>4. CASE busy.step # 4
    <3>1. /\ busy' = [busy EXCEPT !.step = @ + 1] /\ kept' = kept
          /\ script' = IF busy.step = 3 THEN [script EXCEPT ![busy.cmd] = "running"]
                                        ELSE script
      BY <1>4, <2>1, <2>4, FourSteps DEF BashStep
    <3>2. busy' \in [cmd : Queries, step : 1 .. 4] /\ busy'.cmd = busy.cmd
          /\ busy'.step = busy.step + 1
      <4>1. busy.cmd \in Queries /\ busy.step + 1 \in 1 .. 4
        BY <2>1, <2>4
      <4>2. busy' = [cmd |-> busy.cmd, step |-> busy.step + 1]
        BY <2>1, <3>1
      <4> QED
        BY <4>1, <4>2
    <3>3. busy'.step = 4 => script'[busy'.cmd] # "none"
      BY <2>1, <3>1, <3>2
    <3>4. \A q \in kept' : script'[q] # "none"
      BY <2>1, <3>1
    <3> QED
      BY <1>4, <2>2, <3>2, <3>3, <3>4 DEF BashStep, handle, avr
  <2> QED
    BY <2>3, <2>4
<1>5. ASSUME NEW q \in Queries, Eof(q) \/ Timeout(q)
      PROVE  Typed'
  <2>1. PICK value \in {"good", "bad", "timeout"} : Report(q, value)
    BY <1>5 DEF Eof, Timeout, Outcomes
  <2>2. [cmd |-> q, value |-> value] \in Statuses
    BY DEF Statuses
  <2>3. statusq' \in Seq(Statuses) /\ map' \subseteq Queries
    BY <2>1, <2>2, Appending DEF Report
  <2>4. /\ timer' \in [Queries -> {"off", "armed", "due"}]
        /\ script' \in [Queries -> {"none", "running", "over"}]
        /\ \A p \in Queries : script[p] # "none" => script'[p] # "none"
    BY <1>5 DEF Eof, Timeout
  <2> QED
    BY <1>5, <2>3, <2>4 DEF Eof, Timeout, avr
<1>6. ASSUME NEW q \in Queries, Expire(q)
      PROVE  Typed'
  BY <1>6 DEF Expire, handle, avr
<1>7. CASE StreamClock
  <2>1. [cmd |-> "CLOCK", value |-> "good"] \in Statuses
    BY DEF Statuses
  <2>2. statusq' \in Seq(Statuses)
    BY <1>7, <2>1, Appending DEF StreamClock
  <2> QED
    BY <1>7, <2>2 DEF StreamClock, bash, avr
<1>8. CASE McuSend
  <2>1. Head(toq) \in Kinds /\ toq' \in Seq(Kinds)
    BY <1>8, HeadTailProperties DEF McuSend
  <2> QED
    BY <1>8, <2>1 DEF McuSend, bash
<1>9. CASE AvrStep
  <2>1. PICK messages \in Seq(FromKinds) : Says(messages)
    BY <1>9, Spoken
  <2>2. fromq' \in Seq(FromKinds)
    BY <2>1, Sending DEF Says
  <2>3. menu' \in {"off", "closed", "open", "tag"}
    BY <2>1 DEF Says
  <2> QED
    BY <1>9, <2>2, <2>3, Spoken DEF bash
<1>10. CASE UNCHANGED vars
  BY <1>10 DEF vars
<1> QED
  BY <1>1, <1>2, <1>3, <1>4, <1>5, <1>6, <1>7, <1>8, <1>9, <1>10 DEF Next, AvrStep

\* handle.cpp, bash.cpp: the queues carry only what their consumers know, and a
\* command has its popen only when its process was started.
THEOREM DaemonTypeCorrect == Spec => []TypeOK
<1>1. Typed => TypeOK
  <2> SUFFICES ASSUME Typed
               PROVE  TypeOK
    OBVIOUS
  <2>1. DOMAIN toq = 1 .. Len(toq) /\ DOMAIN fromq = 1 .. Len(fromq)
    BY LenProperties DEF Typed
  <2>2. ToSet(toq) \subseteq Kinds /\ ToSet(fromq) \subseteq FromKinds
    BY <2>1 DEF Typed, ToSet
  <2>3. \A i \in 1 .. Len(statusq) : statusq[i] \in Statuses
    BY DEF Typed
  <2> QED
    BY <2>2, <2>3 DEF Typed, TypeOK, FromKinds, Statuses
<1>2. Spec => []Typed
  BY InitTyped, TypedStep, PTL DEF Spec
<1> QED
  BY <1>1, <1>2, PTL

-----------------------------------------------------------------------------
(* The flow of information.                                                *)

LedQueued == \E i \in 1 .. Len(toq) : toq[i] = "LED"
CallComes == \E i \in 1 .. Len(fromq) : fromq[i] \in Pushing
Alive == suspend \/ crowded \/ LedQueued \/ engaged = "LED" \/ CallComes

\* Of what the handle thread is to read and to answer, nothing goes but its head.
LEMMA TailKeeps ==
  ASSUME NEW S, NEW s \in Seq(S), s # <<>>, NEW i \in 1 .. Len(s)
  PROVE  /\ Len(s) \in Nat /\ Len(Tail(s)) = Len(s) - 1
         /\ i = 1 => Head(s) = s[i]
         /\ i # 1 => i - 1 \in 1 .. Len(Tail(s)) /\ Tail(s)[i - 1] = s[i]
BY HeadTailProperties, LenProperties

LEMMA AliveStep ==
  ASSUME Typed, Alive, [Next]_vars
  PROVE  Alive'
<1>1. CASE HandleStatus
  <2>1. toq' = toq \/ \E e \in Kinds : toq' = Append(toq, e)
    <3>1. CASE statusq = <<>>
      BY <1>1, <3>1 DEF HandleStatus
    <3>2. CASE statusq # <<>>
      <4>1. Head(statusq) \in Statuses
        BY <3>2, HeadTailProperties DEF Typed
      <4>2. Head(statusq).cmd \in Kinds
        BY <4>1 DEF Statuses, Kinds
      <4> QED
        BY <1>1, <3>2, <4>2 DEF HandleStatus
    <3> QED
      BY <3>1, <3>2
  <2>2. LedQueued => LedQueued'
    <3>1. ASSUME NEW e \in Kinds, toq' = Append(toq, e), LedQueued
          PROVE  LedQueued'
      BY <3>1, Appending DEF Typed, LedQueued
    <3> QED
      BY <2>1, <3>1 DEF LedQueued
  <2> QED
    BY <1>1, <2>2 DEF HandleStatus, Alive, CallComes, avr
<1>2. CASE HandleMcu
  <2>1. CASE fromq = <<>>
    BY <1>2, <2>1, Passed DEF Alive, LedQueued, CallComes
  <2>2. CASE fromq # <<>>
    <3> DEFINE m == Head(fromq)
    <3>1. CASE m \in Pushing
      BY <1>2, <2>2, <3>1, Handled DEF Alive, LedQueued
    <3>2. CASE m \notin Pushing
      <4>1. /\ toq' = toq /\ crowded' = crowded /\ fromq' = Tail(fromq)
            /\ suspend' = Suspended(m) /\ engaged' = engaged
        BY <1>2, <2>2, <3>2, Handled DEF HandleMcu, avr
      <4>2. suspend => suspend'
        BY <3>2, <4>1 DEF Suspended, Pushing
      <4>3. CallComes => CallComes'
        BY <2>2, <3>2, <4>1, TailKeeps DEF Typed, CallComes
      <4> QED
        BY <4>1, <4>2, <4>3 DEF Alive, LedQueued
    <3> QED
      BY <3>1, <3>2
  <2> QED
    BY <2>1, <2>2
<1>3. CASE McuSend
  <2>1. toq # <<>> /\ toq' = Tail(toq) /\ engaged = "none"
    BY <1>3 DEF McuSend
  <2>2. ASSUME NEW i \in 1 .. Len(toq), toq[i] = "LED"
        PROVE  LedQueued' \/ engaged' = "LED"
    <3>1. CASE i = 1
      <4>1. Head(toq) = "LED"
        BY <2>1, <2>2, <3>1, TailKeeps DEF Typed
      <4> QED
        BY <1>3, <4>1 DEF McuSend
    <3>2. CASE i # 1
      BY <2>1, <2>2, <3>2, TailKeeps DEF Typed, LedQueued
    <3> QED
      BY <3>1, <3>2
  <2> QED
    BY <1>3, <2>1, <2>2 DEF McuSend, Alive, LedQueued, CallComes
<1>4. CASE AvrStep
  <2>1. PICK messages \in Seq(FromKinds) : Says(messages)
    BY <1>4, Spoken
  <2>2. /\ Len(fromq') = Len(fromq) + Len(messages) /\ Len(fromq) \in Nat
        /\ Len(messages) \in {1, 2}
        /\ \A i \in 1 .. Len(fromq') :
             fromq'[i] = IF i <= Len(fromq) THEN fromq[i]
                                            ELSE messages[i - Len(fromq)]
    BY <2>1, Sending DEF Typed, Says
  <2>3. CallComes => CallComes'
    BY <2>2 DEF CallComes
  <2>4. CASE engaged = "LED" /\ engaged' # engaged
    <3>1. (McuStatus /\ engaged \notin Names /\ menu' = menu) \/ ~McuStatus
      BY <2>1, <2>4, Distinct DEF Says, McuStatus, Queries
    <3>2. McuStatus
      BY <1>4, <2>4, Spoken
    <3>3. messages[1] = "STATUS_LED"
      <4>1. \A q \in Queries : ~Ask(q)
        BY <2>4 DEF Ask, avr
      <4>2. menu' = menu
        BY <3>1, <3>2
      <4> QED
        BY <2>1, <2>4, <3>1, <3>2, <4>1, <4>2, Distinct DEF Says, Queries
    <3>4. Len(fromq) + 1 \in 1 .. Len(fromq') /\ fromq'[Len(fromq) + 1] = "STATUS_LED"
      BY <2>2, <3>3
    <3> QED
      BY <3>4 DEF Alive, CallComes, Pushing
  <2>5. CASE ~(engaged = "LED" /\ engaged' # engaged)
    <3>1. toq' = toq /\ suspend' = suspend /\ crowded' = crowded
      BY <1>4, Spoken
    <3> QED
      BY <2>3, <2>5, <3>1 DEF Alive, LedQueued
  <2> QED
    BY <2>4, <2>5
<1>5. CASE \/ BashPop \/ BashStep \/ StreamClock
           \/ \E q \in Queries : Eof(q) \/ Expire(q) \/ Timeout(q)
  <2>1. UNCHANGED <<fromq, toq, suspend, crowded, engaged>>
    BY <1>5 DEF BashPop, BashStep, StreamClock, Eof, Expire, Timeout, handle, avr
  <2> QED
    BY <2>1 DEF Alive, LedQueued, CallComes
<1>6. CASE UNCHANGED vars
  BY <1>6 DEF vars, Alive, LedQueued, CallComes
<1> QED
  BY <1>1, <1>2, <1>3, <1>4, <1>5, <1>6 DEF Next, AvrStep

LEMMA InitAlive == Init => Alive
<1>1. Init => fromq = <<"VERSION">> /\ 1 \in 1 .. Len(fromq) /\ fromq[1] = "VERSION"
  BY DEF Init
<1> QED
  BY <1>1 DEF Alive, CallComes, Pushing

\* handle.cpp, info_push: however the AVR's messages, the statuses of commands
\* and the menu are interleaved, the flow of LED arrays never dies unnoticed.
THEOREM FlowStaysAlive == Spec => []FlowAlive
<1> DEFINE IInv == Typed /\ Alive
<1>1. Init => IInv
  BY InitTyped, InitAlive
<1>2. IInv /\ [Next]_vars => IInv'
  <2>1. IInv /\ [Next]_vars => Alive'
    BY AliveStep
  <2> QED
    BY <2>1, TypedStep
<1>3. IInv => FlowAlive
  <2> SUFFICES ASSUME Typed, Alive
               PROVE  FlowAlive
    OBVIOUS
  <2>1. DOMAIN toq = 1 .. Len(toq) /\ DOMAIN fromq = 1 .. Len(fromq)
    BY LenProperties DEF Typed
  <2>2. LedQueued => Contains(toq, "LED")
    BY <2>1 DEF LedQueued, Contains
  <2>3. CallComes => Pushing \cap ToSet(fromq) # {}
    BY <2>1 DEF CallComes, ToSet
  <2> QED
    BY <2>2, <2>3 DEF Alive, FlowAlive
<1> HIDE DEF IInv
<1>4. Spec => []IInv
  BY <1>1, <1>2, PTL DEF Spec
<1> QED
  BY <1>3, <1>4, PTL

-----------------------------------------------------------------------------
(* The map of commands.                                                    *)

\* What NothingForgotten leaves open: at its last step the command in
\* execute_command is still waited for without the thread's help.
Awaited(q) == timer[q] # "off" \/ script[q] = "running"
Remembered ==
  /\ \A q \in map : Awaited(q) \/ busy.cmd = q
  /\ busy # Idle /\ busy.step = 4 /\ busy.cmd \in map => Awaited(busy.cmd)

LEMMA RememberedStep ==
  ASSUME Typed, Remembered, [Next]_vars
  PROVE  Remembered'
<1> USE DEF Awaited
<1>1. CASE BashPop
  <2>1. busy = Idle /\ busy' = [cmd |-> Head(commandq), step |-> 1]
        /\ UNCHANGED <<timer, script, map>>
    BY <1>1 DEF BashPop
  <2>2. Head(commandq) \in Queries
    BY <1>1, HeadTailProperties DEF BashPop, Typed
  <2>3. \A q \in map : Awaited(q)
    BY Distinct, <2>1 DEF Remembered, Typed, Idle
  <2> QED
    BY <2>1, <2>3 DEF Remembered
<1>2. CASE BashStep
  <2> DEFINE q == busy.cmd
  <2>1. /\ busy # Idle /\ busy \in [cmd : Queries, step : 1 .. 4]
        /\ busy' = IF busy.step = 4 THEN Idle ELSE [busy EXCEPT !.step = @ + 1]
    BY <1>2, FourSteps DEF BashStep, Typed
  <2>2. CASE busy.step = 1
    <3>1. timer' = [timer EXCEPT ![q] = "armed"] /\ map' = map /\ script' = script
      BY <1>2, <2>2, FourSteps DEF BashStep
    <3>2. busy'.cmd = q /\ busy'.step = 2
      BY <2>1, <2>2
    <3> QED
      BY <2>1, <3>1, <3>2 DEF Remembered, Typed
  <2>3. CASE busy.step = 2
    <3>1. timer' = timer /\ map' = map \cup {q} /\ script' = script
      BY <1>2, <2>3, FourSteps DEF BashStep
    <3>2. busy'.cmd = q /\ busy'.step = 3
      BY <2>1, <2>3
    <3> QED
      BY <2>1, <3>1, <3>2 DEF Remembered, Typed
  <2>4. CASE busy.step = 3
    <3>1. timer' = timer /\ map' = map /\ script' = [script EXCEPT ![q] = "running"]
      BY <1>2, <2>4, FourSteps DEF BashStep
    <3>2. busy'.cmd = q /\ script'[q] = "running"
      BY <2>1, <2>4, <3>1 DEF Typed
    <3> QED
      BY <2>1, <3>1, <3>2 DEF Remembered, Typed
  <2>5. CASE busy.step = 4
    <3>1. timer' = timer /\ map' = map /\ script' = script /\ busy' = Idle
      BY <1>2, <2>1, <2>5, FourSteps DEF BashStep
    <3> QED
      BY <2>1, <2>5, <3>1 DEF Remembered
  <2> QED
    BY <2>1, <2>2, <2>3, <2>4, <2>5
<1>3. ASSUME NEW q \in Queries, Eof(q) \/ Timeout(q)
      PROVE  Remembered'
  <2>1. map' = map \ {q} /\ busy' = busy
    BY <1>3 DEF Eof, Timeout, Report
  <2>2. \A p \in Queries \ {q} : timer'[p] = timer[p] /\ script'[p] = script[p]
    BY <1>3 DEF Eof, Timeout, Typed
  <2> QED
    BY <2>1, <2>2 DEF Remembered, Typed
<1>4. ASSUME NEW q \in Queries, Expire(q)
      PROVE  Remembered'
  <2>1. UNCHANGED <<map, busy, script>> /\ timer' = [timer EXCEPT ![q] = "due"]
    BY <1>4 DEF Expire
  <2> QED
    BY <2>1 DEF Remembered, Typed
<1>5. CASE HandleStatus \/ HandleMcu \/ StreamClock \/ McuSend \/ AvrStep
           \/ UNCHANGED vars
  <2>1. UNCHANGED <<map, busy, script, timer>>
    BY <1>5, Spoken DEF HandleStatus, HandleMcu, StreamClock, McuSend, bash, vars
  <2> QED
    BY <2>1 DEF Remembered
<1> QED
  BY <1>1, <1>2, <1>3, <1>4, <1>5 DEF Next, AvrStep

\* bash.cpp, execute_command and the callbacks of asio: a command in the map
\* always has a callback to come, wherever its timer and its pipe interrupt the
\* thread that starts it.
THEOREM NobodyForgotten == Spec => []NothingForgotten
<1> DEFINE IInv == Typed /\ Remembered
<1>1. Init => IInv
  <2>1. Init => Remembered
    BY DEF Init, Remembered
  <2> QED
    BY <2>1, InitTyped
<1>2. IInv /\ [Next]_vars => IInv'
  <2>1. IInv /\ [Next]_vars => Remembered'
    BY RememberedStep
  <2> QED
    BY <2>1, TypedStep
<1>3. IInv => NothingForgotten
  BY DEF Remembered, Awaited, NothingForgotten
<1> HIDE DEF IInv
<1>4. Spec => []IInv
  BY <1>1, <1>2, PTL DEF Spec
<1> QED
  BY <1>3, <1>4, PTL

-----------------------------------------------------------------------------
(* The suspension.                                                         *)

\* Until the handshake has reached the AVR it asks for nothing.
Quiet ==
  menu = "off" =>
    /\ engaged \notin Queries
    /\ \A i \in 1 .. Len(toq) : toq[i] \notin Queries
    /\ \A i \in 1 .. Len(fromq) : fromq[i] \notin Queries
    /\ \A i \in 1 .. Len(statusq) : statusq[i].cmd \notin Queries
    /\ commandq = <<>> /\ busy = Idle
    /\ \A q \in Queries : script[q] = "none" /\ timer[q] = "off"

\* VERSION is answered once, by the handshake that switches the menu on.
Greeting ==
  /\ \A i, j \in 1 .. Len(fromq) :
       fromq[i] = "VERSION" /\ fromq[j] = "VERSION" => i = j
  /\ \A i, j \in 1 .. Len(toq) :
       toq[i] = "HANDSHAKE" /\ toq[j] = "HANDSHAKE" => i = j
  /\ \A i \in 1 .. Len(fromq) : fromq[i] = "VERSION" =>
       /\ menu = "off"
       /\ \A j \in 1 .. Len(toq) : toq[j] # "HANDSHAKE"
  /\ \A j \in 1 .. Len(toq) : toq[j] = "HANDSHAKE" => menu = "off"

\* The last notice under way says what the menu does; with none under way the
\* daemon knows it.
Notices == {"SUSPEND", "RESUME"}
Agree ==
  /\ \A i \in 1 .. Len(fromq) :
       /\ fromq[i] \in Notices
       /\ \A j \in i + 1 .. Len(fromq) : fromq[j] \notin Notices
       => (fromq[i] = "SUSPEND") = (menu = "open")
  /\ (\A i \in 1 .. Len(fromq) : fromq[i] \notin Notices)
       => suspend = (menu = "open")

LEMMA QuietStep ==
  ASSUME Typed, Quiet, [Next]_vars
  PROVE  Quiet'
<1> SUFFICES ASSUME menu' = "off"
             PROVE  Quiet'
  BY DEF Quiet
<1>1. CASE HandleStatus
  <2>0. menu = "off"
    BY <1>1 DEF HandleStatus, avr
  <2>1. CASE statusq = <<>>
    BY <1>1, <2>0, <2>1 DEF HandleStatus, Quiet, bash, avr
  <2>2. CASE statusq # <<>>
    <3> DEFINE st == Head(statusq)
    <3>1. statusq' = Tail(statusq) /\ st \in Statuses /\ st = statusq[1]
          /\ 1 \in 1 .. Len(statusq)
      BY <1>1, <2>2, HeadTailProperties, LenProperties DEF HandleStatus, Typed
    <3>2. st.cmd \notin Queries /\ st.cmd \in Kinds
      BY <2>0, <3>1 DEF Quiet, Statuses, Kinds
    <3>3. toq' = toq \/ toq' = Append(toq, st.cmd)
      BY <1>1, <2>2 DEF HandleStatus
    <3>4. \A i \in 1 .. Len(toq') : toq'[i] \notin Queries
      <4>1. CASE toq' = toq
        BY <2>0, <4>1 DEF Quiet
      <4>2. CASE toq' = Append(toq, st.cmd)
        BY <2>0, <3>2, <4>2, Appending DEF Quiet, Typed
      <4> QED
        BY <3>3, <4>1, <4>2
    <3>5. \A i \in 1 .. Len(statusq') : statusq'[i].cmd \notin Queries
      <4>1. /\ Len(statusq) \in Nat /\ Len(statusq') = Len(statusq) - 1
            /\ \A i \in 1 .. Len(statusq') : statusq'[i] = statusq[i + 1]
        BY <2>2, <3>1, HeadTailProperties, LenProperties DEF Typed
      <4> QED
        BY <2>0, <4>1 DEF Quiet
    <3> QED
      BY <1>1, <2>0, <3>4, <3>5 DEF HandleStatus, Quiet, bash, avr
  <2> QED
    BY <2>1, <2>2
<1>2. CASE HandleMcu
  <2>0. /\ menu = "off" /\ UNCHANGED <<statusq, busy, script, timer, engaged>>
    BY <1>2 DEF HandleMcu, avr
  <2>1. CASE fromq = <<>>
    BY <1>2, <2>0, <2>1, Passed DEF Quiet, bash
  <2>2. CASE fromq # <<>>
    <3> DEFINE m == Head(fromq)
    <3>1. /\ fromq' = Tail(fromq) /\ m = fromq[1] /\ 1 \in 1 .. Len(fromq)
          /\ Len(fromq) \in Nat /\ Len(fromq') = Len(fromq) - 1
          /\ \A i \in 1 .. Len(fromq') : fromq'[i] = fromq[i + 1]
      <4>1. fromq' = Tail(fromq)
        BY <1>2, <2>2 DEF HandleMcu
      <4> QED
        BY <2>2, <4>1, HeadTailProperties, LenProperties DEF Typed
    <3>2. m \notin Queries
      BY <2>0, <3>1 DEF Quiet
    <3>3. \A i \in 1 .. Len(fromq') : fromq'[i] \notin Queries
      BY <2>0, <3>1 DEF Quiet
    <3>4. commandq' = <<>>
      BY <1>2, <2>0, <2>2, <3>2, Handled DEF Quiet
    <3>5. \A i \in 1 .. Len(toq') : toq'[i] \notin Queries
      <4>1. /\ Len(toq) \in Nat /\ Len(toq') \in Nat
            /\ \A i \in 1 .. Len(toq) : toq'[i] = toq[i]
            /\ \A i \in Len(toq) + 1 .. Len(toq') : toq'[i] \in {"LED", "HANDSHAKE"}
        BY <1>2, <2>2, Handled
      <4>2. ASSUME NEW i \in 1 .. Len(toq')
            PROVE  toq'[i] \notin Queries
        <5>1. CASE i <= Len(toq)
          BY <2>0, <4>1, <5>1 DEF Quiet
        <5>2. CASE i > Len(toq)
          BY <4>1, <5>2, Distinct
        <5> QED
          BY <4>1, <5>1, <5>2
      <4> QED
        BY <4>2
    <3> QED
      BY <2>0, <3>3, <3>4, <3>5 DEF Quiet
  <2> QED
    BY <2>1, <2>2
<1>3. CASE McuSend
  <2>1. /\ menu = "off" /\ toq # <<>> /\ toq' = Tail(toq)
        /\ engaged' \in {engaged, Head(toq)}
        /\ UNCHANGED <<fromq, statusq, commandq, busy, script, timer>>
    BY <1>3 DEF McuSend, bash
  <2>2. /\ Head(toq) = toq[1] /\ 1 \in 1 .. Len(toq) /\ Len(toq) \in Nat
        /\ Len(toq') = Len(toq) - 1
        /\ \A i \in 1 .. Len(toq') : toq'[i] = toq[i + 1]
    BY <2>1, HeadTailProperties, LenProperties DEF Typed
  <2> QED
    BY <2>1, <2>2 DEF Quiet
<1>4. CASE AvrStep
  <2>1. PICK messages \in Seq(FromKinds) : Says(messages)
    BY <1>4, Spoken
  <2>2. /\ menu = "off" /\ Len(messages) = 1
        /\ messages[1] \in {"STATUS_LED", "STATUS"}
    BY <2>1 DEF Says
  <2>3. messages[1] \notin Queries /\ "none" \notin Queries
    BY <2>2, Distinct
  <2>4. \A i \in 1 .. Len(fromq') : fromq'[i] \notin Queries
    <3>1. /\ Len(fromq) \in Nat /\ Len(fromq') = Len(fromq) + 1
          /\ \A i \in 1 .. Len(fromq') :
               fromq'[i] = IF i <= Len(fromq) THEN fromq[i]
                                              ELSE messages[i - Len(fromq)]
      BY <2>1, <2>2, Sending DEF Says, Typed
    <3> QED
      BY <2>2, <2>3, <3>1 DEF Quiet
  <2>5. engaged' \notin Queries
    BY <1>4, <2>2, <2>3, Spoken DEF Quiet
  <2> QED
    BY <1>4, <2>2, <2>4, <2>5, Spoken DEF Quiet, bash
<1>5. ASSUME NEW q \in Queries, Eof(q) \/ Expire(q) \/ Timeout(q)
      PROVE  FALSE
  BY <1>5 DEF Eof, Expire, Timeout, Quiet, avr
<1>6. CASE BashPop \/ BashStep
  BY <1>6 DEF BashPop, BashStep, Quiet, avr
<1>7. CASE StreamClock
  <2>1. /\ menu = "off"
        /\ statusq' = Append(statusq, [cmd |-> "CLOCK", value |-> "good"])
        /\ UNCHANGED <<toq, fromq, engaged, commandq, busy, script, timer>>
    BY <1>7 DEF StreamClock, bash, avr
  <2>2. [cmd |-> "CLOCK", value |-> "good"] \in Statuses
    BY DEF Statuses
  <2>3. \A i \in 1 .. Len(statusq') : statusq'[i].cmd \notin Queries
    BY <2>1, <2>2, Appending, Distinct DEF Quiet, Typed
  <2> QED
    BY <2>1, <2>3 DEF Quiet
<1>8. CASE UNCHANGED vars
  BY <1>8 DEF vars, Quiet
<1> QED
  BY <1>1, <1>2, <1>3, <1>4, <1>5, <1>6, <1>7, <1>8 DEF Next, AvrStep

LEMMA GreetingStep ==
  ASSUME Typed, Quiet, Greeting, [Next]_vars
  PROVE  Greeting'
<1>1. CASE HandleStatus
  <2>0. UNCHANGED <<fromq, menu>>
    BY <1>1 DEF HandleStatus, avr
  <2>1. CASE toq' = toq
    BY <2>0, <2>1 DEF Greeting
  <2>2. CASE toq' # toq
    <3> DEFINE st == Head(statusq)
    <3>1. statusq # <<>> /\ toq' = Append(toq, st.cmd)
      BY <1>1, <2>2 DEF HandleStatus
    <3>2. st \in Statuses
      BY <3>1, HeadTailProperties DEF Typed
    <3>3. st.cmd \in Kinds /\ st.cmd # "HANDSHAKE"
      BY <3>2, Distinct DEF Statuses, Kinds
    <3> HIDE DEF st
    <3>4. /\ Len(toq) \in Nat /\ Len(toq') = Len(toq) + 1
          /\ \A i \in 1 .. Len(toq') :
               toq'[i] = IF i <= Len(toq) THEN toq[i] ELSE st.cmd
      BY <3>1, <3>3, Appending DEF Typed
    <3>5. \A i \in 1 .. Len(toq') :
            toq'[i] = "HANDSHAKE" => i \in 1 .. Len(toq) /\ toq[i] = "HANDSHAKE"
      BY <3>3, <3>4
    <3> QED
      BY <2>0, <3>5 DEF Greeting
  <2> QED
    BY <2>1, <2>2
<1>2. CASE HandleMcu
  <2>0. menu' = menu
    BY <1>2 DEF HandleMcu, avr
  <2>1. CASE fromq = <<>>
    BY <1>2, <2>1, Passed DEF Greeting
  <2>2. CASE fromq # <<>>
    <3> DEFINE m == Head(fromq)
    <3>1. fromq' = Tail(fromq)
      BY <1>2, <2>2 DEF HandleMcu
    <3>2. /\ m = fromq[1] /\ 1 \in 1 .. Len(fromq)
          /\ Len(fromq) \in Nat /\ Len(fromq') = Len(fromq) - 1
          /\ \A i \in 1 .. Len(fromq') : fromq'[i] = fromq[i + 1]
      BY <2>2, <3>1, HeadTailProperties, LenProperties DEF Typed
    <3>3. /\ Len(toq) \in Nat /\ Len(toq') \in Nat
          /\ \A i \in 1 .. Len(toq) : toq'[i] = toq[i]
          /\ \A i \in Len(toq) + 1 .. Len(toq') :
               \/ toq'[i] = "LED"
               \/ toq'[i] = "HANDSHAKE" /\ m = "VERSION" /\ i = Len(toq) + 1
      BY <1>2, <2>2, Handled
    <3> HIDE DEF m
    <3>4. /\ \A i, j \in 1 .. Len(fromq') :
               fromq'[i] = "VERSION" /\ fromq'[j] = "VERSION" => i = j
          /\ \A i \in 1 .. Len(fromq') : fromq'[i] = "VERSION" =>
               m # "VERSION" /\ menu = "off"
      BY <3>2 DEF Greeting
    <3>5. ASSUME NEW i \in 1 .. Len(toq'), toq'[i] = "HANDSHAKE"
          PROVE  /\ menu = "off"
                 /\ \/ m # "VERSION" /\ i \in 1 .. Len(toq) /\ toq[i] = "HANDSHAKE"
                    \/ m = "VERSION" /\ i = Len(toq) + 1
      <4>1. CASE i <= Len(toq)
        <5>1. i \in 1 .. Len(toq) /\ toq[i] = "HANDSHAKE"
          BY <3>3, <3>5, <4>1
        <5>2. fromq[1] # "VERSION" /\ menu = "off"
          BY <3>2, <5>1 DEF Greeting
        <5> QED
          BY <3>2, <5>1, <5>2
      <4>2. CASE i > Len(toq)
        <5>1. m = "VERSION" /\ i = Len(toq) + 1
          BY <3>3, <3>5, <4>2
        <5> QED
          BY <3>2, <5>1 DEF Greeting
      <4> QED
        BY <3>3, <4>1, <4>2
    <3>6. \A i, j \in 1 .. Len(toq') :
            toq'[i] = "HANDSHAKE" /\ toq'[j] = "HANDSHAKE" => i = j
      BY <3>5 DEF Greeting
    <3>7. \A i \in 1 .. Len(fromq') : fromq'[i] = "VERSION" =>
            \A j \in 1 .. Len(toq') : toq'[j] # "HANDSHAKE"
      <4> SUFFICES ASSUME NEW i \in 1 .. Len(fromq'), fromq'[i] = "VERSION",
                          NEW j \in 1 .. Len(toq'), toq'[j] = "HANDSHAKE"
                   PROVE  FALSE
        OBVIOUS
      <4>1. j \in 1 .. Len(toq) /\ toq[j] = "HANDSHAKE"
        BY <3>4, <3>5
      <4>2. i + 1 \in 1 .. Len(fromq) /\ fromq[i + 1] = "VERSION"
        BY <3>2
      <4> QED
        BY <4>1, <4>2 DEF Greeting
    <3> QED
      BY <2>0, <3>4, <3>5, <3>6, <3>7 DEF Greeting
  <2> QED
    BY <2>1, <2>2
<1>3. CASE McuSend
  <2>1. /\ toq # <<>> /\ toq' = Tail(toq) /\ fromq' = fromq
        /\ IF Head(toq) = "HANDSHAKE" THEN menu' = "closed" ELSE menu' = menu
    BY <1>3 DEF McuSend
  <2>2. /\ Head(toq) = toq[1] /\ 1 \in 1 .. Len(toq) /\ Len(toq) \in Nat
        /\ Len(toq') = Len(toq) - 1
        /\ \A i \in 1 .. Len(toq') : toq'[i] = toq[i + 1]
    BY <2>1, HeadTailProperties, LenProperties DEF Typed
  <2>3. /\ \A i \in 1 .. Len(toq') : toq'[i] = "HANDSHAKE" =>
             /\ i + 1 \in 1 .. Len(toq) /\ toq[i + 1] = "HANDSHAKE"
             /\ Head(toq) # "HANDSHAKE"
    BY <2>2 DEF Greeting
  <2>4. \A i \in 1 .. Len(fromq') : fromq'[i] = "VERSION" =>
          Head(toq) # "HANDSHAKE" /\ menu' = "off"
    BY <2>1, <2>2 DEF Greeting
  <2>5. \A i, j \in 1 .. Len(toq') :
          toq'[i] = "HANDSHAKE" /\ toq'[j] = "HANDSHAKE" => i = j
    <3> SUFFICES ASSUME NEW i \in 1 .. Len(toq'), NEW j \in 1 .. Len(toq'),
                        toq'[i] = "HANDSHAKE", toq'[j] = "HANDSHAKE"
                 PROVE  i = j
      OBVIOUS
    <3>1. i + 1 = j + 1
      BY <2>3 DEF Greeting
    <3> QED
      BY <3>1
  <2> QED
    BY <2>1, <2>3, <2>4, <2>5 DEF Greeting
<1>4. CASE AvrStep
  <2>1. PICK messages \in Seq(FromKinds) : Says(messages)
    BY <1>4, Spoken
  <2>2. menu = "off" => menu' = "off"
    <3>1. menu = "off" => engaged \notin Names
      BY DEF Quiet, Queries
    <3> QED
      BY <2>1, <3>1 DEF Says
  <2>3. /\ Len(fromq') = Len(fromq) + Len(messages) /\ Len(fromq) \in Nat
        /\ Len(messages) \in {1, 2}
        /\ \A i \in 1 .. Len(fromq') :
             fromq'[i] = IF i <= Len(fromq) THEN fromq[i]
                                            ELSE messages[i - Len(fromq)]
    BY <2>1, Sending DEF Typed, Says
  <2>4. messages[1] # "VERSION" /\ (Len(messages) = 2 => messages[2] # "VERSION")
    BY <2>1, Distinct DEF Says
  <2>5. \A i \in 1 .. Len(fromq') : fromq'[i] = "VERSION" =>
          i \in 1 .. Len(fromq) /\ fromq[i] = "VERSION"
    BY <2>3, <2>4
  <2> QED
    BY <1>4, <2>2, <2>5, Spoken DEF Greeting
<1>5. CASE \/ BashPop \/ BashStep \/ StreamClock \/ UNCHANGED vars
           \/ \E q \in Queries : Eof(q) \/ Expire(q) \/ Timeout(q)
  <2>1. UNCHANGED <<fromq, toq, menu>>
    BY <1>5 DEF BashPop, BashStep, StreamClock, Eof, Expire, Timeout, handle, avr,
                vars
  <2> QED
    BY <2>1 DEF Greeting
<1> QED
  BY <1>1, <1>2, <1>3, <1>4, <1>5 DEF Next, AvrStep

LEMMA AgreeStep ==
  ASSUME Typed, Quiet, Greeting, Agree, [Next]_vars
  PROVE  Agree'
<1>1. CASE HandleMcu
  <2>0. menu' = menu
    BY <1>1 DEF HandleMcu, avr
  <2>1. CASE fromq = <<>>
    BY <1>1, <2>1, Passed DEF Agree
  <2>2. CASE fromq # <<>>
    <3> DEFINE m == Head(fromq)
    <3>1. fromq' = Tail(fromq) /\ suspend' = Suspended(m)
      BY <1>1, <2>2 DEF HandleMcu
    <3>2. /\ m = fromq[1] /\ 1 \in 1 .. Len(fromq)
          /\ Len(fromq) \in Nat /\ Len(fromq') = Len(fromq) - 1
          /\ \A i \in 1 .. Len(fromq') : fromq'[i] = fromq[i + 1]
      BY <2>2, <3>1, HeadTailProperties, LenProperties DEF Typed
    <3> HIDE DEF m
    <3>3. ASSUME NEW i \in 1 .. Len(fromq'), fromq'[i] \in Notices,
                 \A j \in i + 1 .. Len(fromq') : fromq'[j] \notin Notices
          PROVE  (fromq'[i] = "SUSPEND") = (menu = "open")
      <4>1. i + 1 \in 1 .. Len(fromq) /\ fromq[i + 1] = fromq'[i]
        BY <3>2
      <4>2. \A j \in i + 2 .. Len(fromq) : fromq[j] \notin Notices
        <5> SUFFICES ASSUME NEW j \in i + 2 .. Len(fromq)
                     PROVE  fromq[j] \notin Notices
          OBVIOUS
        <5>1. j - 1 \in i + 1 .. Len(fromq') /\ j - 1 \in 1 .. Len(fromq')
          BY <3>2
        <5>2. fromq'[j - 1] = fromq[j]
          BY <3>2, <5>1
        <5> QED
          BY <3>3, <5>1, <5>2
      <4>3. \A j \in (i + 1) + 1 .. Len(fromq) : fromq[j] \notin Notices
        BY <4>2
      <4> QED
        BY <3>3, <4>1, <4>3 DEF Agree
    <3>4. ASSUME \A i \in 1 .. Len(fromq') : fromq'[i] \notin Notices
          PROVE  suspend' = (menu = "open")
      <4>1. \A j \in 2 .. Len(fromq) : fromq[j] \notin Notices
        <5> SUFFICES ASSUME NEW j \in 2 .. Len(fromq)
                     PROVE  fromq[j] \notin Notices
          OBVIOUS
        <5>1. j - 1 \in 1 .. Len(fromq')
          BY <3>2
        <5>2. fromq'[j - 1] = fromq[j]
          BY <3>2, <5>1
        <5> QED
          BY <3>4, <5>1, <5>2
      <4>2. CASE m \in Notices
        <5>1. (m = "SUSPEND") = (menu = "open")
          BY <3>2, <4>1, <4>2 DEF Agree
        <5> QED
          BY <3>1, <4>2, <5>1 DEF Suspended, Notices
      <4>3. CASE m \notin Notices
        <5>1. \A i \in 1 .. Len(fromq) : fromq[i] \notin Notices
          BY <3>2, <4>1, <4>3
        <5> QED
          BY <3>1, <4>3, <5>1 DEF Agree, Suspended, Notices, Typed
      <4> QED
        BY <4>2, <4>3
    <3> QED
      BY <2>0, <3>3, <3>4 DEF Agree
  <2> QED
    BY <2>1, <2>2
<1>2. CASE McuSend
  <2>1. fromq' = fromq /\ suspend' = suspend
    BY <1>2 DEF McuSend
  <2>2. (menu' = "open") = (menu = "open")
    <3>1. CASE Head(toq) = "HANDSHAKE"
      <4>1. Head(toq) = toq[1] /\ 1 \in 1 .. Len(toq)
        BY <1>2, HeadTailProperties, LenProperties DEF McuSend, Typed
      <4>2. menu = "off"
        BY <3>1, <4>1 DEF Greeting
      <4> QED
        BY <1>2, <3>1, <4>2 DEF McuSend
    <3>2. CASE Head(toq) # "HANDSHAKE"
      BY <1>2, <3>2 DEF McuSend
    <3> QED
      BY <3>1, <3>2
  <2> QED
    BY <2>1, <2>2 DEF Agree
<1>3. CASE AvrStep
  <2>1. PICK messages \in Seq(FromKinds) : Says(messages)
    BY <1>3, Spoken
  <2>2. /\ Len(fromq') = Len(fromq) + Len(messages) /\ Len(fromq) \in Nat
        /\ Len(messages) \in {1, 2} /\ suspend' = suspend
        /\ \A i \in 1 .. Len(fromq') :
             fromq'[i] = IF i <= Len(fromq) THEN fromq[i]
                                            ELSE messages[i - Len(fromq)]
    BY <1>3, <2>1, Sending, Spoken DEF Typed, Says
  <2>3. CASE Len(messages) = 1 /\ messages[1] \notin Notices /\ menu' = menu
    <3>1. \A i \in 1 .. Len(fromq) : fromq'[i] = fromq[i]
      BY <2>2
    <3>2. Len(fromq) + 1 \in 1 .. Len(fromq') /\ fromq'[Len(fromq) + 1] \notin Notices
          /\ Len(fromq') = Len(fromq) + 1
      BY <2>2, <2>3
    <3>3. ASSUME NEW i \in 1 .. Len(fromq'), fromq'[i] \in Notices,
                 \A j \in i + 1 .. Len(fromq') : fromq'[j] \notin Notices
          PROVE  (fromq'[i] = "SUSPEND") = (menu = "open")
      <4>1. i \in 1 .. Len(fromq) /\ fromq[i] = fromq'[i]
        BY <2>2, <3>1, <3>2, <3>3
      <4>2. \A j \in i + 1 .. Len(fromq) : fromq[j] \notin Notices
        BY <2>2, <3>1, <3>2, <3>3, <4>1
      <4> QED
        BY <3>3, <4>1, <4>2 DEF Agree
    <3>4. ASSUME \A i \in 1 .. Len(fromq') : fromq'[i] \notin Notices
          PROVE  suspend' = (menu = "open")
      BY <2>2, <3>1, <3>2, <3>4 DEF Agree
    <3> QED
      BY <2>3, <3>3, <3>4 DEF Agree
  <2>4. ASSUME NEW k \in 1 .. Len(messages), messages[k] \in Notices,
               (messages[k] = "SUSPEND") = (menu' = "open"),
               \A l \in k + 1 .. Len(messages) : messages[l] \notin Notices
        PROVE  Agree'
    <3>1. Len(fromq) + k \in 1 .. Len(fromq') /\ fromq'[Len(fromq) + k] = messages[k]
      BY <2>2
    <3>2. \A i \in Len(fromq) + k + 1 .. Len(fromq') : fromq'[i] \notin Notices
      BY <2>2, <2>4
    <3>3. ASSUME NEW i \in 1 .. Len(fromq'), fromq'[i] \in Notices,
                 \A j \in i + 1 .. Len(fromq') : fromq'[j] \notin Notices
          PROVE  i = Len(fromq) + k
      BY <2>2, <2>4, <3>1, <3>2, <3>3
    <3> QED
      BY <2>4, <3>1, <3>3 DEF Agree
  <2>5. CASE menu' = menu /\ Len(messages) = 1
             /\ (messages[1] \in {"STATUS_LED", "STATUS"} \/ messages[1] \in Queries)
    BY <2>3, <2>5, Distinct DEF Notices
  <2>6. CASE menu' = "tag" /\ messages[1] = "RESUME" /\ messages[2] = "STATUS"
             /\ Len(messages) = 2
    BY <2>4, <2>6 DEF Notices
  <2>7. CASE menu' = "open" /\ Len(messages) = 1 /\ messages[1] = "SUSPEND"
    BY <2>4, <2>7 DEF Notices
  <2>8. CASE menu' = "closed" /\ Len(messages) = 1 /\ messages[1] = "RESUME"
    BY <2>4, <2>8 DEF Notices
  <2>9. CASE menu' = "closed" /\ Len(messages) = 2 /\ messages[2] = "RESUME"
    BY <2>4, <2>9 DEF Notices
  <2> QED
    BY <2>1, <2>5, <2>6, <2>7, <2>8, <2>9 DEF Says
<1>4. CASE \/ BashPop \/ BashStep \/ StreamClock \/ HandleStatus \/ UNCHANGED vars
           \/ \E q \in Queries : Eof(q) \/ Expire(q) \/ Timeout(q)
  <2>1. UNCHANGED <<fromq, suspend, menu>>
    BY <1>4 DEF BashPop, BashStep, StreamClock, HandleStatus, Eof, Expire, Timeout,
                handle, avr, vars
  <2> QED
    BY <2>1 DEF Agree
<1> QED
  BY <1>1, <1>2, <1>3, <1>4 DEF Next, AvrStep

\* handle.cpp, mcu_suspend and mcu_resume under menu.c: however far the handle
\* thread is behind, once it has caught up it knows whether the menu is open.
THEOREM BothAgree == Spec => []SuspendAgrees
<1> DEFINE IInv == Typed /\ Quiet /\ Greeting /\ Agree
<1>1. Init => IInv
  <2> SUFFICES ASSUME Init
               PROVE  IInv
    OBVIOUS
  <2>1. /\ Len(fromq) = 1 /\ fromq[1] = "VERSION" /\ Len(toq) = 0
        /\ Len(statusq) = 0 /\ menu = "off" /\ suspend = FALSE
        /\ engaged = "none" /\ commandq = <<>> /\ busy = Idle
        /\ \A q \in Queries : script[q] = "none" /\ timer[q] = "off"
    BY DEF Init
  <2>2. "VERSION" \notin Queries /\ "none" \notin Queries
    BY Distinct
  <2>3. Quiet
    BY <2>1, <2>2 DEF Quiet
  <2>4. Greeting
    BY <2>1 DEF Greeting
  <2>5. Agree
    <3>1. \A i \in 1 .. Len(fromq) : fromq[i] \notin Notices
      BY <2>1 DEF Notices
    <3>2. suspend = (menu = "open")
      BY <2>1
    <3> QED
      BY <3>1, <3>2 DEF Agree
  <2> QED
    BY <2>3, <2>4, <2>5, InitTyped
<1>2. IInv /\ [Next]_vars => IInv'
  <2> SUFFICES ASSUME Typed, Quiet, Greeting, Agree, [Next]_vars
               PROVE  IInv'
    OBVIOUS
  <2>1. Quiet' /\ Greeting' /\ Agree'
    BY QuietStep, GreetingStep, AgreeStep
  <2> QED
    BY <2>1, TypedStep
<1>3. IInv => SuspendAgrees
  <2> SUFFICES ASSUME Typed, Agree, Notices \cap ToSet(fromq) = {}
               PROVE  suspend = (menu = "open")
    BY DEF SuspendAgrees, Notices
  <2>1. DOMAIN fromq = 1 .. Len(fromq)
    BY LenProperties DEF Typed
  <2>2. \A i \in 1 .. Len(fromq) : fromq[i] \notin Notices
    BY <2>1 DEF ToSet
  <2> QED
    BY <2>2 DEF Agree
<1> HIDE DEF IInv
<1>4. Spec => []IInv
  BY <1>1, <1>2, PTL DEF Spec
<1> QED
  BY <1>3, <1>4, PTL

-----------------------------------------------------------------------------
(* The answers.                                                            *)

\* A query is on its way at one place only until its script runs, and its one
\* good status comes from the end of the script.
Good(s, q) == s.cmd = q /\ s.value = "good"
Waiting(q) ==
  /\ \A i, j \in 1 .. Len(fromq) : fromq[i] = q /\ fromq[j] = q => i = j
  /\ \A i, j \in 1 .. Len(commandq) : commandq[i] = q /\ commandq[j] = q => i = j
  /\ \A i \in 1 .. Len(fromq) : fromq[i] = q =>
       /\ \A j \in 1 .. Len(commandq) : commandq[j] # q
       /\ busy.cmd # q /\ script[q] = "none"
  /\ \A i \in 1 .. Len(commandq) : commandq[i] = q =>
       busy.cmd # q /\ script[q] = "none"
  /\ busy.cmd = q /\ busy.step # 4 => script[q] = "none"
Ended(q) ==
  /\ \A i, j \in 1 .. Len(statusq) :
       Good(statusq[i], q) /\ Good(statusq[j], q) => i = j
  /\ \A i \in 1 .. Len(statusq) : Good(statusq[i], q) =>
       script[q] = "over" /\ answers[q] = 0
  /\ answers[q] <= 1 /\ (answers[q] = 1 => script[q] = "over")
Once == \A q \in Queries : Waiting(q) /\ Ended(q)

LEMMA TailShifts ==
  ASSUME NEW S, NEW s \in Seq(S), s # <<>>
  PROVE  /\ Head(s) \in S /\ Head(s) = s[1] /\ 1 \in 1 .. Len(s)
         /\ Len(s) \in Nat /\ Len(Tail(s)) = Len(s) - 1
         /\ \A i \in 1 .. Len(Tail(s)) :
              i + 1 \in 1 .. Len(s) /\ Tail(s)[i] = s[i + 1]
BY HeadTailProperties, LenProperties

LEMMA WaitingStep ==
  ASSUME Typed, Once, [Next]_vars, NEW q \in Queries
  PROVE  Waiting(q)'
<1>0. Waiting(q) /\ Ended(q)
  BY DEF Once
<1>1. CASE HandleMcu
  <2>1. UNCHANGED <<busy, script>>
    BY <1>1 DEF HandleMcu
  <2>2. CASE fromq = <<>>
    BY <1>0, <1>1, <2>1, <2>2, Passed DEF Waiting, bash
  <2>3. CASE fromq # <<>>
    <3> DEFINE m == Head(fromq)
    <3>1. /\ fromq' = Tail(fromq)
          /\ commandq' = IF m \in Queries THEN Append(commandq, m) ELSE commandq
      BY <1>1, <2>3 DEF HandleMcu
    <3>2. /\ m = fromq[1] /\ 1 \in 1 .. Len(fromq) /\ Len(fromq) \in Nat
          /\ Len(fromq') = Len(fromq) - 1
          /\ \A i \in 1 .. Len(fromq') :
               i + 1 \in 1 .. Len(fromq) /\ fromq'[i] = fromq[i + 1]
      BY <2>3, <3>1, TailShifts DEF Typed
    <3>3. \/ commandq' = commandq /\ m # q
          \/ /\ Len(commandq) \in Nat /\ Len(commandq') = Len(commandq) + 1
             /\ \A i \in 1 .. Len(commandq') :
                  commandq'[i] = IF i <= Len(commandq) THEN commandq[i] ELSE m
      <4>1. CASE m \in Queries
        BY <3>1, <4>1, Appending DEF Typed
      <4>2. CASE m \notin Queries
        BY <3>1, <4>2
      <4> QED
        BY <4>1, <4>2
    <3> HIDE DEF m
    <3>4. \A i \in 1 .. Len(commandq') : commandq'[i] = q =>
            \/ i \in 1 .. Len(commandq) /\ commandq[i] = q
            \/ m = q /\ i = Len(commandq) + 1
      BY <3>3
    <3>5. CASE m = q
      <4>1. \A i \in 1 .. Len(fromq') : fromq'[i] # q
        <5> SUFFICES ASSUME NEW i \in 1 .. Len(fromq'), fromq'[i] = q
                     PROVE  FALSE
          OBVIOUS
        <5>1. i + 1 = 1
          BY <1>0, <3>2, <3>5 DEF Waiting
        <5> QED
          BY <5>1
      <4>2. /\ \A j \in 1 .. Len(commandq) : commandq[j] # q
            /\ busy.cmd # q /\ script[q] = "none"
        BY <1>0, <3>2, <3>5 DEF Waiting
      <4> QED
        BY <2>1, <3>4, <4>1, <4>2 DEF Waiting
    <3>6. CASE m # q
      <4>1. \A i, j \in 1 .. Len(fromq') : fromq'[i] = q /\ fromq'[j] = q => i = j
        <5> SUFFICES ASSUME NEW i \in 1 .. Len(fromq'), NEW j \in 1 .. Len(fromq'),
                            fromq'[i] = q, fromq'[j] = q
                     PROVE  i = j
          OBVIOUS
        <5>1. i + 1 = j + 1
          BY <1>0, <3>2 DEF Waiting
        <5> QED
          BY <5>1
      <4>2. \A i \in 1 .. Len(fromq') : fromq'[i] = q =>
              /\ \A j \in 1 .. Len(commandq) : commandq[j] # q
              /\ busy.cmd # q /\ script[q] = "none"
        BY <1>0, <3>2 DEF Waiting
      <4>3. \A i \in 1 .. Len(commandq') : commandq'[i] = q =>
              i \in 1 .. Len(commandq) /\ commandq[i] = q
        BY <3>4, <3>6
      <4> QED
        BY <1>0, <2>1, <4>1, <4>2, <4>3 DEF Waiting
    <3> QED
      BY <3>5, <3>6
  <2> QED
    BY <2>2, <2>3
<1>2. CASE BashPop
  <2>1. /\ busy = Idle /\ commandq # <<>> /\ commandq' = Tail(commandq)
        /\ busy' = [cmd |-> Head(commandq), step |-> 1]
        /\ fromq' = fromq /\ script' = script
    BY <1>2 DEF BashPop, handle
  <2>2. /\ Head(commandq) = commandq[1] /\ 1 \in 1 .. Len(commandq)
        /\ \A i \in 1 .. Len(commandq') :
             i + 1 \in 1 .. Len(commandq) /\ commandq'[i] = commandq[i + 1]
    BY <2>1, TailShifts DEF Typed
  <2>3. busy'.cmd = commandq[1] /\ busy'.step = 1
    BY <2>1, <2>2
  <2>4. busy'.cmd = q => /\ script[q] = "none"
                         /\ \A i \in 1 .. Len(fromq) : fromq[i] # q
                         /\ \A i \in 1 .. Len(commandq') : commandq'[i] # q
    <3> SUFFICES ASSUME commandq[1] = q
                 PROVE  /\ script[q] = "none"
                        /\ \A i \in 1 .. Len(fromq) : fromq[i] # q
                        /\ \A i \in 1 .. Len(commandq') : commandq'[i] # q
      BY <2>3
    <3>1. script[q] = "none" /\ \A i \in 1 .. Len(fromq) : fromq[i] # q
      BY <1>0, <2>2 DEF Waiting
    <3>2. ASSUME NEW i \in 1 .. Len(commandq'), commandq'[i] = q
          PROVE  FALSE
      <4>1. i + 1 = 1
        BY <1>0, <2>2, <3>2 DEF Waiting
      <4> QED
        BY <4>1
    <3> QED
      BY <3>1, <3>2
  <2>5. \A i, j \in 1 .. Len(commandq') :
          commandq'[i] = q /\ commandq'[j] = q => i = j
    <3> SUFFICES ASSUME NEW i \in 1 .. Len(commandq'), NEW j \in 1 .. Len(commandq'),
                        commandq'[i] = q, commandq'[j] = q
                 PROVE  i = j
      OBVIOUS
    <3>1. i + 1 = j + 1
      BY <1>0, <2>2 DEF Waiting
    <3> QED
      BY <3>1
  <2>6. \A i \in 1 .. Len(commandq') : commandq'[i] = q =>
          script[q] = "none" /\ \A j \in 1 .. Len(fromq) : fromq[j] # q
    BY <1>0, <2>2 DEF Waiting
  <2>7. \A i \in 1 .. Len(fromq) : fromq[i] = q => script[q] = "none"
    BY <1>0 DEF Waiting
  <2> QED
    BY <1>0, <2>1, <2>4, <2>5, <2>6, <2>7 DEF Waiting
<1>3. CASE BashStep
  <2>1. /\ busy # Idle /\ busy \in [cmd : Queries, step : 1 .. 4]
        /\ busy' = IF busy.step = 4 THEN Idle ELSE [busy EXCEPT !.step = @ + 1]
        /\ script' = IF busy.step = 3 THEN [script EXCEPT ![busy.cmd] = "running"]
                                      ELSE script
        /\ UNCHANGED <<fromq, commandq>>
    BY <1>3, FourSteps DEF BashStep, Typed, handle
  <2>2. CASE busy.step = 4
    <3>1. busy'.cmd # q /\ script' = script
      BY <2>1, <2>2, Distinct DEF Idle
    <3> QED
      BY <1>0, <2>1, <3>1 DEF Waiting
  <2>3. CASE busy.step # 4
    <3>1. busy'.cmd = busy.cmd /\ busy'.step = busy.step + 1
      BY <2>1, <2>3
    <3>2. script'[q] = script[q] \/ (busy.cmd = q /\ busy'.step = 4)
      BY <2>1, <3>1 DEF Typed
    <3> QED
      BY <1>0, <2>1, <2>3, <3>1, <3>2 DEF Waiting
  <2> QED
    BY <2>2, <2>3
<1>4. ASSUME NEW p \in Queries, Eof(p)
      PROVE  Waiting(q)'
  <2>1. /\ script[p] = "running" /\ script' = [script EXCEPT ![p] = "over"]
        /\ UNCHANGED <<fromq, commandq, busy>>
    BY <1>4 DEF Eof
  <2>2. script[q] = "none" => script'[q] = "none"
    BY <2>1 DEF Typed
  <2> QED
    BY <1>0, <2>1, <2>2 DEF Waiting
<1>5. CASE AvrStep
  <2>1. PICK messages \in Seq(FromKinds) : Says(messages)
    BY <1>5, Spoken
  <2>2. UNCHANGED <<commandq, busy, script>>
    BY <1>5, Spoken DEF bash
  <2>3. /\ Len(fromq') = Len(fromq) + Len(messages) /\ Len(fromq) \in Nat
        /\ Len(messages) \in {1, 2}
        /\ \A i \in 1 .. Len(fromq') :
             fromq'[i] = IF i <= Len(fromq) THEN fromq[i]
                                            ELSE messages[i - Len(fromq)]
    BY <2>1, Sending DEF Typed, Says
  <2>4. CASE Len(messages) = 1 /\ messages[1] = q /\ Ask(q)
    <3>1. /\ \A i \in 1 .. Len(fromq) : fromq[i] # q
          /\ \A i \in 1 .. Len(commandq) : commandq[i] # q
          /\ busy.cmd # q /\ script[q] = "none"
      BY <2>4 DEF Ask, Asked, Contains
    <3>2. \A i \in 1 .. Len(fromq') : fromq'[i] = q => i = Len(fromq) + 1
      BY <2>3, <2>4, <3>1
    <3> QED
      BY <2>2, <3>1, <3>2 DEF Waiting
  <2>5. CASE messages[1] # q /\ (Len(messages) = 2 => messages[2] # q)
    <3>1. \A i \in 1 .. Len(fromq') : fromq'[i] = q =>
            i \in 1 .. Len(fromq) /\ fromq[i] = q
      BY <2>3, <2>5
    <3> QED
      BY <1>0, <2>2, <3>1 DEF Waiting
  <2>6. \/ Len(messages) = 1 /\ messages[1] = q /\ Ask(q)
        \/ messages[1] # q /\ (Len(messages) = 2 => messages[2] # q)
    BY <2>1, Distinct DEF Says
  <2> QED
    BY <2>4, <2>5, <2>6
<1>6. CASE \/ HandleStatus \/ StreamClock \/ McuSend \/ UNCHANGED vars
           \/ \E p \in Queries : Expire(p) \/ Timeout(p)
  <2>1. UNCHANGED <<fromq, commandq, busy, script>>
    BY <1>6 DEF HandleStatus, StreamClock, McuSend, Expire, Timeout, handle, bash,
                vars
  <2> QED
    BY <1>0, <2>1 DEF Waiting
<1> QED
  BY <1>1, <1>2, <1>3, <1>4, <1>5, <1>6 DEF Next, AvrStep

\* A new status that is no good one of q leaves q's, and ends no script.
LEMMA NoNewGood ==
  ASSUME Typed, NEW q \in Queries, Ended(q), NEW st \in Statuses,
         statusq' = Append(statusq, st), ~Good(st, q), answers' = answers,
         script'[q] = script[q] \/ script'[q] = "over"
  PROVE  Ended(q)'
<1>1. \A i \in 1 .. Len(statusq') : Good(statusq'[i], q) =>
        i \in 1 .. Len(statusq) /\ Good(statusq[i], q)
  BY Appending DEF Typed
<1>2. script[q] = "over" => script'[q] = "over"
  OBVIOUS
<1> QED
  BY <1>1, <1>2 DEF Ended

LEMMA EndedStep ==
  ASSUME Typed, Once, [Next]_vars, NEW q \in Queries
  PROVE  Ended(q)'
<1>0. Waiting(q) /\ Ended(q)
  BY DEF Once
<1>1. CASE HandleStatus
  <2>0. script' = script
    BY <1>1 DEF HandleStatus, bash
  <2>1. CASE statusq = <<>>
    BY <1>0, <1>1, <2>0, <2>1 DEF HandleStatus, Ended
  <2>2. CASE statusq # <<>>
    <3> DEFINE st == Head(statusq)
    <3>1. statusq' = Tail(statusq)
      BY <1>1, <2>2 DEF HandleStatus
    <3>2. /\ st = statusq[1] /\ 1 \in 1 .. Len(statusq)
          /\ \A i \in 1 .. Len(statusq') :
               i + 1 \in 1 .. Len(statusq) /\ statusq'[i] = statusq[i + 1]
      BY <2>2, <3>1, TailShifts DEF Typed
    <3>3. answers'[q] = answers[q] + IF Good(st, q) THEN 1 ELSE 0
      BY <1>1, <2>2 DEF HandleStatus, Good
    <3>4. answers[q] \in Nat
      BY DEF Typed
    <3> HIDE DEF st
    <3>5. \A i, j \in 1 .. Len(statusq') :
            Good(statusq'[i], q) /\ Good(statusq'[j], q) => i = j
      <4> SUFFICES ASSUME NEW i \in 1 .. Len(statusq'), NEW j \in 1 .. Len(statusq'),
                          Good(statusq'[i], q), Good(statusq'[j], q)
                   PROVE  i = j
        OBVIOUS
      <4>1. i + 1 = j + 1
        BY <1>0, <3>2 DEF Ended
      <4> QED
        BY <4>1
    <3>6. CASE Good(st, q)
      <4>1. script[q] = "over" /\ answers[q] = 0
        BY <1>0, <3>2, <3>6 DEF Ended
      <4>2. \A i \in 1 .. Len(statusq') : ~Good(statusq'[i], q)
        <5> SUFFICES ASSUME NEW i \in 1 .. Len(statusq'), Good(statusq'[i], q)
                     PROVE  FALSE
          OBVIOUS
        <5>1. i + 1 = 1
          BY <1>0, <3>2, <3>6 DEF Ended
        <5> QED
          BY <5>1
      <4> QED
        BY <2>0, <3>3, <3>6, <4>1, <4>2 DEF Ended
    <3>7. CASE ~Good(st, q)
      <4>1. answers'[q] = answers[q]
        BY <3>3, <3>4, <3>7
      <4>2. \A i \in 1 .. Len(statusq') : Good(statusq'[i], q) =>
              script[q] = "over" /\ answers[q] = 0
        BY <1>0, <3>2 DEF Ended
      <4> QED
        BY <1>0, <2>0, <3>5, <4>1, <4>2 DEF Ended
    <3> QED
      BY <3>6, <3>7
  <2> QED
    BY <2>1, <2>2
<1>2. ASSUME NEW p \in Queries, Eof(p)
      PROVE  Ended(q)'
  <2>1. /\ script[p] = "running" /\ script' = [script EXCEPT ![p] = "over"]
        /\ answers' = answers
    BY <1>2 DEF Eof
  <2>2. PICK value \in {"good", "bad"} : Report(p, value)
    BY <1>2 DEF Eof, Outcomes
  <2> DEFINE st == [cmd |-> p, value |-> value]
  <2>3. st \in Statuses /\ statusq' = Append(statusq, st)
    BY <2>2 DEF Statuses, Report
  <2>4. script'[q] = script[q] \/ script'[q] = "over"
    BY <2>1 DEF Typed
  <2>5. CASE ~Good(st, q)
    BY <1>0, <2>1, <2>3, <2>4, <2>5, NoNewGood
  <2>6. CASE Good(st, q)
    <3>1. p = q
      BY <2>6 DEF Good
    <3>2. /\ \A i \in 1 .. Len(statusq) : ~Good(statusq[i], q)
          /\ answers[q] # 1 /\ answers[q] <= 1 /\ answers[q] \in Nat
      BY <1>0, <2>1, <3>1 DEF Ended, Typed
    <3>3. answers'[q] = 0 /\ script'[q] = "over"
      BY <2>1, <3>1, <3>2 DEF Typed
    <3> HIDE DEF st
    <3>4. /\ Len(statusq) \in Nat /\ Len(statusq') = Len(statusq) + 1
          /\ \A i \in 1 .. Len(statusq) : statusq'[i] = statusq[i]
      BY <2>3, Appending DEF Typed
    <3>5. \A i \in 1 .. Len(statusq') :
            Good(statusq'[i], q) => i = Len(statusq) + 1
      <4> SUFFICES ASSUME NEW i \in 1 .. Len(statusq), Good(statusq'[i], q)
                   PROVE  FALSE
        BY <3>4
      <4>1. statusq'[i] = statusq[i]
        BY <3>4
      <4> QED
        BY <3>2, <4>1
    <3> QED
      BY <3>3, <3>5 DEF Ended
  <2> QED
    BY <2>5, <2>6
<1>3. ASSUME NEW p \in Queries, Timeout(p)
      PROVE  Ended(q)'
  <2> DEFINE st == [cmd |-> p, value |-> "timeout"]
  <2>1. /\ statusq' = Append(statusq, st) /\ st \in Statuses /\ ~Good(st, q)
        /\ answers' = answers /\ script' = script
    BY <1>3 DEF Timeout, Report, Statuses, Good
  <2> QED
    BY <1>0, <2>1, NoNewGood
<1>4. CASE StreamClock
  <2> DEFINE st == [cmd |-> "CLOCK", value |-> "good"]
  <2>1. /\ statusq' = Append(statusq, st) /\ st \in Statuses /\ ~Good(st, q)
        /\ answers' = answers /\ script' = script
    BY <1>4, Distinct DEF StreamClock, bash, Statuses, Good
  <2> QED
    BY <1>0, <2>1, NoNewGood
<1>5. CASE BashStep
  <2>1. /\ busy # Idle /\ busy \in [cmd : Queries, step : 1 .. 4]
        /\ script' = IF busy.step = 3 THEN [script EXCEPT ![busy.cmd] = "running"]
                                      ELSE script
        /\ UNCHANGED <<statusq, answers>>
    BY <1>5, FourSteps DEF BashStep, Typed, handle
  <2>2. script'[q] = script[q] \/ script[q] = "none"
    BY <1>0, <2>1 DEF Waiting, Typed
  <2>3. script[q] = "over" => script'[q] = "over"
    BY <2>2
  <2> QED
    BY <1>0, <2>1, <2>3 DEF Ended
<1>6. CASE \/ HandleMcu \/ BashPop \/ McuSend \/ AvrStep \/ UNCHANGED vars
           \/ \E p \in Queries : Expire(p)
  <2>1. UNCHANGED <<statusq, answers, script>>
    BY <1>6, Spoken DEF HandleMcu, BashPop, McuSend, Expire, handle, bash, vars
  <2> QED
    BY <1>0, <2>1 DEF Ended
<1> QED
  BY <1>1, <1>2, <1>3, <1>4, <1>5, <1>6 DEF Next, AvrStep

\* handle.cpp, handle_status with bash.cpp: a command whose timer expires and
\* whose script ends all the same reports twice; the AVR is answered once.
THEOREM NeverAnsweredTwice == Spec => []AnsweredOnce
<1> DEFINE IInv == Typed /\ Once
<1>1. Init => IInv
  <2> SUFFICES ASSUME Init
               PROVE  Once
    BY InitTyped
  <2>1. /\ Len(fromq) = 1 /\ fromq[1] = "VERSION" /\ Len(commandq) = 0
        /\ Len(statusq) = 0
        /\ \A q \in Queries : script[q] = "none" /\ answers[q] = 0
    BY DEF Init
  <2>2. \A q \in Queries : q # "VERSION"
    BY Distinct
  <2>3. \A q \in Queries : Waiting(q)
    BY <2>1, <2>2 DEF Waiting
  <2>4. \A q \in Queries : Ended(q)
    BY <2>1 DEF Ended
  <2> QED
    BY <2>3, <2>4 DEF Once
<1>2. IInv /\ [Next]_vars => IInv'
  <2> SUFFICES ASSUME Typed, Once, [Next]_vars
               PROVE  Typed' /\ Once'
    OBVIOUS
  <2>1. \A q \in Queries : Waiting(q)' /\ Ended(q)'
    BY WaitingStep, EndedStep
  <2> QED
    BY <2>1, TypedStep DEF Once
<1>3. IInv => AnsweredOnce
  BY DEF Once, Ended, AnsweredOnce
<1> HIDE DEF IInv
<1>4. Spec => []IInv
  BY <1>1, <1>2, PTL DEF Spec
<1> QED
  BY <1>3, <1>4, PTL

-----------------------------------------------------------------------------
(* The LED arrays that wait.                                               *)

Leds(queue) == Cardinality({i \in 1 .. Len(queue) : queue[i] = "LED"})
Most == CHOOSE n \in Arrays : \A k \in Arrays : k <= n
Bound == QUEUE_SIZE_LIMIT - 1 + Most

LEMMA MostType ==
  /\ Most \in Nat /\ Most >= 1 /\ \A n \in Arrays : n <= Most /\ n \in Nat
  /\ Bound \in Nat
<1>1. Most \in Arrays /\ \A n \in Arrays : n <= Most
  BY DaemonAssumption, Zenon DEF Most
<1>2. \A n \in Arrays : n \in Nat /\ n >= 1
  BY DaemonAssumption
<1> HIDE DEF Most
<1> QED
  BY <1>1, <1>2, DaemonAssumption DEF Bound

LEMMA LedsType ==
  ASSUME NEW queue \in Seq(Kinds)
  PROVE  /\ IsFiniteSet({i \in 1 .. Len(queue) : queue[i] = "LED"})
         /\ Leds(queue) \in Nat /\ Leds(queue) <= Len(queue)
<1> DEFINE I == 1 .. Len(queue)
           L == {i \in I : queue[i] = "LED"}
<1>1. Len(queue) \in Nat /\ 1 \in Int /\ Len(queue) \in Int
  OBVIOUS
<1>2. IsFiniteSet(I) /\ Cardinality(I) = IF 1 > Len(queue) THEN 0 ELSE Len(queue) - 1 + 1
  BY <1>1, FS_Interval
<1>3. L \in SUBSET I
  OBVIOUS
<1> HIDE DEF I, L
<1>4. IsFiniteSet(L) /\ Cardinality(L) <= Cardinality(I)
  BY <1>2, <1>3, FS_Subset
<1>5. Cardinality(L) \in Nat
  BY <1>4, FS_CardinalityType
<1>6. Cardinality(I) = Len(queue)
  BY <1>1, <1>2
<1> QED
  BY <1>4, <1>5, <1>6 DEF Leds, L, I

LEMMA LedsAppend ==
  ASSUME NEW queue \in Seq(Kinds), NEW e \in Kinds, e # "LED"
  PROVE  Leds(Append(queue, e)) = Leds(queue)
<1>1. {i \in 1 .. Len(Append(queue, e)) : Append(queue, e)[i] = "LED"}
        = {i \in 1 .. Len(queue) : queue[i] = "LED"}
  BY Appending
<1> QED
  BY <1>1 DEF Leds

LEMMA LedsTail ==
  ASSUME NEW queue \in Seq(Kinds), queue # <<>>
  PROVE  Leds(Tail(queue)) <= Leds(queue)
<1> DEFINE t == Tail(queue)
           A == {i \in 1 .. Len(t) : t[i] = "LED"}
           B == {i \in 1 .. Len(queue) : queue[i] = "LED"}
           f == [i \in A |-> i + 1]
<1>1. /\ Len(t) = Len(queue) - 1 /\ Len(queue) \in Nat
      /\ \A i \in 1 .. Len(t) : t[i] = queue[i + 1]
  BY HeadTailProperties
<1> HIDE DEF t
<1>2. \A i \in A : i + 1 \in B
  BY <1>1
<1>3. \A i, j \in A : i + 1 = j + 1 => i = j
  BY <1>1
<1>4. IsFiniteSet(B)
  BY LedsType
<1> HIDE DEF A, B
<1>5. f \in [A -> B] /\ \A i, j \in A : f[i] = f[j] => i = j
  BY <1>2, <1>3
<1>6. f \in Injection(A, B)
  <2> HIDE DEF f
  <2> QED BY <1>5 DEF Injection, IsInjective
<1>7. Cardinality(A) <= Cardinality(B)
  BY <1>4, <1>6, FS_Injection
<1> QED
  BY <1>7 DEF Leds, A, B, t

\* info_push adds a text only to a queue that is shorter than the limit.
LEMMA PushBounded ==
  ASSUME NEW s \in BOOLEAN, NEW queue \in Seq(Kinds), crowded \in BOOLEAN,
         info_push(s, queue), Leds(queue) <= Bound
  PROVE  Leds(toq') <= Bound
<1>1. CASE s \/ ~HasRoom(queue)
  BY <1>1 DEF info_push
<1>2. CASE ~(s \/ ~HasRoom(queue))
  <2>1. PICK n \in Arrays : toq' = queue \o [i \in 1 .. n |-> "LED"]
    BY <1>2 DEF info_push
  <2> DEFINE leds == [i \in 1 .. n |-> "LED"]
  <2>2. Len(queue) < QUEUE_SIZE_LIMIT /\ Len(queue) \in Nat
    BY <1>2 DEF HasRoom
  <2>3. n \in Nat /\ n <= Most /\ Most \in Nat
    BY MostType
  <2>4. leds \in Seq(Kinds) /\ Len(leds) = n
    BY <2>3 DEF Kinds
  <2>7. toq' = queue \o leds
    BY <2>1
  <2> HIDE DEF leds
  <2>5. toq' \in Seq(Kinds) /\ Len(toq') = Len(queue) + n
    BY <2>7, <2>4, ConcatProperties
  <2>6. Leds(toq') <= Len(toq') /\ Leds(toq') \in Nat
    BY <2>5, LedsType
  <2> QED
    BY <2>2, <2>3, <2>5, <2>6, DaemonAssumption DEF Bound
<1> QED
  BY <1>1, <1>2

\* handle.cpp, info_push: whatever makes the handle thread push, and however far
\* the display is behind, the queue to the AVR holds a bounded number of arrays.
THEOREM QueueIsBounded == Spec => []ArraysBounded
<1> DEFINE IInv == Typed /\ Leds(toq) <= Bound
<1>1. Init => IInv
  <2> SUFFICES ASSUME Init
               PROVE  Leds(toq) <= Bound
    BY InitTyped
  <2>1. toq \in Seq(Kinds) /\ Len(toq) = 0
    BY DEF Init
  <2>2. Leds(toq) \in Nat /\ Leds(toq) <= Len(toq)
    BY <2>1, LedsType
  <2>3. Bound \in Nat
    BY MostType
  <2> QED
    BY <2>1, <2>2, <2>3
<1>2. IInv /\ [Next]_vars => IInv'
  <2> SUFFICES ASSUME Typed, Leds(toq) <= Bound, [Next]_vars
               PROVE  Leds(toq') <= Bound
    BY TypedStep DEF Leds
  <2>0. toq \in Seq(Kinds) /\ crowded \in BOOLEAN /\ suspend \in BOOLEAN
    BY DEF Typed
  <2>1. CASE HandleStatus
    <3>1. CASE toq' = toq
      BY <3>1
    <3>2. CASE toq' # toq
      <4>1. statusq # <<>> /\ toq' = Append(toq, Head(statusq).cmd)
        BY <2>1, <3>2 DEF HandleStatus
      <4>2. Head(statusq) \in Statuses
        BY <4>1, HeadTailProperties DEF Typed
      <4>3. Head(statusq).cmd \in Kinds /\ Head(statusq).cmd # "LED"
        BY <4>2, Distinct DEF Statuses, Kinds
      <4> QED
        BY <2>0, <4>1, <4>3, LedsAppend
    <3> QED
      BY <3>1, <3>2
  <2>2. CASE HandleMcu
    <3>1. CASE toq' = toq
      BY <3>1
    <3>2. CASE toq' # toq
      <4> DEFINE m == Head(fromq)
                 queue == IF m = "VERSION" THEN Append(toq, "HANDSHAKE") ELSE toq
      <4>1. info_push(Suspended(m), queue)
        BY <2>2, <3>2 DEF HandleMcu
      <4>2. Suspended(m) \in BOOLEAN
        BY <2>0 DEF Suspended
      <4>3. queue \in Seq(Kinds) /\ Leds(queue) <= Bound
        <5>1. "HANDSHAKE" \in Kinds /\ "HANDSHAKE" # "LED"
          BY DEF Kinds
        <5> QED BY <2>0, <5>1, LedsAppend, Appending
      <4> QED
        BY <2>0, <4>1, <4>2, <4>3, PushBounded
    <3> QED
      BY <3>1, <3>2
  <2>3. CASE McuSend
    <3>1. toq # <<>> /\ toq' = Tail(toq)
      BY <2>3 DEF McuSend
    <3>2. Leds(toq') <= Leds(toq) /\ Leds(toq) \in Nat /\ toq' \in Seq(Kinds)
      BY <2>0, <3>1, LedsTail, LedsType, HeadTailProperties
    <3>3. Leds(toq') \in Nat
      BY <3>2, LedsType
    <3> QED
      BY <3>2, <3>3, MostType
  <2>4. CASE \/ BashPop \/ BashStep \/ StreamClock \/ AvrStep \/ UNCHANGED vars
             \/ \E q \in Queries : Eof(q) \/ Expire(q) \/ Timeout(q)
    <3>1. toq' = toq
      BY <2>4, Spoken DEF BashPop, BashStep, StreamClock, Eof, Expire, Timeout,
         handle, vars
    <3> QED
      BY <3>1
  <2> QED
    BY <2>1, <2>2, <2>3, <2>4 DEF Next, AvrStep
<1>3. IInv => ArraysBounded
  BY DEF ArraysBounded, Leds, Bound, Most
<1> HIDE DEF IInv
<1> QED
  BY <1>1, <1>2, <1>3, PTL DEF Spec
=============================================================================
