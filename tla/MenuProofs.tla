----------------------------- MODULE MenuProofs -----------------------------
(***************************************************************************)
(* The menu, the mode and the heartbeat, for every list of parameters,     *)
(* every answer of the Pi and any number of late ones.                     *)
(*                                                                         *)
(* First IInv: the drain flag follows the state of the menu, and an open   *)
(* menu has its timer.  Then what each function of menu.c changes of the   *)
(* record of the C files, and what it sends (Only, Asking, Telling); with  *)
(* it MenuInv, which is about the modes, the questions and the connection, *)
(* and ShownInv, which is about the list and the selection.                *)
(***************************************************************************)
EXTENDS Menu, SequenceTheorems, TLAPS

\* The fields the two properties are about exist.
Shape(s) == {"state", "drain", "at"} \subseteq DOMAIN s

\* A handler leaves all of them alone, or all but the pending callbacks, of
\* which it forgets none.
Keeps(s, a) ==
  Shape(a) /\ a.state = s.state /\ a.drain = s.drain /\ a.at = s.at
Grows(s, a) ==
  Shape(a) /\ a.state = s.state /\ a.drain = s.drain /\ s.at \subseteq a.at

\* The invariant, for the state of the C files.
Sound(s) ==
  /\ Shape(s)
  /\ s.drain = (s.state \notin {"IDLE", "TAG"})
  /\ s.state # "IDLE" => "MENU" \in s.at

-----------------------------------------------------------------------------
(* What the functions of menu.c, mode.c and heartbeat.c leave alone.       *)

LEMMA Messages ==
  ASSUME NEW s, Shape(s), NEW id, NEW p, NEW v
  PROVE  Keeps(s, send_message(s, id, p, v))
BY DEF Shape, Keeps, send_message

LEMMA Modes ==
  ASSUME NEW s, Shape(s), NEW m
  PROVE  Keeps(s, mode_set(s, m))
BY DEF Shape, Keeps, mode_set

LEMMA Queries ==
  ASSUME NEW s, Shape(s)
  PROVE  Keeps(s, query_source(s))
<1> DEFINE a == send_message(s, "QUERY_NUMBER", s.param_id, 0)
<1>1. Keeps(s, a)
  BY Messages
<1> HIDE DEF a
<1>2. Keeps(s, [a EXCEPT !.sent = @ \cup {s.param_id}])
  BY <1>1 DEF Keeps, Shape
<1>3. Keeps(s, s)
  BY DEF Keeps
<1> QED
  BY <1>2, <1>3 DEF query_source, a

LEMMA Ranges ==
  ASSUME NEW s, Shape(s), NEW new
  PROVE  Keeps(s, set_param_range(s, new))
BY DEF Shape, Keeps, set_param_range

LEMMA Selections ==
  ASSUME NEW s, Shape(s), NEW clockwise
  PROVE  /\ Keeps(s, select_param(s, clockwise))
         /\ Keeps(s, select_value(s, clockwise))
         /\ Keeps(s, select_apply(s, clockwise))
<1>1. Keeps(s, s)
  BY DEF Keeps
<1>2. \A p : Keeps(s, [s EXCEPT !.param_id = p])
  BY DEF Keeps, Shape
<1>3. \A n : Keeps(s, [s EXCEPT !.new = n])
  BY DEF Keeps, Shape
<1>4. Keeps(s, select_param(s, clockwise))
  BY <1>1, <1>2 DEF select_param
<1>5. Keeps(s, select_value(s, clockwise))
  BY <1>1 DEF select_value, Keeps, Shape
<1>6. Keeps(s, select_apply(s, clockwise))
  BY <1>2 DEF select_apply
<1> QED
  BY <1>4, <1>5, <1>6

LEMMA Renderings ==
  ASSUME NEW s, Shape(s)
  PROVE  Keeps(s, render(s))
BY DEF Shape, Keeps, render

LEMMA Tags ==
  ASSUME NEW s, Shape(s)
  PROVE  /\ Grows(s, schedule_tag(s))
         /\ Keeps(s, tag_request(s))
<1>1. Grows(s, schedule_tag(s))
  BY DEF Shape, Grows, schedule_tag
<1>2. Keeps(s, s)
  BY DEF Keeps
<1>3. Keeps(s, tag_request(s))
  BY <1>2, Messages DEF tag_request
<1> QED
  BY <1>1, <1>3

LEMMA Resets ==
  ASSUME NEW s, Shape(s)
  PROVE  /\ Shape(reset(s)) /\ reset(s).state = "IDLE"
         /\ reset(s).drain = s.drain /\ reset(s).at = s.at
BY DEF Shape, reset

LEMMA Schedules ==
  ASSUME NEW s, Shape(s)
  PROVE  /\ Shape(schedule(s)) /\ "MENU" \in schedule(s).at
         /\ schedule(s).state = s.state /\ schedule(s).drain = s.drain
BY DEF Shape, schedule

-----------------------------------------------------------------------------
(* What they change.                                                       *)

\* set_state drains on the way out of TAG, and does not on the way in.
LEMMA SetState ==
  ASSUME NEW s, Shape(s), NEW new
  PROVE  /\ Shape(set_state(s, new))
         /\ set_state(s, new).state \in {new}
         /\ set_state(s, new).at = s.at
         /\ set_state(s, new).drain =
              IF s.state = new THEN s.drain
              ELSE IF s.state = "TAG" THEN TRUE
              ELSE IF new = "TAG" THEN FALSE ELSE s.drain
<1> DEFINE leave == mode_set(drain_start(send_message(s, "SUSPEND", "", 0)), "MENU")
           enter == mode_set(send_message(drain_stop(s), "RESUME", "", 0), "RADIO")
           a == IF s.state = "TAG" THEN leave
                ELSE IF new = "TAG" THEN enter ELSE s
           b == IF s.state \in {"IDLE", "APPLY"} /\ new \in {"PARAM", "VALUE"}
                THEN set_param_range(a, new)
                ELSE IF s.state \in {"PARAM", "VALUE"} /\ new = "APPLY"
                THEN set_param_range([a EXCEPT !.secondary_param = a.param_id], new)
                ELSE a
<1>1. Shape(leave) /\ leave.at = s.at /\ leave.drain = TRUE
  <2> DEFINE c == send_message(s, "SUSPEND", "", 0)
  <2>1. Keeps(s, c)
    BY Messages
  <2> HIDE DEF c
  <2>2. /\ Shape(drain_start(c)) /\ drain_start(c).at = s.at
        /\ drain_start(c).drain = TRUE
    BY <2>1 DEF drain_start, Shape, Keeps
  <2> QED
    BY <2>2, Modes DEF Keeps, c
<1>2. Shape(enter) /\ enter.at = s.at /\ enter.drain = FALSE
  <2> DEFINE c == drain_stop(s)
  <2>1. Shape(c) /\ c.at = s.at /\ c.drain = FALSE
    BY DEF drain_stop, Shape
  <2> HIDE DEF c
  <2>2. Keeps(c, send_message(c, "RESUME", "", 0))
    BY <2>1, Messages
  <2> DEFINE d == send_message(c, "RESUME", "", 0)
  <2> HIDE DEF d
  <2>3. Shape(d) /\ d.at = s.at /\ d.drain = FALSE
    BY <2>1, <2>2 DEF Keeps, d
  <2> QED
    BY <2>3, Modes DEF Keeps, d, c
<1> HIDE DEF leave, enter
<1>3. /\ Shape(a) /\ a.at = s.at
      /\ a.drain = IF s.state = "TAG" THEN TRUE
                   ELSE IF new = "TAG" THEN FALSE ELSE s.drain
  BY <1>1, <1>2
<1> HIDE DEF a
<1>4. Shape(b) /\ b.at = a.at /\ b.drain = a.drain
  <2>1. Keeps(a, [a EXCEPT !.secondary_param = a.param_id])
    BY <1>3 DEF Keeps, Shape
  <2>2. /\ Keeps(a, set_param_range(a, new))
        /\ Keeps(a, set_param_range([a EXCEPT !.secondary_param = a.param_id], new))
    BY <1>3, <2>1, Ranges DEF Keeps
  <2> QED
    BY <1>3, <2>2 DEF Keeps
<1> HIDE DEF b
<1>5. set_state(s, new) = IF s.state = new THEN s ELSE [b EXCEPT !.state = new]
  BY DEF set_state, a, b, leave, enter
<1> QED
  BY <1>3, <1>4, <1>5 DEF Shape

\* The menu opens with the drain.
LEMMA Starts ==
  ASSUME NEW s, Shape(s)
  PROVE  Shape(start(s)) /\ start(s).state = "IDLE" /\ start(s).drain = TRUE
<1> DEFINE a == [reset(s) EXCEPT !.backup_mode = s.mode]
           b == mode_set(a, "MENU")
           c == send_message(b, "SUSPEND", "", 0)
<1>1. Shape(a) /\ a.state = "IDLE"
  BY Resets DEF Shape
<1> HIDE DEF a
<1>2. Shape(b) /\ b.state = "IDLE"
  BY <1>1, Modes DEF Keeps
<1> HIDE DEF b
<1>3. Keeps(b, c)
  BY <1>2, Messages
<1> HIDE DEF c
<1>4. start(s) = drain_start(c)
  BY DEF start, a, b, c
<1> QED
  BY <1>2, <1>3, <1>4 DEF drain_start, Shape, Keeps

\* What the menu is closed with is carried out without the menu.
LEMMA Carries ==
  ASSUME NEW s, Shape(s), NEW p
  PROVE  Grows(s, Carried(s, p))
<1>1. \A a : Keeps(s, a) => Grows(s, a)
  BY DEF Keeps, Grows
<1>2. \A id, q, v : Grows(s, send_message(s, id, q, v))
  BY <1>1, Messages
<1>3. \A b : Grows(s, [s EXCEPT !.brightness = b])
  BY DEF Grows, Shape
<1>4. Grows(s, [s EXCEPT !.wire = "low", !.at = @ \cup {"BOOT"}])
  BY DEF Grows, Shape
<1>5. Grows(s, s)
  BY DEF Grows
<1> QED
  BY <1>2, <1>3, <1>4, <1>5 DEF Carried

\* The menu closes without the drain.
LEMMA Stops ==
  ASSUME NEW s, Shape(s)
  PROVE  Shape(stop(s)) /\ stop(s).state = "IDLE" /\ stop(s).drain = FALSE
<1> DEFINE a == Closing(s)
           b == Carried(a, Chosen(a))
           c == drain_stop(b)
           d == mode_set(c, c.backup_mode)
           e == send_message(d, "RESUME", "", 0)
<1>1. Shape(a)
  BY SetState DEF Closing
<1> HIDE DEF a
<1>2. Shape(b)
  BY <1>1, Carries DEF Grows
<1> HIDE DEF b
<1>3. Shape(c) /\ c.drain = FALSE
  BY <1>2 DEF drain_stop, Shape
<1> HIDE DEF c
<1>4. Shape(d) /\ d.drain = FALSE
  BY <1>3, Modes DEF Keeps
<1> HIDE DEF d
<1>5. Keeps(d, e)
  BY <1>4, Messages
<1> HIDE DEF e
<1>6. stop(s) = reset(e)
  BY DEF stop, a, b, c, d, e
<1> QED
  BY <1>4, <1>5, <1>6, Resets DEF Keeps

-----------------------------------------------------------------------------
(* The handlers.                                                           *)

LEMMA SameKnobs ==
  ASSUME NEW s, Shape(s), NEW id, NEW clockwise
  PROVE  Grows(s, SameKnob(s, id, clockwise))
<1> DEFINE p == rotor_to_param(s, id)
           a == IF s.param_id # p
                THEN query_source([s EXCEPT !.param_id = p]) ELSE s
<1>1. Keeps(s, a)
  <2>1. Keeps(s, [s EXCEPT !.param_id = p]) /\ Keeps(s, s)
    BY DEF Keeps, Shape
  <2> HIDE DEF p
  <2>2. Keeps(s, query_source([s EXCEPT !.param_id = p]))
    BY <2>1, Queries DEF Keeps
  <2> QED
    BY <2>1, <2>2
<1>2. SameKnob(s, id, clockwise) =
        IF s.state = "APPLY" THEN select_apply(s, clockwise)
        ELSE IF s.state = "PARAM" THEN select_param(s, clockwise)
        ELSE schedule_tag(select_value(a, clockwise))
  BY DEF SameKnob
<1> HIDE DEF a
<1>3. Keeps(s, select_value(a, clockwise))
  BY <1>1, Selections DEF Keeps
<1>4. Grows(s, schedule_tag(select_value(a, clockwise)))
  BY <1>3, Tags DEF Keeps, Grows
<1>5. Grows(s, select_apply(s, clockwise)) /\ Grows(s, select_param(s, clockwise))
  BY Selections DEF Keeps, Grows
<1> QED
  BY <1>2, <1>4, <1>5

\* Another knob opens the menu, or moves it to another state: none of them is
\* without the drain.
LEMMA OtherKnobs ==
  ASSUME NEW s, Sound(s), NEW id, NEW clockwise,
         s.state # rotor_to_state(id)
  PROVE  /\ Shape(OtherKnob(s, id, clockwise))
         /\ OtherKnob(s, id, clockwise).state = rotor_to_state(id)
         /\ OtherKnob(s, id, clockwise).drain = TRUE
<1> DEFINE to == rotor_to_state(id)
           o == IF s.state = "IDLE" THEN start(s) ELSE s
           a == set_state(o, to)
           b == [a EXCEPT !.param_id = rotor_to_param(a, id)]
<1>1. to \in {"APPLY", "PARAM", "VALUE"}
  BY DEF rotor_to_state
<1>2. Shape(o) /\ o.state = s.state /\ (o.state # "TAG" => o.drain = TRUE)
  BY Starts DEF Sound
<1>8. s.state # to /\ a = set_state(o, to)
  OBVIOUS
<1> HIDE DEF to, o, a
<1>3. Shape(a) /\ a.state = to /\ a.drain = TRUE
  <2>1. Shape(a) /\ a.state \in {to}
    BY <1>2, <1>8, SetState
  <2>2. a.drain = IF o.state = to THEN o.drain
                  ELSE IF o.state = "TAG" THEN TRUE
                  ELSE IF to = "TAG" THEN FALSE ELSE o.drain
    BY <1>2, <1>8, SetState
  <2> QED
    BY <1>1, <1>2, <1>8, <2>1, <2>2
<1>4. Keeps(a, b)
  BY <1>3 DEF Keeps, Shape
<1> HIDE DEF b
<1>5. Keeps(a, query_source(select_value(b, clockwise)))
  BY <1>4, Selections, Queries DEF Keeps
<1>6. Keeps(a, select_apply(a, clockwise)) /\ Keeps(a, select_param(a, clockwise))
  BY <1>3, Selections
<1>7. OtherKnob(s, id, clockwise) =
        IF to = "APPLY" THEN select_apply(a, clockwise)
        ELSE IF to = "PARAM" THEN select_param(a, clockwise)
        ELSE query_source(select_value(b, clockwise))
  BY DEF OtherKnob, to, o, a, b
<1> QED
  BY <1>3, <1>5, <1>6, <1>7 DEF Keeps, to

LEMMA KnobsSound ==
  ASSUME NEW s, Sound(s), NEW id, NEW clockwise
  PROVE  Sound(menu_handle_rotor(s, id, clockwise))
<1> DEFINE a == IF s.state = rotor_to_state(id) THEN SameKnob(s, id, clockwise)
                ELSE OtherKnob(s, id, clockwise)
<1>1. CASE rotor_to_state(id) = "APPLY" /\ s.state = "IDLE"
  BY <1>1 DEF menu_handle_rotor
<1>2. CASE ~(rotor_to_state(id) = "APPLY" /\ s.state = "IDLE")
  <2>1. rotor_to_state(id) \in {"APPLY", "PARAM", "VALUE"}
    BY DEF rotor_to_state
  <2>2. Shape(a) /\ a.drain = TRUE /\ a.state \in {"APPLY", "PARAM", "VALUE"}
    <3>1. CASE s.state = rotor_to_state(id)
      BY <2>1, <3>1, SameKnobs DEF Grows, Sound
    <3>2. CASE s.state # rotor_to_state(id)
      BY <2>1, <3>2, OtherKnobs
    <3> QED
      BY <3>1, <3>2
  <2> HIDE DEF a
  <2>3. /\ Shape(schedule(a)) /\ schedule(a).drain = TRUE
        /\ schedule(a).state \in {"APPLY", "PARAM", "VALUE"}
        /\ "MENU" \in schedule(a).at
    BY <2>2, Schedules
  <2>4. Keeps(schedule(a), render(schedule(a)))
    BY <2>3, Renderings
  <2>5. menu_handle_rotor(s, id, clockwise) = render(schedule(a))
    BY <1>2 DEF menu_handle_rotor, a
  <2> QED
    BY <2>3, <2>4, <2>5 DEF Sound, Keeps
<1> QED
  BY <1>1, <1>2

\* What leaves the three fields alone leaves the menu sound.
LEMMA KeepsSound ==
  ASSUME NEW s, Sound(s), NEW a, Keeps(s, a) \/ Grows(s, a)
  PROVE  Sound(a)
BY DEF Sound, Keeps, Grows

LEMMA HeartbeatsSound ==
  ASSUME NEW s, Sound(s)
  PROVE  Sound(heartbeat_confirm(s)) /\ Sound(verify(s))
<1>1. Shape(s)
  BY DEF Sound
<1>2. \A n : Keeps(s, [s EXCEPT !.misses = n])
  BY <1>1 DEF Keeps, Shape
<1>3. Sound(heartbeat_confirm(s))
  BY <1>2, KeepsSound DEF heartbeat_confirm
<1>4. Sound(verify(s))
  <2> DEFINE a == [s EXCEPT !.misses = @ + 1]
             b == [a EXCEPT !.cron = @ \ {"HEARTBEAT"}]
  <2>1. Keeps(s, a)
    BY <1>2
  <2> HIDE DEF a
  <2>2. Keeps(s, b)
    BY <2>1 DEF Keeps, Shape
  <2> HIDE DEF b
  <2>3. Keeps(b, mode_set(b, "WATCH"))
    BY <2>2, Modes DEF Keeps
  <2>4. verify(s) = IF Silent(s) THEN mode_set(b, "WATCH") ELSE a
    BY DEF verify, a, b
  <2> QED
    BY <2>1, <2>2, <2>3, <2>4, KeepsSound
<1> QED
  BY <1>3, <1>4

\* An answer, late or not, starts the timer with what it shows.
LEMMA ValuesSound ==
  ASSUME NEW s, Sound(s), NEW p, NEW value, NEW min, NEW max
  PROVE  Sound(menu_parameter_value(s, p, value, min, max))
<1> DEFINE a == [s EXCEPT !.old[p] = value, !.new[p] = value, !.min[p] = min,
                          !.max[p] = max, !.valid = @ \cup {p}]
           b == schedule(a)
<1>1. Keeps(s, a)
  BY DEF Sound, Keeps, Shape
<1> HIDE DEF a
<1>2. Shape(b) /\ b.state = s.state /\ b.drain = s.drain /\ "MENU" \in b.at
  BY <1>1, Schedules DEF Keeps
<1> HIDE DEF b
<1>3. Sound(b)
  BY <1>2 DEF Sound
<1>4. Sound(render(b))
  BY <1>2, <1>3, Renderings, KeepsSound
<1>5. menu_parameter_value(s, p, value, min, max)
        = IF s.param_id = p THEN render(b) ELSE b
  BY DEF menu_parameter_value, a, b
<1> QED
  BY <1>3, <1>4, <1>5

\* A name is shown without the drain, and with the timer.
LEMMA NamesSound ==
  ASSUME NEW s, Sound(s), NEW p, NEW id
  PROVE  Sound(menu_parameter_name(s, p, id))
<1> DEFINE a == schedule(s)
<1>1. Shape(a) /\ a.state = s.state /\ a.drain = s.drain /\ "MENU" \in a.at
  BY Schedules DEF Sound
<1> HIDE DEF a
<1> DEFINE b == set_state(a, "TAG")
<1>2. /\ Shape(b) /\ b.state = "TAG" /\ b.at = a.at
      /\ b.drain = IF a.state = "TAG" THEN a.drain ELSE FALSE
  BY <1>1, SetState
<1> HIDE DEF b
<1>3. b.drain = FALSE
  BY <1>1, <1>2 DEF Sound
<1>4. Sound(b)
  BY <1>1, <1>2, <1>3 DEF Sound
<1>5. menu_parameter_name(s, p, id)
        = IF p # s.param_id \/ p # s.tag_param \/ id # s.tag_value THEN s ELSE b
  BY DEF menu_parameter_name, a, b
<1> QED
  BY <1>4, <1>5

-----------------------------------------------------------------------------
(* The steps.                                                              *)

\* The messages of a handler are sent.
LEMMA Results ==
  ASSUME NEW s, Sound(s), NEW asks, NEW names, Result(s, asks, names)
  PROVE  Sound(avr')
<1>1. avr' = [s EXCEPT !.out = <<>>]
  BY DEF Result
<1>2. Keeps(s, [s EXCEPT !.out = <<>>])
  BY DEF Sound, Keeps, Shape
<1> QED
  BY <1>1, <1>2, KeepsSound

\* A callback of at.c that is no more pending.
LEMMA Expirations ==
  ASSUME NEW s, Shape(s), NEW id
  PROVE  LET a == [s EXCEPT !.at = @ \ {id}]
         IN  /\ Shape(a) /\ a.state = s.state /\ a.drain = s.drain
             /\ a.at = s.at \ {id}
BY DEF Shape

LEMMA AtMenuSound ==
  ASSUME AtMenu
  PROVE  Shape(avr) => Sound(avr')
<1> SUFFICES ASSUME Shape(avr) PROVE Sound(avr')
  OBVIOUS
<1> DEFINE s == stop(avr)
           a == [s EXCEPT !.at = @ \ {"MENU"}]
<1>1. Shape(s) /\ s.state = "IDLE" /\ s.drain = FALSE
  BY Stops
<1>2. Result(a, asked, named)
  BY DEF AtMenu
<1> HIDE DEF s
<1>3. Sound(a)
  BY <1>1, Expirations DEF Sound
<1> QED
  BY <1>2, <1>3, Results

LEMMA AtTagSound ==
  ASSUME Sound(avr), AtTag
  PROVE  Sound(avr')
<1> DEFINE s == tag_request(avr)
           a == [s EXCEPT !.at = @ \ {"TAG"}]
<1>1. Sound(s)
  BY Tags, KeepsSound DEF Sound
<1>2. Result(a, asked, named)
  BY DEF AtTag
<1> HIDE DEF s
<1>3. Sound(a)
  BY <1>1, Expirations DEF Sound
<1> QED
  BY <1>2, <1>3, Results

LEMMA AtBootSound ==
  ASSUME Sound(avr), AtBoot
  PROVE  Sound(avr')
<1> DEFINE a == [avr EXCEPT !.wire = "free", !.at = @ \ {"BOOT"}]
<1>1. /\ Shape(a) /\ a.state = avr.state /\ a.drain = avr.drain
      /\ a.at = avr.at \ {"BOOT"}
  BY DEF Sound, Shape
<1>2. Result(a, asked, named)
  BY DEF AtBoot
<1> HIDE DEF a
<1>3. Sound(a)
  BY <1>1 DEF Sound
<1> QED
  BY <1>2, <1>3, Results

\* The record the handlers work on is sound between two of them.
IInv == Sound(avr)

LEMMA InitSound == Init => IInv
<1> SUFFICES ASSUME Init PROVE Sound(avr)
  BY DEF IInv
<1>1. Shape(avr) /\ avr.state = "IDLE"
  BY DEF Init, Booted, Shape
<1>2. avr.drain = FALSE
  BY DEF Init, Booted
<1> QED
  BY <1>1, <1>2 DEF Sound

LEMMA NextSound == IInv /\ [Next]_vars => IInv'
<1> SUFFICES ASSUME Sound(avr), [Next]_vars PROVE Sound(avr')
  BY DEF IInv
<1>1. CASE \E id \in Knobs, clockwise \in BOOLEAN : Rotor(id, clockwise)
  <2>1. PICK id \in Knobs, clockwise \in BOOLEAN :
          Result(menu_handle_rotor(avr, id, clockwise), asked, named)
    BY <1>1 DEF Rotor
  <2> QED
    BY <2>1, KnobsSound, Results
<1>2. CASE AtMenu
  BY <1>2, AtMenuSound DEF Sound
<1>3. CASE AtTag
  BY <1>3, AtTagSound
<1>4. CASE AtBoot
  BY <1>4, AtBootSound
<1>5. CASE \E p \in Queried : Answer(p)
  <2>1. PICK p \in Queried : Answer(p)
    BY <1>5
  <2>2. PICK a \in Answers(p) :
          Result(menu_parameter_value(heartbeat_confirm(avr), p, a[1], a[2], a[3]),
                 asked \ {p}, named)
    BY <2>1 DEF Answer
  <2>3. Sound(heartbeat_confirm(avr))
    BY HeartbeatsSound
  <2> QED
    BY <2>2, <2>3, ValuesSound, Results
<1>6. CASE \E q \in named : AnswerName(q)
  <2>1. PICK q \in named :
          Result(menu_parameter_name(heartbeat_confirm(avr), q[1], q[2]),
                 asked, named \ {q})
    BY <1>6 DEF AnswerName
  <2>2. Sound(heartbeat_confirm(avr))
    BY HeartbeatsSound
  <2> QED
    BY <2>1, <2>2, NamesSound, Results
<1>7. CASE NoAnswer
  BY <1>7 DEF NoAnswer
<1>8. CASE Confirm
  BY <1>8, HeartbeatsSound, Results DEF Confirm
<1>9. CASE Handshake
  <2>1. Sound(heartbeat_confirm(avr))
    BY HeartbeatsSound
  <2>2. Keeps(heartbeat_confirm(avr), mode_set(heartbeat_confirm(avr), "RADIO"))
    BY <2>1, Modes DEF Sound
  <2> QED
    BY <1>9, <2>1, <2>2, KeepsSound DEF Handshake
<1>10. CASE HeartbeatVerify
  BY <1>10, HeartbeatsSound, Results DEF HeartbeatVerify
<1>11. CASE UNCHANGED vars
  BY <1>11 DEF vars
<1> QED
  BY <1>1, <1>2, <1>3, <1>4, <1>5, <1>6, <1>7, <1>8, <1>9, <1>10, <1>11 DEF Next

\* flush.c's drain flag under menu.c: for all parameters, values and answers,
\* what the Pi sends is thrown away exactly while the menu covers the display.
THEOREM DrainIsRight == Spec => []DrainMatchesState
<1>1. IInv => DrainMatchesState
  BY DEF IInv, Sound, DrainMatchesState
<1> QED
  BY <1>1, InitSound, NextSound, PTL DEF Spec

\* menu.c with at.c: an open menu always has the timer that closes it.
THEOREM OpenMenuHasTimer == Spec => []OpenMenuTimesOut
<1>1. IInv => OpenMenuTimesOut
  BY DEF IInv, Sound, OpenMenuTimesOut
<1> QED
  BY <1>1, InitSound, NextSound, PTL DEF Spec

-----------------------------------------------------------------------------
(* The whole record of the C files, and what a function changes of it.     *)

Fields == {"mode", "is_connected", "cron", "misses", "drain", "brightness", "at",
           "wire", "backup_mode", "state", "param_id", "secondary_param",
           "param_id_min", "param_id_max", "tag_param", "tag_value", "sent",
           "valid", "old", "new", "min", "max", "shown", "out"}
Whole(s) == Fields \subseteq DOMAIN s

\* `a' is `s' but for the fields in X.
Only(s, a, X) ==
  DOMAIN a = DOMAIN s /\ \A f \in DOMAIN s \ X : a[f] = s[f]

LEMMA OnlyWhole ==
  ASSUME NEW s, Whole(s), NEW a, NEW X, Only(s, a, X)
  PROVE  Whole(a)
BY DEF Whole, Only

LEMMA OnlyTrans ==
  ASSUME NEW s, NEW a, NEW b, NEW X, NEW Y, Only(s, a, X), Only(a, b, Y)
  PROVE  Only(s, b, X \cup Y)
BY DEF Only

LEMMA OnlyMore ==
  ASSUME NEW s, NEW a, NEW X, NEW Y, Only(s, a, X), X \subseteq Y
  PROVE  Only(s, a, Y)
BY DEF Only

LEMMA OnlySelf ==
  ASSUME NEW s, NEW X
  PROVE  Only(s, s, X)
BY DEF Only

\* Messages are only added to what is sent.
Queue(q) == q \in Seq(ToSet(q))

LEMMA Sends ==
  ASSUME NEW q, Queue(q), NEW m
  PROVE  /\ Queue(Append(q, m))
         /\ Len(Append(q, m)) = Len(q) + 1 /\ Len(q) \in Nat
         /\ Append(q, m)[Len(q) + 1] = m
         /\ ToSet(Append(q, m)) = ToSet(q) \cup {m}
<1> DEFINE T == ToSet(q) \cup {m}
           a == Append(q, m)
<1>1. q \in Seq(ToSet(q)) /\ ToSet(q) \subseteq T /\ m \in T
  BY DEF Queue
<1> HIDE DEF T
<1>2. q \in Seq(T)
  BY <1>1
<1>3. /\ a \in Seq(T) /\ Len(a) = Len(q) + 1 /\ Len(q) \in Nat
      /\ \A i \in 1 .. Len(q) : a[i] = q[i]
      /\ a[Len(q) + 1] = m
  BY <1>1, <1>2, AppendProperties
<1>4. DOMAIN a = 1 .. Len(q) + 1 /\ DOMAIN q = 1 .. Len(q)
  BY <1>2, <1>3
<1> HIDE DEF a
<1>5. ToSet(a) \subseteq ToSet(q) \cup {m}
  BY <1>3, <1>4 DEF ToSet
<1>6. ToSet(q) \subseteq ToSet(a)
  BY <1>3, <1>4 DEF ToSet
<1>7. m \in ToSet(a)
  BY <1>3, <1>4 DEF ToSet
<1>8. ToSet(a) = T
  BY <1>5, <1>6, <1>7 DEF T
<1>9. Queue(a)
  BY <1>3, <1>8 DEF Queue
<1> QED
  BY <1>3, <1>8, <1>9 DEF T, a

LEMMA MessageSent ==
  ASSUME NEW s, Whole(s), NEW id, NEW p, NEW v
  PROVE  LET a == send_message(s, id, p, v)
         IN  /\ Whole(a) /\ Only(s, a, {"out"})
             /\ a.out = IF s.is_connected THEN Append(s.out, Msg(id, p, v))
                        ELSE s.out
             /\ a.out \in {s.out, Append(s.out, Msg(id, p, v))}
BY DEF Whole, Only, Fields, send_message

-----------------------------------------------------------------------------
(* mode.c: the mode, what runs in it, and the connection.                  *)

Modal(s) ==
  /\ s.mode \in {"WATCH", "RADIO", "MENU"} /\ s.is_connected \in BOOLEAN
  /\ s.mode = "RADIO" => s.cron = {"FLUSH", "HEARTBEAT"} /\ s.is_connected
  /\ s.mode # "RADIO" => s.cron = {}
  /\ s.mode = "WATCH" => ~s.is_connected

ModeFields == {"mode", "cron", "misses", "is_connected"}

LEMMA ModeSet ==
  ASSUME NEW s, Whole(s), Modal(s), NEW m \in {"WATCH", "RADIO", "MENU"}
  PROVE  LET a == mode_set(s, m)
         IN  /\ Whole(a) /\ Only(s, a, ModeFields) /\ Modal(a) /\ a.mode = m
             /\ a.is_connected = (m = "RADIO" \/ (s.is_connected /\ m = "MENU"))
<1> DEFINE b == [s EXCEPT !.mode = m,
                 !.cron = IF m = "RADIO" THEN {"FLUSH", "HEARTBEAT"} ELSE {},
                 !.misses = IF m = "RADIO" THEN 0 ELSE @,
                 !.is_connected = m = "RADIO" \/ (@ /\ m = "MENU")]
<1>1. /\ Whole(b) /\ Only(s, b, ModeFields) /\ b.mode = m
      /\ b.cron = IF m = "RADIO" THEN {"FLUSH", "HEARTBEAT"} ELSE {}
      /\ b.is_connected = (m = "RADIO" \/ (s.is_connected /\ m = "MENU"))
  BY DEF Whole, Only, Fields, ModeFields
<1> HIDE DEF b
<1>2. Modal(b)
  BY <1>1 DEF Modal
<1>3. Only(s, s, ModeFields)
  BY OnlySelf
<1>4. CASE s.mode = m
  BY <1>3, <1>4 DEF mode_set, Modal
<1>5. CASE s.mode # m
  BY <1>1, <1>2, <1>5 DEF mode_set, b
<1> QED
  BY <1>4, <1>5

\* Modes are about four fields only.
LEMMA ModalKept ==
  ASSUME NEW s, Whole(s), Modal(s), NEW a, NEW X, Only(s, a, X),
         X \cap ModeFields = {}
  PROVE  /\ Whole(a) /\ Modal(a)
         /\ a.mode = s.mode /\ a.is_connected = s.is_connected
BY DEF Whole, Only, Modal, Fields, ModeFields

-----------------------------------------------------------------------------
(* What each function of menu.c changes.                                   *)

LEMMA Asked ==
  ASSUME NEW s, Whole(s)
  PROVE  LET a == query_source(s)
             p == s.param_id
         IN  /\ Whole(a) /\ Only(s, a, {"out", "sent"})
             /\ \/ a.out = s.out /\ a.sent = s.sent
                \/ /\ p \in Queried /\ a.sent = s.sent \cup {p}
                   /\ a.out = IF s.is_connected
                              THEN Append(s.out, Msg("QUERY_NUMBER", p, 0))
                              ELSE s.out
<1> DEFINE p == s.param_id
           m == send_message(s, "QUERY_NUMBER", p, 0)
           a == [m EXCEPT !.sent = @ \cup {p}]
<1>1. /\ Whole(m) /\ Only(s, m, {"out"})
      /\ m.out = IF s.is_connected THEN Append(s.out, Msg("QUERY_NUMBER", p, 0))
                 ELSE s.out
  BY MessageSent
<1> HIDE DEF m
<1>2. /\ Whole(a) /\ Only(m, a, {"sent"}) /\ a.sent = m.sent \cup {p}
      /\ a.out = m.out
  BY <1>1 DEF Whole, Only, Fields
<1> HIDE DEF a
<1>3. Only(s, a, {"out", "sent"})
  BY <1>1, <1>2 DEF Only
<1>4. m.sent = s.sent
  BY <1>1 DEF Only, Whole, Fields
<1>5. Only(s, s, {"out", "sent"})
  BY OnlySelf
<1> QED
  BY <1>1, <1>2, <1>3, <1>4, <1>5 DEF query_source, m, a

RangeFields == {"param_id", "param_id_min", "param_id_max"}

LEMMA Ranged ==
  ASSUME NEW s, Whole(s), NEW n
  PROVE  LET a == set_param_range(s, n)
             low  == IF n = "APPLY" THEN "CANCEL"
                     ELSE IF s.is_connected THEN "POWER_OFF" ELSE "POWER_ON"
             high == IF n = "APPLY" THEN "APPLY"
                     ELSE IF s.is_connected THEN "REBOOT" ELSE "POWER_ON"
         IN  /\ Whole(a) /\ Only(s, a, RangeFields)
             /\ a.param_id_min = low /\ a.param_id_max = high
             /\ a.param_id = IF n = "VALUE" THEN s.param_id ELSE low
BY DEF Whole, Only, Fields, RangeFields, set_param_range

LEMMA Selected ==
  ASSUME NEW s, Whole(s), NEW clockwise
  PROVE  /\ LET a == select_param(s, clockwise)
                i == Rank(s.param_id)
            IN  /\ Whole(a) /\ Only(s, a, {"param_id"})
                /\ \/ a.param_id = s.param_id
                   \/ i < Rank(s.param_id_max) /\ a.param_id = Params[i + 1]
                   \/ i > Rank(s.param_id_min) /\ a.param_id = Params[i - 1]
         /\ LET a == select_apply(s, clockwise)
            IN  /\ Whole(a) /\ Only(s, a, {"param_id"})
                /\ a.param_id \in {"APPLY", "CANCEL"}
<1>1. \A p : LET a == [s EXCEPT !.param_id = p]
             IN  Whole(a) /\ Only(s, a, {"param_id"}) /\ a.param_id = p
  BY DEF Whole, Only, Fields
<1>2. Only(s, s, {"param_id"})
  BY OnlySelf
<1> QED
  BY <1>1, <1>2 DEF select_param, select_apply

Whole_number(v) == v \in [Values -> Int]

LEMMA Valued ==
  ASSUME NEW s, Whole(s), NEW clockwise
  PROVE  LET a == select_value(s, clockwise)
         IN  /\ Whole(a) /\ Only(s, a, {"new"})
             /\ Whole_number(s.new) => Whole_number(a.new)
<1> DEFINE p == s.param_id
           Set(n) == [s EXCEPT !.new = [s.new EXCEPT ![p] = n]]
<1>1. \A n : Whole(Set(n)) /\ Only(s, Set(n), {"new"})
             /\ Set(n).new = [s.new EXCEPT ![p] = n]
  BY DEF Whole, Only, Fields
<1>2. Only(s, s, {"new"})
  BY OnlySelf
<1>3. ASSUME Whole_number(s.new), NEW n \in Int, p \in Values
      PROVE  Whole_number([s.new EXCEPT ![p] = n])
  BY <1>3 DEF Whole_number
<1>4. ASSUME Whole_number(s.new), p \in Values
      PROVE  s.new[p] + 1 \in Int /\ s.new[p] - 1 \in Int
  BY <1>4 DEF Whole_number
<1>5. \/ select_value(s, clockwise) = s
      \/ p \in Values /\ \/ select_value(s, clockwise) = Set(s.new[p] + 1)
                         \/ select_value(s, clockwise) = Set(s.new[p] - 1)
  BY DEF select_value
<1> HIDE DEF Set, p
<1> QED
  BY <1>1, <1>2, <1>3, <1>4, <1>5

LEMMA Rendered ==
  ASSUME NEW s, Whole(s)
  PROVE  LET a == render(s)
         IN  /\ Whole(a) /\ Only(s, a, {"shown"})
             /\ a.shown = IF s.state = "IDLE" \/ s.param_id \in {"APPLY", "CANCEL"}
                          THEN s.shown ELSE s.param_id
BY DEF Whole, Only, Fields, render

LEMMA Scheduled ==
  ASSUME NEW s, Whole(s)
  PROVE  Whole(schedule(s)) /\ Only(s, schedule(s), {"at"})
BY DEF Whole, Only, Fields, schedule

TagFields == {"tag_param", "tag_value", "at"}

LEMMA Tagged ==
  ASSUME NEW s, Whole(s)
  PROVE  LET a == schedule_tag(s)
         IN  /\ Whole(a) /\ Only(s, a, TagFields)
             /\ a.tag_param \in {s.tag_param, "PLAYLIST", "TRACK"}
BY DEF Whole, Only, Fields, schedule_tag, TagFields

SuspendMsg == Msg("SUSPEND", "", 0)
ResumeMsg  == Msg("RESUME", "", 0)

\* On the way out of TAG and into it the mode changes, and a message is sent.
LEMMA Left ==
  ASSUME NEW s, Whole(s), Modal(s)
  PROVE  LET a == mode_set(drain_start(send_message(s, "SUSPEND", "", 0)), "MENU")
         IN  /\ Whole(a) /\ Modal(a) /\ a.is_connected = s.is_connected
             /\ Only(s, a, {"out", "drain"} \cup ModeFields)
             /\ a.out \in {s.out, Append(s.out, SuspendMsg)}
<1> DEFINE c == send_message(s, "SUSPEND", "", 0)
           d == drain_start(c)
           a == mode_set(d, "MENU")
<1>1. /\ Whole(c) /\ Only(s, c, {"out"}) /\ Modal(c)
      /\ c.out \in {s.out, Append(s.out, SuspendMsg)}
      /\ c.is_connected = s.is_connected
  <2>1. Whole(c) /\ Only(s, c, {"out"}) /\ c.out \in {s.out, Append(s.out, SuspendMsg)}
    BY MessageSent, Zenon DEF SuspendMsg
  <2> HIDE DEF c
  <2> QED
    BY <2>1, ModalKept DEF ModeFields
<1> HIDE DEF c
<1>2. Whole(d) /\ Only(c, d, {"drain"}) /\ d.out = c.out
  BY <1>1 DEF drain_start, Whole, Only, Fields
<1> HIDE DEF d
<1>3. Modal(d) /\ d.is_connected = c.is_connected
  BY <1>1, <1>2, ModalKept DEF ModeFields
<1>4. /\ Whole(a) /\ Only(d, a, ModeFields) /\ Modal(a)
      /\ a.is_connected = (d.is_connected /\ TRUE)
  BY <1>2, <1>3, ModeSet
<1>5. a.out = d.out /\ d.is_connected \in BOOLEAN
  BY <1>2, <1>3, <1>4 DEF Only, Whole, Fields, ModeFields, Modal
<1>6. Only(s, a, {"out", "drain"} \cup ModeFields)
  BY <1>1, <1>2, <1>4 DEF Only
<1> QED
  BY <1>1, <1>2, <1>3, <1>4, <1>5, <1>6 DEF c, d

LEMMA Entered ==
  ASSUME NEW s, Whole(s), Modal(s)
  PROVE  LET a == mode_set(send_message(drain_stop(s), "RESUME", "", 0), "RADIO")
         IN  /\ Whole(a) /\ Modal(a) /\ a.is_connected = TRUE
             /\ Only(s, a, {"out", "drain"} \cup ModeFields)
             /\ a.out \in {s.out, Append(s.out, ResumeMsg)}
<1> DEFINE c == drain_stop(s)
           d == send_message(c, "RESUME", "", 0)
           a == mode_set(d, "RADIO")
<1>1. Whole(c) /\ Only(s, c, {"drain"}) /\ c.out = s.out
  BY DEF drain_stop, Whole, Only, Fields
<1> HIDE DEF c
<1>2. /\ Whole(d) /\ Only(c, d, {"out"})
      /\ d.out \in {c.out, Append(c.out, ResumeMsg)}
  BY <1>1, MessageSent, Zenon DEF ResumeMsg
<1> HIDE DEF d
<1>3. Modal(d)
  BY <1>1, <1>2, ModalKept DEF ModeFields
<1>4. /\ Whole(a) /\ Only(d, a, ModeFields) /\ Modal(a) /\ a.is_connected = TRUE
  BY <1>2, <1>3, ModeSet
<1>5. a.out = d.out
  BY <1>2, <1>4 DEF Only, Whole, Fields, ModeFields
<1>6. Only(s, a, {"out", "drain"} \cup ModeFields)
  BY <1>1, <1>2, <1>4 DEF Only
<1> QED
  BY <1>1, <1>2, <1>4, <1>5, <1>6 DEF c, d

StateFields == {"state", "out", "drain", "secondary_param"}
                 \cup ModeFields \cup RangeFields

\* set_state: the mode, the connection and the messages.
LEMMA StateSet ==
  ASSUME NEW s, Whole(s), Modal(s), NEW n, s.state # n
  PROVE  LET a == set_state(s, n)
         IN  /\ Whole(a) /\ Modal(a) /\ Only(s, a, StateFields)
             /\ a.state \in {n}
             /\ a.is_connected = (s.is_connected \/ (n = "TAG"))
             /\ a.out \in {s.out, Append(s.out, SuspendMsg),
                           Append(s.out, ResumeMsg)}
             /\ \/ /\ s.state \in {"IDLE", "APPLY"} /\ n \in {"PARAM", "VALUE"}
                   /\ a.secondary_param = s.secondary_param
                   /\ <<a.param_id_min, a.param_id_max>> \in
                        {<<"POWER_OFF", "REBOOT">>, <<"POWER_ON", "POWER_ON">>}
                   /\ n = "PARAM" => a.param_id = a.param_id_min
                \/ /\ s.state \in {"PARAM", "VALUE"} /\ n = "APPLY"
                   /\ a.secondary_param = s.param_id
                   /\ <<a.param_id_min, a.param_id_max>> = <<"CANCEL", "APPLY">>
                \/ /\ ~(s.state \in {"IDLE", "APPLY"} /\ n \in {"PARAM", "VALUE"})
                   /\ ~(s.state \in {"PARAM", "VALUE"} /\ n = "APPLY")
                   /\ a.secondary_param = s.secondary_param
                   /\ a.param_id = s.param_id
                   /\ a.param_id_min = s.param_id_min
                   /\ a.param_id_max = s.param_id_max
<1> DEFINE leave == mode_set(drain_start(send_message(s, "SUSPEND", "", 0)), "MENU")
           enter == mode_set(send_message(drain_stop(s), "RESUME", "", 0), "RADIO")
           a == IF s.state = "TAG" THEN leave
                ELSE IF n = "TAG" THEN enter ELSE s
           c == [a EXCEPT !.secondary_param = a.param_id]
           Opens == s.state \in {"IDLE", "APPLY"} /\ n \in {"PARAM", "VALUE"}
           Applies == s.state \in {"PARAM", "VALUE"} /\ n = "APPLY"
           b == IF Opens THEN set_param_range(a, n)
                ELSE IF Applies THEN set_param_range(c, n) ELSE a
           e == [b EXCEPT !.state = n]
           Outs == {s.out, Append(s.out, SuspendMsg), Append(s.out, ResumeMsg)}
<1>1. set_state(s, n) = e
  BY Zenon DEF set_state
<1>2. /\ Whole(a) /\ Modal(a) /\ Only(s, a, {"out", "drain"} \cup ModeFields)
      /\ a.is_connected = (s.is_connected \/ (n = "TAG"))
      /\ a.out \in Outs
  <2>1. CASE s.state = "TAG"
    <3>1. a = leave /\ n # "TAG"
      BY <2>1
    <3>2. /\ Whole(leave) /\ Modal(leave) /\ leave.is_connected = s.is_connected
          /\ Only(s, leave, {"out", "drain"} \cup ModeFields)
          /\ leave.out \in {s.out, Append(s.out, SuspendMsg)}
      BY Left
    <3>3. s.is_connected \in BOOLEAN
      BY DEF Modal
    <3> HIDE DEF leave, a
    <3> QED
      BY <3>1, <3>2, <3>3
  <2>2. CASE s.state # "TAG" /\ n = "TAG"
    <3>1. a = enter
      BY <2>2
    <3>2. /\ Whole(enter) /\ Modal(enter) /\ enter.is_connected = TRUE
          /\ Only(s, enter, {"out", "drain"} \cup ModeFields)
          /\ enter.out \in {s.out, Append(s.out, ResumeMsg)}
      BY Entered
    <3> HIDE DEF enter, a
    <3> QED
      BY <2>2, <3>1, <3>2
  <2>3. CASE s.state # "TAG" /\ n # "TAG"
    <3>1. a = s
      BY <2>3
    <3>2. Only(s, s, {"out", "drain"} \cup ModeFields)
      BY OnlySelf
    <3>3. s.is_connected \in BOOLEAN
      BY DEF Modal
    <3> HIDE DEF a
    <3> QED
      BY <2>3, <3>1, <3>2, <3>3
  <2> QED
    BY <2>1, <2>2, <2>3
<1> HIDE DEF leave, enter, a
<1>3. Whole(c) /\ Only(a, c, {"secondary_param"}) /\ c.secondary_param = a.param_id
  BY <1>2 DEF Whole, Only, Fields
<1> HIDE DEF c
<1>4. /\ Whole(b) /\ Only(a, b, RangeFields \cup {"secondary_param"})
      /\ \/ /\ Opens /\ b.secondary_param = a.secondary_param
            /\ <<b.param_id_min, b.param_id_max>> \in
                 {<<"POWER_OFF", "REBOOT">>, <<"POWER_ON", "POWER_ON">>}
            /\ n = "PARAM" => b.param_id = b.param_id_min
         \/ /\ Applies /\ ~Opens /\ b.secondary_param = a.param_id
            /\ <<b.param_id_min, b.param_id_max>> = <<"CANCEL", "APPLY">>
         \/ ~Opens /\ ~Applies /\ b = a
  <2>1. CASE Opens
    <3> DEFINE r == set_param_range(a, n)
    <3>1. /\ Whole(r) /\ Only(a, r, RangeFields)
          /\ r.param_id_min = IF n = "APPLY" THEN "CANCEL"
                              ELSE IF a.is_connected THEN "POWER_OFF" ELSE "POWER_ON"
          /\ r.param_id_max = IF n = "APPLY" THEN "APPLY"
                              ELSE IF a.is_connected THEN "REBOOT" ELSE "POWER_ON"
          /\ n # "VALUE" => r.param_id = r.param_id_min
      BY <1>2, Ranged
    <3>2. b = r /\ n \in {"PARAM", "VALUE"}
      BY <2>1
    <3> HIDE DEF r, b
    <3>3. r.secondary_param = a.secondary_param
      BY <1>2, <3>1 DEF Only, Whole, Fields, RangeFields
    <3>4. Only(a, r, RangeFields \cup {"secondary_param"})
      BY <3>1 DEF Only
    <3> QED
      BY <2>1, <3>1, <3>2, <3>3, <3>4
  <2>2. CASE Applies
    <3> DEFINE r == set_param_range(c, n)
    <3>1. /\ Whole(r) /\ Only(c, r, RangeFields)
          /\ n = "APPLY" => r.param_id_min = "CANCEL" /\ r.param_id_max = "APPLY"
      BY <1>3, Ranged
    <3>2. b = r /\ n = "APPLY" /\ ~Opens
      BY <2>2
    <3> HIDE DEF r, b
    <3>3. r.secondary_param = c.secondary_param
      BY <1>3, <3>1 DEF Only, Whole, Fields, RangeFields
    <3>4. Only(a, r, RangeFields \cup {"secondary_param"})
      BY <1>3, <3>1 DEF Only
    <3> QED
      BY <2>2, <1>3, <3>1, <3>2, <3>3, <3>4
  <2>3. CASE ~Opens /\ ~Applies
    <3>1. b = a
      BY <2>3
    <3>2. Only(a, a, RangeFields \cup {"secondary_param"})
      BY OnlySelf
    <3> HIDE DEF b
    <3> QED
      BY <1>2, <2>3, <3>1, <3>2
  <2> QED
    BY <2>1, <2>2, <2>3
<1> HIDE DEF b
<1>5. Whole(e) /\ Only(b, e, {"state"}) /\ e.state = n
  BY <1>4 DEF Whole, Only, Fields
<1> HIDE DEF e
<1>6. Modal(b) /\ b.is_connected = a.is_connected
  BY <1>2, <1>4, ModalKept DEF ModeFields, RangeFields
<1>7. Modal(e) /\ e.is_connected = b.is_connected
  BY <1>4, <1>5, <1>6, ModalKept DEF ModeFields
<1>8. Only(s, e, StateFields)
  BY <1>2, <1>4, <1>5 DEF Only, StateFields
<1>9. /\ e.out = a.out /\ e.secondary_param = b.secondary_param
      /\ e.param_id = b.param_id /\ e.param_id_min = b.param_id_min
      /\ e.param_id_max = b.param_id_max
  BY <1>2, <1>4, <1>5 DEF Only, Whole, Fields, RangeFields
<1>10. /\ a.secondary_param = s.secondary_param /\ a.param_id = s.param_id
       /\ a.param_id_min = s.param_id_min /\ a.param_id_max = s.param_id_max
  BY <1>2 DEF Only, Whole, Fields, ModeFields
<1>11. \/ /\ Opens
          /\ e.secondary_param = s.secondary_param
          /\ <<e.param_id_min, e.param_id_max>> \in
               {<<"POWER_OFF", "REBOOT">>, <<"POWER_ON", "POWER_ON">>}
          /\ n = "PARAM" => e.param_id = e.param_id_min
       \/ /\ Applies
          /\ e.secondary_param = s.param_id
          /\ <<e.param_id_min, e.param_id_max>> = <<"CANCEL", "APPLY">>
       \/ /\ ~Opens /\ ~Applies
          /\ e.secondary_param = s.secondary_param
          /\ e.param_id = s.param_id
          /\ e.param_id_min = s.param_id_min
          /\ e.param_id_max = s.param_id_max
  BY <1>4, <1>9, <1>10
<1> QED
  BY <1>1, <1>2, <1>5, <1>6, <1>7, <1>8, <1>9, <1>11

ResetFields == {"backup_mode", "state", "max", "min", "old", "new", "sent",
                "valid", "param_id", "secondary_param", "tag_param",
                "tag_value", "shown"}

LEMMA ResetAll ==
  ASSUME NEW s, Whole(s)
  PROVE  LET a == reset(s)
         IN  /\ Whole(a) /\ Only(s, a, ResetFields)
             /\ a.state = "IDLE" /\ a.backup_mode = "MENU"
             /\ a.sent = {"BRIGHTNESS"} /\ a.valid = {"BRIGHTNESS"}
             /\ a.tag_param = "TRACK"
             /\ s.brightness \in Int
                  => Whole_number(a.old) /\ Whole_number(a.new)
<1> DEFINE a == reset(s)
<1>1. /\ Whole(a) /\ Only(s, a, ResetFields)
      /\ a.state = "IDLE" /\ a.backup_mode = "MENU"
      /\ a.sent = {"BRIGHTNESS"} /\ a.valid = {"BRIGHTNESS"}
      /\ a.tag_param = "TRACK"
  BY DEF Whole, Only, Fields, ResetFields, reset
<1>2. a.old = Zero(s.brightness) /\ a.new = Zero(s.brightness)
  BY DEF Whole, Fields, reset
<1>3. ASSUME s.brightness \in Int PROVE Whole_number(Zero(s.brightness))
  <2>1. \A v \in Values : Zero(s.brightness)[v] \in Int
    BY <1>3 DEF Zero
  <2> QED
    BY <2>1 DEF Zero, Whole_number
<1> HIDE DEF a
<1> QED
  BY <1>1, <1>2, <1>3 DEF a

StartFields == {"out", "drain"} \cup ModeFields \cup ResetFields

\* The menu opens: the mode and the values of the last time are put away.
LEMMA Started ==
  ASSUME NEW s, Whole(s), Modal(s)
  PROVE  LET a == start(s)
         IN  /\ Whole(a) /\ Modal(a) /\ a.is_connected = s.is_connected
             /\ Only(s, a, StartFields)
             /\ a.state = "IDLE" /\ a.backup_mode = s.mode
             /\ a.sent = {"BRIGHTNESS"} /\ a.valid = {"BRIGHTNESS"}
             /\ a.tag_param = "TRACK"
             /\ a.out \in {s.out, Append(s.out, SuspendMsg)}
             /\ s.brightness \in Int
                  => Whole_number(a.old) /\ Whole_number(a.new)
<1> DEFINE r == reset(s)
           b == [r EXCEPT !.backup_mode = s.mode]
           c == mode_set(b, "MENU")
           d == send_message(c, "SUSPEND", "", 0)
           e == drain_start(d)
           Fresh(x) == /\ x.state = "IDLE" /\ x.backup_mode = s.mode
                       /\ x.sent = {"BRIGHTNESS"} /\ x.valid = {"BRIGHTNESS"}
                       /\ x.tag_param = "TRACK"
                       /\ s.brightness \in Int
                            => Whole_number(x.old) /\ Whole_number(x.new)
<1>1. /\ Whole(r) /\ Only(s, r, ResetFields)
      /\ r.state = "IDLE"
      /\ r.sent = {"BRIGHTNESS"} /\ r.valid = {"BRIGHTNESS"}
      /\ r.tag_param = "TRACK"
      /\ s.brightness \in Int => Whole_number(r.old) /\ Whole_number(r.new)
  BY ResetAll
<1> HIDE DEF r
<1>2. Whole(b) /\ Only(r, b, {"backup_mode"}) /\ b.backup_mode = s.mode
  BY <1>1 DEF Whole, Only, Fields
<1> HIDE DEF b
<1>3. Modal(r) /\ r.is_connected = s.is_connected
  BY <1>1, ModalKept DEF ModeFields, ResetFields
<1>4. Modal(b) /\ b.is_connected = r.is_connected
  BY <1>1, <1>2, <1>3, ModalKept DEF ModeFields
<1>5. /\ Whole(c) /\ Only(b, c, ModeFields) /\ Modal(c)
      /\ c.is_connected = (b.is_connected /\ TRUE)
  BY <1>2, <1>4, ModeSet
<1> HIDE DEF c
<1>6. /\ Whole(d) /\ Only(c, d, {"out"})
      /\ d.out \in {c.out, Append(c.out, SuspendMsg)}
  BY <1>5, MessageSent, Zenon DEF SuspendMsg
<1>7. Modal(d) /\ d.is_connected = c.is_connected
  BY <1>5, <1>6, ModalKept DEF ModeFields
<1> HIDE DEF d
<1>8. Whole(e) /\ Only(d, e, {"drain"})
  BY <1>6 DEF drain_start, Whole, Only, Fields
<1>9. Modal(e) /\ e.is_connected = d.is_connected
  BY <1>6, <1>7, <1>8, ModalKept DEF ModeFields
<1>10. start(s) = e
  BY Zenon DEF start, e, d, c, b, r
<1> HIDE DEF e
<1>11. Fresh(b)
  BY <1>1, <1>2 DEF Only, Whole, Fields
<1>12. Fresh(c) /\ c.out = b.out
  BY <1>2, <1>11, <1>5 DEF Only, Whole, Fields, ModeFields
<1>13. Fresh(d)
  BY <1>12, <1>6, <1>5 DEF Only, Whole, Fields
<1>14. Fresh(e) /\ e.out = d.out
  BY <1>13, <1>6, <1>8 DEF Only, Whole, Fields
<1>15. b.out = s.out
  BY <1>1, <1>2 DEF Only, Whole, Fields, ResetFields
<1>16. e.is_connected = s.is_connected
  BY <1>3, <1>4, <1>5, <1>7, <1>9 DEF Modal
<1>17. Only(s, e, StartFields)
  BY <1>1, <1>2, <1>5, <1>6, <1>8 DEF Only, StartFields, ResetFields
<1> QED
  BY <1>6, <1>8, <1>9, <1>10, <1>12, <1>14, <1>15, <1>16, <1>17

-----------------------------------------------------------------------------
(* A knob is turned: the mode, the connection, the values that are known   *)
(* and the questions that are asked.                                       *)

\* Only what is marked as asked for is asked for, and names are not.
Asking(s) ==
  /\ Queue(s.out)
  /\ \A x \in ToSet(s.out) :
       /\ x.id # "QUERY_NAME"
       /\ x.id = "QUERY_NUMBER" =>
            x.param \in Queried /\ x.param \in s.sent /\ s.is_connected = TRUE

Ready(s) ==
  /\ Whole(s) /\ Modal(s) /\ s.out = <<>>
  /\ Whole_number(s.old) /\ Whole_number(s.new) /\ s.brightness \in Int
  /\ s.tag_param \in {"PLAYLIST", "TRACK"}

BaseFields == ModeFields \cup {"out", "sent", "valid", "backup_mode", "old",
                               "new", "brightness", "tag_param"}

\* `a' comes from `s' by the functions a knob runs.
Base(s, a) ==
  /\ Whole(a) /\ Modal(a) /\ Asking(a)
  /\ a.is_connected = s.is_connected
  /\ a.backup_mode = IF s.state = "IDLE" THEN s.mode ELSE s.backup_mode
  /\ a.valid = IF s.state = "IDLE" THEN {"BRIGHTNESS"} ELSE s.valid
  /\ (IF s.state = "IDLE" THEN {"BRIGHTNESS"} ELSE s.sent) \subseteq a.sent
  /\ Whole_number(a.old) /\ Whole_number(a.new) /\ a.brightness \in Int
  /\ a.tag_param \in {"PLAYLIST", "TRACK"}

LEMMA AskingEmpty ==
  ASSUME NEW s, s.out = <<>>
  PROVE  Asking(s)
<1>1. DOMAIN s.out = {}
  OBVIOUS
<1>2. ToSet(s.out) = {}
  BY <1>1 DEF ToSet
<1>3. Queue(s.out)
  <2>1. \A T : <<>> \in Seq(T)
    OBVIOUS
  <2> QED
    BY <2>1 DEF Queue
<1> QED
  BY <1>2, <1>3 DEF Asking

\* `a' has sent no more than m.
Adds(s, a, m) ==
  /\ a.out \in {s.out, Append(s.out, m)} /\ s.sent \subseteq a.sent
  /\ s.is_connected = TRUE => a.is_connected = TRUE
  /\ m.id # "QUERY_NAME"
  /\ a.out # s.out /\ m.id = "QUERY_NUMBER"
       => m.param \in Queried /\ m.param \in a.sent /\ a.is_connected = TRUE

LEMMA AskingMore ==
  ASSUME NEW s, Asking(s), NEW a, NEW m, Adds(s, a, m)
  PROVE  Asking(a)
<1>1. CASE a.out = s.out
  BY <1>1 DEF Asking, Adds
<1>2. CASE a.out # s.out
  <2>1. Queue(a.out) /\ ToSet(a.out) = ToSet(s.out) \cup {m}
    <3>1. Queue(s.out) /\ a.out = Append(s.out, m)
      BY <1>2 DEF Asking, Adds
    <3>2. Queue(Append(s.out, m)) /\ ToSet(Append(s.out, m)) = ToSet(s.out) \cup {m}
      BY <3>1, Sends
    <3> QED
      BY <3>1, <3>2
  <2>2. ASSUME NEW x \in ToSet(s.out)
        PROVE  /\ x.id # "QUERY_NAME"
               /\ x.id = "QUERY_NUMBER" =>
                    x.param \in Queried /\ x.param \in a.sent /\ a.is_connected = TRUE
    BY <2>2 DEF Asking, Adds
  <2> QED
    BY <1>2, <2>1, <2>2 DEF Asking, Adds
<1> QED
  BY <1>1, <1>2

LEMMA BaseKept ==
  ASSUME NEW s, NEW a, Base(s, a), NEW b, NEW X, Only(a, b, X),
         X \cap BaseFields = {}
  PROVE  Base(s, b)
<1>1. Whole(a) /\ Modal(a)
  BY DEF Base
<1>2. /\ Whole(b) /\ Modal(b) /\ b.is_connected = a.is_connected
  BY <1>1, ModalKept DEF BaseFields
<1>3. /\ b.out = a.out /\ b.sent = a.sent /\ b.valid = a.valid
      /\ b.backup_mode = a.backup_mode /\ b.old = a.old /\ b.new = a.new
      /\ b.brightness = a.brightness /\ b.tag_param = a.tag_param
  BY <1>1 DEF Only, Whole, Fields, BaseFields
<1>4. Asking(b)
  BY <1>2, <1>3 DEF Asking, Base
<1> QED
  BY <1>2, <1>3, <1>4, Zenon DEF Base

LEMMA BaseSame ==
  ASSUME NEW s, Ready(s), s.state # "IDLE"
  PROVE  Base(s, s)
<1>1. Asking(s)
  BY AskingEmpty DEF Ready
<1> QED
  BY <1>1 DEF Base, Ready

LEMMA BaseStart ==
  ASSUME NEW s, Ready(s), s.state = "IDLE"
  PROVE  Base(s, start(s))
<1> DEFINE a == start(s)
<1>0. Whole(s) /\ Modal(s) /\ s.brightness \in Int /\ Asking(s)
  BY AskingEmpty DEF Ready
<1>1. /\ Whole(a) /\ Modal(a) /\ a.is_connected = s.is_connected
      /\ Only(s, a, StartFields)
      /\ a.state = "IDLE" /\ a.backup_mode = s.mode
      /\ a.sent = {"BRIGHTNESS"} /\ a.valid = {"BRIGHTNESS"}
      /\ a.tag_param = "TRACK"
      /\ a.out \in {s.out, Append(s.out, SuspendMsg)}
      /\ Whole_number(a.old) /\ Whole_number(a.new)
  BY <1>0, Started
<1> HIDE DEF a
<1>2. a.brightness = s.brightness
  BY <1>0, <1>1 DEF Only, Whole, Fields, StartFields, ResetFields, ModeFields
<1>3. SuspendMsg.id = "SUSPEND"
  BY DEF SuspendMsg, Msg
<1>4. Asking(a)
  <2>1. ToSet(s.out) = {}
    <3>1. DOMAIN s.out = {}
      BY DEF Ready
    <3> QED
      BY <3>1 DEF ToSet
  <2>2. CASE a.out = s.out
    BY <1>0, <2>1, <2>2 DEF Asking
  <2>3. CASE a.out = Append(s.out, SuspendMsg)
    <3>1. Queue(a.out) /\ ToSet(a.out) = {SuspendMsg}
      BY <1>0, <2>1, <2>3, Sends DEF Asking
    <3> QED
      BY <1>3, <3>1 DEF Asking
  <2> QED
    BY <1>1, <2>2, <2>3
<1> QED
  BY <1>0, <1>1, <1>2, <1>4 DEF Base, a

LEMMA BaseStateSet ==
  ASSUME NEW s, NEW a, Base(s, a), NEW n, a.state # n, n # "TAG"
  PROVE  Base(s, set_state(a, n))
<1> DEFINE b == set_state(a, n)
<1>0. Whole(a) /\ Modal(a) /\ Asking(a) /\ a.is_connected \in BOOLEAN
  BY DEF Base, Modal
<1>1. /\ Whole(b) /\ Modal(b) /\ Only(a, b, StateFields)
      /\ b.is_connected = (a.is_connected \/ (n = "TAG"))
      /\ b.out \in {a.out, Append(a.out, SuspendMsg), Append(a.out, ResumeMsg)}
  BY <1>0, StateSet
<1> HIDE DEF b
<1>2. b.is_connected = a.is_connected
  BY <1>0, <1>1
<1>3. /\ b.sent = a.sent /\ b.valid = a.valid /\ b.backup_mode = a.backup_mode
      /\ b.old = a.old /\ b.new = a.new
      /\ b.brightness = a.brightness /\ b.tag_param = a.tag_param
  BY <1>0, <1>1 DEF Only, Whole, Fields, StateFields, ModeFields, RangeFields
<1>4. SuspendMsg.id = "SUSPEND" /\ ResumeMsg.id = "RESUME"
  BY DEF SuspendMsg, ResumeMsg, Msg
<1>5. Asking(b)
  <2>1. PICK m \in {SuspendMsg, ResumeMsg} : b.out \in {a.out, Append(a.out, m)}
    BY <1>1
  <2>2. /\ a.sent \subseteq b.sent
        /\ a.is_connected = TRUE => b.is_connected = TRUE
    BY <1>2, <1>3
  <2>3. /\ m.id # "QUERY_NAME"
        /\ b.out # a.out /\ m.id = "QUERY_NUMBER"
             => m.param \in Queried /\ m.param \in b.sent /\ b.is_connected = TRUE
    BY <1>4, <2>1
  <2>4. Adds(a, b, m)
    BY <2>1, <2>2, <2>3 DEF Adds
  <2> QED
    BY <1>0, <2>4, AskingMore
<1> QED
  BY <1>1, <1>2, <1>3, <1>5 DEF Base, b

LEMMA BaseAsk ==
  ASSUME NEW s, NEW a, Base(s, a)
  PROVE  Base(s, query_source(a))
<1> DEFINE b == query_source(a)
           m == Msg("QUERY_NUMBER", a.param_id, 0)
<1>0. Whole(a) /\ Modal(a) /\ Asking(a) /\ a.is_connected \in BOOLEAN
  BY DEF Base, Modal
<1>1. /\ Whole(b) /\ Only(a, b, {"out", "sent"})
      /\ \/ b.out = a.out /\ b.sent = a.sent
         \/ /\ a.param_id \in Queried /\ b.sent = a.sent \cup {a.param_id}
            /\ b.out = IF a.is_connected THEN Append(a.out, m) ELSE a.out
  BY <1>0, Asked, Zenon
<1> HIDE DEF b
<1>2. Modal(b) /\ b.is_connected = a.is_connected
  BY <1>0, <1>1, ModalKept DEF ModeFields
<1>3. /\ b.valid = a.valid /\ b.backup_mode = a.backup_mode
      /\ b.old = a.old /\ b.new = a.new
      /\ b.brightness = a.brightness /\ b.tag_param = a.tag_param
  BY <1>0, <1>1 DEF Only, Whole, Fields
<1>4. m.id = "QUERY_NUMBER" /\ m.param = a.param_id
  BY DEF Msg
<1> HIDE DEF m
<1>5. a.sent \subseteq b.sent
  BY <1>1
<1>6. b.out \in {a.out, Append(a.out, m)}
  BY <1>1
<1>7. ASSUME b.out # a.out
      PROVE  m.param \in Queried /\ m.param \in b.sent /\ b.is_connected = TRUE
  BY <1>0, <1>1, <1>2, <1>4, <1>7
<1>8. Asking(b)
  <2>1. Adds(a, b, m)
    BY <1>2, <1>4, <1>5, <1>6, <1>7 DEF Adds
  <2> QED
    BY <1>0, <2>1, AskingMore
<1> QED
  BY <1>1, <1>2, <1>3, <1>5, <1>8 DEF Base, b

LEMMA BaseSelect ==
  ASSUME NEW s, NEW a, Base(s, a), NEW clockwise
  PROVE  /\ Base(s, select_param(a, clockwise))
         /\ Base(s, select_apply(a, clockwise))
         /\ Base(s, select_value(a, clockwise))
         /\ Base(s, render(a)) /\ Base(s, schedule(a)) /\ Base(s, schedule_tag(a))
         /\ \A p : Base(s, [a EXCEPT !.param_id = p])
<1>0. Whole(a) /\ Modal(a) /\ Whole_number(a.new)
  BY DEF Base
<1>1. Base(s, select_param(a, clockwise)) /\ Base(s, select_apply(a, clockwise))
  <2>1. {"param_id"} \cap BaseFields = {}
    BY DEF BaseFields, ModeFields
  <2> QED
    BY <1>0, <2>1, Selected, BaseKept, Zenon
<1>2. Base(s, select_value(a, clockwise))
  <2> DEFINE b == select_value(a, clockwise)
  <2>1. Whole(b) /\ Only(a, b, {"new"}) /\ Whole_number(b.new)
    BY <1>0, Valued
  <2> HIDE DEF b
  <2>2. Modal(b) /\ b.is_connected = a.is_connected
    BY <1>0, <2>1, ModalKept DEF ModeFields
  <2>3. /\ b.out = a.out /\ b.sent = a.sent /\ b.valid = a.valid
        /\ b.backup_mode = a.backup_mode /\ b.old = a.old
        /\ b.brightness = a.brightness /\ b.tag_param = a.tag_param
    BY <1>0, <2>1 DEF Only, Whole, Fields
  <2>4. Asking(b)
    BY <2>2, <2>3 DEF Asking, Base
  <2> QED
    BY <2>1, <2>2, <2>3, <2>4 DEF Base, b
<1>3. Base(s, render(a)) /\ Base(s, schedule(a))
  <2>1. {"shown"} \cap BaseFields = {} /\ {"at"} \cap BaseFields = {}
    BY DEF BaseFields, ModeFields
  <2> QED
    BY <1>0, <2>1, Rendered, Scheduled, BaseKept, Zenon
<1>4. Base(s, schedule_tag(a))
  <2> DEFINE b == schedule_tag(a)
  <2>1. /\ Whole(b) /\ Only(a, b, TagFields)
        /\ b.tag_param \in {a.tag_param, "PLAYLIST", "TRACK"}
    BY <1>0, Tagged
  <2> HIDE DEF b
  <2>2. Modal(b) /\ b.is_connected = a.is_connected
    BY <1>0, <2>1, ModalKept DEF ModeFields, TagFields
  <2>3. /\ b.out = a.out /\ b.sent = a.sent /\ b.valid = a.valid
        /\ b.backup_mode = a.backup_mode /\ b.old = a.old /\ b.new = a.new
        /\ b.brightness = a.brightness
    BY <1>0, <2>1 DEF Only, Whole, Fields, TagFields
  <2>4. Asking(b)
    BY <2>2, <2>3 DEF Asking, Base
  <2> QED
    BY <2>1, <2>2, <2>3, <2>4 DEF Base, b
<1>5. ASSUME NEW p PROVE Base(s, [a EXCEPT !.param_id = p])
  <2>1. Only(a, [a EXCEPT !.param_id = p], {"param_id"})
    BY DEF Only
  <2>2. {"param_id"} \cap BaseFields = {}
    BY DEF BaseFields, ModeFields
  <2> QED
    BY <2>1, <2>2, BaseKept
<1> QED
  BY <1>1, <1>2, <1>3, <1>4, <1>5

\* menu_handle_rotor, for a menu that is open or is opened by the knob.
LEMMA KnobBase ==
  ASSUME NEW s, Ready(s), NEW id, NEW clockwise,
         ~(rotor_to_state(id) = "APPLY" /\ s.state = "IDLE")
  PROVE  Base(s, menu_handle_rotor(s, id, clockwise))
<1> DEFINE to == rotor_to_state(id)
<1>0. to \in {"PARAM", "VALUE", "APPLY"}
  BY DEF rotor_to_state
<1>1. CASE s.state = to
  <2> DEFINE p == rotor_to_param(s, id)
             c == [s EXCEPT !.param_id = p]
             a == IF s.param_id # p THEN query_source(c) ELSE s
  <2>1. Base(s, s)
    BY <1>0, <1>1, BaseSame
  <2>2. Base(s, c)
    BY <2>1, BaseSelect
  <2> HIDE DEF p, c
  <2>3. Base(s, a)
    BY <2>1, <2>2, BaseAsk
  <2> HIDE DEF a
  <2>4. Base(s, schedule_tag(select_value(a, clockwise)))
    BY <2>3, BaseSelect
  <2>5. Base(s, select_apply(s, clockwise)) /\ Base(s, select_param(s, clockwise))
    BY <2>1, BaseSelect
  <2>6. SameKnob(s, id, clockwise) \in
          {select_apply(s, clockwise), select_param(s, clockwise),
           schedule_tag(select_value(a, clockwise))}
    BY DEF SameKnob, a, c, p
  <2>7. Base(s, SameKnob(s, id, clockwise))
    BY <2>4, <2>5, <2>6
  <2>8. menu_handle_rotor(s, id, clockwise) =
          render(schedule(SameKnob(s, id, clockwise)))
    BY <1>1 DEF menu_handle_rotor
  <2> QED
    BY <2>7, <2>8, BaseSelect
<1>2. CASE s.state # to
  <2> DEFINE o == IF s.state = "IDLE" THEN start(s) ELSE s
             a == set_state(o, to)
             b == [a EXCEPT !.param_id = rotor_to_param(a, id)]
  <2>1. Base(s, o) /\ o.state = s.state
    <3>1. CASE s.state = "IDLE"
      <4>1. Base(s, start(s))
        BY <3>1, BaseStart
      <4>2. start(s).state = "IDLE"
        BY Started DEF Ready
      <4> QED
        BY <3>1, <4>1, <4>2
    <3>2. CASE s.state # "IDLE"
      BY <3>2, BaseSame
    <3> QED
      BY <3>1, <3>2
  <2>9. OtherKnob(s, id, clockwise) \in
          {select_apply(a, clockwise), select_param(a, clockwise),
           query_source(select_value(b, clockwise))}
    BY DEF OtherKnob
  <2> HIDE DEF o, to
  <2>2. Base(s, a)
    BY <1>0, <1>2, <2>1, BaseStateSet
  <2> HIDE DEF a
  <2>3. Base(s, b)
    BY <2>2, BaseSelect
  <2> HIDE DEF b
  <2>4. Base(s, query_source(select_value(b, clockwise)))
    BY <2>3, BaseSelect, BaseAsk
  <2>5. Base(s, select_apply(a, clockwise)) /\ Base(s, select_param(a, clockwise))
    BY <2>2, BaseSelect
  <2>6. Base(s, OtherKnob(s, id, clockwise))
    BY <2>4, <2>5, <2>9
  <2>7. menu_handle_rotor(s, id, clockwise) =
          render(schedule(OtherKnob(s, id, clockwise)))
    BY <1>2 DEF menu_handle_rotor, to
  <2> QED
    BY <2>6, <2>7, BaseSelect
<1> QED
  BY <1>1, <1>2

-----------------------------------------------------------------------------
(* The menu closes.                                                        *)

\* Nothing is asked for.
Plain(m) == m.id \notin {"QUERY_NAME", "QUERY_NUMBER"}
Telling(s) ==
  Queue(s.out) /\ \A x \in ToSet(s.out) : Plain(x)

Tells(s, a, m) == Plain(m) /\ a.out \in {s.out, Append(s.out, m)}

LEMMA TellingMore ==
  ASSUME NEW s, Telling(s), NEW a, NEW m, Tells(s, a, m)
  PROVE  /\ Telling(a) /\ ToSet(s.out) \subseteq ToSet(a.out)
         /\ a.out = Append(s.out, m) => m \in ToSet(a.out)
<1>1. /\ Queue(s.out) /\ Queue(Append(s.out, m))
      /\ ToSet(Append(s.out, m)) = ToSet(s.out) \cup {m}
  BY Sends DEF Telling
<1>2. CASE a.out = s.out /\ a.out # Append(s.out, m)
  BY <1>2 DEF Telling, Tells
<1>3. CASE a.out = Append(s.out, m)
  BY <1>1, <1>3 DEF Telling, Tells
<1> QED
  BY <1>2, <1>3 DEF Tells

CarryFields == {"brightness", "wire", "at", "out"}

LEMMA CarriedOut ==
  ASSUME NEW s, Whole(s), NEW p
  PROVE  LET a == Carried(s, p)
         IN  /\ Whole(a) /\ Only(s, a, CarryFields)
             /\ \E m : Tells(s, a, m)
             /\ s.brightness \in Int /\ Whole_number(s.new) => a.brightness \in Int
<1> DEFINE Fine(a) ==
      /\ Whole(a) /\ Only(s, a, CarryFields)
      /\ \E m : Plain(m) /\ a.out \in {s.out, Append(s.out, m)}
      /\ s.brightness \in Int /\ Whole_number(s.new) => a.brightness \in Int
<1>1. \A id \in {"PARAM_SET", "POWEROFF", "REBOOT"} : \A q, v : Plain(Msg(id, q, v))
  BY DEF Msg, Plain
<1>2. ASSUME NEW id \in {"PARAM_SET", "POWEROFF", "REBOOT"}, NEW q, NEW v
      PROVE  Fine(send_message(s, id, q, v))
  <2> DEFINE a == send_message(s, id, q, v)
             m == Msg(id, q, v)
  <2>1. Whole(a) /\ Only(s, a, {"out"}) /\ a.out \in {s.out, Append(s.out, m)}
    BY MessageSent, Zenon
  <2>2. Plain(m)
    BY <1>1
  <2> HIDE DEF a, m
  <2>3. a.brightness = s.brightness
    BY <2>1 DEF Only, Whole, Fields
  <2>4. Only(s, a, CarryFields)
    BY <2>1 DEF Only, CarryFields
  <2>5. Fine(a)
    BY <2>1, <2>2, <2>3, <2>4
  <2> QED
    BY <2>5 DEF a
<1>3. \E m : Plain(m)
  <2>1. Plain(Msg("REBOOT", "", 0))
    BY <1>1
  <2> QED
    BY <2>1
<1>4. ASSUME NEW b, s.brightness \in Int /\ Whole_number(s.new) => b \in Int
      PROVE  Fine([s EXCEPT !.brightness = b])
  <2> DEFINE a == [s EXCEPT !.brightness = b]
  <2>1. Whole(a) /\ Only(s, a, CarryFields) /\ a.out = s.out /\ a.brightness = b
    BY DEF Whole, Only, Fields, CarryFields
  <2> HIDE DEF a
  <2>2. Fine(a)
    BY <1>3, <1>4, <2>1
  <2> QED
    BY <2>2 DEF a
<1>5. Fine([s EXCEPT !.wire = "low", !.at = @ \cup {"BOOT"}])
  <2> DEFINE a == [s EXCEPT !.wire = "low", !.at = @ \cup {"BOOT"}]
  <2>1. /\ Whole(a) /\ Only(s, a, CarryFields) /\ a.out = s.out
        /\ a.brightness = s.brightness
    BY DEF Whole, Only, Fields, CarryFields
  <2> HIDE DEF a
  <2>2. Fine(a)
    BY <1>3, <2>1
  <2> QED
    BY <2>2 DEF a
<1>6. Fine(s)
  BY <1>3, OnlySelf
<1>7. /\ p = "BRIGHTNESS" /\ Whole_number(s.new) => s.new[p] \in Int
      /\ {0, FLUSH_BRIGHTNESS_MIDDLE, FLUSH_BRIGHTNESS_MAX} \subseteq Int
  BY MenuAssumption DEF Whole_number, Values
<1>8. /\ \A q, v : /\ Fine(send_message(s, "PARAM_SET", q, v))
                   /\ Fine(send_message(s, "POWEROFF", q, v))
                   /\ Fine(send_message(s, "REBOOT", q, v))
      /\ p = "BRIGHTNESS" => Fine([s EXCEPT !.brightness = s.new[p]])
      /\ Fine([s EXCEPT !.brightness = 0])
      /\ Fine([s EXCEPT !.brightness = FLUSH_BRIGHTNESS_MIDDLE])
      /\ Fine([s EXCEPT !.brightness = FLUSH_BRIGHTNESS_MAX])
  <2> HIDE DEF Fine
  <2> QED
    BY <1>2, <1>4, <1>7
<1>9. Fine(Carried(s, p))
  <2> HIDE DEF Fine
  <2> QED
    BY <1>5, <1>6, <1>8 DEF Carried
<1> QED
  BY <1>9 DEF Tells

LEMMA TellingEmpty ==
  ASSUME NEW s, s.out = <<>>
  PROVE  Telling(s)
<1>1. Asking(s)
  BY AskingEmpty
<1>2. DOMAIN s.out = {}
  OBVIOUS
<1>3. ToSet(s.out) = {}
  BY <1>2 DEF ToSet
<1> QED
  BY <1>1, <1>3 DEF Asking, Telling

\* A name on the display is given up first.
LEMMA Closed ==
  ASSUME NEW s, Whole(s), Modal(s), s.out = <<>>
  PROVE  LET a == Closing(s)
         IN  /\ Whole(a) /\ Modal(a) /\ a.is_connected = s.is_connected
             /\ Only(s, a, StateFields) /\ Telling(a)
             /\ a.state = IF s.state = "TAG" THEN "VALUE" ELSE s.state
             /\ a.param_id = s.param_id /\ a.secondary_param = s.secondary_param
<1>0. Telling(s)
  BY TellingEmpty
<1>1. CASE s.state = "TAG"
  <2> DEFINE c == mode_set(drain_start(send_message(s, "SUSPEND", "", 0)), "MENU")
             a == [c EXCEPT !.state = "VALUE"]
  <2>1. Closing(s) = a
    BY <1>1 DEF Closing, set_state
  <2>2. /\ Whole(c) /\ Modal(c) /\ c.is_connected = s.is_connected
        /\ Only(s, c, {"out", "drain"} \cup ModeFields)
        /\ c.out \in {s.out, Append(s.out, SuspendMsg)}
    BY Left
  <2> HIDE DEF c
  <2>3. Whole(a) /\ Only(c, a, {"state"}) /\ a.state = "VALUE" /\ a.out = c.out
    BY <2>2 DEF Whole, Only, Fields
  <2> HIDE DEF a
  <2>4. Modal(a) /\ a.is_connected = c.is_connected
    BY <2>2, <2>3, ModalKept DEF ModeFields
  <2>5. Plain(SuspendMsg)
    BY DEF SuspendMsg, Msg, Plain
  <2>6. Telling(a)
    <3>1. Tells(s, a, SuspendMsg)
      BY <2>2, <2>3, <2>5 DEF Tells
    <3> QED
      BY <1>0, <3>1, TellingMore
  <2>7. Only(s, a, StateFields)
    BY <2>2, <2>3 DEF Only, StateFields
  <2>8. a.param_id = s.param_id /\ a.secondary_param = s.secondary_param
    BY <2>2, <2>3 DEF Only, Whole, Fields, ModeFields
  <2> QED
    BY <1>1, <2>1, <2>2, <2>3, <2>4, <2>6, <2>7, <2>8
<1>2. CASE s.state # "TAG"
  BY <1>0, <1>2, OnlySelf DEF Closing
<1> QED
  BY <1>1, <1>2

\* What a value that was changed does to the Pi.
Effect(s) == Msg("PARAM_SET", s.param_id, s.new[s.param_id] - s.old[s.param_id])
Changed(s) ==
  /\ s.param_id \in Queried /\ s.param_id \in s.sent /\ s.param_id \in s.valid
  /\ Whole_number(s.new) /\ Whole_number(s.old)
  /\ s.new[s.param_id] # s.old[s.param_id] /\ s.is_connected = TRUE

LEMMA CarriedEffect ==
  ASSUME NEW s, Whole(s), Changed(s)
  PROVE  Carried(s, s.param_id).out = Append(s.out, Effect(s))
<1> DEFINE p == s.param_id
           delta == s.new[p] - s.old[p]
<1>1. s.new[p] \in Int /\ s.old[p] \in Int /\ s.new[p] # s.old[p]
  BY DEF Changed, Whole_number, Queried, Values
<1>2. delta # 0
  BY <1>1
<1>3. p \in Queried /\ p \in s.sent \cap s.valid
  BY DEF Changed
<1>4. p \notin {"BRIGHTNESS", "BRIGHTNESS_MIN", "BRIGHTNESS_MIDDLE",
               "BRIGHTNESS_MAX", "NEXT", "PREVIOUS", "PLAY", "STOP"}
  BY <1>3 DEF Queried
<1> HIDE DEF p, delta
<1>5. Carried(s, p) = send_message(s, "PARAM_SET", p, delta)
  <2>1. delta = s.new[p] - s.old[p]
    BY DEF delta
  <2> QED
    BY <1>2, <1>3, <1>4, <2>1 DEF Carried, Queried
<1>6. send_message(s, "PARAM_SET", p, delta).out
        = Append(s.out, Msg("PARAM_SET", p, delta))
  <2>1. s.is_connected
    BY DEF Changed
  <2> QED
    BY <2>1 DEF send_message, Whole, Fields
<1> QED
  BY <1>5, <1>6 DEF Effect, p, delta

ModeIds == {"WATCH", "RADIO", "MENU"}

LEMMA Stopped ==
  ASSUME NEW s, Ready(s), s.backup_mode \in ModeIds
  PROVE  LET a == stop(s)
         IN  /\ Whole(a) /\ Modal(a)
             /\ a.state = "IDLE" /\ a.backup_mode = "MENU"
             /\ a.mode = s.backup_mode
             /\ a.is_connected = (\/ s.backup_mode = "RADIO"
                                  \/ s.is_connected /\ s.backup_mode = "MENU")
             /\ a.sent = {"BRIGHTNESS"} /\ a.valid = {"BRIGHTNESS"}
             /\ a.tag_param = "TRACK" /\ a.brightness \in Int
             /\ Whole_number(a.old) /\ Whole_number(a.new)
             /\ Telling(a)
             /\ a.is_connected =>
                  Len(a.out) \in DOMAIN a.out /\ a.out[Len(a.out)] = ResumeMsg
             /\ /\ s.state \in {"VALUE", "TAG"} /\ Changed(s)
                => Effect(s) \in ToSet(a.out)
<1> DEFINE a == Closing(s)
           b == Carried(a, Chosen(a))
           c == drain_stop(b)
           d == mode_set(c, c.backup_mode)
           e == send_message(d, "RESUME", "", 0)
           r == reset(e)
<1>0. stop(s) = r
  BY Zenon DEF stop, a, b, c, d, e, r
<1>1. /\ Whole(a) /\ Modal(a) /\ a.is_connected = s.is_connected
      /\ Only(s, a, StateFields) /\ Telling(a)
      /\ a.state = IF s.state = "TAG" THEN "VALUE" ELSE s.state
      /\ a.param_id = s.param_id
  BY Closed DEF Ready
<1>2. /\ a.new = s.new /\ a.old = s.old /\ a.brightness = s.brightness
      /\ a.backup_mode = s.backup_mode /\ a.sent = s.sent /\ a.valid = s.valid
  BY <1>1 DEF Ready, Only, Whole, Fields, StateFields, ModeFields, RangeFields
<1>3. Whole_number(a.new) /\ a.brightness \in Int
  BY <1>2 DEF Ready
<1>4. s.state \in {"VALUE", "TAG"} /\ Changed(s)
        => Chosen(a) = a.param_id /\ Changed(a) /\ Effect(a) = Effect(s)
  BY <1>1, <1>2 DEF Chosen, Changed, Effect
<1> HIDE DEF a
<1>5. /\ Whole(b) /\ Only(a, b, CarryFields) /\ b.brightness \in Int
      /\ \E m : Tells(a, b, m)
  BY <1>1, <1>3, CarriedOut
<1>6. Telling(b)
  BY <1>1, <1>5, TellingMore
<1>7. s.state \in {"VALUE", "TAG"} /\ Changed(s) => Effect(s) \in ToSet(b.out)
  <2> SUFFICES ASSUME s.state \in {"VALUE", "TAG"}, Changed(s)
               PROVE  Effect(s) \in ToSet(b.out)
    OBVIOUS
  <2>1. b.out = Append(a.out, Effect(a))
    BY <1>1, <1>4, CarriedEffect
  <2>2. Queue(a.out)
    BY <1>1 DEF Telling
  <2>3. ToSet(b.out) = ToSet(a.out) \cup {Effect(a)}
    BY <2>1, <2>2, Sends
  <2> QED
    BY <1>4, <2>3
<1>8. Modal(b) /\ b.is_connected = a.is_connected /\ b.backup_mode = a.backup_mode
  <2>1. b.backup_mode = a.backup_mode
    BY <1>1, <1>5 DEF Only, Whole, Fields, CarryFields
  <2> QED
    BY <1>1, <1>5, <2>1, ModalKept DEF ModeFields, CarryFields
<1> HIDE DEF b
<1>9. /\ Whole(c) /\ Only(b, c, {"drain"}) /\ c.out = b.out
      /\ c.brightness = b.brightness /\ c.backup_mode = b.backup_mode
  BY <1>5 DEF drain_stop, Whole, Only, Fields
<1>10. Modal(c) /\ c.is_connected = b.is_connected
  BY <1>5, <1>8, <1>9, ModalKept DEF ModeFields
<1> HIDE DEF c
<1>11. c.backup_mode \in {"WATCH", "RADIO", "MENU"} /\ c.backup_mode = s.backup_mode
  BY <1>2, <1>8, <1>9 DEF ModeIds
<1>12. /\ Whole(d) /\ Only(c, d, ModeFields) /\ Modal(d)
       /\ d.mode = c.backup_mode
       /\ d.is_connected = (\/ c.backup_mode = "RADIO"
                            \/ c.is_connected /\ c.backup_mode = "MENU")
  <2>1. ASSUME NEW m \in ModeIds, m = c.backup_mode
        PROVE  LET x == mode_set(c, m)
               IN  /\ Whole(x) /\ Only(c, x, ModeFields) /\ Modal(x)
                   /\ x.mode = m
                   /\ x.is_connected = (m = "RADIO" \/ (c.is_connected /\ m = "MENU"))
    BY <1>9, <1>10, <2>1, ModeSet DEF ModeIds
  <2>2. c.backup_mode \in ModeIds
    BY <1>11 DEF ModeIds
  <2> DEFINE m == c.backup_mode
  <2>3. /\ Whole(d) /\ Only(c, d, ModeFields) /\ Modal(d)
        /\ d.mode = m
        /\ d.is_connected = (m = "RADIO" \/ (c.is_connected /\ m = "MENU"))
    BY <2>1, <2>2
  <2> QED
    BY <2>3
<1>13. d.out = c.out /\ d.brightness = c.brightness
  BY <1>9, <1>12 DEF Only, Whole, Fields, ModeFields
<1> HIDE DEF d
<1>14. Whole(e) /\ Only(d, e, {"out"}) /\ e.out \in {d.out, Append(d.out, ResumeMsg)}
  BY <1>12, MessageSent, Zenon DEF ResumeMsg
<1>15. d.is_connected => e.out = Append(d.out, ResumeMsg)
  BY <1>12 DEF send_message, ResumeMsg, Whole, Fields
<1>16. Modal(e) /\ e.is_connected = d.is_connected /\ e.mode = d.mode
  BY <1>12, <1>14, ModalKept DEF ModeFields
<1>17. e.brightness = d.brightness
  BY <1>12, <1>14 DEF Only, Whole, Fields
<1> HIDE DEF e
<1>18. /\ Whole(r) /\ Only(e, r, ResetFields)
       /\ r.state = "IDLE" /\ r.backup_mode = "MENU"
       /\ r.sent = {"BRIGHTNESS"} /\ r.valid = {"BRIGHTNESS"}
       /\ r.tag_param = "TRACK"
       /\ Whole_number(r.old) /\ Whole_number(r.new)
  BY <1>5, <1>9, <1>13, <1>14, <1>17, ResetAll
<1> HIDE DEF r
<1>19. Modal(r) /\ r.is_connected = e.is_connected /\ r.mode = e.mode
  BY <1>14, <1>16, <1>18, ModalKept DEF ModeFields, ResetFields
<1>20. r.out = e.out /\ r.brightness = e.brightness
  BY <1>14, <1>18 DEF Only, Whole, Fields, ResetFields
<1>21. Queue(d.out) /\ Telling(d) /\ ToSet(d.out) = ToSet(b.out)
  BY <1>6, <1>9, <1>13 DEF Telling
<1>22. Telling(e) /\ ToSet(d.out) \subseteq ToSet(e.out)
  <2>1. Plain(ResumeMsg)
    BY DEF Plain, ResumeMsg, Msg
  <2>2. Tells(d, e, ResumeMsg)
    BY <1>14, <2>1 DEF Tells
  <2> QED
    BY <1>21, <2>2, TellingMore
<1>23. ASSUME d.is_connected
       PROVE  Len(e.out) \in DOMAIN e.out /\ e.out[Len(e.out)] = ResumeMsg
  <2>1. /\ Queue(e.out) /\ Len(e.out) = Len(d.out) + 1 /\ Len(d.out) \in Nat
        /\ e.out[Len(d.out) + 1] = ResumeMsg
    <3>1. LET q == Append(d.out, ResumeMsg)
          IN  /\ Queue(q) /\ Len(q) = Len(d.out) + 1 /\ Len(d.out) \in Nat
              /\ q[Len(d.out) + 1] = ResumeMsg
      BY <1>21, Sends
    <3>2. e.out = Append(d.out, ResumeMsg)
      BY <1>15, <1>23
    <3> QED
      BY <3>1, <3>2
  <2>2. DOMAIN e.out = 1 .. Len(e.out)
    BY <2>1 DEF Queue
  <2> QED
    BY <2>1, <2>2
<1>24. Telling(r) /\ r.brightness \in Int
  BY <1>5, <1>9, <1>13, <1>17, <1>20, <1>22 DEF Telling
<1>25. s.state \in {"VALUE", "TAG"} /\ Changed(s) => Effect(s) \in ToSet(r.out)
  BY <1>7, <1>20, <1>21, <1>22
<1>26. r.is_connected =>
         Len(r.out) \in DOMAIN r.out /\ r.out[Len(r.out)] = ResumeMsg
  BY <1>16, <1>19, <1>20, <1>23
<1>27. /\ r.mode = s.backup_mode
       /\ r.is_connected = (\/ s.backup_mode = "RADIO"
                            \/ s.is_connected /\ s.backup_mode = "MENU")
  BY <1>1, <1>8, <1>10, <1>11, <1>12, <1>16, <1>19
<1> QED
  BY <1>0, <1>18, <1>19, <1>24, <1>25, <1>26, <1>27

-----------------------------------------------------------------------------
(* The handlers that neither open nor close the menu with a knob or its    *)
(* timer.                                                                  *)

LEMMA Confirmed ==
  ASSUME NEW s, Ready(s)
  PROVE  /\ Ready(heartbeat_confirm(s))
         /\ Only(s, heartbeat_confirm(s), {"misses"})
<1> DEFINE a == heartbeat_confirm(s)
<1>1. Only(s, a, {"misses"})
  BY DEF Only, heartbeat_confirm, Ready, Whole, Fields
<1>2. /\ Whole(a) /\ a.mode = s.mode /\ a.is_connected = s.is_connected
      /\ a.cron = s.cron /\ a.out = s.out /\ a.old = s.old /\ a.new = s.new
      /\ a.brightness = s.brightness /\ a.tag_param = s.tag_param
  BY <1>1 DEF Only, Ready, Whole, Fields
<1> HIDE DEF a
<1>3. Modal(a)
  BY <1>2 DEF Modal, Ready
<1> QED
  BY <1>1, <1>2, <1>3 DEF Ready, a

\* heartbeat_confirm and then mode_set, the handler of HANDSHAKE.
LEMMA Shaken ==
  ASSUME NEW s, Ready(s)
  PROVE  LET a == mode_set(heartbeat_confirm(s), "RADIO")
         IN  /\ Ready(a) /\ Only(s, a, ModeFields)
             /\ a.mode = "RADIO" /\ a.is_connected = TRUE
<1> DEFINE b == heartbeat_confirm(s)
           a == mode_set(b, "RADIO")
<1>1. Ready(b) /\ Only(s, b, {"misses"})
  BY Confirmed
<1> HIDE DEF b
<1>2. Whole(b) /\ Modal(b)
  BY <1>1 DEF Ready
<1>3. /\ Whole(a) /\ Only(b, a, ModeFields) /\ Modal(a) /\ a.mode = "RADIO"
      /\ a.is_connected = TRUE
  BY <1>2, ModeSet
<1> HIDE DEF a
<1>4. /\ a.out = b.out /\ a.old = b.old /\ a.new = b.new
      /\ a.brightness = b.brightness /\ a.tag_param = b.tag_param
  BY <1>2, <1>3 DEF Only, Whole, Fields, ModeFields
<1>5. Ready(a)
  BY <1>1, <1>3, <1>4 DEF Ready
<1>6. Only(s, a, {"misses"} \cup ModeFields) /\ {"misses"} \cup ModeFields = ModeFields
  BY <1>1, <1>3, OnlyTrans DEF ModeFields
<1> QED
  BY <1>3, <1>5, <1>6 DEF a, b

\* Silence ends the connection, and nothing else does here.
LEMMA Verified ==
  ASSUME NEW s, Ready(s), "HEARTBEAT" \in s.cron
  PROVE  LET a == verify(s)
         IN  /\ Ready(a) /\ Only(s, a, ModeFields) /\ s.mode = "RADIO"
             /\ a.mode = IF Silent(s) THEN "WATCH" ELSE "RADIO"
             /\ a.is_connected = ~Silent(s)
<1> DEFINE b == [s EXCEPT !.misses = @ + 1]
           c == [b EXCEPT !.cron = @ \ {"HEARTBEAT"}]
           d == mode_set(c, "WATCH")
           a == verify(s)
<1>1. s.mode = "RADIO" /\ s.is_connected = TRUE /\ Whole(s)
  BY DEF Ready, Modal
<1>2. /\ Only(s, b, {"misses"}) /\ b.mode = s.mode
      /\ b.is_connected = s.is_connected /\ b.cron = s.cron /\ Whole(b)
  BY <1>1 DEF Only, Whole, Fields
<1>3. Modal(b)
  BY <1>2 DEF Modal, Ready
<1> HIDE DEF b
<1>4. Only(b, c, {"cron"}) /\ Whole(c) /\ c.mode = "RADIO"
  BY <1>1, <1>2 DEF Only, Whole, Fields
<1> HIDE DEF c
<1>5. /\ Only(c, d, ModeFields) /\ Whole(d) /\ d.mode = "WATCH"
      /\ d.is_connected = FALSE /\ d.cron = {}
  BY <1>4 DEF mode_set, Only, Whole, Fields, ModeFields
<1> HIDE DEF d
<1>6. Modal(d)
  BY <1>5 DEF Modal
<1>7. a = IF Silent(s) THEN d ELSE b
  BY DEF verify, b, c, d
<1>8. Only(s, b, ModeFields)
  BY <1>2, OnlyMore DEF ModeFields
<1>9. Only(s, d, ModeFields)
  <2>1. Only(b, c, ModeFields)
    BY <1>4, OnlyMore DEF ModeFields
  <2>2. Only(s, c, ModeFields \cup ModeFields)
    BY <1>8, <2>1, OnlyTrans
  <2>3. Only(s, d, (ModeFields \cup ModeFields) \cup ModeFields)
    BY <1>5, <2>2, OnlyTrans
  <2> QED
    BY <2>3, OnlyMore
<1>10. /\ Whole(a) /\ Modal(a) /\ Only(s, a, ModeFields)
       /\ a.mode = IF Silent(s) THEN "WATCH" ELSE "RADIO"
       /\ a.is_connected = ~Silent(s)
  BY <1>1, <1>2, <1>3, <1>5, <1>6, <1>7, <1>8, <1>9
<1> HIDE DEF a
<1>11. /\ a.out = s.out /\ a.old = s.old /\ a.new = s.new
       /\ a.brightness = s.brightness /\ a.tag_param = s.tag_param
  BY <1>1, <1>10 DEF Only, Whole, Fields, ModeFields
<1>12. Ready(a)
  BY <1>10, <1>11 DEF Ready
<1> QED
  BY <1>1, <1>10, <1>12 DEF a

ValueFields == {"old", "new", "min", "max", "valid", "at", "shown"}

\* The answer with a value.
LEMMA Numbered ==
  ASSUME NEW s, Ready(s), NEW p \in Queried, NEW value \in Nat, NEW min \in Nat,
         NEW max \in Nat
  PROVE  LET a == menu_parameter_value(s, p, value, min, max)
         IN  /\ Ready(a) /\ Only(s, a, ValueFields)
             /\ a.valid = s.valid \cup {p}
             /\ a.shown = IF s.param_id = p /\ s.state # "IDLE" THEN p ELSE s.shown
<1> DEFINE b == [s EXCEPT !.old[p] = value, !.new[p] = value,
                          !.min[p] = min, !.max[p] = max, !.valid = @ \cup {p}]
           c == schedule(b)
           a == menu_parameter_value(s, p, value, min, max)
<1>0. Whole(s) /\ Whole_number(s.old) /\ Whole_number(s.new) /\ p \in Values
  BY DEF Ready, Values
<1>1. Whole(b) /\ Only(s, b, {"old", "new", "min", "max", "valid"})
  BY <1>0 DEF Whole, Fields, Only
<1>2. /\ b.old = [s.old EXCEPT ![p] = value] /\ b.new = [s.new EXCEPT ![p] = value]
      /\ b.valid = s.valid \cup {p}
  BY <1>0 DEF Whole, Fields
<1>3. Whole_number(b.old) /\ Whole_number(b.new)
  BY <1>0, <1>2 DEF Whole_number
<1> HIDE DEF b
<1>4. Whole(c) /\ Only(b, c, {"at"})
  BY <1>1, Scheduled
<1>5. a = IF s.param_id = p THEN render(c) ELSE c
  BY DEF menu_parameter_value, b, c
<1> HIDE DEF c
<1>6. /\ c.old = b.old /\ c.new = b.new /\ c.valid = b.valid
      /\ c.shown = b.shown /\ c.param_id = b.param_id /\ c.state = b.state
  BY <1>1, <1>4 DEF Only, Whole, Fields
<1>7. b.shown = s.shown /\ b.param_id = s.param_id /\ b.state = s.state
  BY <1>0, <1>1 DEF Only, Whole, Fields
<1>8. /\ Whole(render(c)) /\ Only(c, render(c), {"shown"})
      /\ render(c).shown = IF c.state = "IDLE" \/ c.param_id \in {"APPLY", "CANCEL"}
                           THEN c.shown ELSE c.param_id
  BY <1>4, Rendered
<1>9. Only(c, c, {"shown"})
  BY OnlySelf
<1>10. Whole(a) /\ Only(c, a, {"shown"})
  BY <1>4, <1>5, <1>8, <1>9
<1>11. p \notin {"APPLY", "CANCEL"}
  BY DEF Queried
<1>12. a.shown = IF s.param_id = p /\ s.state # "IDLE" THEN p ELSE s.shown
  BY <1>5, <1>6, <1>7, <1>8, <1>11
<1> HIDE DEF a
<1>13. Only(s, a, ValueFields)
  BY <1>1, <1>4, <1>10 DEF Only, ValueFields
<1>14. a.old = c.old /\ a.new = c.new /\ a.valid = c.valid
  BY <1>4, <1>10 DEF Only, Whole, Fields
<1>15. /\ a.out = s.out /\ a.brightness = s.brightness
       /\ a.tag_param = s.tag_param
  BY <1>0, <1>13 DEF Only, Whole, Fields, ValueFields
<1>16. Modal(a)
  BY <1>0, <1>13, ModalKept DEF ModeFields, ValueFields, Ready
<1>17. Ready(a)
  BY <1>3, <1>6, <1>10, <1>14, <1>15, <1>16 DEF Ready
<1> QED
  BY <1>2, <1>6, <1>12, <1>13, <1>14, <1>17 DEF a

\* The answer with a name: the menu shows it, or nothing happens.
NameFields == StateFields \cup {"at"}

LEMMA Named ==
  ASSUME NEW s, Ready(s), NEW p, NEW id
  PROVE  LET a == menu_parameter_name(s, p, id)
         IN  \/ a = s
             \/ /\ Whole(a) /\ Modal(a) /\ Telling(a) /\ Only(s, a, NameFields)
                /\ a.state = "TAG" /\ s.param_id = s.tag_param
                /\ s.is_connected => a.is_connected
                /\ a.param_id = s.param_id
                /\ a.param_id_min = s.param_id_min
                /\ a.param_id_max = s.param_id_max
<1> DEFINE c == schedule(s)
           b == set_state(c, "TAG")
           a == menu_parameter_name(s, p, id)
<1>0. Whole(s) /\ Modal(s)
  BY DEF Ready
<1>1. Whole(c) /\ Only(s, c, {"at"})
  BY <1>0, Scheduled
<1>2. a = IF p # s.param_id \/ p # s.tag_param \/ id # s.tag_value THEN s ELSE b
  BY DEF menu_parameter_name, b, c
<1> HIDE DEF c
<1>3. Modal(c) /\ c.is_connected = s.is_connected
  BY <1>0, <1>1, ModalKept DEF ModeFields
<1>4. /\ c.out = s.out /\ c.state = s.state /\ c.param_id = s.param_id
      /\ c.param_id_min = s.param_id_min /\ c.param_id_max = s.param_id_max
  BY <1>0, <1>1 DEF Only, Whole, Fields
<1>5. Telling(c)
  BY <1>4, TellingEmpty DEF Ready
<1>6. CASE c.state = "TAG"
  <2>1. b = c
    BY <1>6 DEF set_state
  <2>2. Only(s, c, NameFields)
    BY <1>1, OnlyMore DEF NameFields
  <2> QED
    BY <1>1, <1>2, <1>3, <1>4, <1>5, <1>6, <2>1, <2>2
<1>7. CASE c.state # "TAG"
  <2>1. /\ Whole(b) /\ Modal(b) /\ Only(c, b, StateFields)
        /\ b.state \in {"TAG"}
        /\ b.is_connected = (c.is_connected \/ ("TAG" = "TAG"))
        /\ b.out \in {c.out, Append(c.out, SuspendMsg), Append(c.out, ResumeMsg)}
    BY <1>1, <1>3, <1>7, StateSet
  <2>2. /\ b.param_id = c.param_id /\ b.param_id_min = c.param_id_min
        /\ b.param_id_max = c.param_id_max
    BY <1>1, <1>3, <1>7, StateSet
  <2> HIDE DEF b
  <2>3. Only(s, b, {"at"} \cup StateFields)
    BY <1>1, <2>1, OnlyTrans
  <2>4. {"at"} \cup StateFields = NameFields
    BY DEF NameFields
  <2>5. Plain(SuspendMsg) /\ Plain(ResumeMsg)
    BY DEF Plain, SuspendMsg, ResumeMsg, Msg
  <2>6. Tells(c, b, SuspendMsg) \/ Tells(c, b, ResumeMsg)
    BY <2>1, <2>5 DEF Tells
  <2>7. Telling(b)
    BY <1>5, <2>6, TellingMore
  <2> QED
    BY <1>2, <1>4, <2>1, <2>2, <2>3, <2>4, <2>7
<1> QED
  BY <1>6, <1>7

\* The name is asked for while a value is shown.
LEMMA Requested ==
  ASSUME NEW s, Ready(s)
  PROVE  LET a == [tag_request(s) EXCEPT !.at = @ \ {"TAG"}]
         IN  /\ Whole(a) /\ Modal(a) /\ Only(s, a, {"out", "at"})
             /\ a.at = s.at \ {"TAG"}
             /\ \/ a.out = <<>>
                \/ /\ s.state = "VALUE"
                   /\ \E v : a.out = Append(<<>>, Msg("QUERY_NAME", s.param_id, v))
<1> DEFINE v == s.tag_value
           t == send_message(s, "QUERY_NAME", s.param_id, v)
           b == tag_request(s)
           a == [b EXCEPT !.at = @ \ {"TAG"}]
<1>0. Whole(s) /\ Modal(s) /\ s.out = <<>>
  BY DEF Ready
<1>1. /\ Whole(t) /\ Only(s, t, {"out"})
      /\ t.out \in {s.out, Append(s.out, Msg("QUERY_NAME", s.param_id, v))}
  BY <1>0, MessageSent
<1>2. b = IF /\ s.state = "VALUE" /\ s.param_id = s.tag_param
             /\ v = s.new[s.param_id] THEN t ELSE s
  BY DEF tag_request
<1>3. Only(s, s, {"out"})
  BY OnlySelf
<1> HIDE DEF t
<1>4. Whole(b) /\ Only(s, b, {"out"})
  BY <1>0, <1>1, <1>2, <1>3
<1>5. \/ b.out = <<>>
      \/ /\ s.state = "VALUE"
         /\ \E n : b.out = Append(<<>>, Msg("QUERY_NAME", s.param_id, n))
  BY <1>0, <1>1, <1>2
<1>6. b.at = s.at
  BY <1>0, <1>4 DEF Only, Whole, Fields
<1> HIDE DEF b
<1>7. Whole(a) /\ Only(b, a, {"at"}) /\ a.out = b.out /\ a.at = b.at \ {"TAG"}
  BY <1>4 DEF Only, Whole, Fields
<1> HIDE DEF a
<1>8. Only(s, a, {"out"} \cup {"at"}) /\ {"out"} \cup {"at"} = {"out", "at"}
  BY <1>4, <1>7, OnlyTrans
<1>9. Modal(a)
  BY <1>0, <1>8, ModalKept DEF ModeFields
<1> QED
  BY <1>5, <1>6, <1>7, <1>8, <1>9 DEF a, b

-----------------------------------------------------------------------------
(* The messages reach the Pi.                                              *)

LEMMA Delivered ==
  ASSUME NEW a, Whole(a), NEW asks, NEW names, Result(a, asks, names)
  PROVE  Only(a, avr', {"out"}) /\ avr'.out = <<>>
BY DEF Result, Only, Whole, Fields

\* What counts between two handlers, without the messages of one.
Fit(s) ==
  /\ Whole(s) /\ Modal(s)
  /\ Whole_number(s.old) /\ Whole_number(s.new) /\ s.brightness \in Int
  /\ s.tag_param \in {"PLAYLIST", "TRACK"}

LEMMA ReadyAgain ==
  ASSUME NEW a, Fit(a), NEW asks, NEW names, Result(a, asks, names)
  PROVE  Ready(avr')
<1> DEFINE b == avr'
<1>1. Only(a, b, {"out"}) /\ b.out = <<>>
  BY Delivered DEF Fit
<1> HIDE DEF b
<1>2. Whole(b) /\ Modal(b)
  BY <1>1, ModalKept DEF Fit, ModeFields
<1>3. /\ b.old = a.old /\ b.new = a.new /\ b.brightness = a.brightness
      /\ b.tag_param = a.tag_param
  BY <1>1 DEF Fit, Only, Whole, Fields
<1>4. Ready(b)
  BY <1>1, <1>2, <1>3 DEF Fit, Ready
<1> QED
  BY <1>4 DEF b

LEMMA ToldOnly ==
  ASSUME NEW a, Telling(a), NEW asks, NEW names, Result(a, asks, names)
  PROVE  asked' = asks /\ named' = names
<1>1. \A x \in ToSet(a.out) : x.id # "QUERY_NUMBER" /\ x.id # "QUERY_NAME"
  BY DEF Telling, Plain
<1>2. {m.param : m \in {x \in ToSet(a.out) : x.id = "QUERY_NUMBER"}} = {}
  BY <1>1
<1>3. {<<m.param, m.value>> : m \in {x \in ToSet(a.out) : x.id = "QUERY_NAME"}} = {}
  BY <1>1
<1> QED
  BY <1>2, <1>3 DEF Result

LEMMA AskedOnly ==
  ASSUME NEW a, Asking(a), NEW asks, NEW names, Result(a, asks, names)
  PROVE  /\ named' = names
         /\ \A p \in asked' \ asks :
              p \in Queried /\ p \in a.sent /\ a.is_connected = TRUE
<1>1. {<<m.param, m.value>> : m \in {x \in ToSet(a.out) : x.id = "QUERY_NAME"}} = {}
  BY DEF Asking
<1>2. \A p \in {m.param : m \in {x \in ToSet(a.out) : x.id = "QUERY_NUMBER"}} :
        p \in Queried /\ p \in a.sent /\ a.is_connected = TRUE
  BY DEF Asking
<1> QED
  BY <1>1, <1>2 DEF Result

LEMMA NothingSent ==
  ASSUME NEW a, a.out = <<>>, NEW asks, NEW names, Result(a, asks, names)
  PROVE  suspended' = suspended /\ asked' = asks /\ named' = names
<1>1. DOMAIN a.out = {}
  OBVIOUS
<1>2. {i \in DOMAIN a.out : a.out[i].id \in {"SUSPEND", "RESUME"}} = {}
  BY <1>1
<1>3. suspended' = suspended
  BY <1>2 DEF Result
<1>4. Telling(a)
  BY TellingEmpty
<1> QED
  BY <1>3, <1>4, ToldOnly

\* The last message counts.
LEMMA ResumedLast ==
  ASSUME NEW a, NEW asks, NEW names, Result(a, asks, names), Telling(a),
         Len(a.out) \in DOMAIN a.out, a.out[Len(a.out)] = ResumeMsg
  PROVE  suspended' = FALSE
<1> DEFINE n == Len(a.out)
           flow == {i \in DOMAIN a.out : a.out[i].id \in {"SUSPEND", "RESUME"}}
<1>1. a.out[n].id = "RESUME"
  <2>1. ResumeMsg.id = "RESUME"
    BY DEF ResumeMsg, Msg
  <2>2. a.out[n] = ResumeMsg
    OBVIOUS
  <2> QED
    BY Zenon, <2>1, <2>2
<1>2. n \in flow
  BY <1>1
<1>3. DOMAIN a.out = 1 .. n /\ n \in Nat
  BY DEF Telling, Queue
<1>4. ASSUME NEW i \in flow, \A j \in flow : j <= i
      PROVE  i = n
  BY <1>2, <1>3, <1>4
<1>5. ~ \E i \in flow : (\A j \in flow : j <= i) /\ a.out[i].id = "SUSPEND"
  BY <1>1, <1>4
<1>6. suspended' = IF flow = {} THEN suspended
                   ELSE \E i \in flow : /\ \A j \in flow : j <= i
                                        /\ a.out[i].id = "SUSPEND"
  BY DEF Result
<1> HIDE DEF flow
<1> QED
  BY <1>2, <1>5, <1>6

-----------------------------------------------------------------------------
(* The modes, the questions and the connection between two handlers.       *)

StateIds == {"IDLE", "PARAM", "VALUE", "TAG", "APPLY"}

Body(s) ==
  /\ Ready(s) /\ Sound(s)
  /\ s.state \in StateIds /\ s.backup_mode \in ModeIds
  /\ s.state = "IDLE" => s.backup_mode = "MENU"

\* As long as no answer is late: a closed menu has left its mode and waits for
\* nothing, and an open one knows only values that it has asked for itself,
\* and has asked for them over a connection.
Prompt(s, asks, names, link) ==
  /\ s.state = "IDLE" => /\ s.mode # "MENU" /\ "MENU" \notin s.at
                         /\ asks = {} /\ names = {} /\ s.valid = {"BRIGHTNESS"}
  /\ s.state # "IDLE" => s.backup_mode # "MENU"
  /\ asks \subseteq s.sent /\ s.valid \subseteq s.sent
  /\ link /\ s.state # "IDLE" /\ (asks # {} \/ s.valid # {"BRIGHTNESS"})
       => s.is_connected

\* As long as no HANDSHAKE meets an open menu: a connection is kept, and the
\* mode to go back to keeps it.
Lasting(s, held) ==
  /\ s.is_connected /\ s.backup_mode # "WATCH"
  /\ s.state = "IDLE" => ~held

MenuInv ==
  /\ Body(avr)
  /\ "late" \notin met => Prompt(avr, asked, named, linked)
  /\ "handshake" \notin met /\ linked => Lasting(avr, suspended)

\* The state of the menu after a knob.
LEMMA KnobState ==
  ASSUME NEW s, Sound(s), NEW id, NEW clockwise,
         ~(rotor_to_state(id) = "APPLY" /\ s.state = "IDLE")
  PROVE  menu_handle_rotor(s, id, clockwise).state = rotor_to_state(id)
<1> DEFINE to == rotor_to_state(id)
           a == IF s.state = to THEN SameKnob(s, id, clockwise)
                ELSE OtherKnob(s, id, clockwise)
<1>1. Shape(a) /\ a.state = to
  <2>1. CASE s.state = to
    BY <2>1, SameKnobs DEF Grows, Sound
  <2>2. CASE s.state # to
    BY <2>2, OtherKnobs
  <2> QED
    BY <2>1, <2>2
<1>2. menu_handle_rotor(s, id, clockwise) = render(schedule(a))
  BY DEF menu_handle_rotor
<1> HIDE DEF a
<1>3. Shape(schedule(a)) /\ schedule(a).state = a.state
  BY <1>1, Schedules
<1>4. Keeps(schedule(a), render(schedule(a)))
  BY <1>3, Renderings
<1> QED
  BY <1>1, <1>2, <1>3, <1>4 DEF Keeps

\* What a handler has left is there after its messages are sent.
Same(s, a) ==
  /\ a.state = s.state /\ a.mode = s.mode /\ a.is_connected = s.is_connected
  /\ a.backup_mode = s.backup_mode /\ a.at = s.at
  /\ a.valid = s.valid /\ a.sent = s.sent

LEMMA Landed ==
  ASSUME NEW a, Fit(a), NEW asks, NEW names, Result(a, asks, names),
         Sound(a), a.state \in StateIds, a.backup_mode \in ModeIds,
         a.state = "IDLE" => a.backup_mode = "MENU"
  PROVE  Same(a, avr') /\ Body(avr')
<1> DEFINE b == avr'
<1>1. Ready(b) /\ Sound(b)
  BY ReadyAgain, Results
<1>2. Only(a, b, {"out"})
  BY Delivered DEF Fit
<1> HIDE DEF b
<1>3. Same(a, b)
  BY <1>2 DEF Same, Only, Fit, Whole, Fields
<1>4. Body(b)
  BY <1>1, <1>3 DEF Same, Body
<1> QED
  BY <1>3, <1>4 DEF b

LEMMA PromptSame ==
  ASSUME NEW s, NEW a, Same(s, a), NEW asks, NEW names, NEW link,
         Prompt(s, asks, names, link)
  PROVE  Prompt(a, asks, names, link)
BY DEF Same, Prompt

LEMMA LastingSame ==
  ASSUME NEW s, NEW a, Same(s, a), NEW held, Lasting(s, held)
  PROVE  Lasting(a, held)
BY DEF Same, Lasting

\* A handler that is about none of this, and answers nothing new.
LEMMA Quiet ==
  ASSUME MenuInv, NEW a, Ready(a), Sound(a), NEW X, Only(avr, a, X),
         X \cap {"state", "mode", "is_connected", "backup_mode", "valid",
                 "sent", "out"} = {},
         "MENU" \in a.at => "MENU" \in avr.at,
         NEW asks, asks \subseteq asked, NEW names, names \subseteq named,
         Result(a, asks, names), UNCHANGED <<linked, met>>
  PROVE  MenuInv'
<1>1. /\ a.state = avr.state /\ a.mode = avr.mode
      /\ a.is_connected = avr.is_connected /\ a.backup_mode = avr.backup_mode
      /\ a.valid = avr.valid /\ a.sent = avr.sent /\ a.out = <<>>
  BY DEF MenuInv, Body, Ready, Only, Whole, Fields
<1>2. suspended' = suspended /\ asked' = asks /\ named' = names
  BY <1>1, NothingSent
<1>3. Fit(a)
  BY DEF Fit, Ready
<1>4. a.state \in StateIds /\ a.backup_mode \in ModeIds
        /\ (a.state = "IDLE" => a.backup_mode = "MENU")
  BY <1>1 DEF MenuInv, Body
<1>5. Same(a, avr') /\ Body(avr')
  BY <1>3, <1>4, Landed
<1>6. ASSUME "late" \notin met PROVE Prompt(avr', asked', named', linked')
  <2>1. Prompt(avr, asked, named, linked)
    BY <1>6 DEF MenuInv
  <2>2. Prompt(a, asks, names, linked)
    BY <1>1, <2>1 DEF Prompt
  <2> QED
    BY <1>2, <1>5, <2>2, PromptSame
<1>7. ASSUME "handshake" \notin met, linked PROVE Lasting(avr', suspended')
  <2>1. Lasting(avr, suspended)
    BY <1>7 DEF MenuInv
  <2>2. Lasting(a, suspended)
    BY <1>1, <2>1 DEF Lasting
  <2> QED
    BY <1>2, <1>5, <2>2, LastingSame
<1> QED
  BY <1>5, <1>6, <1>7 DEF MenuInv

-----------------------------------------------------------------------------
(* The steps.                                                              *)

LEMMA RotorStep ==
  ASSUME MenuInv, NEW id, NEW clockwise, Rotor(id, clockwise)
  PROVE  MenuInv'
<1> DEFINE a == menu_handle_rotor(avr, id, clockwise)
<1>0. Ready(avr) /\ Sound(avr)
  BY DEF MenuInv, Body
<1>1. Result(a, asked, named) /\ UNCHANGED <<linked, met>>
  BY DEF Rotor
<1>2. CASE rotor_to_state(id) = "APPLY" /\ avr.state = "IDLE"
  <2>1. a = avr
    BY <1>2 DEF menu_handle_rotor
  <2>2. Only(avr, avr, {})
    BY OnlySelf
  <2> HIDE DEF a
  <2>3. Result(avr, asked, named)
    BY <1>1, <2>1
  <2> QED
    BY <1>0, <1>1, <2>2, <2>3, Quiet
<1>3. CASE ~(rotor_to_state(id) = "APPLY" /\ avr.state = "IDLE")
  <2>1. Base(avr, a)
    BY <1>0, <1>3, KnobBase
  <2>2. Sound(a) /\ a.state \in {"APPLY", "PARAM", "VALUE"}
    <3>1. Sound(a)
      BY <1>0, KnobsSound
    <3>2. a.state = rotor_to_state(id)
      BY <1>0, <1>3, KnobState
    <3> QED
      BY <3>1, <3>2 DEF rotor_to_state
  <2> HIDE DEF a
  <2>3. Fit(a)
    BY <2>1 DEF Fit, Base
  <2>4. a.state \in StateIds /\ a.state # "IDLE"
    BY <2>2 DEF StateIds
  <2>5. a.backup_mode \in ModeIds
    BY <2>1 DEF Base, MenuInv, Body, ModeIds, Ready, Modal
  <2>6. Same(a, avr') /\ Body(avr')
    BY <1>1, <2>2, <2>3, <2>4, <2>5, Landed
  <2>7. /\ named' = named
        /\ \A p \in asked' \ asked : p \in a.sent /\ a.is_connected = TRUE
    BY <1>1, <2>1, AskedOnly DEF Base
  <2>8. ASSUME "late" \notin met PROVE Prompt(avr', asked', named', linked')
    <3>1. Prompt(avr, asked, named, linked)
      BY <2>8 DEF MenuInv
    <3>2. a.backup_mode # "MENU"
      BY <2>1, <3>1 DEF Base, Prompt
    <3>3. asked \subseteq a.sent /\ a.valid \subseteq a.sent
      BY <2>1, <3>1 DEF Base, Prompt
    <3>4. asked' \subseteq a.sent
      BY <2>7, <3>3
    <3>5. ASSUME linked, asked' # {} \/ a.valid # {"BRIGHTNESS"}
          PROVE  a.is_connected
      <4>1. CASE asked' \ asked # {}
        BY <2>7, <4>1
      <4>2. CASE asked' \ asked = {}
        <5>1. avr.state # "IDLE" /\ (asked # {} \/ avr.valid # {"BRIGHTNESS"})
          BY <2>1, <3>1, <3>5, <4>2 DEF Base, Prompt
        <5> QED
          BY <2>1, <3>1, <3>5, <5>1 DEF Base, Prompt
      <4> QED
        BY <4>1, <4>2
    <3>6. Prompt(a, asked', named', linked')
      BY <1>1, <2>4, <3>2, <3>3, <3>4, <3>5 DEF Prompt
    <3> QED
      BY <2>6, <3>6, PromptSame
  <2>9. ASSUME "handshake" \notin met, linked PROVE Lasting(avr', suspended')
    <3>1. Lasting(avr, suspended)
      BY <2>9 DEF MenuInv
    <3>2. avr.mode # "WATCH"
      BY <1>0, <3>1 DEF Lasting, Ready, Modal
    <3>3. Lasting(a, suspended')
      BY <2>1, <2>4, <3>1, <3>2 DEF Lasting, Base
    <3> QED
      BY <2>6, <3>3, LastingSame
  <2> QED
    BY <1>1, <2>6, <2>8, <2>9 DEF MenuInv
<1> QED
  BY <1>2, <1>3

LEMMA AtMenuStep ==
  ASSUME MenuInv, AtMenu
  PROVE  MenuInv'
<1> DEFINE s == stop(avr)
           a == [s EXCEPT !.at = @ \ {"MENU"}]
<1>0. Ready(avr) /\ Sound(avr) /\ avr.backup_mode \in ModeIds
  BY DEF MenuInv, Body
<1>1. /\ Result(a, asked, named) /\ UNCHANGED linked
      /\ met' = met \cup (IF asked = {} /\ named = {} THEN {} ELSE {"late"})
  BY DEF AtMenu
<1>2. /\ Whole(s) /\ Modal(s)
      /\ s.state = "IDLE" /\ s.backup_mode = "MENU"
      /\ s.mode = avr.backup_mode
      /\ s.is_connected = (\/ avr.backup_mode = "RADIO"
                           \/ avr.is_connected /\ avr.backup_mode = "MENU")
      /\ s.sent = {"BRIGHTNESS"} /\ s.valid = {"BRIGHTNESS"}
      /\ s.tag_param = "TRACK" /\ s.brightness \in Int
      /\ Whole_number(s.old) /\ Whole_number(s.new)
      /\ Telling(s)
      /\ s.is_connected =>
           Len(s.out) \in DOMAIN s.out /\ s.out[Len(s.out)] = ResumeMsg
  BY <1>0, Stopped
<1>3. Shape(s) /\ s.drain = FALSE
  BY <1>0, Stops DEF Sound
<1> HIDE DEF s
<1>4. Whole(a) /\ Only(s, a, {"at"}) /\ a.at = s.at \ {"MENU"}
  BY <1>2 DEF Whole, Fields, Only
<1>5. /\ a.state = s.state /\ a.drain = s.drain
      /\ a.backup_mode = s.backup_mode /\ a.sent = s.sent /\ a.valid = s.valid
      /\ a.tag_param = s.tag_param /\ a.brightness = s.brightness
      /\ a.old = s.old /\ a.new = s.new /\ a.out = s.out
  BY <1>2, <1>4 DEF Whole, Fields, Only
<1> HIDE DEF a
<1>6. Modal(a) /\ a.mode = s.mode /\ a.is_connected = s.is_connected
  BY <1>2, <1>4, ModalKept DEF ModeFields
<1>7. Fit(a)
  BY <1>2, <1>4, <1>5, <1>6 DEF Fit
<1>8. Shape(a) /\ Sound(a)
  BY <1>2, <1>3, <1>4, <1>5 DEF Sound, Shape, Whole, Fields
<1>9. a.state \in StateIds /\ a.backup_mode \in ModeIds /\ a.backup_mode = "MENU"
  BY <1>2, <1>5 DEF StateIds, ModeIds
<1>10. Same(a, avr') /\ Body(avr')
  BY <1>1, <1>7, <1>8, <1>9, Landed
<1>11. Telling(a)
  BY <1>2, <1>5 DEF Telling
<1>12. asked' = asked /\ named' = named
  BY <1>1, <1>11, ToldOnly
<1>13. ASSUME "late" \notin met' PROVE Prompt(avr', asked', named', linked')
  <2>1. asked = {} /\ named = {} /\ "late" \notin met
    BY <1>1, <1>13
  <2>2. Prompt(avr, asked, named, linked)
    BY <2>1 DEF MenuInv
  <2>3. avr.state # "IDLE"
    BY <2>2 DEF Prompt, AtMenu
  <2>4. a.mode # "MENU" /\ "MENU" \notin a.at
    BY <1>2, <1>4, <1>6, <2>2, <2>3 DEF Prompt
  <2>5. Prompt(a, asked', named', linked')
    BY <1>2, <1>5, <1>12, <2>1, <2>4 DEF Prompt
  <2> QED
    BY <1>10, <2>5, PromptSame
<1>14. ASSUME "handshake" \notin met', linked' PROVE Lasting(avr', suspended')
  <2>1. Lasting(avr, suspended)
    BY <1>1, <1>14 DEF MenuInv
  <2>2. a.is_connected
    BY <1>0, <1>2, <1>6, <2>1 DEF Lasting, ModeIds
  <2>3. Len(a.out) \in DOMAIN a.out /\ a.out[Len(a.out)] = ResumeMsg
    BY <1>2, <1>5, <1>6, <2>2
  <2>4. suspended' = FALSE
    BY <1>1, <1>11, <2>3, ResumedLast
  <2>5. Lasting(a, suspended')
    BY <1>9, <2>2, <2>4 DEF Lasting
  <2> QED
    BY <1>10, <2>5, LastingSame
<1> QED
  BY <1>10, <1>13, <1>14 DEF MenuInv

\* A handler that leaves the menu open, or closed as it was, and keeps what the
\* two conditions are about, while it sends.
LEMMA AtTagStep ==
  ASSUME MenuInv, AtTag
  PROVE  MenuInv'
<1> DEFINE s == tag_request(avr)
           a == [s EXCEPT !.at = @ \ {"TAG"}]
<1>0. Ready(avr) /\ Sound(avr)
  BY DEF MenuInv, Body
<1>1. Result(a, asked, named) /\ UNCHANGED <<linked, met>>
  BY DEF AtTag
<1>2. /\ Whole(a) /\ Modal(a) /\ Only(avr, a, {"out", "at"})
      /\ a.at = avr.at \ {"TAG"}
      /\ \/ a.out = <<>>
         \/ /\ avr.state = "VALUE"
            /\ \E v : a.out = Append(<<>>, Msg("QUERY_NAME", avr.param_id, v))
  BY <1>0, Requested
<1>3. Sound(a)
  <2>1. Sound(s)
    BY <1>0, Tags, KeepsSound DEF Sound
  <2> HIDE DEF s
  <2> QED
    BY <2>1, Expirations DEF Sound
<1> HIDE DEF a
<1>4. /\ a.state = avr.state /\ a.mode = avr.mode
      /\ a.is_connected = avr.is_connected /\ a.backup_mode = avr.backup_mode
      /\ a.valid = avr.valid /\ a.sent = avr.sent /\ a.old = avr.old
      /\ a.new = avr.new /\ a.brightness = avr.brightness
      /\ a.tag_param = avr.tag_param
  BY <1>0, <1>2 DEF Ready, Only, Whole, Fields
<1>5. Fit(a)
  BY <1>0, <1>2, <1>4 DEF Fit, Ready
<1>6. a.state \in StateIds /\ a.backup_mode \in ModeIds
        /\ (a.state = "IDLE" => a.backup_mode = "MENU")
  BY <1>4 DEF MenuInv, Body
<1>7. Same(a, avr') /\ Body(avr')
  BY <1>1, <1>3, <1>5, <1>6, Landed
<1>8. asked' = asked
  <2>1. CASE a.out = <<>>
    BY <1>1, <2>1, NothingSent
  <2>2. CASE \E v : a.out = Append(<<>>, Msg("QUERY_NAME", avr.param_id, v))
    <3>1. PICK v : a.out = Append(<<>>, Msg("QUERY_NAME", avr.param_id, v))
      BY <2>2
    <3> DEFINE m == Msg("QUERY_NAME", avr.param_id, v)
    <3>2. m.id = "QUERY_NAME"
      BY DEF Msg
    <3> HIDE DEF m
    <3>3. Queue(<<>>) /\ ToSet(<<>>) = {}
      <4>1. DOMAIN <<>> = {}
        OBVIOUS
      <4>2. ToSet(<<>>) = {}
        BY <4>1 DEF ToSet
      <4>3. \A T : <<>> \in Seq(T)
        OBVIOUS
      <4> QED
        BY <4>2, <4>3 DEF Queue
    <3>4. ToSet(Append(<<>>, m)) = ToSet(<<>>) \cup {m}
      BY <3>3, Sends
    <3>5. ToSet(a.out) = {m}
      BY <3>1, <3>3, <3>4 DEF m
    <3>6. {x.param : x \in {y \in ToSet(a.out) : y.id = "QUERY_NUMBER"}} = {}
      BY <3>2, <3>5
    <3> QED
      BY <1>1, <3>6 DEF Result
  <2> QED
    BY <1>2, <2>1, <2>2
<1>9. avr.state # "VALUE" => suspended' = suspended /\ named' = named
  BY <1>1, <1>2, NothingSent
<1>10. ASSUME "late" \notin met PROVE Prompt(avr', asked', named', linked')
  <2>1. Prompt(avr, asked, named, linked)
    BY <1>10 DEF MenuInv
  <2>2. "MENU" \in a.at => "MENU" \in avr.at
    BY <1>2
  <2>3. Prompt(a, asked', named', linked')
    BY <1>1, <1>4, <1>8, <1>9, <2>1, <2>2 DEF Prompt
  <2> QED
    BY <1>7, <2>3, PromptSame
<1>11. ASSUME "handshake" \notin met, linked PROVE Lasting(avr', suspended')
  <2>1. Lasting(avr, suspended)
    BY <1>11 DEF MenuInv
  <2>2. Lasting(a, suspended')
    BY <1>4, <1>9, <2>1 DEF Lasting
  <2> QED
    BY <1>7, <2>2, LastingSame
<1> QED
  BY <1>1, <1>7, <1>10, <1>11 DEF MenuInv

LEMMA AtBootStep ==
  ASSUME MenuInv, AtBoot
  PROVE  MenuInv'
<1> DEFINE a == [avr EXCEPT !.wire = "free", !.at = @ \ {"BOOT"}]
<1>0. Ready(avr) /\ Sound(avr)
  BY DEF MenuInv, Body
<1>1. Result(a, asked, named) /\ UNCHANGED <<linked, met>>
  BY DEF AtBoot
<1>2. Whole(a) /\ Only(avr, a, {"wire", "at"}) /\ a.at = avr.at \ {"BOOT"}
  BY <1>0 DEF Ready, Only, Whole, Fields
<1> HIDE DEF a
<1>3. /\ a.state = avr.state /\ a.drain = avr.drain
      /\ a.out = avr.out /\ a.old = avr.old /\ a.new = avr.new
      /\ a.brightness = avr.brightness /\ a.tag_param = avr.tag_param
  BY <1>0, <1>2 DEF Ready, Only, Whole, Fields
<1>4. Modal(a)
  BY <1>0, <1>2, ModalKept DEF ModeFields, Ready
<1>5. Ready(a)
  BY <1>0, <1>2, <1>3, <1>4 DEF Ready
<1>6. Sound(a)
  BY <1>0, <1>2, <1>3 DEF Sound, Shape, Whole, Fields
<1>7. {"wire", "at"} \cap {"state", "mode", "is_connected", "backup_mode",
                           "valid", "sent", "out"} = {}
  OBVIOUS
<1>8. "MENU" \in a.at => "MENU" \in avr.at
  BY <1>2
<1> QED
  BY <1>1, <1>2, <1>5, <1>6, <1>7, <1>8, Quiet

LEMMA ConfirmStep ==
  ASSUME MenuInv, Confirm
  PROVE  MenuInv'
<1> DEFINE a == heartbeat_confirm(avr)
<1>0. Ready(avr) /\ Sound(avr)
  BY DEF MenuInv, Body
<1>1. Result(a, asked, named) /\ UNCHANGED <<linked, met>>
  BY DEF Confirm
<1>2. Ready(a) /\ Only(avr, a, {"misses"}) /\ Sound(a)
  BY <1>0, Confirmed, HeartbeatsSound
<1> HIDE DEF a
<1>3. {"misses"} \cap {"state", "mode", "is_connected", "backup_mode",
                       "valid", "sent", "out"} = {}
  OBVIOUS
<1>4. "MENU" \in a.at => "MENU" \in avr.at
  BY <1>0, <1>2 DEF Ready, Only, Whole, Fields
<1> QED
  BY <1>1, <1>2, <1>3, <1>4, Quiet

\* The answer p comes with a value: the menu knows one value more, and it is
\* one it has asked for.
LEMMA AnswerStep ==
  ASSUME MenuInv, NEW p \in Queried, Answer(p)
  PROVE  MenuInv'
<1>0. Ready(avr) /\ Sound(avr)
  BY DEF MenuInv, Body
<1>1. PICK v \in Answers(p) :
        Result(menu_parameter_value(heartbeat_confirm(avr), p, v[1], v[2], v[3]),
               asked \ {p}, named)
  BY DEF Answer
<1>2. PICK value \in Nat, min \in Nat, max \in Nat :
        value = v[1] /\ min = v[2] /\ max = v[3]
  BY MenuAssumption
<1> DEFINE b == heartbeat_confirm(avr)
           a == menu_parameter_value(b, p, value, min, max)
<1>3. Ready(b) /\ Only(avr, b, {"misses"}) /\ Sound(b)
  BY <1>0, Confirmed, HeartbeatsSound
<1>4. Result(a, asked \ {p}, named) /\ p \in asked /\ UNCHANGED <<linked, met>>
  BY <1>1, <1>2 DEF Answer
<1> HIDE DEF b
<1>5. /\ Ready(a) /\ Only(b, a, ValueFields)
      /\ a.valid = b.valid \cup {p}
  BY SMTT(60), <1>3, Numbered
<1>6. Sound(a)
  BY <1>3, ValuesSound
<1> HIDE DEF a
<1>7. /\ a.state = avr.state /\ a.mode = avr.mode
      /\ a.is_connected = avr.is_connected /\ a.backup_mode = avr.backup_mode
      /\ a.sent = avr.sent /\ a.valid = avr.valid \cup {p} /\ a.out = <<>>
  BY <1>0, <1>3, <1>5 DEF Ready, Only, Whole, Fields, ValueFields
<1>8. Fit(a)
  BY <1>5 DEF Fit, Ready
<1>9. a.state \in StateIds /\ a.backup_mode \in ModeIds
        /\ (a.state = "IDLE" => a.backup_mode = "MENU")
  BY <1>7 DEF MenuInv, Body
<1>10. Same(a, avr') /\ Body(avr')
  BY <1>4, <1>6, <1>8, <1>9, Landed
<1>11. suspended' = suspended /\ asked' = asked \ {p} /\ named' = named
  BY <1>4, <1>7, NothingSent
<1>12. ASSUME "late" \notin met PROVE Prompt(avr', asked', named', linked')
  <2>1. Prompt(avr, asked, named, linked)
    BY <1>12 DEF MenuInv
  <2>2. a.state # "IDLE" /\ asked # {}
    BY <1>4, <1>7, <2>1 DEF Prompt
  <2>3. asked' \subseteq a.sent /\ a.valid \subseteq a.sent
    BY <1>4, <1>7, <1>11, <2>1 DEF Prompt
  <2>4. linked => a.is_connected
    BY <1>7, <2>1, <2>2 DEF Prompt
  <2>5. Prompt(a, asked', named', linked')
    BY <1>4, <1>7, <2>1, <2>2, <2>3, <2>4 DEF Prompt
  <2> QED
    BY <1>10, <2>5, PromptSame
<1>13. ASSUME "handshake" \notin met, linked PROVE Lasting(avr', suspended')
  <2>1. Lasting(avr, suspended)
    BY <1>13 DEF MenuInv
  <2>2. Lasting(a, suspended')
    BY <1>7, <1>11, <2>1 DEF Lasting
  <2> QED
    BY <1>10, <2>2, LastingSame
<1> QED
  BY <1>4, <1>10, <1>12, <1>13 DEF MenuInv

\* The answer q comes with a name: an open menu shows it.
LEMMA AnswerNameStep ==
  ASSUME MenuInv, NEW q \in named, AnswerName(q)
  PROVE  MenuInv'
<1> DEFINE b == heartbeat_confirm(avr)
           a == menu_parameter_name(b, q[1], q[2])
<1>0. Ready(avr) /\ Sound(avr)
  BY DEF MenuInv, Body
<1>1. Result(a, asked, named \ {q}) /\ UNCHANGED <<linked, met>>
  BY DEF AnswerName
<1>2. Ready(b) /\ Only(avr, b, {"misses"}) /\ Sound(b)
  BY <1>0, Confirmed, HeartbeatsSound
<1> HIDE DEF b
<1>3. \/ a = b
      \/ /\ Whole(a) /\ Modal(a) /\ Telling(a) /\ Only(b, a, NameFields)
         /\ a.state = "TAG"
         /\ b.is_connected => a.is_connected
  BY <1>2, Named
<1>4. Sound(a)
  BY <1>2, NamesSound
<1> HIDE DEF a
<1>5. CASE a = b
  <2>1. {"misses"} \cap {"state", "mode", "is_connected", "backup_mode",
                         "valid", "sent", "out"} = {}
    OBVIOUS
  <2>2. "MENU" \in b.at => "MENU" \in avr.at
    BY <1>0, <1>2 DEF Ready, Only, Whole, Fields
  <2>3. Result(b, asked, named \ {q})
    BY <1>1, <1>5
  <2>4. asked \subseteq asked /\ named \ {q} \subseteq named
    OBVIOUS
  <2> QED
    BY <1>1, <1>2, <2>1, <2>2, <2>3, <2>4, Quiet
<1>6. CASE a # b
  <2>1. /\ Whole(a) /\ Modal(a) /\ Telling(a) /\ Only(b, a, NameFields)
        /\ a.state = "TAG"
    BY <1>3, <1>6
  <2>2. b.is_connected => a.is_connected
    BY <1>3, <1>6
  <2>3. /\ a.backup_mode = b.backup_mode /\ a.valid = b.valid /\ a.sent = b.sent
        /\ a.old = b.old /\ a.new = b.new /\ a.brightness = b.brightness
        /\ a.tag_param = b.tag_param
    BY <1>2, <2>1 DEF Ready, Only, Whole, Fields, NameFields, StateFields,
                      ModeFields, RangeFields
  <2>4. /\ b.backup_mode = avr.backup_mode /\ b.valid = avr.valid
        /\ b.sent = avr.sent /\ b.is_connected = avr.is_connected
    BY <1>0, <1>2 DEF Ready, Only, Whole, Fields
  <2>5. Fit(a)
    BY <1>2, <2>1, <2>3 DEF Fit, Ready
  <2>6. a.state \in StateIds /\ a.state # "IDLE" /\ a.backup_mode \in ModeIds
    BY <2>1, <2>3, <2>4 DEF MenuInv, Body, StateIds
  <2>7. Same(a, avr') /\ Body(avr')
    BY <1>1, <1>4, <2>5, <2>6, Landed
  <2>8. asked' = asked /\ named' = named \ {q}
    BY <1>1, <2>1, ToldOnly
  <2>9. ASSUME "late" \notin met PROVE Prompt(avr', asked', named', linked')
    <3>1. Prompt(avr, asked, named, linked)
      BY <2>9 DEF MenuInv
    <3>2. avr.state # "IDLE"
      BY <3>1 DEF Prompt
    <3>3. Prompt(a, asked', named', linked')
      BY <1>1, <2>2, <2>3, <2>4, <2>6, <2>8, <3>1, <3>2 DEF Prompt
    <3> QED
      BY <2>7, <3>3, PromptSame
  <2>10. ASSUME "handshake" \notin met, linked PROVE Lasting(avr', suspended')
    <3>1. Lasting(avr, suspended)
      BY <2>10 DEF MenuInv
    <3>2. Lasting(a, suspended')
      BY <2>2, <2>3, <2>4, <2>6, <3>1 DEF Lasting
    <3> QED
      BY <2>7, <3>2, LastingSame
  <2> QED
    BY <1>1, <2>7, <2>9, <2>10 DEF MenuInv
<1> QED
  BY <1>5, <1>6

LEMMA NoAnswerStep ==
  ASSUME MenuInv, NoAnswer
  PROVE  MenuInv'
<1>1. /\ UNCHANGED <<avr, suspended, linked, met>>
      /\ asked' \subseteq asked /\ named' \subseteq named
  BY DEF NoAnswer
<1>2. ASSUME "late" \notin met PROVE Prompt(avr, asked', named', linked)
  <2>1. Prompt(avr, asked, named, linked)
    BY <1>2 DEF MenuInv
  <2> QED
    BY <1>1, <2>1 DEF Prompt
<1> QED
  BY <1>1, <1>2 DEF MenuInv

\* A new daemon: in the closed menu it finds the Pi connected, and the open one
\* counts as a hardship.
LEMMA HandshakeStep ==
  ASSUME MenuInv, Handshake
  PROVE  MenuInv'
<1> DEFINE a == mode_set(heartbeat_confirm(avr), "RADIO")
<1>0. Ready(avr) /\ Sound(avr)
  BY DEF MenuInv, Body
<1>1. /\ avr' = a /\ asked' = {} /\ named' = {} /\ suspended' = FALSE
      /\ linked' = TRUE
      /\ met' = met \cup (IF avr.state = "IDLE" THEN {} ELSE {"handshake"})
  BY DEF Handshake
<1>2. Ready(a) /\ Only(avr, a, ModeFields) /\ a.mode = "RADIO" /\ a.is_connected = TRUE
  BY <1>0, Shaken
<1>3. Sound(a)
  <2>1. Sound(heartbeat_confirm(avr))
    BY <1>0, HeartbeatsSound
  <2>2. Keeps(heartbeat_confirm(avr), a)
    BY <2>1, Modes DEF Sound
  <2> QED
    BY <2>1, <2>2, KeepsSound
<1> HIDE DEF a
<1>4. /\ a.state = avr.state /\ a.backup_mode = avr.backup_mode
      /\ a.valid = avr.valid /\ a.sent = avr.sent /\ a.at = avr.at
  BY <1>0, <1>2 DEF Ready, Only, Whole, Fields, ModeFields
<1>5. Body(a)
  BY <1>2, <1>3, <1>4 DEF MenuInv, Body
<1>6. ASSUME "late" \notin met' PROVE Prompt(a, {}, {}, TRUE)
  <2>1. Prompt(avr, asked, named, linked)
    BY <1>1, <1>6 DEF MenuInv
  <2> QED
    BY <1>2, <1>4, <2>1 DEF Prompt
<1>7. ASSUME "handshake" \notin met' PROVE Lasting(a, FALSE)
  <2>1. avr.state = "IDLE"
    BY <1>1, <1>7
  <2>2. a.backup_mode = "MENU"
    BY <1>4, <2>1 DEF MenuInv, Body
  <2> QED
    BY <1>2, <2>2 DEF Lasting
<1> QED
  BY <1>1, <1>5, <1>6, <1>7 DEF MenuInv

\* Silence: the connection ends, and the Pi is no more linked.
LEMMA VerifyStep ==
  ASSUME MenuInv, HeartbeatVerify
  PROVE  MenuInv'
<1> DEFINE a == verify(avr)
<1>0. Ready(avr) /\ Sound(avr)
  BY DEF MenuInv, Body
<1>1. /\ Result(a, asked, named) /\ "HEARTBEAT" \in avr.cron
      /\ linked' = (linked /\ ~Silent(avr)) /\ met' = met
  BY DEF HeartbeatVerify
<1>2. /\ Ready(a) /\ Only(avr, a, ModeFields) /\ avr.mode = "RADIO"
      /\ a.mode = IF Silent(avr) THEN "WATCH" ELSE "RADIO"
      /\ a.is_connected = ~Silent(avr)
  BY <1>0, <1>1, Verified
<1>3. Sound(a)
  BY <1>0, HeartbeatsSound
<1> HIDE DEF a
<1>4. /\ a.state = avr.state /\ a.backup_mode = avr.backup_mode
      /\ a.valid = avr.valid /\ a.sent = avr.sent /\ a.at = avr.at
      /\ a.out = <<>>
  BY <1>0, <1>2 DEF Ready, Only, Whole, Fields, ModeFields
<1>5. Fit(a)
  BY <1>2 DEF Fit, Ready
<1>6. a.state \in StateIds /\ a.backup_mode \in ModeIds
        /\ (a.state = "IDLE" => a.backup_mode = "MENU")
  BY <1>4 DEF MenuInv, Body
<1>7. Same(a, avr') /\ Body(avr')
  BY <1>1, <1>3, <1>5, <1>6, Landed
<1>8. suspended' = suspended /\ asked' = asked /\ named' = named
  BY <1>1, <1>4, NothingSent
<1>9. ASSUME "late" \notin met PROVE Prompt(avr', asked', named', linked')
  <2>1. Prompt(avr, asked, named, linked)
    BY <1>9 DEF MenuInv
  <2>2. linked' => a.is_connected
    BY <1>1, <1>2
  <2>3. a.mode # "MENU"
    BY <1>2
  <2>4. Prompt(a, asked', named', linked')
    BY <1>4, <1>8, <2>1, <2>2, <2>3 DEF Prompt
  <2> QED
    BY <1>7, <2>4, PromptSame
<1>10. ASSUME "handshake" \notin met, linked' PROVE Lasting(avr', suspended')
  <2>1. linked /\ ~Silent(avr)
    BY <1>1, <1>10
  <2>2. Lasting(avr, suspended)
    BY <1>10, <2>1 DEF MenuInv
  <2>3. a.is_connected
    BY <1>2, <2>1
  <2>4. Lasting(a, suspended')
    BY <1>4, <1>8, <2>2, <2>3 DEF Lasting
  <2> QED
    BY <1>7, <2>4, LastingSame
<1> QED
  BY <1>1, <1>7, <1>9, <1>10 DEF MenuInv

LEMMA MenuInit == Init => MenuInv
<1> SUFFICES ASSUME Init PROVE MenuInv
  OBVIOUS
<1>1. /\ avr = Booted /\ asked = {} /\ named = {} /\ suspended = FALSE
      /\ linked = FALSE
  BY DEF Init
<1>2. Sound(avr)
  BY InitSound DEF IInv
<1>3. Whole(avr)
  BY <1>1 DEF Whole, Fields, Booted
<1>4. Whole_number(avr.old) /\ Whole_number(avr.new)
  BY <1>1 DEF Booted, Zero, Whole_number
<1>5. /\ avr.mode = "WATCH" /\ avr.is_connected = FALSE /\ avr.cron = {}
      /\ avr.state = "IDLE" /\ avr.backup_mode = "MENU" /\ avr.at = {}
  BY <1>1 DEF Booted
<1>6. /\ avr.sent = {"BRIGHTNESS"} /\ avr.valid = {"BRIGHTNESS"}
      /\ avr.out = <<>> /\ avr.brightness = 0 /\ avr.tag_param = "TRACK"
  BY <1>1 DEF Booted
<1>7. Ready(avr)
  <2>1. Modal(avr)
    BY <1>5 DEF Modal
  <2>2. avr.brightness \in Int /\ avr.tag_param \in {"PLAYLIST", "TRACK"}
    BY <1>6
  <2> QED
    BY <1>3, <1>4, <1>6, <2>1, <2>2, Zenon DEF Ready
<1>8. Body(avr)
  BY <1>2, <1>5, <1>7 DEF Body, StateIds, ModeIds
<1>9. Prompt(avr, asked, named, linked)
  BY <1>1, <1>5, <1>6 DEF Prompt
<1> QED
  BY <1>1, <1>8, <1>9 DEF MenuInv

LEMMA MenuNext == MenuInv /\ [Next]_vars => MenuInv'
<1> SUFFICES ASSUME MenuInv, [Next]_vars PROVE MenuInv'
  OBVIOUS
<1>1. CASE \E id \in Knobs, clockwise \in BOOLEAN : Rotor(id, clockwise)
  BY <1>1, RotorStep
<1>2. CASE AtMenu
  BY <1>2, AtMenuStep
<1>3. CASE AtTag
  BY <1>3, AtTagStep
<1>4. CASE AtBoot
  BY <1>4, AtBootStep
<1>5. CASE \E p \in Queried : Answer(p)
  BY <1>5, AnswerStep
<1>6. CASE \E q \in named : AnswerName(q)
  BY <1>6, AnswerNameStep
<1>7. CASE NoAnswer
  BY <1>7, NoAnswerStep
<1>8. CASE Confirm
  BY <1>8, ConfirmStep
<1>9. CASE Handshake
  BY <1>9, HandshakeStep
<1>10. CASE HeartbeatVerify
  BY <1>10, VerifyStep
<1>11. CASE UNCHANGED vars
  <2>1. UNCHANGED <<avr, asked, named, suspended, linked, met>>
    BY <1>11 DEF vars
  <2> QED
    BY <2>1 DEF MenuInv
<1> QED
  BY <1>1, <1>2, <1>3, <1>4, <1>5, <1>6, <1>7, <1>8, <1>9, <1>10, <1>11 DEF Next

LEMMA MenuInvariant == Spec => []MenuInv
  BY MenuInit, MenuNext, PTL DEF Spec

\* stop() and mode_set: a closed menu has left its mode, for all parameters,
\* knobs and answers, as long as none of these comes late.
THEOREM ClosedMenuLeft == Spec => []IdleLeavesMenu
<1>1. MenuInv => IdleLeavesMenu
  BY DEF MenuInv, Prompt, IdleLeavesMenu
<1> QED
  BY <1>1, MenuInvariant, PTL

\* mode_set with heartbeat_start: while the menu is closed, a Pi that counts as
\* connected is watched by the heartbeat and shown by the display.
THEOREM ConnectionIsWatched == Spec => []WatchedWhileConnected
<1>1. MenuInv => WatchedWhileConnected
  <2> SUFFICES ASSUME MenuInv, "late" \notin met, avr.is_connected,
                      avr.state = "IDLE"
               PROVE  avr.cron = {"FLUSH", "HEARTBEAT"}
    BY DEF WatchedWhileConnected
  <2>1. Modal(avr) /\ avr.mode # "MENU"
    BY DEF MenuInv, Body, Ready, Prompt
  <2> QED
    BY <2>1 DEF Modal
<1> QED
  BY <1>1, MenuInvariant, PTL

\* menu.c's messages to the Pi: every SUSPEND is followed by its RESUME when the
\* menu closes.
THEOREM PiIsResumed == Spec => []NotLeftSuspended
<1>1. MenuInv => NotLeftSuspended
  BY DEF MenuInv, Lasting, NotLeftSuspended
<1> QED
  BY <1>1, MenuInvariant, PTL

\* is_connected in mode.c: from HANDSHAKE on, only silence ends a connection.
THEOREM OnlySilenceDisconnects == Spec => []ConnectionKept
<1>1. MenuInv => ConnectionKept
  BY DEF MenuInv, Lasting, ConnectionKept
<1> QED
  BY <1>1, MenuInvariant, PTL

\* stop() with get_sign_abs: a value that was changed with a knob and is on the
\* display when the menu closes is sent to the Pi, however it was asked for and
\* whatever was shown in between.
THEOREM ChangeIsSent == Spec => []KnobTakesEffect
<1>1. MenuInv => KnobTakesEffect
  <2> SUFFICES ASSUME MenuInv, "late" \notin met, NEW p \in Queried, linked,
                      avr.state \in {"VALUE", "TAG"}, avr.param_id = p,
                      p \in avr.valid, avr.new[p] # avr.old[p]
               PROVE  Msg("PARAM_SET", p, avr.new[p] - avr.old[p])
                        \in ToSet(stop(avr).out)
    BY DEF KnobTakesEffect
  <2>1. Ready(avr) /\ avr.backup_mode \in ModeIds
    BY DEF MenuInv, Body
  <2>2. Prompt(avr, asked, named, linked)
    BY DEF MenuInv
  <2>3. avr.valid # {"BRIGHTNESS"}
    BY DEF Queried
  <2>4. avr.is_connected = TRUE
    BY <2>1, <2>2, <2>3 DEF Prompt, Ready, Modal
  <2>5. Changed(avr)
    BY <2>1, <2>2, <2>4 DEF Changed, Prompt, Ready
  <2>6. Effect(avr) \in ToSet(stop(avr).out)
    BY <2>1, <2>5, Stopped
  <2> QED
    BY <2>6 DEF Effect
<1> QED
  BY <1>1, MenuInvariant, PTL

-----------------------------------------------------------------------------
(* The list of the menu and the parameter that is selected.                *)

LEMMA Triple ==
  ASSUME NEW S, NEW x \in S, NEW y \in S, NEW z \in S
  PROVE  LET q == <<x, y, z>>
         IN  q \in Seq(S) /\ Len(q) = 3 /\ q[1] = x /\ q[2] = y /\ q[3] = z
OBVIOUS

LEMMA Quadruple ==
  ASSUME NEW S, NEW x \in S, NEW y \in S, NEW z \in S, NEW w \in S
  PROVE  LET q == <<x, y, z, w>>
         IN  /\ q \in Seq(S) /\ Len(q) = 4
             /\ q[1] = x /\ q[2] = y /\ q[3] = z /\ q[4] = w
OBVIOUS

\* Where the names stand in the enumeration.
LEMMA ParamsOrder ==
  LET n == Len(Listed)
  IN  /\ n \in Nat /\ n > 0 /\ Len(Params) = n + 7
      /\ Params[1] = "TRACK" /\ Params[2] = "VOLUME" /\ Params[3] = "PLAYLIST"
      /\ Params[4] = "POWER_OFF" /\ Params[n + 3] = "REBOOT"
      /\ Params[n + 4] = "BRIGHTNESS" /\ Params[n + 5] = "POWER_ON"
      /\ Params[n + 6] = "CANCEL" /\ Params[n + 7] = "APPLY"
<1> DEFINE n == Len(Listed)
           q == <<"TRACK", "VOLUME", "PLAYLIST">>
           r == <<"BRIGHTNESS", "POWER_ON", "CANCEL", "APPLY">>
           S == STRING \cup {"TRACK", "VOLUME", "PLAYLIST",
                             "BRIGHTNESS", "POWER_ON", "CANCEL", "APPLY"}
<1> HIDE DEF S
<1>1. Listed \in Seq(S) /\ n \in Nat /\ n > 0
  <2>1. STRING \subseteq S
    BY DEF S
  <2>2. Listed \in Seq(STRING) /\ n > 0
    BY MenuAssumption
  <2>3. ASSUME NEW T, NEW U, T \subseteq U, NEW f \in Seq(T)
        PROVE  f \in Seq(U) /\ Len(f) \in Nat
    BY <2>3
  <2> QED
    BY <2>1, <2>2, <2>3, Zenon
<1>2. /\ q \in Seq(S) /\ Len(q) = 3
      /\ q[1] = "TRACK" /\ q[2] = "VOLUME" /\ q[3] = "PLAYLIST"
  <2>1. "TRACK" \in S /\ "VOLUME" \in S /\ "PLAYLIST" \in S
    BY DEF S
  <2> QED
    BY <2>1, Triple, Zenon
<1>3. /\ r \in Seq(S) /\ Len(r) = 4
      /\ r[1] = "BRIGHTNESS" /\ r[2] = "POWER_ON" /\ r[3] = "CANCEL" /\ r[4] = "APPLY"
  <2>1. /\ "BRIGHTNESS" \in S /\ "POWER_ON" \in S
        /\ "CANCEL" \in S /\ "APPLY" \in S
    BY DEF S
  <2> QED
    BY <2>1, Quadruple, Zenon
<1>4. Params = (q \o Listed) \o r
  BY DEF Params
<1>5. Listed[1] = "POWER_OFF" /\ Listed[n] = "REBOOT"
  BY MenuAssumption
<1> DEFINE p == q \o Listed
<1> HIDE DEF q, r, n
<1>6. /\ p \in Seq(S) /\ Len(p) = n + 3
      /\ \A i \in 1 .. n + 3 : p[i] = IF i <= 3 THEN q[i] ELSE Listed[i - 3]
  <2>1. /\ p \in Seq(S) /\ Len(p) = Len(q) + Len(Listed)
        /\ \A i \in 1 .. Len(q) + Len(Listed) :
             p[i] = IF i <= Len(q) THEN q[i] ELSE Listed[i - Len(q)]
    BY <1>1, <1>2, ConcatProperties, Zenon
  <2> HIDE DEF p
  <2>2. Len(q) = 3 /\ Len(Listed) = n /\ 3 + n = n + 3
    BY <1>1, <1>2 DEF n
  <2> QED
    BY <2>1, <2>2
<1> HIDE DEF p
<1>7. /\ Len(p \o r) = n + 7
      /\ \A i \in 1 .. n + 7 : (p \o r)[i] = IF i <= n + 3 THEN p[i] ELSE r[i - (n + 3)]
  <2>1. /\ Len(p \o r) = Len(p) + Len(r)
        /\ \A i \in 1 .. Len(p) + Len(r) :
             (p \o r)[i] = IF i <= Len(p) THEN p[i] ELSE r[i - Len(p)]
    BY <1>3, <1>6, ConcatProperties, Zenon
  <2> DEFINE w == p \o r
  <2> HIDE DEF w
  <2>2. Len(p) = n + 3 /\ Len(r) = 4 /\ (n + 3) + 4 = n + 7
    BY <1>1, <1>3, <1>6
  <2>3. /\ Len(w) = Len(p) + Len(r)
        /\ \A i \in 1 .. Len(p) + Len(r) :
             w[i] = IF i <= Len(p) THEN p[i] ELSE r[i - Len(p)]
    BY <2>1 DEF w
  <2>4. /\ Len(w) = n + 7
        /\ \A i \in 1 .. n + 7 : w[i] = IF i <= n + 3 THEN p[i] ELSE r[i - (n + 3)]
    BY <2>2, <2>3
  <2> QED
    BY <2>4 DEF w
<1>8. Len(Params) = n + 7
      /\ \A i \in 1 .. n + 7 : Params[i] = IF i <= n + 3 THEN p[i] ELSE r[i - (n + 3)]
  BY <1>4, <1>7 DEF p
<1>9. ASSUME NEW i \in 1 .. 3 PROVE Params[i] = q[i]
  BY <1>1, <1>6, <1>8
<1>10. ASSUME NEW i \in 1 .. n PROVE Params[i + 3] = Listed[i]
  <2>1. Params[i + 3] = p[i + 3]
    BY <1>1, <1>8
  <2>2. p[i + 3] = Listed[(i + 3) - 3] /\ (i + 3) - 3 = i
    BY <1>1, <1>6
  <2> QED
    BY <2>1, <2>2
<1>11. ASSUME NEW i \in 1 .. 4 PROVE Params[n + (3 + i)] = r[i]
  <2>1. Params[n + (3 + i)] = r[(n + (3 + i)) - (n + 3)]
    BY <1>1, <1>8
  <2>2. (n + (3 + i)) - (n + 3) = i
    BY <1>1
  <2> QED
    BY <2>1, <2>2
<1>12. Params[4] = "POWER_OFF" /\ Params[n + 3] = "REBOOT"
  <2>1. Params[1 + 3] = Listed[1]
    BY <1>1, <1>10
  <2>2. Params[n + 3] = Listed[n]
    BY <1>1, <1>10
  <2> QED
    BY <1>5, <2>1, <2>2
<1>13. Params[1] = "TRACK" /\ Params[2] = "VOLUME" /\ Params[3] = "PLAYLIST"
  BY <1>2, <1>9
<1>14. /\ Params[n + 4] = "BRIGHTNESS" /\ Params[n + 5] = "POWER_ON"
       /\ Params[n + 6] = "CANCEL" /\ Params[n + 7] = "APPLY"
  <2>1. /\ Params[n + (3 + 1)] = "BRIGHTNESS" /\ Params[n + (3 + 2)] = "POWER_ON"
        /\ Params[n + (3 + 3)] = "CANCEL" /\ Params[n + (3 + 4)] = "APPLY"
    BY <1>3, <1>11
  <2> QED
    BY <1>1, <2>1
<1> QED
  BY <1>1, <1>8, <1>12, <1>13, <1>14 DEF n

\* Each has one place.
LEMMA Ranked ==
  ASSUME NEW i \in 1 .. Len(Params)
  PROVE  Rank(Params[i]) = i
<1>1. \A j \in 1 .. Len(Params) : Params[j] = Params[i] => j = i
  BY MenuAssumption
<1> QED
  BY <1>1 DEF Rank

Pair(s) == <<s.param_id_min, s.param_id_max>>
Pairs   == {<<"POWER_OFF", "REBOOT">>, <<"POWER_ON", "POWER_ON">>}

\* One step in the list of `a', from the parameter p.
Stepped(p, a) ==
  \/ a.param_id = p
  \/ Rank(p) < Rank(a.param_id_max) /\ a.param_id = Params[Rank(p) + 1]
  \/ Rank(p) > Rank(a.param_id_min) /\ a.param_id = Params[Rank(p) - 1]

Selectable(p) == \E i \in 1 .. Len(Params) - 2 : p = Params[i]
InList(p, a)  == /\ \E i \in 1 .. Len(Params) : p = Params[i]
                 /\ Rank(p) \in Rank(a.param_id_min) .. Rank(a.param_id_max)

LEMMA PairRanks ==
  ASSUME NEW a, Pair(a) \in Pairs
  PROVE  LET low  == Rank(a.param_id_min)
             high == Rank(a.param_id_max)
         IN  /\ low \in 4 .. Len(Params) - 2 /\ high \in low .. Len(Params) - 2
             /\ a.param_id_min = Params[low]
<1> DEFINE n == Len(Listed)
<1>0. n \in Nat /\ n > 0 /\ Len(Params) = n + 7
  BY ParamsOrder
<1>1. /\ Rank("POWER_OFF") = 4 /\ Rank("REBOOT") = n + 3 /\ Rank("POWER_ON") = n + 5
      /\ Params[4] = "POWER_OFF" /\ Params[n + 5] = "POWER_ON"
  <2>1. /\ Params[4] = "POWER_OFF" /\ Params[n + 3] = "REBOOT"
        /\ Params[n + 5] = "POWER_ON"
    BY ParamsOrder
  <2>2. /\ 4 \in 1 .. Len(Params) /\ n + 3 \in 1 .. Len(Params)
        /\ n + 5 \in 1 .. Len(Params)
    BY <1>0
  <2>3. /\ Rank(Params[4]) = 4 /\ Rank(Params[n + 3]) = n + 3
        /\ Rank(Params[n + 5]) = n + 5
    BY <2>2, Ranked
  <2> QED
    BY <2>1, <2>3
<1>2. \/ a.param_id_min = "POWER_OFF" /\ a.param_id_max = "REBOOT"
      \/ a.param_id_min = "POWER_ON" /\ a.param_id_max = "POWER_ON"
  BY DEF Pair, Pairs
<1> HIDE DEF n
<1> QED
  BY <1>0, <1>1, <1>2

LEMMA StaysSelectable ==
  ASSUME NEW a, Pair(a) \in Pairs, NEW p, Selectable(p), Stepped(p, a)
  PROVE  Selectable(a.param_id)
<1> DEFINE n == Len(Params)
<1>0. n \in Nat /\ n > 7
  BY ParamsOrder
<1>1. PICK i \in 1 .. n - 2 : p = Params[i]
  BY DEF Selectable
<1>2. Rank(p) = i
  BY <1>0, <1>1, Ranked
<1>3. /\ Rank(a.param_id_min) \in 4 .. n - 2
      /\ Rank(a.param_id_max) \in Rank(a.param_id_min) .. n - 2
  BY PairRanks
<1> HIDE DEF n
<1>4. CASE a.param_id = p
  BY <1>4
<1>5. CASE Rank(p) < Rank(a.param_id_max) /\ a.param_id = Params[Rank(p) + 1]
  <2>1. i + 1 \in 1 .. n - 2 /\ a.param_id = Params[i + 1]
    BY <1>0, <1>2, <1>3, <1>5
  <2> QED
    BY <2>1 DEF Selectable, n
<1>6. CASE Rank(p) > Rank(a.param_id_min) /\ a.param_id = Params[Rank(p) - 1]
  <2>1. i - 1 \in 1 .. n - 2 /\ a.param_id = Params[i - 1]
    BY <1>0, <1>2, <1>3, <1>6
  <2> QED
    BY <2>1 DEF Selectable, n
<1> QED
  BY <1>4, <1>5, <1>6 DEF Stepped

LEMMA StaysInList ==
  ASSUME NEW a, Pair(a) \in Pairs, NEW p, InList(p, a), Stepped(p, a)
  PROVE  InList(a.param_id, a)
<1> DEFINE n == Len(Params)
           low == Rank(a.param_id_min)
           high == Rank(a.param_id_max)
<1>0. n \in Nat /\ n > 7
  BY ParamsOrder
<1>1. PICK i \in 1 .. n : p = Params[i]
  BY DEF InList
<1>2. Rank(p) = i /\ i \in low .. high
  BY <1>1, Ranked DEF InList
<1>3. low \in 4 .. n - 2 /\ high \in low .. n - 2
  BY PairRanks
<1>4. ASSUME NEW j \in low .. high, a.param_id = Params[j]
      PROVE  InList(a.param_id, a)
  <2>1. j \in 1 .. n
    BY <1>0, <1>3
  <2>2. Rank(a.param_id) = j
    BY <1>4, <2>1, Ranked
  <2> QED
    BY <1>4, <2>1, <2>2 DEF InList
<1>5. CASE a.param_id = p
  BY <1>5
<1>6. CASE Rank(p) < high /\ a.param_id = Params[Rank(p) + 1]
  <2>1. i + 1 \in low .. high /\ a.param_id = Params[i + 1]
    BY <1>0, <1>2, <1>3, <1>6
  <2> QED
    BY <1>4, <2>1
<1>7. CASE Rank(p) > low /\ a.param_id = Params[Rank(p) - 1]
  <2>1. i - 1 \in low .. high /\ a.param_id = Params[i - 1]
    BY <1>0, <1>2, <1>3, <1>7
  <2> QED
    BY <1>4, <2>1
<1> QED
  BY <1>5, <1>6, <1>7 DEF Stepped

\* What a knob selects, in the state `to' it belongs to.
Choosing(s, a, to) ==
  /\ Whole(a)
  /\ to = "PARAM" /\ s.state \in {"IDLE", "APPLY"}
       => Pair(a) \in Pairs /\ Stepped(a.param_id_min, a)
  /\ to = "PARAM" /\ s.state \notin {"IDLE", "APPLY"}
       => Pair(a) = Pair(s) /\ Stepped(s.param_id, a)
  /\ to = "VALUE" => a.param_id \in Values
  /\ to = "VALUE" /\ s.state \in {"IDLE", "APPLY"} => Pair(a) \in Pairs
  /\ to = "VALUE" /\ s.state \notin {"IDLE", "APPLY"} => Pair(a) = Pair(s)
  /\ to = "APPLY" => a.param_id \in {"APPLY", "CANCEL"} /\ a.shown = s.shown
  /\ to = "APPLY" /\ s.state \in {"PARAM", "VALUE"}
       => a.secondary_param = s.param_id
  /\ to = "APPLY" /\ s.state = "APPLY"
       => a.secondary_param = s.secondary_param

ChoiceFields == RangeFields \cup {"secondary_param", "shown", "state"}

LEMMA ChoosingKept ==
  ASSUME NEW s, NEW a, NEW to, Choosing(s, a, to), NEW b, NEW X, Only(a, b, X),
         X \cap ChoiceFields = {}
  PROVE  Choosing(s, b, to)
<1>1. Whole(a)
  BY DEF Choosing
<1>2. Whole(b)
  BY <1>1, OnlyWhole
<1>3. /\ b.param_id = a.param_id /\ b.param_id_min = a.param_id_min
      /\ b.param_id_max = a.param_id_max /\ b.shown = a.shown
      /\ b.secondary_param = a.secondary_param
  BY <1>1 DEF Only, Whole, Fields, ChoiceFields, RangeFields
<1>4. Pair(b) = Pair(a)
  BY <1>3 DEF Pair
<1>5. \A p : Stepped(p, a) => Stepped(p, b)
  BY <1>3 DEF Stepped
<1>6. /\ to = "PARAM" /\ s.state \in {"IDLE", "APPLY"}
           => Pair(b) \in Pairs /\ Stepped(b.param_id_min, b)
      /\ to = "PARAM" /\ s.state \notin {"IDLE", "APPLY"}
           => Pair(b) = Pair(s) /\ Stepped(s.param_id, b)
  BY <1>3, <1>4, <1>5 DEF Choosing
<1>7. /\ to = "VALUE" => b.param_id \in Values
      /\ to = "VALUE" /\ s.state \in {"IDLE", "APPLY"} => Pair(b) \in Pairs
      /\ to = "VALUE" /\ s.state \notin {"IDLE", "APPLY"} => Pair(b) = Pair(s)
  BY <1>3, <1>4 DEF Choosing
<1>8. /\ to = "APPLY" => b.param_id \in {"APPLY", "CANCEL"} /\ b.shown = s.shown
      /\ to = "APPLY" /\ s.state \in {"PARAM", "VALUE"}
           => b.secondary_param = s.param_id
      /\ to = "APPLY" /\ s.state = "APPLY"
           => b.secondary_param = s.secondary_param
  BY <1>3 DEF Choosing
<1> QED
  BY <1>2, <1>6, <1>7, <1>8 DEF Choosing

\* The knobs of the state VALUE.
LEMMA ValueKnob ==
  ASSUME NEW id \in Rotors, rotor_to_state(id) = "VALUE", NEW s
  PROVE  rotor_to_param(s, id) \in Values
BY DEF Rotors, rotor_to_state, rotor_to_param, Values, Queried

LEMMA SameKnobChooses ==
  ASSUME NEW s, Ready(s), NEW id \in Rotors, NEW clockwise,
         s.state = rotor_to_state(id)
  PROVE  Choosing(s, SameKnob(s, id, clockwise), s.state)
<1> DEFINE p == rotor_to_param(s, id)
           c == [s EXCEPT !.param_id = p]
           d == IF s.param_id # p THEN query_source(c) ELSE s
           v == select_value(d, clockwise)
           t == schedule_tag(v)
           l == select_param(s, clockwise)
           y == select_apply(s, clockwise)
<1>0. Whole(s)
  BY DEF Ready
<1>1. SameKnob(s, id, clockwise) = IF s.state = "APPLY" THEN y
                                   ELSE IF s.state = "PARAM" THEN l ELSE t
  BY DEF SameKnob
<1>2. s.state \in {"APPLY", "PARAM", "VALUE"}
  BY DEF rotor_to_state
<1>3. CASE s.state = "APPLY"
  <2>1. /\ Whole(y) /\ Only(s, y, {"param_id"})
        /\ y.param_id \in {"APPLY", "CANCEL"}
    BY <1>0, Selected
  <2> HIDE DEF y
  <2>2. y.shown = s.shown /\ y.secondary_param = s.secondary_param
    BY <1>0, <2>1 DEF Only, Whole, Fields
  <2>3. Choosing(s, y, "APPLY")
    BY <1>3, <2>1, <2>2 DEF Choosing
  <2> QED
    BY <1>1, <1>3, <2>3
<1>4. CASE s.state = "PARAM"
  <2> DEFINE i == Rank(s.param_id)
  <2>1. /\ Whole(l) /\ Only(s, l, {"param_id"})
        /\ \/ l.param_id = s.param_id
           \/ i < Rank(s.param_id_max) /\ l.param_id = Params[i + 1]
           \/ i > Rank(s.param_id_min) /\ l.param_id = Params[i - 1]
    BY <1>0, Selected
  <2> HIDE DEF l
  <2>2. l.param_id_min = s.param_id_min /\ l.param_id_max = s.param_id_max
    BY <1>0, <2>1 DEF Only, Whole, Fields
  <2>3. Pair(l) = Pair(s) /\ Stepped(s.param_id, l)
    BY <2>1, <2>2 DEF Pair, Stepped
  <2>4. Choosing(s, l, "PARAM")
    BY <1>4, <2>1, <2>3 DEF Choosing
  <2> QED
    BY <1>1, <1>4, <2>4
<1>5. CASE s.state = "VALUE"
  <2>1. p \in Values
    BY <1>5, ValueKnob
  <2> HIDE DEF p
  <2>2. Whole(c) /\ Only(s, c, {"param_id"}) /\ c.param_id = p
    BY <1>0 DEF Whole, Fields, Only
  <2> HIDE DEF c
  <2>3. Whole(query_source(c)) /\ Only(c, query_source(c), {"out", "sent"})
    BY <2>2, Asked
  <2>4. Whole(d) /\ Pair(d) = Pair(s) /\ d.param_id = p
    <3>1. CASE s.param_id # p
      <4> DEFINE q == query_source(c)
      <4>1. /\ q.param_id = c.param_id /\ q.param_id_min = c.param_id_min
            /\ q.param_id_max = c.param_id_max
        BY <2>2, <2>3 DEF Only, Whole, Fields
      <4>2. c.param_id_min = s.param_id_min /\ c.param_id_max = s.param_id_max
        BY <1>0, <2>2 DEF Only, Whole, Fields
      <4> QED
        BY <2>2, <2>3, <3>1, <4>1, <4>2 DEF Pair
    <3>2. CASE s.param_id = p
      BY <1>0, <3>2
    <3> QED
      BY <3>1, <3>2
  <2> HIDE DEF d
  <2>5. Choosing(s, d, "VALUE")
    BY <1>5, <2>1, <2>4 DEF Choosing
  <2>6. Whole(v) /\ Only(d, v, {"new"})
    BY <2>4, Valued
  <2> HIDE DEF v
  <2>7. Whole(t) /\ Only(v, t, TagFields)
    BY <2>6, Tagged
  <2>8. /\ {"new"} \cap ChoiceFields = {}
        /\ TagFields \cap ChoiceFields = {}
    BY DEF ChoiceFields, RangeFields, TagFields
  <2>9. Choosing(s, v, "VALUE")
    BY <2>5, <2>6, <2>8, ChoosingKept
  <2>10. Choosing(s, t, "VALUE")
    BY <2>7, <2>8, <2>9, ChoosingKept
  <2> QED
    BY <1>1, <1>5, <2>10
<1> QED
  BY <1>2, <1>3, <1>4, <1>5

LEMMA OtherKnobChooses ==
  ASSUME NEW s, Ready(s), NEW id \in Rotors, NEW clockwise,
         s.state # rotor_to_state(id),
         ~(rotor_to_state(id) = "APPLY" /\ s.state = "IDLE")
  PROVE  Choosing(s, OtherKnob(s, id, clockwise), rotor_to_state(id))
<1> DEFINE to == rotor_to_state(id)
           o == IF s.state = "IDLE" THEN start(s) ELSE s
           a == set_state(o, to)
           p == rotor_to_param(a, id)
           b == [a EXCEPT !.param_id = p]
           v == select_value(b, clockwise)
           t == query_source(v)
           l == select_param(a, clockwise)
           y == select_apply(a, clockwise)
<1>0. Whole(s) /\ Modal(s) /\ to \in {"APPLY", "PARAM", "VALUE"}
  BY DEF Ready, rotor_to_state
<1>1. OtherKnob(s, id, clockwise) = IF to = "APPLY" THEN y
                                    ELSE IF to = "PARAM" THEN l ELSE t
  BY DEF OtherKnob
<1>2. Whole(o) /\ Modal(o) /\ o.state = s.state /\ (s.state # "IDLE" => o = s)
  BY <1>0, Started
<1>3. to = "VALUE" => p \in Values
  BY ValueKnob
<1>4. o.state # to /\ ~(to = "APPLY" /\ s.state = "IDLE")
  BY <1>2
<1> HIDE DEF o, to
<1>5. /\ Whole(a) /\ Modal(a) /\ Only(o, a, StateFields)
      /\ a.state \in {to}
  BY <1>2, <1>4, StateSet
<1>6. \/ /\ o.state \in {"IDLE", "APPLY"} /\ to \in {"PARAM", "VALUE"}
         /\ a.secondary_param = o.secondary_param
         /\ <<a.param_id_min, a.param_id_max>> \in
              {<<"POWER_OFF", "REBOOT">>, <<"POWER_ON", "POWER_ON">>}
         /\ to = "PARAM" => a.param_id = a.param_id_min
      \/ /\ o.state \in {"PARAM", "VALUE"} /\ to = "APPLY"
         /\ a.secondary_param = o.param_id
         /\ <<a.param_id_min, a.param_id_max>> = <<"CANCEL", "APPLY">>
      \/ /\ ~(o.state \in {"IDLE", "APPLY"} /\ to \in {"PARAM", "VALUE"})
         /\ ~(o.state \in {"PARAM", "VALUE"} /\ to = "APPLY")
         /\ a.secondary_param = o.secondary_param
         /\ a.param_id = o.param_id
         /\ a.param_id_min = o.param_id_min
         /\ a.param_id_max = o.param_id_max
  BY <1>2, <1>4, StateSet
<1> HIDE DEF a
<1>7. s.state \in {"IDLE", "APPLY"} /\ to \in {"PARAM", "VALUE"}
        => Pair(a) \in Pairs /\ (to = "PARAM" => a.param_id = a.param_id_min)
  BY <1>2, <1>6 DEF Pair, Pairs
<1>8. s.state \notin {"IDLE", "APPLY"} /\ to \in {"PARAM", "VALUE"}
        => Pair(a) = Pair(s) /\ a.param_id = s.param_id
  BY <1>2, <1>6 DEF Pair
<1>9. CASE to = "APPLY"
  <2>1. /\ Whole(y) /\ Only(a, y, {"param_id"})
        /\ y.param_id \in {"APPLY", "CANCEL"}
    BY <1>5, Selected
  <2> HIDE DEF y
  <2>2. o = s
    BY <1>2, <1>4, <1>9
  <2>3. y.shown = a.shown /\ y.secondary_param = a.secondary_param
    BY <1>5, <2>1 DEF Only, Whole, Fields
  <2>4. a.shown = s.shown
    BY <1>0, <1>5, <2>2 DEF Only, Whole, Fields, StateFields, ModeFields, RangeFields
  <2>5. s.state \in {"PARAM", "VALUE"} => a.secondary_param = s.param_id
    BY <1>6, <1>9, <2>2
  <2>6. s.state # "APPLY"
    BY <1>2, <1>4, <1>9
  <2>7. Choosing(s, y, "APPLY")
    BY <2>1, <2>3, <2>4, <2>5, <2>6 DEF Choosing
  <2> QED
    BY <1>1, <1>9, <2>7 DEF to
<1>10. CASE to = "PARAM"
  <2> DEFINE i == Rank(a.param_id)
  <2>1. /\ Whole(l) /\ Only(a, l, {"param_id"})
        /\ \/ l.param_id = a.param_id
           \/ i < Rank(a.param_id_max) /\ l.param_id = Params[i + 1]
           \/ i > Rank(a.param_id_min) /\ l.param_id = Params[i - 1]
    BY <1>5, Selected
  <2> HIDE DEF l
  <2>2. l.param_id_min = a.param_id_min /\ l.param_id_max = a.param_id_max
    BY <1>5, <2>1 DEF Only, Whole, Fields
  <2>3. Pair(l) = Pair(a) /\ Stepped(a.param_id, l)
    BY <2>1, <2>2 DEF Pair, Stepped
  <2>4. s.state \in {"IDLE", "APPLY"}
          => Pair(l) \in Pairs /\ Stepped(l.param_id_min, l)
    BY <1>7, <1>10, <2>2, <2>3
  <2>5. s.state \notin {"IDLE", "APPLY"} => Pair(l) = Pair(s) /\ Stepped(s.param_id, l)
    BY <1>8, <1>10, <2>3
  <2>6. Choosing(s, l, "PARAM")
    BY <2>1, <2>4, <2>5 DEF Choosing
  <2> QED
    BY <1>1, <1>10, <2>6 DEF to
<1>11. CASE to = "VALUE"
  <2>1. p \in Values
    BY <1>3, <1>11
  <2> HIDE DEF p
  <2>2. Whole(b) /\ b.param_id = p /\ Pair(b) = Pair(a)
    BY <1>5 DEF Whole, Fields, Pair
  <2> HIDE DEF b
  <2>3. Choosing(s, b, "VALUE")
    BY <1>7, <1>8, <1>11, <2>1, <2>2 DEF Choosing
  <2>4. Whole(v) /\ Only(b, v, {"new"})
    BY <2>2, Valued
  <2> HIDE DEF v
  <2>5. Only(v, t, {"out", "sent"})
    BY <2>4, Asked
  <2>6. /\ {"new"} \cap ChoiceFields = {}
        /\ {"out", "sent"} \cap ChoiceFields = {}
    BY DEF ChoiceFields, RangeFields
  <2>7. Choosing(s, v, "VALUE")
    BY <2>3, <2>4, <2>6, ChoosingKept
  <2>8. Choosing(s, t, "VALUE")
    BY <2>5, <2>6, <2>7, ChoosingKept
  <2> QED
    BY <1>1, <1>11, <2>8 DEF to
<1> QED
  BY <1>0, <1>9, <1>10, <1>11 DEF to

\* menu_handle_rotor: what is selected is shown, but for the two of APPLY.
LEMMA KnobChooses ==
  ASSUME NEW s, Ready(s), Sound(s), NEW id \in Rotors, NEW clockwise,
         ~(rotor_to_state(id) = "APPLY" /\ s.state = "IDLE")
  PROVE  LET a == menu_handle_rotor(s, id, clockwise)
         IN  /\ Choosing(s, a, a.state) /\ a.state \in {"APPLY", "PARAM", "VALUE"}
             /\ a.param_id \notin {"APPLY", "CANCEL"} => a.shown = a.param_id
<1> DEFINE to == rotor_to_state(id)
           k == IF s.state = to THEN SameKnob(s, id, clockwise)
                ELSE OtherKnob(s, id, clockwise)
           c == schedule(k)
           a == menu_handle_rotor(s, id, clockwise)
<1>1. Choosing(s, k, to)
  <2>1. CASE s.state = to
    BY <2>1, SameKnobChooses
  <2>2. CASE s.state # to
    BY <2>2, OtherKnobChooses
  <2> QED
    BY <2>1, <2>2
<1>2. a.state = to /\ to \in {"APPLY", "PARAM", "VALUE"}
  <2>1. a.state = to
    BY KnobState
  <2> QED
    BY <2>1 DEF rotor_to_state
<1>3. a = render(c)
  BY DEF menu_handle_rotor
<1> HIDE DEF k, a, to
<1>4. Whole(k)
  BY <1>1 DEF Choosing
<1>5. Whole(c) /\ Only(k, c, {"at"})
  BY <1>4, Scheduled
<1>6. {"at"} \cap ChoiceFields = {}
  BY DEF ChoiceFields, RangeFields
<1>7. Choosing(s, c, to)
  BY <1>1, <1>5, <1>6, ChoosingKept
<1> HIDE DEF c
<1>8. /\ Whole(a) /\ Only(c, a, {"shown"})
      /\ a.shown = IF c.state = "IDLE" \/ c.param_id \in {"APPLY", "CANCEL"}
                   THEN c.shown ELSE c.param_id
  BY <1>3, <1>5, Rendered
<1>9. /\ a.state = c.state /\ a.param_id = c.param_id
      /\ a.param_id_min = c.param_id_min /\ a.param_id_max = c.param_id_max
      /\ a.secondary_param = c.secondary_param
  BY <1>5, <1>8 DEF Only, Whole, Fields
<1>10. a.param_id \notin {"APPLY", "CANCEL"} => a.shown = a.param_id
  BY <1>2, <1>8, <1>9
<1>11. a.param_id \in {"APPLY", "CANCEL"} => a.shown = c.shown
  BY <1>8, <1>9
<1>12. Pair(a) = Pair(c) /\ \A p : Stepped(p, c) => Stepped(p, a)
  BY <1>9 DEF Pair, Stepped
<1>13. Choosing(s, a, to)
  <2>1. /\ to = "PARAM" /\ s.state \in {"IDLE", "APPLY"}
             => Pair(a) \in Pairs /\ Stepped(a.param_id_min, a)
        /\ to = "PARAM" /\ s.state \notin {"IDLE", "APPLY"}
             => Pair(a) = Pair(s) /\ Stepped(s.param_id, a)
    BY <1>7, <1>9, <1>12 DEF Choosing
  <2>2. /\ to = "VALUE" => a.param_id \in Values
        /\ to = "VALUE" /\ s.state \in {"IDLE", "APPLY"} => Pair(a) \in Pairs
        /\ to = "VALUE" /\ s.state \notin {"IDLE", "APPLY"} => Pair(a) = Pair(s)
    BY <1>7, <1>9, <1>12 DEF Choosing
  <2>3. to = "APPLY" => a.param_id \in {"APPLY", "CANCEL"} /\ a.shown = s.shown
    BY <1>7, <1>9, <1>11 DEF Choosing
  <2>4. /\ to = "APPLY" /\ s.state \in {"PARAM", "VALUE"}
             => a.secondary_param = s.param_id
        /\ to = "APPLY" /\ s.state = "APPLY"
             => a.secondary_param = s.secondary_param
    BY <1>7, <1>9 DEF Choosing
  <2> QED
    BY <1>8, <2>1, <2>2, <2>3, <2>4 DEF Choosing
<1> QED
  BY <1>2, <1>10, <1>13 DEF a

-----------------------------------------------------------------------------
(* The selection between two handlers.                                     *)

\* The list of PARAM is the one of the mode the menu was opened in, unless the
\* state before left it as it was; f is that state.
Offered(s, f) ==
  s.state = "PARAM" /\ f \notin {"VALUE", "TAG"}
    => Pair(s) \in Pairs /\ InList(s.param_id, s)

\* As long as no answer is late: what is selected is on the display, or has been
\* before the choice between "Apply" and "Cancel".
Shown(s, f) ==
  /\ s.state \in {"PARAM", "VALUE", "TAG"}
       => /\ s.shown = s.param_id /\ Selectable(s.param_id)
          /\ Pair(s) \in Pairs
  /\ s.state = "APPLY"
       => /\ s.param_id \in {"APPLY", "CANCEL"}
          /\ f # "TAG" => s.shown = s.secondary_param

ShownInv ==
  /\ MenuInv
  /\ Offered(avr, from)
  /\ "late" \notin met => Shown(avr, from)

LEMMA SelectableIds ==
  /\ \A p : Selectable(p) => p \notin {"APPLY", "CANCEL"}
  /\ \A p \in Values : Selectable(p)
<1> DEFINE n == Len(Listed)
<1>0. /\ n \in Nat /\ Len(Params) = n + 7
      /\ Params[1] = "TRACK" /\ Params[2] = "VOLUME" /\ Params[3] = "PLAYLIST"
      /\ Params[n + 4] = "BRIGHTNESS"
      /\ Params[n + 6] = "CANCEL" /\ Params[n + 7] = "APPLY"
  BY ParamsOrder
<1> HIDE DEF n
<1>1. /\ 1 \in 1 .. Len(Params) - 2 /\ 2 \in 1 .. Len(Params) - 2
      /\ 3 \in 1 .. Len(Params) - 2 /\ n + 4 \in 1 .. Len(Params) - 2
  BY <1>0
<1>2. Selectable("TRACK") /\ Selectable("VOLUME") /\ Selectable("PLAYLIST")
        /\ Selectable("BRIGHTNESS")
  BY <1>0, <1>1 DEF Selectable
<1>3. ASSUME NEW p, Selectable(p) PROVE p \notin {"APPLY", "CANCEL"}
  <2>1. PICK i \in 1 .. Len(Params) - 2 : p = Params[i]
    BY <1>3 DEF Selectable
  <2>2. /\ i \in 1 .. Len(Params) /\ n + 6 \in 1 .. Len(Params)
        /\ n + 7 \in 1 .. Len(Params) /\ i # n + 6 /\ i # n + 7
    BY <1>0
  <2>3. Params[i] # Params[n + 6] /\ Params[i] # Params[n + 7]
    BY <2>2, MenuAssumption
  <2> QED
    BY <1>0, <2>1, <2>3
<1> QED
  BY <1>2, <1>3 DEF Values, Queried

LEMMA LowEnd ==
  ASSUME NEW a, Pair(a) \in Pairs
  PROVE  Selectable(a.param_id_min) /\ InList(a.param_id_min, a)
<1> DEFINE low == Rank(a.param_id_min)
           n == Len(Params)
<1>0. n \in Nat /\ n > 7
  BY ParamsOrder
<1>1. /\ low \in 4 .. n - 2 /\ Rank(a.param_id_max) \in low .. n - 2
      /\ a.param_id_min = Params[low]
  BY PairRanks
<1>2. low \in 1 .. n /\ low \in 1 .. n - 2
  BY <1>0, <1>1
<1>3. low \in low .. Rank(a.param_id_max)
  BY <1>0, <1>1
<1> QED
  BY <1>1, <1>2, <1>3 DEF Selectable, InList

\* A handler that leaves the selection alone.
SameChoice(s, a) ==
  /\ a.state = s.state /\ a.param_id = s.param_id
  /\ a.param_id_min = s.param_id_min /\ a.param_id_max = s.param_id_max
  /\ a.secondary_param = s.secondary_param /\ a.shown = s.shown

LEMMA ChoiceSame ==
  ASSUME NEW s, NEW a, SameChoice(s, a), NEW f
  PROVE  /\ Offered(s, f) => Offered(a, f)
         /\ Shown(s, f) => Shown(a, f)
<1>1. Pair(a) = Pair(s) /\ (InList(s.param_id, s) => InList(a.param_id, a))
  BY DEF SameChoice, Pair, InList
<1>2. Offered(s, f) => Offered(a, f)
  BY <1>1 DEF SameChoice, Offered
<1>3. Shown(s, f) => Shown(a, f)
  BY <1>1 DEF SameChoice, Shown
<1> QED
  BY <1>2, <1>3

LEMMA ChoiceOnly ==
  ASSUME NEW s, Whole(s), NEW a, NEW X, Only(s, a, X), X \cap ChoiceFields = {}
  PROVE  SameChoice(s, a)
BY DEF SameChoice, Only, Whole, Fields, ChoiceFields, RangeFields

LEMMA ChoiceDelivered ==
  ASSUME NEW a, Whole(a), NEW asks, NEW names, Result(a, asks, names)
  PROVE  /\ SameChoice(a, avr')
         /\ from' = IF a.state = avr.state THEN from ELSE avr.state
<1>1. Only(a, avr', {"out"})
  BY Delivered
<1>2. {"out"} \cap ChoiceFields = {}
  BY DEF ChoiceFields, RangeFields
<1>3. SameChoice(a, avr')
  BY <1>1, <1>2, ChoiceOnly
<1> QED
  BY <1>3 DEF Result

\* After such a handler.
LEMMA ChoiceStep ==
  ASSUME ShownInv, MenuInv', NEW a, Whole(a), NEW X, Only(avr, a, X),
         X \cap ChoiceFields = {}, NEW asks, NEW names, Result(a, asks, names),
         UNCHANGED met
  PROVE  ShownInv'
<1>1. Whole(avr)
  BY DEF ShownInv, MenuInv, Body, Ready
<1>2. SameChoice(avr, a)
  BY <1>1, ChoiceOnly
<1>3. SameChoice(a, avr') /\ from' = from
  BY <1>2, ChoiceDelivered DEF SameChoice
<1>4. SameChoice(avr, avr')
  BY <1>2, <1>3 DEF SameChoice
<1>5. Offered(avr, from) /\ ("late" \notin met => Shown(avr, from))
  BY DEF ShownInv
<1>6. Offered(avr', from') /\ ("late" \notin met => Shown(avr', from'))
  BY <1>3, <1>4, <1>5, ChoiceSame
<1> QED
  BY <1>6 DEF ShownInv

LEMMA RotorShown ==
  ASSUME ShownInv, MenuInv', NEW id \in Rotors, NEW clockwise, Rotor(id, clockwise)
  PROVE  ShownInv'
<1> DEFINE a == menu_handle_rotor(avr, id, clockwise)
           f == IF a.state = avr.state THEN from ELSE avr.state
<1>0. Ready(avr) /\ Sound(avr) /\ Whole(avr)
  BY DEF ShownInv, MenuInv, Body, Ready
<1>1. Result(a, asked, named) /\ UNCHANGED <<linked, met>>
  BY DEF Rotor
<1>2. CASE rotor_to_state(id) = "APPLY" /\ avr.state = "IDLE"
  <2>1. a = avr
    BY <1>2 DEF menu_handle_rotor
  <2>2. Only(avr, avr, {}) /\ {} \cap ChoiceFields = {}
    BY OnlySelf
  <2> HIDE DEF a
  <2>3. Result(avr, asked, named)
    BY <1>1, <2>1
  <2> QED
    BY <1>0, <1>1, <2>2, <2>3, ChoiceStep
<1>3. CASE ~(rotor_to_state(id) = "APPLY" /\ avr.state = "IDLE")
  <2>1. /\ Choosing(avr, a, a.state) /\ a.state \in {"APPLY", "PARAM", "VALUE"}
        /\ a.param_id \notin {"APPLY", "CANCEL"} => a.shown = a.param_id
    BY <1>0, <1>3, KnobChooses
  <2> HIDE DEF a
  <2>2. SameChoice(a, avr') /\ from' = f
    BY <1>1, <2>1, ChoiceDelivered DEF Choosing
  <2>3. avr.state \in StateIds
    BY DEF ShownInv, MenuInv, Body
  <2>4. Offered(a, f)
    <3> SUFFICES ASSUME a.state = "PARAM", f \notin {"VALUE", "TAG"}
                 PROVE  Pair(a) \in Pairs /\ InList(a.param_id, a)
      BY DEF Offered
    <3>1. CASE avr.state = "PARAM"
      <4>1. Pair(a) = Pair(avr) /\ Stepped(avr.param_id, a)
        BY <2>1, <3>1 DEF Choosing
      <4>2. Pair(avr) \in Pairs /\ InList(avr.param_id, avr)
        BY <3>1 DEF ShownInv, Offered
      <4>3. InList(avr.param_id, a)
        BY <4>1, <4>2 DEF Pair, InList
      <4> QED
        BY <4>1, <4>2, <4>3, StaysInList
    <3>2. CASE avr.state # "PARAM"
      <4>1. avr.state \in {"IDLE", "APPLY"}
        BY <2>3, <3>2 DEF StateIds
      <4>2. Pair(a) \in Pairs /\ Stepped(a.param_id_min, a)
        BY <2>1, <4>1 DEF Choosing
      <4>3. InList(a.param_id_min, a)
        BY <4>2, LowEnd
      <4> QED
        BY <4>2, <4>3, StaysInList
    <3> QED
      BY <3>1, <3>2
  <2>5. ASSUME "late" \notin met PROVE Shown(a, f)
    <3>1. Shown(avr, from)
      BY <2>5 DEF ShownInv
    <3>2. CASE a.state = "PARAM"
      <4>1. Pair(a) \in Pairs /\ Selectable(a.param_id)
        <5>1. CASE avr.state \in {"IDLE", "APPLY"}
          <6>1. Pair(a) \in Pairs /\ Stepped(a.param_id_min, a)
            BY <2>1, <3>2, <5>1 DEF Choosing
          <6>2. Selectable(a.param_id_min)
            BY <6>1, LowEnd
          <6> QED
            BY <6>1, <6>2, StaysSelectable
        <5>2. CASE avr.state \notin {"IDLE", "APPLY"}
          <6>1. Pair(a) = Pair(avr) /\ Stepped(avr.param_id, a)
            BY <2>1, <3>2, <5>2 DEF Choosing
          <6>2. Pair(avr) \in Pairs /\ Selectable(avr.param_id)
            BY <2>3, <3>1, <5>2 DEF Shown, StateIds
          <6>3. Pair(a) \in Pairs
            BY <6>1, <6>2
          <6> QED
            BY <6>1, <6>2, <6>3, StaysSelectable
        <5> QED
          BY <5>1, <5>2
      <4>2. a.shown = a.param_id
        BY <2>1, <4>1, SelectableIds
      <4> QED
        BY <3>2, <4>1, <4>2 DEF Shown
    <3>3. CASE a.state = "VALUE"
      <4>1. Selectable(a.param_id)
        BY <2>1, <3>3, SelectableIds DEF Choosing
      <4>2. a.shown = a.param_id
        BY <2>1, <4>1, SelectableIds
      <4>3. Pair(a) \in Pairs
        <5>1. CASE avr.state \in {"IDLE", "APPLY"}
          BY <2>1, <3>3, <5>1 DEF Choosing
        <5>2. CASE avr.state \notin {"IDLE", "APPLY"}
          <6>1. Pair(a) = Pair(avr)
            BY <2>1, <3>3, <5>2 DEF Choosing
          <6>2. Pair(avr) \in Pairs
            BY <2>3, <3>1, <5>2 DEF Shown, StateIds
          <6> QED
            BY <6>1, <6>2
        <5> QED
          BY <5>1, <5>2
      <4> QED
        BY <3>3, <4>1, <4>2, <4>3 DEF Shown
    <3>4. CASE a.state = "APPLY"
      <4>1. a.param_id \in {"APPLY", "CANCEL"} /\ a.shown = avr.shown
        BY <2>1, <3>4 DEF Choosing
      <4>2. ASSUME f # "TAG" PROVE a.shown = a.secondary_param
        <5>0. avr.state # "IDLE"
          <6>1. a.state = rotor_to_state(id)
            BY <1>0, <1>3, KnobState DEF a
          <6> QED
            BY <1>3, <3>4, <6>1
        <5>1. CASE avr.state = "APPLY"
          <6>1. from # "TAG" /\ a.secondary_param = avr.secondary_param
            BY <2>1, <3>4, <4>2, <5>1 DEF Choosing
          <6> QED
            BY <3>1, <4>1, <5>1, <6>1 DEF Shown
        <5>2. CASE avr.state \in {"PARAM", "VALUE"}
          <6>1. a.secondary_param = avr.param_id
            BY <2>1, <3>4, <5>2 DEF Choosing
          <6> QED
            BY <3>1, <4>1, <5>2, <6>1 DEF Shown
        <5>3. avr.state # "TAG"
          BY <3>4, <4>2
        <5> QED
          BY <2>3, <5>0, <5>1, <5>2, <5>3 DEF StateIds
      <4> QED
        BY <3>4, <4>1, <4>2 DEF Shown
    <3> QED
      BY <2>1, <3>2, <3>3, <3>4
  <2> HIDE DEF f
  <2>6. Offered(avr', f) /\ ("late" \notin met => Shown(avr', f))
    BY <2>2, <2>4, <2>5, ChoiceSame
  <2> QED
    BY <1>1, <2>2, <2>6 DEF ShownInv
<1> QED
  BY <1>2, <1>3

LEMMA AtMenuShown ==
  ASSUME ShownInv, MenuInv', AtMenu
  PROVE  ShownInv'
<1>1. avr'.state = "IDLE"
  <2> DEFINE s == stop(avr)
             a == [s EXCEPT !.at = @ \ {"MENU"}]
  <2>1. Ready(avr) /\ avr.backup_mode \in ModeIds
    BY DEF ShownInv, MenuInv, Body
  <2>2. Whole(s) /\ s.state = "IDLE"
    BY <2>1, Stopped
  <2>3. Result(a, asked, named)
    BY DEF AtMenu
  <2> HIDE DEF s
  <2>4. Whole(a) /\ a.state = "IDLE"
    BY <2>2 DEF Whole, Fields
  <2> HIDE DEF a
  <2>5. SameChoice(a, avr')
    BY <2>3, <2>4, ChoiceDelivered
  <2> QED
    BY <2>4, <2>5 DEF SameChoice
<1> QED
  BY <1>1 DEF ShownInv, Offered, Shown

LEMMA AnswerShown ==
  ASSUME ShownInv, MenuInv', NEW p \in Queried, Answer(p)
  PROVE  ShownInv'
<1>0. Ready(avr) /\ Whole(avr) /\ avr.state \in StateIds
  BY DEF ShownInv, MenuInv, Body, Ready
<1>1. PICK v \in Answers(p) :
        Result(menu_parameter_value(heartbeat_confirm(avr), p, v[1], v[2], v[3]),
               asked \ {p}, named)
  BY DEF Answer
<1>2. PICK value \in Nat, min \in Nat, max \in Nat :
        value = v[1] /\ min = v[2] /\ max = v[3]
  BY MenuAssumption
<1> DEFINE b == heartbeat_confirm(avr)
           a == menu_parameter_value(b, p, value, min, max)
<1>3. Ready(b) /\ Only(avr, b, {"misses"})
  BY <1>0, Confirmed
<1>4. Result(a, asked \ {p}, named) /\ UNCHANGED <<linked, met>>
  BY <1>1, <1>2 DEF Answer
<1> HIDE DEF b
<1>5. /\ Ready(a) /\ Only(b, a, ValueFields)
      /\ a.shown = IF b.param_id = p /\ b.state # "IDLE" THEN p ELSE b.shown
  BY <1>3, Numbered
<1> HIDE DEF a
<1>6. SameChoice(avr, b)
  <2>1. {"misses"} \cap ChoiceFields = {}
    BY DEF ChoiceFields, RangeFields
  <2> QED
    BY <1>0, <1>3, <2>1, ChoiceOnly
<1>7. /\ a.state = b.state /\ a.param_id = b.param_id
      /\ a.param_id_min = b.param_id_min /\ a.param_id_max = b.param_id_max
      /\ a.secondary_param = b.secondary_param
  BY <1>3, <1>5 DEF Ready, Only, Whole, Fields, ValueFields
<1>8. SameChoice(a, avr') /\ from' = from
  <2>1. Whole(a) /\ a.state = avr.state
    BY <1>5, <1>6, <1>7 DEF Ready, SameChoice
  <2> QED
    BY <1>4, <2>1, ChoiceDelivered
<1>9. /\ Offered(b, from) /\ ("late" \notin met => Shown(b, from))
  BY <1>6, ChoiceSame DEF ShownInv
<1>10. Pair(a) = Pair(b) /\ (InList(b.param_id, b) => InList(a.param_id, a))
  BY <1>7 DEF Pair, InList
<1>11. Offered(a, from)
  BY <1>7, <1>9, <1>10 DEF Offered
<1>12. ASSUME "late" \notin met PROVE Shown(a, from)
  <2>1. Shown(b, from)
    BY <1>9, <1>12
  <2>2. CASE a.state \in {"PARAM", "VALUE", "TAG"}
    <3>1. a.shown = a.param_id
      BY <1>5, <1>7, <2>1, <2>2 DEF Shown
    <3> QED
      BY <1>7, <1>10, <2>1, <2>2, <3>1 DEF Shown
  <2>3. CASE a.state = "APPLY"
    <3>1. b.param_id \in {"APPLY", "CANCEL"} /\ p \notin {"APPLY", "CANCEL"}
      BY <1>7, <2>1, <2>3 DEF Shown, Queried
    <3>2. a.shown = b.shown
      BY <1>5, <3>1
    <3> QED
      BY <1>7, <2>1, <2>3, <3>2 DEF Shown
  <2>4. CASE a.state \notin {"PARAM", "VALUE", "TAG", "APPLY"}
    BY <2>4 DEF Shown
  <2> QED
    BY <2>2, <2>3, <2>4
<1>13. Offered(avr', from') /\ ("late" \notin met => Shown(avr', from'))
  BY <1>8, <1>11, <1>12, ChoiceSame
<1> QED
  BY <1>4, <1>13 DEF ShownInv

LEMMA AnswerNameShown ==
  ASSUME ShownInv, MenuInv', NEW q \in named, AnswerName(q)
  PROVE  ShownInv'
<1> DEFINE b == heartbeat_confirm(avr)
           a == menu_parameter_name(b, q[1], q[2])
<1>0. Ready(avr) /\ Whole(avr) /\ avr.state \in StateIds
  BY DEF ShownInv, MenuInv, Body, Ready
<1>1. Result(a, asked, named \ {q}) /\ UNCHANGED <<linked, met>>
  BY DEF AnswerName
<1>2. Ready(b) /\ Only(avr, b, {"misses"})
  BY <1>0, Confirmed
<1>3. {"misses"} \cap ChoiceFields = {}
  BY DEF ChoiceFields, RangeFields
<1>4. SameChoice(avr, b)
  BY <1>0, <1>2, <1>3, ChoiceOnly
<1> HIDE DEF b
<1>5. \/ a = b
      \/ /\ Whole(a) /\ Modal(a) /\ Telling(a) /\ Only(b, a, NameFields)
         /\ a.state = "TAG" /\ b.param_id = b.tag_param
         /\ b.is_connected => a.is_connected
         /\ a.param_id = b.param_id
         /\ a.param_id_min = b.param_id_min
         /\ a.param_id_max = b.param_id_max
  BY <1>2, Named
<1> HIDE DEF a
<1>6. CASE a = b
  <2>1. Whole(b) /\ Result(b, asked, named \ {q})
    BY <1>1, <1>2, <1>6 DEF Ready
  <2> QED
    BY <1>1, <1>2, <1>3, <2>1, ChoiceStep
<1>7. CASE a # b
  <2>1. /\ Whole(a) /\ Only(b, a, NameFields) /\ a.state = "TAG"
        /\ b.param_id = b.tag_param /\ a.param_id = b.param_id
        /\ a.param_id_min = b.param_id_min /\ a.param_id_max = b.param_id_max
    BY <1>5, <1>7
  <2>2. SameChoice(a, avr')
    BY <1>1, <2>1, ChoiceDelivered
  <2>3. avr'.state = "TAG"
    BY <2>1, <2>2 DEF SameChoice
  <2>4. Offered(avr', from')
    BY <2>3 DEF Offered
  <2>5. ASSUME "late" \notin met PROVE Shown(avr', from')
    <3>1. Shown(b, from) /\ avr.state # "IDLE"
      BY <1>4, <2>5, ChoiceSame DEF ShownInv, MenuInv, Prompt
    <3>2. b.param_id \in {"PLAYLIST", "TRACK"} /\ b.state \in StateIds /\ b.state # "IDLE"
      BY <1>0, <1>2, <1>4, <2>1, <3>1 DEF Ready, SameChoice
    <3>3. b.state \in {"PARAM", "VALUE", "TAG"}
      BY <3>1, <3>2 DEF Shown, StateIds
    <3>4. b.shown = b.param_id /\ Selectable(b.param_id) /\ Pair(b) \in Pairs
      BY <3>1, <3>3 DEF Shown
    <3>5. a.shown = b.shown
      BY <1>2, <2>1 DEF Ready, Only, Whole, Fields, NameFields, StateFields,
                        ModeFields, RangeFields
    <3>6. Pair(a) = Pair(b)
      BY <2>1 DEF Pair
    <3>7. Shown(a, from')
      BY <2>1, <3>4, <3>5, <3>6 DEF Shown
    <3> QED
      BY <2>2, <3>7, ChoiceSame
  <2> QED
    BY <1>1, <2>4, <2>5 DEF ShownInv
<1> QED
  BY <1>6, <1>7

\* Handlers that have nothing to do with the selection.
LEMMA OthersShown ==
  ASSUME ShownInv, MenuInv',
         AtTag \/ AtBoot \/ NoAnswer \/ Confirm \/ Handshake \/ HeartbeatVerify
  PROVE  ShownInv'
<1>0. Ready(avr) /\ Whole(avr)
  BY DEF ShownInv, MenuInv, Body, Ready
<1>1. CASE AtTag
  <2> DEFINE s == tag_request(avr)
             a == [s EXCEPT !.at = @ \ {"TAG"}]
  <2>1. Whole(a) /\ Only(avr, a, {"out", "at"})
    BY <1>0, Requested
  <2>2. Result(a, asked, named) /\ UNCHANGED met
    BY <1>1 DEF AtTag
  <2>3. {"out", "at"} \cap ChoiceFields = {}
    BY DEF ChoiceFields, RangeFields
  <2> HIDE DEF a
  <2> QED
    BY <2>1, <2>2, <2>3, ChoiceStep
<1>2. CASE AtBoot
  <2> DEFINE a == [avr EXCEPT !.wire = "free", !.at = @ \ {"BOOT"}]
  <2>1. Whole(a) /\ Only(avr, a, {"wire", "at"})
    BY <1>0 DEF Only, Whole, Fields
  <2>2. Result(a, asked, named) /\ UNCHANGED met
    BY <1>2 DEF AtBoot
  <2>3. {"wire", "at"} \cap ChoiceFields = {}
    BY DEF ChoiceFields, RangeFields
  <2> HIDE DEF a
  <2> QED
    BY <2>1, <2>2, <2>3, ChoiceStep
<1>3. CASE NoAnswer
  BY <1>3 DEF NoAnswer, ShownInv
<1>4. CASE Confirm
  <2> DEFINE a == heartbeat_confirm(avr)
  <2>1. Whole(a) /\ Only(avr, a, {"misses"})
    BY <1>0, Confirmed DEF Ready
  <2>2. Result(a, asked, named) /\ UNCHANGED met
    BY <1>4 DEF Confirm
  <2>3. {"misses"} \cap ChoiceFields = {}
    BY DEF ChoiceFields, RangeFields
  <2> HIDE DEF a
  <2> QED
    BY <2>1, <2>2, <2>3, ChoiceStep
<1>5. CASE Handshake
  <2> DEFINE a == mode_set(heartbeat_confirm(avr), "RADIO")
  <2>1. Whole(a) /\ Only(avr, a, ModeFields)
    BY <1>0, Shaken DEF Ready
  <2>2. avr' = a /\ from' = from /\ met \subseteq met'
    BY <1>5 DEF Handshake
  <2>3. ModeFields \cap ChoiceFields = {}
    BY DEF ChoiceFields, RangeFields, ModeFields
  <2> HIDE DEF a
  <2>4. SameChoice(avr, a)
    BY <1>0, <2>1, <2>3, ChoiceOnly
  <2> QED
    BY <2>2, <2>4, ChoiceSame DEF ShownInv
<1>6. CASE HeartbeatVerify
  <2> DEFINE a == verify(avr)
  <2>1. Whole(a) /\ Only(avr, a, ModeFields)
    BY <1>0, <1>6, Verified DEF Ready, HeartbeatVerify
  <2>2. Result(a, asked, named) /\ UNCHANGED met
    BY <1>6 DEF HeartbeatVerify
  <2>3. ModeFields \cap ChoiceFields = {}
    BY DEF ChoiceFields, RangeFields, ModeFields
  <2> HIDE DEF a
  <2> QED
    BY <2>1, <2>2, <2>3, ChoiceStep
<1> QED
  BY <1>1, <1>2, <1>3, <1>4, <1>5, <1>6

LEMMA ShownNext == ShownInv /\ [Next]_vars => ShownInv'
<1> SUFFICES ASSUME ShownInv, [Next]_vars PROVE ShownInv'
  OBVIOUS
<1>0. MenuInv'
  BY MenuNext DEF ShownInv
<1>1. CASE \E id \in Knobs, clockwise \in BOOLEAN : Rotor(id, clockwise)
  BY <1>0, <1>1, RotorShown, MenuAssumption
<1>2. CASE AtMenu
  BY <1>0, <1>2, AtMenuShown
<1>3. CASE \E p \in Queried : Answer(p)
  BY <1>0, <1>3, AnswerShown
<1>4. CASE \E q \in named : AnswerName(q)
  BY <1>0, <1>4, AnswerNameShown
<1>5. CASE AtTag \/ AtBoot \/ NoAnswer \/ Confirm \/ Handshake \/ HeartbeatVerify
  BY <1>0, <1>5, OthersShown
<1>6. CASE UNCHANGED vars
  BY <1>0, <1>6 DEF vars, ShownInv
<1> QED
  BY <1>1, <1>2, <1>3, <1>4, <1>5, <1>6 DEF Next

LEMMA ShownInvariant == Spec => []ShownInv
<1>1. Init => ShownInv
  <2> SUFFICES ASSUME Init PROVE ShownInv
    OBVIOUS
  <2>1. MenuInv
    BY MenuInit
  <2>2. avr.state = "IDLE"
    BY DEF Init, Booted
  <2> QED
    BY <2>1, <2>2 DEF ShownInv, Offered, Shown
<1> QED
  BY <1>1, ShownNext, PTL DEF Spec

\* set_param_range and select_param: whatever the list holds between its two
\* ends, and whatever comes, the knob of the list stays inside the range of the
\* mode the menu was opened in.
THEOREM ListStaysInRange == Spec => []ListInRange
<1>1. ShownInv => ListInRange
  BY DEF ShownInv, Offered, InList, ListInRange
<1> QED
  BY <1>1, ShownInvariant, PTL

\* stop() and render: what is carried out when the menu closes is what the
\* display showed last, or nothing.
THEOREM ShownIsApplied == Spec => []AppliesSelection
<1>1. ShownInv => AppliesSelection
  <2> SUFFICES ASSUME ShownInv, "late" \notin met, avr.state # "IDLE",
                      ~(avr.state = "APPLY" /\ from = "TAG")
               PROVE  Chosen(Closing(avr)) \in {"CANCEL", avr.shown}
    BY DEF AppliesSelection
  <2> DEFINE a == Closing(avr)
  <2>0. Ready(avr) /\ avr.state \in StateIds
    BY DEF ShownInv, MenuInv, Body
  <2>1. /\ a.state = IF avr.state = "TAG" THEN "VALUE" ELSE avr.state
        /\ a.param_id = avr.param_id /\ a.secondary_param = avr.secondary_param
    BY <2>0, Closed DEF Ready
  <2>2. Shown(avr, from)
    BY DEF ShownInv
  <2> HIDE DEF a
  <2>3. CASE avr.state = "APPLY"
    <3>1. a.param_id \in {"APPLY", "CANCEL"} /\ avr.shown = a.secondary_param
      BY <2>1, <2>2, <2>3 DEF Shown
    <3> QED
      BY <2>1, <2>3, <3>1 DEF Chosen, a
  <2>4. CASE avr.state \in {"PARAM", "VALUE", "TAG"}
    <3>1. a.param_id = avr.shown /\ a.state \in {"PARAM", "VALUE"}
      BY <2>1, <2>2, <2>4 DEF Shown
    <3>2. Chosen(a) = a.param_id
      BY <3>1 DEF Chosen
    <3> QED
      BY <3>1, <3>2 DEF a
  <2> QED
    BY <2>0, <2>3, <2>4 DEF StateIds
<1> QED
  BY <1>1, ShownInvariant, PTL
=============================================================================
