-------------------------------- MODULE Menu --------------------------------
(***************************************************************************)
(* The knobs, the menu, the mode and the heartbeat of the AVR: avr/menu.c, *)
(* mode.c, heartbeat.c, boot.c and the drain flag of flush.c.  All of it   *)
(* runs in the main loop, one handler after the other, and every handler   *)
(* is an operator from the state `avr' to the next: the C functions keep   *)
(* their names and their order of calls.                                   *)
(*                                                                         *)
(* A callback given to at.c may come at any time after it was scheduled.   *)
(* `out' collects the messages of a handler; the Pi sees them at once.     *)
(* The Pi itself is what it does to the AVR: it answers queries, sends     *)
(* other messages, falls silent, and is started again.                     *)
(***************************************************************************)
EXTENDS Integers, FiniteSets, SequencesExt

CONSTANTS FLUSH_BRIGHTNESS_MIDDLE, FLUSH_BRIGHTNESS_MAX,  \* 7 and 15
          HB_MISS,    \* heartbeats that may be missed (3)
          Listed,     \* the part of Params between POWER_OFF and REBOOT
          Answers(_), \* the <<value, min, max>> the Pi may give for a parameter
          MaxValue,   \* bound: the largest of them
          Knobs,      \* the knobs that are turned, Rotors in the device
          MaxNames,   \* bound: names asked for and not answered
          Hardships   \* what the Pi may do, see AtMenu and Handshake

\* The parameters in the order of the enumeration: with a value, the list in
\* radio mode (POWER_OFF, POWER_OFF_15, POWER_OFF_30, BRIGHTNESS_MIN, _MIDDLE,
\* _MAX, NEXT, PREVIOUS, STOP, PLAY, REBOOT), watch mode, and those of APPLY.
Params == <<"TRACK", "VOLUME", "PLAYLIST">> \o Listed
          \o <<"BRIGHTNESS", "POWER_ON", "CANCEL", "APPLY">>
Rank(p) == CHOOSE i \in 1 .. Len(Params) : Params[i] = p
Queried == {"TRACK", "VOLUME", "PLAYLIST"}
Values  == Queried \cup {"BRIGHTNESS"}
Rotors  == {"PLAYLIST", "PARAM", "TRACK", "VOLUME", "APPLY"}

\* The enumeration names each parameter once; what the Pi answers are bytes.
ASSUME MenuAssumption ==
  /\ Listed \in Seq(STRING) /\ Len(Listed) > 0
  /\ Listed[1] = "POWER_OFF" /\ Listed[Len(Listed)] = "REBOOT"
  /\ \A i, j \in 1 .. Len(Params) : Params[i] = Params[j] => i = j
  /\ Knobs \subseteq Rotors
  /\ {FLUSH_BRIGHTNESS_MIDDLE, FLUSH_BRIGHTNESS_MAX} \subseteq Nat
  /\ \A p \in Queried : \A a \in Answers(p) : a \in Nat \X Nat \X Nat

VARIABLES
  avr,        \* the static variables of the C files
  asked,      \* parameters of QUERY_NUMBER messages without an answer
  named,      \* QUERY_NAME messages without an answer
  suspended,  \* handle_t::m_suspend on the Pi
  linked,     \* HANDSHAKE was received, and no silence was reported since
  met,        \* the Hardships that have come
  from        \* history: the state of the menu before the present one

vars == <<avr, asked, named, suspended, linked, met, from>>

Msg(id, param, value) == [id |-> id, param |-> param, value |-> value]

\* send_message_0 to _3: only while connected.
send_message(s, id, param, value) ==
  IF s.is_connected
  THEN [s EXCEPT !.out = Append(@, Msg(id, param, value))] ELSE s

\* flush_shift_drain_start and _stop.
drain_start(s) == [s EXCEPT !.drain = TRUE]
drain_stop(s) == [s EXCEPT !.drain = FALSE]

\* mode_set: what ran in the old mode is disabled, then the new mode is set up
\* with heartbeat_start and the display timer, or the watch.
mode_set_deaf(s, m) ==
  IF s.mode = m THEN s
  ELSE [s EXCEPT !.mode = m,
                 !.cron = IF m = "RADIO" THEN {"FLUSH"} ELSE {},
                 !.is_connected = m = "RADIO" \/ (@ /\ m = "MENU")]
mode_set_forgets(s, m) ==
  IF s.mode = m THEN s
  ELSE [s EXCEPT !.mode = m,
                 !.cron = IF m = "RADIO" THEN {"FLUSH", "HEARTBEAT"} ELSE {},
                 !.misses = IF m = "RADIO" THEN 0 ELSE @,
                 !.is_connected = m = "RADIO"]
mode_set(s, m) ==
  IF s.mode = m THEN s
  ELSE [s EXCEPT !.mode = m,
                 !.cron = IF m = "RADIO" THEN {"FLUSH", "HEARTBEAT"} ELSE {},
                 !.misses = IF m = "RADIO" THEN 0 ELSE @,
                 !.is_connected = m = "RADIO" \/ (@ /\ m = "MENU")]

-----------------------------------------------------------------------------
(* menu.c                                                                  *)

\* A value the Pi has to be asked for is asked for once.
query_source_unflagged(s) ==
  IF s.param_id \notin Queried \/ s.param_id \in s.sent \cup s.valid THEN s
  ELSE send_message(s, "QUERY_NUMBER", s.param_id, 0)
query_source(s) ==
  IF s.param_id \notin Queried \/ s.param_id \in s.sent \cup s.valid THEN s
  ELSE LET a == send_message(s, "QUERY_NUMBER", s.param_id, 0)
       IN  [a EXCEPT !.sent = @ \cup {s.param_id}]

set_param_range_kept(s, new_state) ==
  [s EXCEPT !.param_id_min = IF new_state = "APPLY" THEN "CANCEL"
                             ELSE IF s.is_connected THEN "POWER_OFF" ELSE "POWER_ON",
            !.param_id_max = IF new_state = "APPLY" THEN "APPLY"
                             ELSE IF s.is_connected THEN "REBOOT" ELSE "POWER_ON"]
set_param_range(s, new_state) ==
  LET low  == IF new_state = "APPLY" THEN "CANCEL"
              ELSE IF s.is_connected THEN "POWER_OFF" ELSE "POWER_ON"
      high == IF new_state = "APPLY" THEN "APPLY"
              ELSE IF s.is_connected THEN "REBOOT" ELSE "POWER_ON"
  IN  [s EXCEPT !.param_id_min = low, !.param_id_max = high,
                !.param_id = IF new_state = "VALUE" THEN @ ELSE low]

\* The state TAG shows the name that the Pi streams; on the way in and out the
\* flow of information is resumed and suspended.
set_state_leaky(s, new_state) ==
  LET a == IF s.state = "TAG" THEN mode_set(s, "MENU") ELSE s
  IN  [a EXCEPT !.state = new_state]
set_state(s, new_state) ==
  LET a == IF s.state = "TAG"
           THEN mode_set(drain_start(send_message(s, "SUSPEND", "", 0)), "MENU")
           ELSE IF new_state = "TAG"
           THEN mode_set(send_message(drain_stop(s), "RESUME", "", 0), "RADIO")
           ELSE s
      b == IF s.state \in {"IDLE", "APPLY"} /\ new_state \in {"PARAM", "VALUE"}
           THEN set_param_range(a, new_state)
           ELSE IF s.state \in {"PARAM", "VALUE"} /\ new_state = "APPLY"
           THEN set_param_range([a EXCEPT !.secondary_param = a.param_id],
                                new_state)
           ELSE a
  IN  IF s.state = new_state THEN s ELSE [b EXCEPT !.state = new_state]

Zero(x) == [v \in Values |-> IF v = "BRIGHTNESS" THEN x ELSE 0]

reset(s) ==
  [s EXCEPT !.backup_mode = "MENU", !.state = "IDLE",
            !.max = Zero(FLUSH_BRIGHTNESS_MAX), !.min = Zero(0),
            !.old = Zero(s.brightness), !.new = Zero(s.brightness),
            !.sent = {"BRIGHTNESS"}, !.valid = {"BRIGHTNESS"},
            !.param_id = "TRACK", !.secondary_param = "TRACK",
            !.tag_param = "TRACK", !.tag_value = 0, !.shown = "CANCEL"]

\* The menu opens: the mode is kept for the time when it closes.
start_forgets(s) ==
  drain_start(send_message(mode_set(reset(s), "MENU"), "SUSPEND", "", 0))
start(s) ==
  LET a == [reset(s) EXCEPT !.backup_mode = s.mode]
  IN  drain_start(send_message(mode_set(a, "MENU"), "SUSPEND", "", 0))

\* stop(), lines 293-297: the parameter the menu is closed with.
Chosen_last(s) == IF s.state = "IDLE" \/ (s.state = "APPLY" /\ s.param_id = "CANCEL")
                  THEN "CANCEL" ELSE s.param_id
Chosen(s) == IF s.state = "IDLE" \/ (s.state = "APPLY" /\ s.param_id = "CANCEL")
             THEN "CANCEL"
             ELSE IF s.state = "APPLY" THEN s.secondary_param ELSE s.param_id

\* stop(), lines 302-370, with get_sign_abs (as a signed number) and boot_pi.
Carried(s, p) ==
  LET Bright(b) == [s EXCEPT !.brightness = b]
      Set(q, n) == send_message(s, "PARAM_SET", q, n)
      Off(n)    == send_message(s, "POWEROFF", "", n)
      delta     == s.new[p] - s.old[p]
  IN  CASE p = "BRIGHTNESS"         -> Bright(s.new[p])
        [] p = "BRIGHTNESS_MIN"     -> Bright(0)
        [] p = "BRIGHTNESS_MIDDLE"  -> Bright(FLUSH_BRIGHTNESS_MIDDLE)
        [] p = "BRIGHTNESS_MAX"     -> Bright(FLUSH_BRIGHTNESS_MAX)
        [] p = "NEXT"               -> Set("TRACK", 1)
        [] p = "PREVIOUS"           -> Set("TRACK", -1)
        [] p = "PLAY"               -> Set("GO_AHEAD", 1)
        [] p = "STOP"               -> Set("GO_AHEAD", -1)
        [] p \in Queried            -> IF /\ p \in s.sent \cap s.valid
                                          /\ p = "PLAYLIST" => delta # 0
                                       THEN Set(p, delta) ELSE s
        [] p = "POWER_OFF"          -> Off(0)
        [] p = "POWER_OFF_15"       -> Off(15)
        [] p = "POWER_OFF_30"       -> Off(30)
        [] p = "POWER_ON"           -> [s EXCEPT !.wire = "low",
                                                 !.at = @ \cup {"BOOT"}]
        [] p = "REBOOT"             -> send_message(s, "REBOOT", "", 0)
        [] OTHER                    -> s

\* The menu closes, by its timer only.
Closing(s) == IF s.state = "TAG" THEN set_state(s, "VALUE") ELSE s
stop_mute(s) ==
  LET a == Closing(s)
      b == drain_stop(Carried(a, Chosen(a)))
  IN  reset(mode_set(b, b.backup_mode))
stop(s) ==
  LET a == Closing(s)
      b == drain_stop(Carried(a, Chosen(a)))
  IN  reset(send_message(mode_set(b, b.backup_mode), "RESUME", "", 0))

schedule_not(s) == [s EXCEPT !.at = @ \ {"MENU"}]
schedule(s) == [s EXCEPT !.at = @ \cup {"MENU"}]

tag_request(s) ==
  IF /\ s.state = "VALUE" /\ s.param_id = s.tag_param
     /\ s.tag_value = s.new[s.param_id]
  THEN send_message(s, "QUERY_NAME", s.param_id, s.tag_value) ELSE s

schedule_tag(s) ==
  IF s.state = "VALUE" /\ s.param_id \in {"PLAYLIST", "TRACK"}
  THEN [s EXCEPT !.tag_param = s.param_id, !.tag_value = s.new[s.param_id],
                 !.at = @ \cup {"TAG"}]
  ELSE s

\* select_param: one step in the enumeration, inside the range.
select_param(s, clockwise) ==
  LET i == Rank(s.param_id)
  IN  IF clockwise /\ i < Rank(s.param_id_max)
      THEN [s EXCEPT !.param_id = Params[i + 1]]
      ELSE IF ~clockwise /\ i > Rank(s.param_id_min)
      THEN [s EXCEPT !.param_id = Params[i - 1]]
      ELSE s

select_value(s, clockwise) ==
  LET p == s.param_id
  IN  IF p \notin Values \/ p \notin s.valid THEN s
      ELSE IF clockwise /\ s.new[p] < s.max[p]
      THEN [s EXCEPT !.new[p] = @ + 1]
      ELSE IF ~clockwise /\ s.new[p] > s.min[p]
      THEN [s EXCEPT !.new[p] = @ - 1]
      ELSE s

select_apply(s, clockwise) ==
  [s EXCEPT !.param_id = IF clockwise THEN "APPLY" ELSE "CANCEL"]

\* render: the label on the display; `shown' is the last one that is neither
\* "Apply" nor "Cancel", since the menu was opened.
render(s) == IF s.state = "IDLE" \/ s.param_id \in {"APPLY", "CANCEL"} THEN s
             ELSE [s EXCEPT !.shown = s.param_id]

rotor_to_state(id) == IF id \in {"APPLY", "PARAM"} THEN id ELSE "VALUE"
rotor_to_param(s, id) == IF s.is_connected THEN id ELSE "BRIGHTNESS"

\* menu_handle_rotor: the knob of the current state, or of another.
SameKnob(s, id, clockwise) ==
  IF s.state = "APPLY" THEN select_apply(s, clockwise)
  ELSE IF s.state = "PARAM" THEN select_param(s, clockwise)
  ELSE LET p == rotor_to_param(s, id)
           a == IF s.param_id # p
                THEN query_source([s EXCEPT !.param_id = p]) ELSE s
       IN  schedule_tag(select_value(a, clockwise))
OtherKnob(s, id, clockwise) ==
  LET rotor_state == rotor_to_state(id)
      a == set_state(IF s.state = "IDLE" THEN start(s) ELSE s, rotor_state)
  IN  IF rotor_state = "APPLY" THEN select_apply(a, clockwise)
      ELSE IF rotor_state = "PARAM" THEN select_param(a, clockwise)
      ELSE query_source(select_value([a EXCEPT !.param_id =
                                                  rotor_to_param(a, id)],
                                     clockwise))
menu_handle_rotor(s, id, clockwise) ==
  IF rotor_to_state(id) = "APPLY" /\ s.state = "IDLE" THEN s
  ELSE render(schedule(IF s.state = rotor_to_state(id)
                       THEN SameKnob(s, id, clockwise)
                       ELSE OtherKnob(s, id, clockwise)))

\* menu_parameter_value: whatever the state of the menu is.
menu_parameter_value(s, p, value, min, max) ==
  LET a == schedule([s EXCEPT !.old[p] = value, !.new[p] = value,
                              !.min[p] = min, !.max[p] = max,
                              !.valid = @ \cup {p}])
  IN  IF s.param_id = p THEN render(a) ELSE a

menu_parameter_name(s, p, id) ==
  IF p # s.param_id \/ p # s.tag_param \/ id # s.tag_value THEN s
  ELSE set_state(schedule(s), "TAG")

-----------------------------------------------------------------------------
(* heartbeat.c                                                             *)

heartbeat_confirm(s) == [s EXCEPT !.misses = 0]

Silent(s) == s.misses + 1 >= 1 + HB_MISS

verify(s) == LET a == [s EXCEPT !.misses = @ + 1]
             IN  IF Silent(s)
                 THEN mode_set([a EXCEPT !.cron = @ \ {"HEARTBEAT"}], "WATCH")
                 ELSE a

-----------------------------------------------------------------------------
\* main() before its loop: watch mode, the menu closed.
Booted ==
  [mode |-> "WATCH", is_connected |-> FALSE, cron |-> {}, misses |-> 0,
   drain |-> FALSE, brightness |-> 0, at |-> {}, wire |-> "free",
   backup_mode |-> "MENU", state |-> "IDLE",
   param_id |-> "TRACK", secondary_param |-> "TRACK",
   param_id_min |-> "BRIGHTNESS", param_id_max |-> "BRIGHTNESS",
   tag_param |-> "TRACK", tag_value |-> 0,
   sent |-> {"BRIGHTNESS"}, valid |-> {"BRIGHTNESS"},
   old |-> Zero(0), new |-> Zero(0),
   min |-> Zero(0), max |-> Zero(FLUSH_BRIGHTNESS_MAX),
   shown |-> "CANCEL", out |-> <<>>]

Init == /\ avr = Booted
        /\ asked = {} /\ named = {} /\ suspended = FALSE /\ linked = FALSE
        /\ met = {} /\ from = "IDLE"

\* A handler has run: the Pi gets its messages.
Result(s, asks, names) ==
  LET flow == {i \in DOMAIN s.out : s.out[i].id \in {"SUSPEND", "RESUME"}}
  IN  /\ avr' = [s EXCEPT !.out = <<>>]
      /\ asked' = asks \cup {m.param : m \in
                     {x \in ToSet(s.out) : x.id = "QUERY_NUMBER"}}
      /\ named' = names \cup {<<m.param, m.value>> : m \in
                     {x \in ToSet(s.out) : x.id = "QUERY_NAME"}}
      /\ suspended' = IF flow = {} THEN suspended
                      ELSE \E i \in flow : /\ \A j \in flow : j <= i
                                           /\ s.out[i].id = "SUSPEND"
      /\ from' = IF s.state = avr.state THEN from ELSE avr.state

\* A knob is turned by one step.
Rotor(id, clockwise) ==
  /\ Result(menu_handle_rotor(avr, id, clockwise), asked, named)
  /\ UNCHANGED <<linked, met>>

\* The timer of the menu.  Unless it may be "late", the Pi has answered before.
AtMenu ==
  /\ "MENU" \in avr.at
  /\ met' = met \cup (IF asked = {} /\ named = {} THEN {} ELSE {"late"})
  /\ met' \subseteq Hardships
  /\ Result([stop(avr) EXCEPT !.at = @ \ {"MENU"}], asked, named)
  /\ UNCHANGED linked

AtTag ==
  /\ "TAG" \in avr.at /\ Cardinality(named) < MaxNames
  /\ Result([tag_request(avr) EXCEPT !.at = @ \ {"TAG"}], asked, named)
  /\ UNCHANGED <<linked, met>>

\* release_wire.
AtBoot ==
  /\ "BOOT" \in avr.at
  /\ Result([avr EXCEPT !.wire = "free", !.at = @ \ {"BOOT"}], asked, named)
  /\ UNCHANGED <<linked, met>>

\* decode() of an answer to QUERY_NUMBER or QUERY_NAME.
Answer(p) ==
  /\ p \in asked
  /\ \E a \in Answers(p) :
       Result(menu_parameter_value(heartbeat_confirm(avr), p, a[1], a[2], a[3]),
              asked \ {p}, named)
  /\ UNCHANGED <<linked, met>>

AnswerName(q) ==
  /\ q \in named
  /\ Result(menu_parameter_name(heartbeat_confirm(avr), q[1], q[2]),
            asked, named \ {q})
  /\ UNCHANGED <<linked, met>>

\* The script failed or timed out: handle_status drops it.
NoAnswer ==
  /\ \/ \E p \in asked : asked' = asked \ {p} /\ UNCHANGED named
     \/ \E q \in named : named' = named \ {q} /\ UNCHANGED asked
  /\ UNCHANGED <<avr, suspended, linked, met, from>>

\* decode() of any other message of the Pi.
Confirm == /\ Result(heartbeat_confirm(avr), asked, named)
           /\ UNCHANGED <<linked, met>>

\* A new daemon on the Pi has seen VERSION and sends HANDSHAKE.
Handshake ==
  /\ met' = met \cup (IF avr.state = "IDLE" THEN {} ELSE {"handshake"})
  /\ met' \subseteq Hardships
  /\ avr' = mode_set(heartbeat_confirm(avr), "RADIO")
  /\ asked' = {} /\ named' = {} /\ suspended' = FALSE /\ linked' = TRUE
  /\ UNCHANGED from

HeartbeatVerify ==
  /\ "HEARTBEAT" \in avr.cron
  /\ Result(verify(avr), asked, named)
  /\ linked' = (linked /\ ~Silent(avr)) /\ UNCHANGED met

Next == \/ \E id \in Knobs, clockwise \in BOOLEAN : Rotor(id, clockwise)
        \/ AtMenu \/ AtTag \/ AtBoot
        \/ \E p \in Queried : Answer(p)
        \/ \E q \in named : AnswerName(q)
        \/ NoAnswer \/ Confirm \/ Handshake \/ HeartbeatVerify

Spec == Init /\ [][Next]_vars

-----------------------------------------------------------------------------
\* Values stay in the range the Pi gave, or where it put them (menu.c 452-457).
TypeOK ==
  /\ avr.mode \in {"MENU", "WATCH", "RADIO"}
  /\ avr.state \in {"IDLE", "PARAM", "VALUE", "TAG", "APPLY"}
  /\ \A v \in Values : avr.new[v] \in 0 .. (IF v = "BRIGHTNESS"
                                  THEN FLUSH_BRIGHTNESS_MAX ELSE MaxValue)
  /\ avr.misses \in 0 .. HB_MISS + 1
  /\ avr.brightness \in 0 .. FLUSH_BRIGHTNESS_MAX
  /\ avr.at \subseteq {"MENU", "TAG", "BOOT"}
  /\ {avr.param_id, avr.secondary_param, avr.shown} \subseteq ToSet(Params)
  /\ asked \subseteq Queried /\ suspended \in BOOLEAN /\ linked \in BOOLEAN

\* What the Pi sends is thrown away exactly while the menu covers the display:
\* not when it is closed, and not while it shows a name (STATE_TAG), whatever
\* the order of knobs, timers, answers, handshakes and silences.
DrainMatchesState == avr.drain = (avr.state \notin {"IDLE", "TAG"})

\* An open menu has its timer, so that it closes in the end.
OpenMenuTimesOut == avr.state # "IDLE" => "MENU" \in avr.at

\* A closed menu leaves the display to the watch or to the radio, unless an
\* answer came after it had closed.
IdleLeavesMenu ==
  "late" \notin met /\ avr.state = "IDLE" => avr.mode # "MENU"

\* While the menu is closed and the Pi counts as connected, the display shifts
\* and the heartbeat watches the Pi.
WatchedWhileConnected ==
  "late" \notin met /\ avr.is_connected /\ avr.state = "IDLE"
    => avr.cron = {"FLUSH", "HEARTBEAT"}

\* The Pi is not left suspended when the menu is closed.
NotLeftSuspended ==
  "handshake" \notin met /\ linked /\ avr.state = "IDLE" => ~suspended

\* Only silence ends a connection: neither the menu nor the answers do.
ConnectionKept == "handshake" \notin met /\ linked => avr.is_connected

\* A value that was changed and is on the display when the menu closes is sent
\* to the Pi; an answer to an earlier menu would make a value known that the
\* open menu never asked for, and stop() drops it.
KnobTakesEffect ==
  "late" \notin met => \A p \in Queried :
    /\ linked /\ avr.state \in {"VALUE", "TAG"} /\ avr.param_id = p
    /\ p \in avr.valid /\ avr.new[p] # avr.old[p]
    => Msg("PARAM_SET", p, avr.new[p] - avr.old[p]) \in ToSet(stop(avr).out)

\* menu.c, line 287, "exit from menu handling": whatever comes, a closed menu
\* has been left.
StopLeavesMenu == avr.state = "IDLE" => avr.mode # "MENU"

\* menu.c, line 462, "clockwise => apply, counter-clockwise cancel": what is
\* applied is what the display showed last.  The knob 'apply' saves the
\* selection when it is turned in PARAM or VALUE, and not while a name is shown;
\* a name that comes after the menu has closed opens it without a selection, and
\* with the list of the knob 'apply' for the knob that selects a parameter.
AppliesSelection ==
  "late" \notin met /\ avr.state # "IDLE" /\ ~(avr.state = "APPLY" /\ from = "TAG")
    => Chosen(Closing(avr)) \in {"CANCEL", avr.shown}

\* set_param_range and select_param: the knob of the list offers what can be
\* done in the mode the menu was opened in, unless another knob's value was
\* shown just before.
ListInRange ==
  avr.state = "PARAM" /\ from \notin {"VALUE", "TAG"} =>
    Rank(avr.param_id) \in Rank(avr.param_id_min) .. Rank(avr.param_id_max)
=============================================================================
