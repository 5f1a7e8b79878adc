--------------------------- MODULE SessionProofs ----------------------------
(***************************************************************************)
(* For every size of the display buffer, every credit and any number of    *)
(* messages under way: the stop-and-wait discipline of mcu_block_t and the *)
(* single slot of postpone.c never lose a status, never confuse two serial *)
(* numbers and never overrun the display buffer.                           *)
(***************************************************************************)
EXTENDS Session, SequenceTheorems, TLAPS

\* What the provers have to know of a message the daemon sends: it is a
\* message, the handshake is the one without a serial number, and an LED
\* array carries at most LED_ARRAY_SIZE columns.
LEMMA RequestFacts ==
  ASSUME NEW m \in Requests
  PROVE  /\ m \in Messages
         /\ m.serial \in 0 .. SerialMax
         /\ m.serial = SERIAL_ID_TO_IGNORE <=> m.id = MSG_ID_HANDSHAKE
         /\ m.id = MSG_ID_LED_ARRAY => Len(m.pay) \in 1 .. LED_ARRAY_SIZE
<1> USE SessionAssumption
<1>1. \A n \in Nat : Columns(n) \in Seq(Nat) /\ Len(Columns(n)) = n
  BY DEF Columns
<1>2. CASE m \in {Msg(s, MSG_ID_LED_ARRAY, Columns(n)) :
                    s \in Serials, n \in 1 .. LED_ARRAY_SIZE}
  <2>1. PICK s \in Serials, n \in 1 .. LED_ARRAY_SIZE :
          m = Msg(s, MSG_ID_LED_ARRAY, Columns(n))
    BY <1>2
  <2>2. m.serial = s /\ m.id = MSG_ID_LED_ARRAY /\ m.pay = Columns(n)
    BY <2>1 DEF Msg
  <2>3. Columns(n) \in Seq(Nat) /\ Len(Columns(n)) = n
    BY <1>1
  <2>4. m \in Messages
    BY <2>1, <2>3 DEF Msg, Messages, Serials, MSG_ID_LED_ARRAY
  <2> QED
    BY <2>2, <2>3, <2>4 DEF Serials, SERIAL_ID_TO_IGNORE, MSG_ID_LED_ARRAY,
                            MSG_ID_HANDSHAKE
<1>3. ASSUME NEW id \in {MSG_ID_SYNC_CLOCK, MSG_ID_QUERY_NAME},
             m \in {Msg(s, id, Columns(2)) : s \in Serials}
      PROVE  m \in Messages /\ m.serial \in Serials /\ m.id = id
  <2>1. PICK s \in Serials : m = Msg(s, id, Columns(2))
    BY <1>3
  <2>2. Columns(2) \in Seq(Nat)
    BY <1>1
  <2> QED
    BY <2>1, <2>2, <1>3 DEF Msg, Messages, Serials, MSG_ID_SYNC_CLOCK,
                            MSG_ID_QUERY_NAME
<1>4. CASE m = Msg(SERIAL_ID_TO_IGNORE, MSG_ID_HANDSHAKE, <<>>)
  <2>1. <<>> \in Seq(Nat)
    BY EmptySeq
  <2> QED
    BY <1>4, <2>1 DEF Msg, Messages, SERIAL_ID_TO_IGNORE, MSG_ID_HANDSHAKE,
                      MSG_ID_LED_ARRAY
<1> QED
  BY SMTT(60), <1>2, <1>3, <1>4 DEF Requests, Serials, SERIAL_ID_TO_IGNORE,
     MSG_ID_HANDSHAKE, MSG_ID_LED_ARRAY, MSG_ID_SYNC_CLOCK, MSG_ID_QUERY_NAME

\* Statuses, VERSION and the AVR's own notices are messages.
LEMMA AnswersAreMessages ==
  /\ \A serial, status, id \in Nat : StatusMsg(serial, status, id) \in Messages
  /\ VersionMsg \in Messages
  /\ Notes \subseteq Messages
<1>1. \A a, b \in Nat : <<a, b>> \in Seq(Nat)
  OBVIOUS
<1>2. <<PROTOCOL_VERSION>> \in Seq(Nat) /\ <<>> \in Seq(Nat)
  BY EmptySeq DEF PROTOCOL_VERSION
<1>3. \A serial, id \in Nat : \A pay \in Seq(Nat) :
        Msg(serial, id, pay) \in Messages
  BY DEF Msg, Messages
<1> QED
  BY <1>1, <1>2, <1>3 DEF StatusMsg, VersionMsg, Notes, MSG_ID_STATUS,
     MSG_ID_VERSION, MSG_ID_SUSPEND, SERIAL_ID_TO_IGNORE

\* Which messages of a queue have a serial number, after one is appended ...
LEMMA OwingAppend ==
  ASSUME NEW S, NEW q \in Seq(S), NEW m \in S
  PROVE  /\ Owing(Append(q, m))
              = Owing(q) \cup (IF m.serial = SERIAL_ID_TO_IGNORE
                               THEN {} ELSE {Len(q) + 1})
         /\ \A i \in Owing(q) : Append(q, m)[i] = q[i]
         /\ Append(q, m)[Len(q) + 1] = m
         /\ Len(q) + 1 \notin Owing(q)
<1>1. /\ Len(q) \in Nat
      /\ Len(Append(q, m)) = Len(q) + 1
      /\ \A i \in 1 .. Len(q) : Append(q, m)[i] = q[i]
      /\ Append(q, m)[Len(q) + 1] = m
  BY AppendProperties
<1>2. Owing(q) = {i \in 1 .. Len(q) : q[i].serial # SERIAL_ID_TO_IGNORE}
  BY DEF Owing
<1>3. Owing(Append(q, m)) = {i \in 1 .. Len(q) + 1 :
         Append(q, m)[i].serial # SERIAL_ID_TO_IGNORE}
  BY <1>1 DEF Owing
<1>4. ASSUME NEW i
      PROVE  i \in Owing(Append(q, m))
               <=> \/ i \in Owing(q)
                   \/ i = Len(q) + 1 /\ m.serial # SERIAL_ID_TO_IGNORE
  <2>1. CASE i \in 1 .. Len(q)
    BY <2>1, <1>1, <1>2, <1>3
  <2>2. CASE i = Len(q) + 1
    BY <2>2, <1>1, <1>2, <1>3
  <2>3. CASE i \notin 1 .. Len(q) + 1
    BY <2>3, <1>1, <1>2, <1>3
  <2> QED
    BY <2>1, <2>2, <2>3, <1>1
<1> QED
  BY <1>1, <1>2, <1>4

\* ... and after the first one is taken: the rest moves one place to the front.
LEMMA OwingTail ==
  ASSUME NEW S, NEW q \in Seq(S), q # <<>>
  PROVE  /\ \A i : i \in Owing(Tail(q))
                     <=> i \in 1 .. Len(q) - 1 /\ i + 1 \in Owing(q)
         /\ \A i \in Owing(Tail(q)) : Tail(q)[i] = q[i + 1]
         /\ 1 \in Owing(q) <=> Head(q).serial # SERIAL_ID_TO_IGNORE
         /\ Head(q) = q[1] /\ Head(q) \in S /\ Tail(q) \in Seq(S)
         /\ Owing(q) \subseteq 1 .. Len(q) /\ Len(q) \in Nat
<1>1. /\ Len(q) \in Nat \ {0}
      /\ Len(Tail(q)) = Len(q) - 1
      /\ \A i \in 1 .. Len(q) - 1 : Tail(q)[i] = q[i + 1]
      /\ Head(q) = q[1] /\ Head(q) \in S /\ Tail(q) \in Seq(S)
  BY HeadTailProperties, EmptySeq
<1> QED
  BY <1>1 DEF Owing

-----------------------------------------------------------------------------
\* The credit, stated where it is granted: while no status is owed, a full LED
\* array and the overhead fit in the display buffer.
Credit == slot = <<>> => shift + ENOUGH_SPACE <= ShiftSize

IInv == TypeOK /\ NoMismatch /\ OneUnderWay /\ Credit

\* The empty exchange satisfies it: VERSION alone is under way.
LEMMA InitIInv == Init => IInv
<1> SUFFICES ASSUME Init PROVE IInv
  OBVIOUS
<1> USE SessionAssumption
<1>1. <<>> \in Seq(Requests) /\ <<>> \in Seq(Messages) /\ Len(<<>>) = 0
  BY EmptySeq
<1>2. <<VersionMsg>> \in Seq(Messages) /\ Len(<<VersionMsg>>) = 1
      /\ <<VersionMsg>>[1] = VersionMsg
  BY AnswersAreMessages
<1>3. VersionMsg.serial = SERIAL_ID_TO_IGNORE
  BY DEF VersionMsg, Msg
<1>4. Owing(down) = {} /\ Owing(up) = {} /\ slot = <<>>
  BY <1>1, <1>2, <1>3 DEF Init, Owing
<1>5. pending \in 0 .. SerialMax /\ shift \in 0 .. ShiftSize
  BY DEF Init, SERIAL_ID_TO_IGNORE
<1>8. drain \in BOOLEAN /\ radio \in BOOLEAN /\ failed \in BOOLEAN
  BY Zenon DEF Init
<1>6. /\ down \in Seq(Requests) /\ up \in Seq(Messages)
      /\ slot \in Seq(Messages) /\ Len(slot) = 0
  BY <1>1, <1>2, Zenon DEF Init
<1>7. TypeOK
  BY <1>5, <1>6, <1>8 DEF TypeOK
<1> QED
  BY <1>4, <1>7 DEF Init, IInv, NoMismatch, OneUnderWay, Credit, is_engaged,
     ENOUGH_SPACE, SERIAL_ID_TO_IGNORE

\* Types, one action at a time.
LEMMA TypeStep == TypeOK /\ [Next]_vars => TypeOK'
<1> SUFFICES ASSUME TypeOK, [Next]_vars PROVE TypeOK'
  OBVIOUS
<1> USE SessionAssumption DEF TypeOK
<1>a. <<>> \in Seq(Messages) /\ Len(<<>>) = 0
  BY EmptySeq
<1>1. ASSUME NEW m \in Requests, Send(m) PROVE TypeOK'
  <2>1. m.serial \in 0 .. SerialMax
    BY RequestFacts
  <2>2. Append(down, m) \in Seq(Requests)
    BY AppendProperties
  <2> QED
    BY <1>1, <2>1, <2>2 DEF Send
<1>2. CASE Receive
  <2>1. Tail(up) \in Seq(Messages)
    BY <1>2, OwingTail DEF Receive
  <2> QED
    BY <1>2, <2>1 DEF Receive, SERIAL_ID_TO_IGNORE
<1>3. ASSUME down # <<>>
      PROVE  /\ Tail(down) \in Seq(Requests)
             /\ Head(down) \in Requests /\ Head(down) \in Messages
             /\ Head(down).serial \in Nat /\ Head(down).id \in Nat
             /\ Head(down).id = MSG_ID_LED_ARRAY => Len(Head(down).pay) \in Nat
  <2>1. Tail(down) \in Seq(Requests) /\ Head(down) \in Requests
    BY <1>3, OwingTail
  <2>2. Head(down) \in Messages
    BY <2>1, RequestFacts
  <2>3. Len(Head(down).pay) \in Nat
    BY <2>2, LenProperties DEF Messages
  <2> QED
    BY <2>1, <2>2, <2>3 DEF Messages
<1>4. ASSUME NEW msg \in Messages, Postpone(msg)
      PROVE  slot' \in Seq(Messages) /\ Len(slot') <= 1
  <2>1. <<msg>> \in Seq(Messages) /\ Len(<<msg>>) = 1
    OBVIOUS
  <2> QED
    BY <1>4, <2>1 DEF Postpone
<1>5. CASE DecodeLed
  <2>1. down # <<>> /\ Head(down).id = MSG_ID_LED_ARRAY
    BY <1>5 DEF DecodeLed
  <2> DEFINE fits == Len(Head(down).pay) <= ShiftSize - shift
             msg  == StatusMsg(Head(down).serial,
                               IF drain \/ fits THEN STATUS_SUCCESS
                                                ELSE STATUS_FAIL, Head(down).id)
  <2>2. msg \in Messages
    BY <2>1, <1>3, AnswersAreMessages DEF STATUS_SUCCESS, STATUS_FAIL
  <2>3. shift' \in 0 .. ShiftSize
    BY <1>5, <2>1, <1>3 DEF DecodeLed
  <2>4. Postpone(msg)
    BY <1>5 DEF DecodeLed
  <2>5. slot' \in Seq(Messages) /\ Len(slot') <= 1
    BY <2>2, <2>4, <1>4
  <2>6. down' \in Seq(Requests)
    BY <1>5, <2>1, <1>3 DEF DecodeLed
  <2> QED
    BY <1>5, <2>3, <2>5, <2>6 DEF DecodeLed
<1>6. ASSUME NEW status \in {STATUS_SUCCESS, STATUS_FAIL}, DecodeOther(status)
      PROVE  TypeOK'
  <2>1. down # <<>>
    BY <1>6 DEF DecodeOther
  <2> DEFINE msg == StatusMsg(Head(down).serial, status, Head(down).id)
  <2>2. msg \in Messages
    BY <2>1, <1>3, AnswersAreMessages DEF STATUS_SUCCESS, STATUS_FAIL
  <2>3. Postpone(msg)
    BY <1>6 DEF DecodeOther
  <2>4. slot' \in Seq(Messages) /\ Len(slot') <= 1
    BY <2>2, <2>3, <1>4
  <2>5. down' \in Seq(Requests)
    BY <1>6, <2>1, <1>3 DEF DecodeOther
  <2> QED
    BY <1>6, <2>4, <2>5 DEF DecodeOther
<1>7. CASE DecodeHandshake
  <2>1. radio' \in BOOLEAN
    BY <1>7, Zenon DEF DecodeHandshake
  <2> QED
    BY <1>7, <1>3, <2>1 DEF DecodeHandshake
<1>8. CASE PostponeTry
  <2>1. slot[1] \in Messages
    BY <1>8, OwingTail DEF PostponeTry
  <2>2. Append(up, slot[1]) \in Seq(Messages)
    BY <2>1, AppendProperties
  <2> QED
    BY <1>8, <1>a, <2>2 DEF PostponeTry
<1>9. ASSUME NEW m \in Notes, Notify(m) PROVE TypeOK'
  <2>1. Append(up, m) \in Seq(Messages)
    BY AnswersAreMessages, AppendProperties
  <2> QED
    BY <1>9, <2>1 DEF Notify
<1>10. CASE ShiftDisplay
  BY <1>10 DEF ShiftDisplay
<1>12. CASE DrainStart
  <2>1. shift' \in 0 .. ShiftSize
    BY <1>12 DEF DrainStart
  <2>2. drain' \in BOOLEAN /\ radio' \in BOOLEAN
    BY <1>12, Zenon DEF DrainStart
  <2> QED
    BY <1>12, <2>1, <2>2 DEF DrainStart
<1>13. CASE DrainStop
  <2>1. drain' \in BOOLEAN /\ radio' \in BOOLEAN
    BY <1>13, Zenon DEF DrainStop
  <2> QED
    BY <1>13, <2>1 DEF DrainStop
<1>14. CASE SwitchToWatch
  <2>1. radio' \in BOOLEAN
    BY <1>14, Zenon DEF SwitchToWatch
  <2> QED
    BY <1>14, <2>1 DEF SwitchToWatch
<1>11. CASE UNCHANGED vars
  BY <1>11 DEF vars
<1> QED
  BY <1>1, <1>2, <1>5, <1>6, <1>7, <1>8, <1>9, <1>10, <1>11, <1>12, <1>13,
     <1>14 DEF Next

\* One step keeps a single message with a serial number in the exchange, or
\* none, and the credit with it.
LEMMA OneUnderWayStep == IInv /\ [Next]_vars => IInv'
<1> SUFFICES ASSUME IInv, [Next]_vars PROVE IInv'
  OBVIOUS
<1> USE SessionAssumption DEF IInv
<1>a. TypeOK'
  BY TypeStep
<1>b. ENOUGH_SPACE \in Nat /\ LED_ARRAY_SIZE <= ENOUGH_SPACE
  BY DEF ENOUGH_SPACE
<1>c. \A i \in 1 .. Len(down) : down[i] \in Requests
  BY ElementOfSeq DEF TypeOK
<1> DEFINE Rest == OneUnderWay /\ NoMismatch /\ Credit
<1> SUFFICES Rest'
  BY <1>a
<1>1. ASSUME NEW m \in Requests, Send(m) PROVE Rest'
  <2>1. Owing(down) = {} /\ Owing(up) = {} /\ slot = <<>>
    <3>1. ~is_engaged
      BY <1>1 DEF Send
    <3>2. \A i \in Owing(down) : down[i].serial # SERIAL_ID_TO_IGNORE
      BY DEF Owing
    <3>3. \A i \in Owing(up) : up[i].serial # SERIAL_ID_TO_IGNORE
      BY DEF Owing
    <3> QED
      BY <3>1, <3>2, <3>3 DEF OneUnderWay, is_engaged
  <2>2. /\ Owing(down') = IF m.serial = SERIAL_ID_TO_IGNORE
                          THEN {} ELSE {Len(down) + 1}
        /\ down'[Len(down) + 1] = m
    BY <1>1, <2>1, OwingAppend DEF Send, TypeOK
  <2>3. slot' = slot /\ up' = up /\ pending' = m.serial
    BY <1>1 DEF Send
  <2>4. Owing(up') = {}
    BY <2>1, <2>3
  <2>5. OneUnderWay'
    BY <2>1, <2>2, <2>3, <2>4 DEF OneUnderWay, is_engaged
  <2> QED
    BY <1>1, <2>5 DEF Send, NoMismatch, Credit
<1>2. CASE Receive
  <2>1. /\ \A i : i \in Owing(up')
                  <=> i \in 1 .. Len(up) - 1 /\ i + 1 \in Owing(up)
        /\ \A i \in Owing(up') : up'[i] = up[i + 1]
        /\ 1 \in Owing(up) <=> Head(up).serial # SERIAL_ID_TO_IGNORE
        /\ Head(up) = up[1] /\ Len(up) \in Nat /\ Owing(up) \subseteq 1 .. Len(up)
    BY <1>2, OwingTail DEF Receive, TypeOK
  <2>2. down' = down /\ slot' = slot /\ shift' = shift
    BY <1>2 DEF Receive
  <2>3. CASE Head(up).serial = SERIAL_ID_TO_IGNORE
    <3>1. pending' = pending /\ ~failed'
      BY <1>2, <2>3 DEF Receive
    <3>2. \A i \in Owing(up) : i - 1 \in Owing(up') /\ i \in Nat
      BY <2>1, <2>3
    <3>3. \A i \in Owing(up') : i + 1 \in Owing(up) /\ i \in Nat
      BY <2>1
    <3>4. \A i \in Owing(up') : /\ up'[i].serial = pending'
                                /\ slot' = <<>> /\ Owing(down') = {}
      BY <2>1, <2>2, <3>1, <3>3 DEF OneUnderWay
    <3>5. \A i, j \in Owing(up') : i = j
      <4> TAKE i, j \in Owing(up')
      <4>1. i + 1 \in Owing(up) /\ j + 1 \in Owing(up) /\ i \in Nat /\ j \in Nat
        BY <3>3
      <4>2. Owing(up) = {i + 1}
        BY <4>1 DEF OneUnderWay
      <4> QED
        BY <4>1, <4>2
    <3>6. Owing(up') = {} <=> Owing(up) = {}
      BY <3>2, <3>3
    <3>7. OneUnderWay'
      BY <2>2, <3>1, <3>4, <3>5, <3>6 DEF OneUnderWay, is_engaged
    <3> QED
      BY <3>1, <3>7, <2>2 DEF NoMismatch, Credit
  <2>4. CASE Head(up).serial # SERIAL_ID_TO_IGNORE
    <3>1. /\ Owing(up) = {1} /\ Head(up).serial = pending
          /\ slot = <<>> /\ Owing(down) = {}
      BY <2>1, <2>4 DEF OneUnderWay
    <3>2. Owing(up') = {}
      BY <2>1, <3>1
    <3>3. pending' = SERIAL_ID_TO_IGNORE /\ ~failed'
      BY <1>2, <3>1 DEF Receive
    <3>4. OneUnderWay'
      BY <2>2, <3>1, <3>2, <3>3 DEF OneUnderWay, is_engaged
    <3> QED
      BY <2>2, <3>3, <3>4 DEF NoMismatch, Credit
  <2> QED
    BY <2>3, <2>4
\* Decoding a message with a serial number moves it from `down' to the slot.
<1>3. ASSUME NEW status, NEW id,
             down # <<>>, Head(down).id # MSG_ID_HANDSHAKE,
             down' = Tail(down), up' = up, pending' = pending, failed' = failed,
             Postpone(StatusMsg(Head(down).serial, status, id))
      PROVE  Rest'
  <2>1. /\ \A i : i \in Owing(down')
                  <=> i \in 1 .. Len(down) - 1 /\ i + 1 \in Owing(down)
        /\ 1 \in Owing(down) <=> Head(down).serial # SERIAL_ID_TO_IGNORE
        /\ Head(down) = down[1] /\ Head(down) \in Requests
    BY <1>3, OwingTail DEF TypeOK
  <2>2. Head(down).serial # SERIAL_ID_TO_IGNORE
    BY <1>3, <2>1, RequestFacts
  <2>3. /\ Owing(down) = {1} /\ Head(down).serial = pending
        /\ slot = <<>> /\ Owing(up) = {}
    BY <2>1, <2>2 DEF OneUnderWay
  <2>4. Owing(down') = {}
    BY <2>1, <2>3
  <2>5. slot' = <<StatusMsg(Head(down).serial, status, id)>>
    BY <1>3, <2>3 DEF Postpone
  <2>6. slot' # <<>> /\ slot'[1].serial = pending'
    BY <1>3, <2>3, <2>5 DEF StatusMsg, Msg
  <2>7. Owing(up') = {} /\ pending' # SERIAL_ID_TO_IGNORE
    BY <1>3, <2>2, <2>3
  <2>8. OneUnderWay'
    BY <2>4, <2>6, <2>7 DEF OneUnderWay, is_engaged
  <2> QED
    BY <1>3, <2>6, <2>8 DEF NoMismatch, Credit
<1>4. CASE DecodeLed
  BY <1>4, <1>3 DEF DecodeLed, MSG_ID_LED_ARRAY, MSG_ID_HANDSHAKE
<1>5. ASSUME NEW status \in {STATUS_SUCCESS, STATUS_FAIL}, DecodeOther(status)
      PROVE  Rest'
  BY <1>5, <1>3 DEF DecodeOther, MSG_ID_SYNC_CLOCK, MSG_ID_QUERY_NAME,
     MSG_ID_QUERY_NUMBER, MSG_ID_HANDSHAKE
\* The handshake has no serial number: the others move one place forward.
<1>6. CASE DecodeHandshake
  <2>1. /\ \A i : i \in Owing(down')
                  <=> i \in 1 .. Len(down) - 1 /\ i + 1 \in Owing(down)
        /\ \A i \in Owing(down') : down'[i] = down[i + 1]
        /\ 1 \in Owing(down) <=> Head(down).serial # SERIAL_ID_TO_IGNORE
        /\ Head(down) = down[1] /\ Head(down) \in Requests
        /\ Len(down) \in Nat /\ Owing(down) \subseteq 1 .. Len(down)
    BY <1>6, OwingTail DEF DecodeHandshake, TypeOK
  <2>2. 1 \notin Owing(down)
    BY <1>6, <2>1, RequestFacts DEF DecodeHandshake
  <2>3. /\ up' = up /\ slot' = slot /\ shift' = shift
        /\ pending' = pending /\ failed' = failed
    BY <1>6 DEF DecodeHandshake
  <2>4. \A i \in Owing(down) : i - 1 \in Owing(down') /\ i \in Nat
    BY <2>1, <2>2
  <2>5. \A i \in Owing(down') : i + 1 \in Owing(down) /\ i \in Nat
    BY <2>1
  <2>6. \A i \in Owing(down') : /\ down'[i].serial = pending'
                                /\ slot' = <<>> /\ Owing(up') = {}
    BY <2>1, <2>3, <2>5 DEF OneUnderWay
  <2>7. \A i, j \in Owing(down') : i = j
    <3> TAKE i, j \in Owing(down')
    <3>1. i + 1 \in Owing(down) /\ j + 1 \in Owing(down) /\ i \in Nat /\ j \in Nat
      BY <2>5
    <3>2. Owing(down) = {i + 1}
      BY <3>1 DEF OneUnderWay
    <3> QED
      BY <3>1, <3>2
  <2>8. Owing(down') = {} <=> Owing(down) = {}
    BY <2>4, <2>5
  <2>9. OneUnderWay'
    BY <2>3, <2>6, <2>7, <2>8 DEF OneUnderWay, is_engaged
  <2> QED
    BY <2>3, <2>9 DEF NoMismatch, Credit
\* The slot is emptied into `up', and only with credit.
<1>7. CASE PostponeTry
  <2>1. /\ slot # <<>> /\ shift + ENOUGH_SPACE <= ShiftSize
        /\ up' = Append(up, slot[1]) /\ slot' = <<>>
        /\ pending' = pending /\ down' = down /\ shift' = shift
        /\ failed' = failed
    BY <1>7, <1>b DEF PostponeTry, TypeOK
  <2>2. /\ slot[1].serial = pending /\ is_engaged
        /\ Owing(down) = {} /\ Owing(up) = {}
    BY <2>1 DEF OneUnderWay
  <2>3. slot[1] \in Messages
    BY <2>1, OwingTail DEF TypeOK
  <2>4. Owing(up') = {Len(up) + 1} /\ up'[Len(up) + 1] = slot[1]
    BY <2>1, <2>2, <2>3, OwingAppend DEF TypeOK, is_engaged
  <2>5. OneUnderWay'
    BY <2>1, <2>2, <2>4 DEF OneUnderWay, is_engaged
  <2> QED
    BY <2>1, <2>5 DEF NoMismatch, Credit
\* A notice has no serial number.
<1>8. ASSUME NEW m \in Notes, Notify(m) PROVE Rest'
  <2>1. m.serial = SERIAL_ID_TO_IGNORE /\ m \in Messages
    BY AnswersAreMessages DEF Notes, Msg
  <2>a. up' = Append(up, m) /\ up \in Seq(Messages)
    BY <1>8 DEF Notify, TypeOK
  <2>2. Owing(up') = Owing(up) /\ \A i \in Owing(up) : up'[i] = up[i]
    <3>1. Owing(Append(up, m)) = Owing(up) \cup {}
      BY <2>1, <2>a, OwingAppend
    <3>2. \A i \in Owing(up) : Append(up, m)[i] = up[i]
      BY ZenonT(60), <2>1, <2>a, OwingAppend
    <3> QED
      BY <2>a, <3>1, <3>2
  <2>3. OneUnderWay'
    BY <1>8, <2>2 DEF Notify, OneUnderWay, is_engaged
  <2> QED
    BY <1>8, <2>3 DEF Notify, NoMismatch, Credit
\* The display and the menu can only give credit back.
<1>9. CASE ShiftDisplay \/ DrainStart \/ DrainStop \/ SwitchToWatch
  <2>1. /\ pending' = pending /\ down' = down /\ slot' = slot /\ up' = up
        /\ failed' = failed
    BY <1>9 DEF ShiftDisplay, DrainStart, DrainStop, SwitchToWatch
  <2>2. shift' <= shift
    BY <1>9 DEF ShiftDisplay, DrainStart, DrainStop, SwitchToWatch, TypeOK
  <2>3. OneUnderWay'
    BY <2>1 DEF OneUnderWay, is_engaged
  <2> QED
    <3>1. shift \in Int /\ shift' \in Int /\ ShiftSize \in Int
      BY <1>a DEF TypeOK
    <3>2. shift + ENOUGH_SPACE <= ShiftSize => shift' + ENOUGH_SPACE <= ShiftSize
      <4>1. \A a, b, c, d \in Int : a <= b /\ b + c <= d => a + c <= d
        OBVIOUS
      <4>2. ENOUGH_SPACE \in Int
        BY <1>b
      <4> QED
        BY <2>2, <3>1, <4>1, <4>2
    <3>3. Credit'
      BY <2>1, <3>2 DEF Credit
    <3> QED
      BY <2>1, <2>3, <3>3 DEF NoMismatch
<1>10. CASE UNCHANGED vars
  <2>1. OneUnderWay'
    BY <1>10 DEF vars, OneUnderWay, is_engaged
  <2> QED
    BY <1>10, <2>1 DEF vars, NoMismatch, Credit
<1> QED
  BY <1>a, <1>1, <1>2, <1>4, <1>5, <1>6, <1>7, <1>8, <1>9, <1>10 DEF Next

\* What the daemon and the AVR rely on follows from the invariant.
LEMMA IInvImplies == IInv => NoMismatch /\ StatusNeverDropped /\ CreditKept
                             /\ OneUnderWay
<1> SUFFICES ASSUME IInv PROVE StatusNeverDropped /\ CreditKept
  BY DEF IInv
<1> USE SessionAssumption DEF IInv
<1>1. \A i \in 1 .. Len(down) : down[i] \in Requests
  BY ElementOfSeq DEF TypeOK
<1>2. StatusNeverDropped
  BY DEF StatusNeverDropped, OneUnderWay, Owing
<1>3. ASSUME NEW i \in 1 .. Len(down), down[i].id = MSG_ID_LED_ARRAY
      PROVE  shift + Len(down[i].pay) + MSG_OVERHEAD <= ShiftSize
  <2>1. /\ down[i].serial # SERIAL_ID_TO_IGNORE
        /\ Len(down[i].pay) \in 1 .. LED_ARRAY_SIZE
    BY <1>1, <1>3, RequestFacts DEF MSG_ID_LED_ARRAY, MSG_ID_HANDSHAKE
  <2>2. slot = <<>>
    BY <2>1 DEF OneUnderWay, Owing
  <2> QED
    BY <2>1, <2>2 DEF Credit, ENOUGH_SPACE, TypeOK
<1> QED
  BY <1>2, <1>3 DEF CreditKept

\* The exchange is safe for every capacity and any number of messages: the
\* daemon never throws "id mismatch", the AVR never drops a status it owes,
\* and no LED array overruns the display buffer.
THEOREM SessionSafe ==
  Spec => [](NoMismatch /\ StatusNeverDropped /\ CreditKept /\ OneUnderWay)
BY InitIInv, OneUnderWayStep, IInvImplies, PTL DEF Spec

\* No message of the daemon or of the AVR is of a type the link does not carry.
THEOREM SessionTypeCorrect == Spec => []TypeOK
<1>1. Init => TypeOK
  BY InitIInv DEF IInv
<1> QED
  BY <1>1, TypeStep, PTL DEF Spec

\* postpone_message never finds the slot taken by a status when another one is
\* on its way to be owed: its early return (postpone.c:66) loses nothing.
THEOREM NoStatusDropped == Spec => []StatusNeverDropped
BY SessionSafe, PTL

\* Whatever LED array the daemon has sent, the display buffer takes it when it
\* is decoded and keeps MSG_OVERHEAD slots free: the credit of postpone_try
\* bounds the ring of flush.c.
THEOREM CreditNeverOverrun == Spec => []CreditKept
BY SessionSafe, PTL

\* A request of the daemon or the answer to it exists once, in one of the three
\* places, exactly while mcu_block_t is engaged.
THEOREM RequestUnderWayOnce == Spec => []OneUnderWay
BY SessionSafe, PTL
=============================================================================
