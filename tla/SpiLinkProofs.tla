--------------------------- MODULE SpiLinkProofs ---------------------------
(***************************************************************************)
(* For rings of any size, any number of messages, notices and provocations:*)
(* what the two threads, the interrupt line and the AVR's interrupt rely   *)
(* on.                                                                     *)
(***************************************************************************)
EXTENDS SpiLink, SequenceTheorems, WellFoundedInduction, TLAPS

\* A non-empty set of natural numbers has a least element.
LEMMA Least ==
  ASSUME NEW T, T \subseteq Nat, T # {}
  PROVE  \E n \in T : \A k \in T : n <= k
<1> DEFINE R == OpToRel(<, Nat)
<1>1. IsWellFoundedOn(R, Nat)
  BY NatLessThanWellFounded
<1>2. PICK n \in T : \A k \in T : <<k, n>> \notin R
  <2> HIDE DEF R
  <2> QED BY <1>1, WFMin
<1>3. \A k \in T : ~(k < n)
  BY <1>2 DEF OpToRel
<1> QED
  BY <1>3

\* Induction, for a set instead of a predicate.
LEMMA Induction ==
  ASSUME NEW T, 0 \in T, \A k \in Nat : k \in T => k + 1 \in T
  PROVE  Nat \subseteq T
<1> DEFINE U == Nat \ T
<1> SUFFICES ASSUME U # {} PROVE FALSE
  OBVIOUS
<1>1. PICK n \in U : \A k \in U : n <= k
  <2>1. U \subseteq Nat
    OBVIOUS
  <2> HIDE DEF U
  <2> QED BY <2>1, Least
<1>2. n \in Nat /\ n # 0 /\ n - 1 \in Nat /\ n - 1 \notin U
  BY <1>1
<1> QED
  BY <1>1, <1>2

\* Bytes one after another: their number, each of them, and how they are cut.
LEMMA CatType ==
  ASSUME NEW s \in Seq(Nat), NEW t \in Seq(Nat)
  PROVE  s \o t \in Seq(Nat) /\ Len(s \o t) = Len(s) + Len(t)
  BY ConcatProperties

LEMMA CatLeft ==
  ASSUME NEW s \in Seq(Nat), NEW t \in Seq(Nat), NEW i \in 1 .. Len(s)
  PROVE  (s \o t)[i] = s[i]
<1>1. Len(s) \in Nat /\ Len(t) \in Nat
  OBVIOUS
<1>2. \A k \in 1 .. Len(s) + Len(t) :
        (s \o t)[k] = IF k <= Len(s) THEN s[k] ELSE t[k - Len(s)]
  BY ConcatProperties
<1> QED
  BY <1>1, <1>2

LEMMA CatRight ==
  ASSUME NEW s \in Seq(Nat), NEW t \in Seq(Nat), NEW i \in 1 .. Len(t)
  PROVE  (s \o t)[Len(s) + i] = t[i]
<1>1. Len(s) \in Nat /\ Len(t) \in Nat
  OBVIOUS
<1>2. \A k \in 1 .. Len(s) + Len(t) :
        (s \o t)[k] = IF k <= Len(s) THEN s[k] ELSE t[k - Len(s)]
  BY ConcatProperties
<1>3. Len(s) + i \in 1 .. Len(s) + Len(t) /\ ~(Len(s) + i <= Len(s))
      /\ (Len(s) + i) - Len(s) = i
  BY <1>1
<1> QED
  BY <1>2, <1>3

\* The bytes of s after the first n.
Drop(s, n) == SubSeq(s, n + 1, Len(s))

LEMMA DropFacts ==
  ASSUME NEW s \in Seq(Nat), NEW n \in 0 .. Len(s)
  PROVE  /\ Drop(s, n) \in Seq(Nat) /\ Len(Drop(s, n)) = Len(s) - n
         /\ \A i \in 1 .. Len(s) - n : Drop(s, n)[i] = s[n + i]
<1> DEFINE t == SubSeq(s, n + 1, Len(s))
<1>1. Len(s) \in Nat
  OBVIOUS
<1>2. \A i \in n + 1 .. Len(s) : s[i] \in Nat
  BY <1>1, ElementOfSeq
<1>3. /\ t \in Seq(Nat)
      /\ Len(t) = IF n + 1 <= Len(s) THEN Len(s) - (n + 1) + 1 ELSE 0
      /\ \A i \in 1 .. Len(s) - (n + 1) + 1 : t[i] = s[(n + 1) + i - 1]
  BY <1>1, <1>2, SubSeqProperties
<1> HIDE DEF t
<1>4. Len(s) - (n + 1) + 1 = Len(s) - n
      /\ \A i \in 1 .. Len(s) - n : (n + 1) + i - 1 = n + i
  BY <1>1
<1>5. t \in Seq(Nat) /\ Len(t) = Len(s) - n
  BY <1>1, <1>3
<1>6. \A i \in 1 .. Len(s) - n : t[i] = s[n + i]
  BY <1>3, <1>4
<1> QED
  BY <1>5, <1>6 DEF t, Drop

LEMMA DropCat ==
  ASSUME NEW s \in Seq(Nat), NEW t \in Seq(Nat)
  PROVE  Drop(s \o t, Len(s)) = t
<1>1. Len(s) \in Nat /\ Len(t) \in Nat
  OBVIOUS
<1> DEFINE u == s \o t
<1>2. u \in Seq(Nat) /\ Len(u) = Len(s) + Len(t)
  BY CatType
<1>3. \A i \in 1 .. Len(t) : u[Len(s) + i] = t[i]
  BY CatRight
<1> HIDE DEF u
<1>4. /\ Drop(u, Len(s)) \in Seq(Nat) /\ Len(Drop(u, Len(s))) = Len(u) - Len(s)
      /\ \A i \in 1 .. Len(u) - Len(s) : Drop(u, Len(s))[i] = u[Len(s) + i]
  <2>1. Len(s) \in 0 .. Len(u)
    BY <1>1, <1>2
  <2> QED BY <1>2, <2>1, DropFacts
<1>5. Len(u) - Len(s) = Len(t)
  BY <1>1, <1>2
<1>6. Drop(u, Len(s)) = t
  BY <1>3, <1>4, <1>5, SeqEqual
<1> QED
  BY <1>6 DEF u

LEMMA DropOfCat ==
  ASSUME NEW s \in Seq(Nat), NEW t \in Seq(Nat), NEW n \in 0 .. Len(s)
  PROVE  Drop(s \o t, n) = Drop(s, n) \o t
<1>1. Len(s) \in Nat /\ Len(t) \in Nat
  OBVIOUS
<1> DEFINE u == s \o t
           d == Drop(s, n)
           e == d \o t
<1>2. u \in Seq(Nat) /\ Len(u) = Len(s) + Len(t)
  BY CatType
<1>3. \A i \in 1 .. Len(s) : u[i] = s[i]
  BY CatLeft
<1>4. \A i \in 1 .. Len(t) : u[Len(s) + i] = t[i]
  BY CatRight
<1> HIDE DEF u
<1>5. d \in Seq(Nat) /\ Len(d) = Len(s) - n /\ \A i \in 1 .. Len(s) - n : d[i] = s[n + i]
  BY DropFacts
<1> HIDE DEF d
<1>6. e \in Seq(Nat) /\ Len(e) = Len(d) + Len(t)
  BY <1>5, CatType
<1>7. \A i \in 1 .. Len(d) : e[i] = d[i]
  BY <1>5, CatLeft
<1>8. \A i \in 1 .. Len(t) : e[Len(d) + i] = t[i]
  BY <1>5, CatRight
<1> HIDE DEF e
<1>9. n \in 0 .. Len(u)
  BY <1>1, <1>2
<1>10. /\ Drop(u, n) \in Seq(Nat) /\ Len(Drop(u, n)) = Len(u) - n
       /\ \A i \in 1 .. Len(u) - n : Drop(u, n)[i] = u[n + i]
  BY <1>2, <1>9, DropFacts
<1>11. Len(Drop(u, n)) = Len(e)
  BY <1>1, <1>2, <1>5, <1>6, <1>10
<1>12. ASSUME NEW i \in 1 .. Len(Drop(u, n)) PROVE Drop(u, n)[i] = e[i]
  <2>1. i \in 1 .. Len(u) - n
    BY <1>10
  <2>2. Drop(u, n)[i] = u[n + i]
    BY <1>10, <2>1
  <2>3. CASE i <= Len(s) - n
    <3>1. i \in 1 .. Len(s) - n /\ i \in 1 .. Len(d) /\ n + i \in 1 .. Len(s)
      BY <1>1, <1>5, <2>1, <2>3
    <3> QED BY <3>1, <2>2, <1>3, <1>5, <1>7
  <2>4. CASE ~(i <= Len(s) - n)
    <3> DEFINE j == i - (Len(s) - n)
    <3>1. j \in 1 .. Len(t)
      BY <1>1, <1>2, <2>1, <2>4
    <3>2. n + i = Len(s) + j /\ i = Len(d) + j
      BY <1>1, <1>5, <2>1, <3>1
    <3> HIDE DEF j
    <3> QED BY <3>1, <3>2, <2>2, <1>4, <1>8
  <2> QED BY <2>3, <2>4
<1>13. Drop(u, n) = e
  BY <1>6, <1>10, <1>11, <1>12, SeqEqual
<1> QED
  BY <1>13 DEF u, d, e

\* A message in bytes: four of the header, and the payload.
LEMMA WrapFacts ==
  ASSUME NEW m \in Messages
  PROVE  /\ wrap(m) \in Seq(Nat) /\ Len(wrap(m)) = Len(m.pay) + 4
         /\ wrap(m)[1] = EYE_CATCH /\ wrap(m)[2] = Len(m.pay) + 2
         /\ wrap(m)[3] = m.serial /\ wrap(m)[4] = m.id
         /\ SubSeq(wrap(m), 5, Len(wrap(m))) = m.pay
<1>1. PICK p \in Seq(Nat) : p = m.pay
  BY DEF Messages
<1>2. PICK n \in Nat : n = Len(p)
  BY <1>1
<1> DEFINE h == <<EYE_CATCH, n + 2, m.serial, m.id>>
           w == h \o p
<1>3. h \in Seq(Nat) /\ Len(h) = 4 /\ h[1] = EYE_CATCH /\ h[2] = n + 2
      /\ h[3] = m.serial /\ h[4] = m.id
  BY DEF EYE_CATCH, Messages
<1>4. wrap(m) = w
  BY <1>1, <1>2 DEF wrap
<1> HIDE DEF h
<1>5. w \in Seq(Nat) /\ Len(w) = n + 4
  <2>1. w \in Seq(Nat) /\ Len(w) = Len(h) + Len(p)
    BY <1>3, CatType
  <2> HIDE DEF w
  <2> QED BY <1>2, <1>3, <2>1
<1>6. w[1] = h[1] /\ w[2] = h[2] /\ w[3] = h[3] /\ w[4] = h[4]
  <2>1. 1 \in 1 .. Len(h) /\ 2 \in 1 .. Len(h) /\ 3 \in 1 .. Len(h)
        /\ 4 \in 1 .. Len(h)
    BY <1>3
  <2> QED BY <1>3, <2>1, CatLeft
<1>7. Drop(w, 4) = p
  BY <1>3, DropCat
<1> HIDE DEF w
<1>8. SubSeq(w, 5, Len(w)) = p
  BY <1>7 DEF Drop
<1> QED
  BY <1>1, <1>2, <1>3, <1>4, <1>5, <1>6, <1>8

\* The messages the AVR writes: at most six bytes each.
Replies == {m \in Messages : Len(m.pay) <= 2}

LEMMA MsgType ==
  ASSUME NEW s \in Nat, NEW i \in Nat, NEW p \in Seq(Nat)
  PROVE  /\ Msg(s, i, p) \in Messages
         /\ Msg(s, i, p).pay = p /\ Msg(s, i, p).serial = s
  BY DEF Msg, Messages

LEMMA ReplyType ==
  ASSUME NEW s \in Nat, NEW i \in Nat, NEW p \in Seq(Nat), Len(p) <= 2
  PROVE  Msg(s, i, p) \in Replies
  BY MsgType DEF Replies

LEMMA MsgFacts ==
  /\ IdleMsg \in Messages /\ HandshakeMsg \in Messages
  /\ SuspendMsg \in Replies /\ SuspendMsg.serial = SERIAL_ID_TO_IGNORE
  /\ VersionMsg \in Replies /\ Len(VersionMsg.pay) = 1
<1> DEFINE e == <<>>
           o == <<1>>
<1>1. e \in Seq(Nat) /\ Len(e) = 0 /\ o \in Seq(Nat) /\ Len(o) = 1
  OBVIOUS
<1>2. IdleMsg = Msg(0, 3, e) /\ HandshakeMsg = Msg(0, 2, e)
      /\ SuspendMsg = Msg(0, 12, e) /\ VersionMsg = Msg(0, 14, o)
  BY DEF IdleMsg, HandshakeMsg, SuspendMsg, SERIAL_ID_TO_IGNORE, MSG_ID_IDLE,
     MSG_ID_HANDSHAKE, MSG_ID_SUSPEND, VersionMsg, MSG_ID_VERSION, PROTOCOL_VERSION
<1> HIDE DEF e, o
<1>7. 0 \in Nat /\ 2 \in Nat /\ 3 \in Nat /\ 12 \in Nat /\ 14 \in Nat
      /\ Len(e) <= 2 /\ Len(o) <= 2
  BY <1>1
<1>3. Msg(0, 3, e) \in Messages /\ Msg(0, 2, e) \in Messages
  BY <1>1, <1>7, MsgType, Zenon
<1>4. Msg(0, 12, e) \in Replies
  BY <1>1, <1>7, ReplyType, Zenon
<1>5. Msg(0, 14, o) \in Replies
  BY <1>1, <1>7, ReplyType, Zenon
<1>6. Msg(0, 12, e).serial = 0 /\ Msg(0, 14, o).pay = o
  BY DEF Msg
<1> QED
  BY <1>1, <1>2, <1>3, <1>4, <1>5, <1>6 DEF SERIAL_ID_TO_IGNORE

LEMMA StatusType ==
  ASSUME NEW s \in Nat, NEW st \in Nat, NEW i \in Nat
  PROVE  StatusMsg(s, st, i) \in Replies
<1> DEFINE p == <<st, i>>
<1>1. p \in Seq(Nat) /\ Len(p) = 2
  OBVIOUS
<1>2. StatusMsg(s, st, i) = Msg(s, 11, p)
  BY DEF StatusMsg, MSG_ID_STATUS
<1> HIDE DEF p
<1>3. 11 \in Nat /\ Len(p) <= 2
  BY <1>1
<1>4. Msg(s, 11, p) \in Replies
  BY <1>1, <1>3, ReplyType, Zenon
<1> QED
  BY <1>2, <1>4

LEMMA ZerosType ==
  ASSUME NEW n \in Nat
  PROVE  Zeros(n) \in Seq(Nat) /\ Len(Zeros(n)) = n
  BY DEF Zeros

\* The first n bytes, and the others.
LEMMA TakeDrop ==
  ASSUME NEW s \in Seq(Nat), NEW n \in 0 .. Len(s)
  PROVE  /\ SubSeq(s, 1, n) \in Seq(Nat) /\ Len(SubSeq(s, 1, n)) = n
         /\ \A i \in 1 .. n : SubSeq(s, 1, n)[i] = s[i]
         /\ SubSeq(s, 1, n) \o Drop(s, n) = s
<1> DEFINE t == SubSeq(s, 1, n)
<1>1. Len(s) \in Nat
  OBVIOUS
<1>2. \A i \in 1 .. n : s[i] \in Nat
  BY <1>1, ElementOfSeq
<1>3. /\ t \in Seq(Nat)
      /\ Len(t) = IF 1 <= n THEN n - 1 + 1 ELSE 0
      /\ \A i \in 1 .. n - 1 + 1 : t[i] = s[1 + i - 1]
  BY <1>2, SubSeqProperties
<1> HIDE DEF t
<1>4. n - 1 + 1 = n /\ \A i \in 1 .. n : 1 + i - 1 = i
  OBVIOUS
<1>5. t \in Seq(Nat) /\ Len(t) = n
  BY <1>3
<1>6. \A i \in 1 .. n : t[i] = s[i]
  BY <1>3, <1>4
<1>7. t \o Drop(s, n) = s
  <2> DEFINE d == Drop(s, n)
             u == t \o d
  <2>1. d \in Seq(Nat) /\ Len(d) = Len(s) - n
        /\ \A i \in 1 .. Len(s) - n : d[i] = s[n + i]
    BY DropFacts
  <2> HIDE DEF d
  <2>2. u \in Seq(Nat) /\ Len(u) = Len(t) + Len(d)
    BY <1>5, <2>1, CatType
  <2>3. \A i \in 1 .. Len(t) : u[i] = t[i]
    BY <1>5, <2>1, CatLeft
  <2>4. \A i \in 1 .. Len(d) : u[Len(t) + i] = d[i]
    BY <1>5, <2>1, CatRight
  <2> HIDE DEF u
  <2>5. Len(u) = Len(s)
    BY <1>1, <1>5, <2>1, <2>2
  <2>6. ASSUME NEW i \in 1 .. Len(s) PROVE u[i] = s[i]
    <3>1. CASE i <= n
      <4>1. i \in 1 .. n
        BY <3>1
      <4> QED BY <4>1, <2>3, <1>5, <1>6
    <3>2. CASE ~(i <= n)
      <4> DEFINE j == i - n
      <4>1. j \in 1 .. Len(s) - n /\ i = n + j
        BY <1>1, <3>2
      <4> HIDE DEF j
      <4> QED BY <4>1, <2>1, <2>4, <1>5
    <3> QED BY <3>1, <3>2
  <2>7. u = s
    BY <2>2, <2>5, <2>6, SeqEqual
  <2> QED
    BY <2>7 DEF u, d
<1> QED
  BY <1>5, <1>6, <1>7 DEF t

\* What the bytes, messages, levels and counters are.
Typed ==
  /\ pc \in {"top", "pop", "check", "wait", "send", "xfer", "parse", "dead"}
  /\ rised \in BOOLEAN /\ irq \in BOOLEAN /\ connected \in BOOLEAN
  /\ intq \in Seq(BOOLEAN) /\ edges \in Seq(BOOLEAN)
  /\ toq \in Seq(Messages) /\ slot \in Seq(Replies) /\ serial \in Nat
  /\ tx \in Seq(Nat) /\ rx \in Seq(Nat) /\ mbuf \in Seq(Nat)
  /\ spdr \in Nat /\ read_buf \in Seq(Nat) /\ write_buf \in Seq(Nat)
  /\ hdr \in Seq(Nat) /\ notes \in Nat /\ lost \in Nat

LEMMA InitTyped == Init => Typed
<1> SUFFICES ASSUME Init PROVE Typed
  OBVIOUS
<1>1. wrap(VersionMsg) \in Seq(Nat)
  BY MsgFacts, WrapFacts DEF Replies
<1>2. <<>> \in Seq(Nat) /\ <<>> \in Seq(BOOLEAN) /\ <<>> \in Seq(Messages)
      /\ <<>> \in Seq(Replies)
  BY EmptySeq
<1>3. connected \in BOOLEAN
  BY SpiAssumption DEF Init
<1>4. spdr \in Nat /\ 0 \in Nat
  BY DEF Init, SPI_WRITE_UNDERFLOW
<1>5. /\ intq = <<>> /\ edges = <<>> /\ toq = <<>> /\ slot = <<>> /\ tx = <<>>
      /\ rx = <<>> /\ mbuf = <<>> /\ read_buf = <<>> /\ hdr = <<>>
      /\ write_buf = wrap(VersionMsg)
  BY DEF Init
<1>6. /\ intq \in Seq(BOOLEAN) /\ edges \in Seq(BOOLEAN)
      /\ toq \in Seq(Messages) /\ slot \in Seq(Replies)
      /\ tx \in Seq(Nat) /\ rx \in Seq(Nat) /\ mbuf \in Seq(Nat)
      /\ read_buf \in Seq(Nat) /\ write_buf \in Seq(Nat) /\ hdr \in Seq(Nat)
  BY <1>1, <1>2, <1>5
<1>7. /\ pc = "top" /\ rised = FALSE /\ irq = TRUE /\ serial = 0 /\ notes = 0
      /\ lost = 0
  BY DEF Init
<1> QED
  BY <1>3, <1>4, <1>6, <1>7 DEF Typed

-----------------------------------------------------------------------------
(* What the parts of the actions do to the bytes and the levels.           *)

LEMMA SetIrqTyped ==
  ASSUME NEW level \in BOOLEAN, Typed, SetIrq(level)
  PROVE  irq' \in BOOLEAN /\ edges' \in Seq(BOOLEAN)
<1>1. Append(edges, level) \in Seq(BOOLEAN)
  BY AppendProperties DEF Typed
<1> QED
  BY <1>1 DEF SetIrq, Typed

LEMMA FlushTyped ==
  ASSUME NEW m \in Replies, Typed, Flush(m)
  PROVE  /\ write_buf' \in Seq(Nat) /\ irq' \in BOOLEAN /\ edges' \in Seq(BOOLEAN)
         /\ WriteBufKeepsMargin /\ is_writable =>
              Len(write_buf') < BufSize /\ write_buf' = write_buf \o wrap(m)
<1>1. wrap(m) \in Seq(Nat) /\ Len(wrap(m)) <= 6 /\ Len(wrap(m)) \in Nat
  <2>1. m \in Messages /\ Len(m.pay) <= 2 /\ Len(m.pay) \in Nat
    BY DEF Replies, Messages
  <2>2. wrap(m) \in Seq(Nat) /\ Len(wrap(m)) = Len(m.pay) + 4
    BY <2>1, WrapFacts
  <2> QED BY <2>1, <2>2
<1>2. write_buf \in Seq(Nat) /\ Len(write_buf) \in Nat
  BY DEF Typed
<1>3. write_buf \o wrap(m) \in Seq(Nat)
      /\ Len(write_buf \o wrap(m)) = Len(write_buf) + Len(wrap(m))
  BY <1>1, <1>2, CatType
<1>4. write_buf' = IF Len(wrap(m)) <= BufSize - Len(write_buf)
                   THEN write_buf \o wrap(m) ELSE write_buf
  BY DEF Flush
<1>5. ASSUME is_writable
      PROVE  Len(write_buf') < BufSize /\ write_buf' = write_buf \o wrap(m)
  <2>1. Len(write_buf) + 6 < BufSize /\ BufSize \in Nat
    <3>1. ENOUGH_SPACE > 6 /\ ENOUGH_SPACE \in Nat
      BY SpiAssumption DEF ENOUGH_SPACE
    <3> QED BY <1>5, <1>2, <3>1, SpiAssumption DEF is_writable
  <2>2. Len(wrap(m)) <= BufSize - Len(write_buf)
    BY <1>1, <1>2, <2>1
  <2>3. write_buf' = write_buf \o wrap(m)
    BY <1>4, <2>2
  <2> QED BY <1>1, <1>2, <1>3, <2>1, <2>3
<1>6. irq' \in BOOLEAN /\ edges' \in Seq(BOOLEAN)
  BY SetIrqTyped DEF Flush
<1> QED
  BY <1>2, <1>3, <1>4, <1>5, <1>6

LEMMA PostponeTyped ==
  ASSUME NEW m \in Replies, Typed, PostponeMessage(m)
  PROVE  /\ write_buf' \in Seq(Nat) /\ irq' \in BOOLEAN /\ edges' \in Seq(BOOLEAN)
         /\ slot' \in Seq(Replies)
         /\ WriteBufKeepsMargin => Len(write_buf') < BufSize
<1>1. CASE m.serial = SERIAL_ID_TO_IGNORE
  <2>1. slot' = slot
    BY <1>1 DEF PostponeMessage
  <2>2. CASE is_writable
    <3>1. Flush(m)
      BY <1>1, <2>2 DEF PostponeMessage
    <3> QED BY <2>1, <2>2, <3>1, FlushTyped DEF Typed
  <2>3. CASE ~is_writable
    BY <1>1, <2>1, <2>3 DEF PostponeMessage, Typed, WriteBufKeepsMargin
  <2> QED BY <2>2, <2>3
<1>2. CASE m.serial # SERIAL_ID_TO_IGNORE
  <2>1. write_buf' = write_buf /\ irq' = irq /\ edges' = edges
        /\ slot' \in {slot, <<m>>}
    BY <1>2 DEF PostponeMessage
  <2>2. <<m>> \in Seq(Replies)
    OBVIOUS
  <2>3. slot' \in Seq(Replies)
    BY <2>1, <2>2 DEF Typed
  <2> QED BY <2>1, <2>3 DEF Typed, WriteBufKeepsMargin
<1> QED BY <1>1, <1>2

\* The header decode_try keeps and the bytes it has not looked at.
LEMMA TakenType ==
  ASSUME Typed
  PROVE  Taken \in Seq(Nat) /\ Len(Taken) = Len(hdr) + Len(read_buf)
  BY CatType DEF Typed, Taken

\* decode_try keeps what it has: the header, and the bytes that follow it.
LEMMA DecodeWaits ==
  ASSUME Typed, DecodeWait
  PROVE  hdr' \in Seq(Nat) /\ read_buf' \in Seq(Nat) /\ Taken' = Taken
<1>1. Taken \in Seq(Nat) /\ Len(Taken) \in Nat
  BY TakenType
<1> DEFINE n == IF Len(Taken) < 4 THEN Len(Taken) ELSE 4
<1>2. hdr' = SubSeq(Taken, 1, n) /\ read_buf' = Drop(Taken, n)
  BY DEF DecodeWait, Drop
<1>3. n \in 0 .. Len(Taken)
  BY <1>1
<1> HIDE DEF n
<1>4. hdr' \in Seq(Nat) /\ hdr' \o read_buf' = Taken
  BY <1>1, <1>2, <1>3, TakeDrop
<1>5. read_buf' \in Seq(Nat)
  BY <1>1, <1>2, <1>3, DropFacts
<1>6. Taken' = hdr' \o read_buf'
  BY DEF Taken
<1> QED
  BY <1>4, <1>5, <1>6

LEMMA DecodeTyped ==
  ASSUME Typed, NEW status \in Statuses, Decode(status)
  PROVE  /\ hdr' \in Seq(Nat) /\ read_buf' \in Seq(Nat) /\ connected' \in BOOLEAN
         /\ write_buf' \in Seq(Nat) /\ irq' \in BOOLEAN /\ edges' \in Seq(BOOLEAN)
         /\ slot' \in Seq(Replies)
         /\ WriteBufKeepsMargin => Len(write_buf') < BufSize
<1>1. Taken \in Seq(Nat) /\ Len(Taken) \in Nat
  BY TakenType
<1>2. Ready /\ hdr' = <<>>
      /\ read_buf' = SubSeq(Taken, 5 + PayloadSize, Len(Taken))
  BY DEF Decode
<1>3. \A i \in 1 .. Len(Taken) : Taken[i] \in Nat
  BY <1>1, ElementOfSeq
<1>4. Taken[2] \in Nat /\ Taken[3] \in Nat /\ Taken[4] \in Nat /\ Len(Taken) >= 4
  <2>1. Len(Taken) >= 4
    BY <1>2 DEF Ready
  <2>2. 2 \in 1 .. Len(Taken) /\ 3 \in 1 .. Len(Taken) /\ 4 \in 1 .. Len(Taken)
    BY <1>1, <2>1
  <2> QED BY <1>3, <2>1, <2>2
<1>5. PayloadSize \in Nat /\ 4 + PayloadSize <= Len(Taken)
  <2>1. (Taken[2] - 2) % 256 \in Nat
    BY <1>4
  <2> QED BY <1>1, <1>2, <1>4, <2>1 DEF Ready, PayloadSize
<1>6. read_buf' \in Seq(Nat)
  <2> DEFINE n == 4 + PayloadSize
  <2>1. n \in 0 .. Len(Taken) /\ 5 + PayloadSize = n + 1
    BY <1>1, <1>5
  <2> HIDE DEF n
  <2>2. read_buf' = Drop(Taken, n)
    BY <1>2, <2>1 DEF Drop
  <2> QED BY <1>1, <2>1, <2>2, DropFacts
<1>7. \A st \in Statuses : StatusMsg(Taken[3], st, Taken[4]) \in Replies
  <2>1. \A st \in Statuses : st \in Nat
    BY DEF Statuses, STATUS_SUCCESS, STATUS_FAIL, STATUS_UNKNOWN_MSG
  <2> QED BY <1>4, <2>1, StatusType
<1>8. connected' \in BOOLEAN
  BY DEF Decode, Typed
<1>9. \/ PostponeMessage(StatusMsg(Taken[3], status, Taken[4]))
      \/ UNCHANGED <<slot, write_buf, irq, edges>>
  BY DEF Decode
<1>10. CASE PostponeMessage(StatusMsg(Taken[3], status, Taken[4]))
  <2>1. StatusMsg(Taken[3], status, Taken[4]) \in Replies
    BY <1>7
  <2>2. /\ write_buf' \in Seq(Nat) /\ irq' \in BOOLEAN /\ edges' \in Seq(BOOLEAN)
        /\ slot' \in Seq(Replies)
        /\ WriteBufKeepsMargin => Len(write_buf') < BufSize
    BY <1>10, <2>1, PostponeTyped
  <2> QED BY <1>2, <1>6, <1>8, <2>2, EmptySeq
<1>11. CASE UNCHANGED <<slot, write_buf, irq, edges>>
  <2>1. /\ write_buf' \in Seq(Nat) /\ irq' \in BOOLEAN /\ edges' \in Seq(BOOLEAN)
        /\ slot' \in Seq(Replies)
        /\ WriteBufKeepsMargin => Len(write_buf') < BufSize
    BY <1>11 DEF Typed, WriteBufKeepsMargin
  <2> QED BY <1>2, <1>6, <1>8, <2>1, EmptySeq
<1> QED
  BY <1>9, <1>10, <1>11

\* What unwrap drops ends before the first EYE_CATCH.
LEMMA StripFacts ==
  ASSUME NEW s \in Seq(Nat)
  PROVE  \/ /\ \A i \in 1 .. Len(s) : s[i] # EYE_CATCH
            /\ Strip(s) = <<>>
         \/ \E at \in 1 .. Len(s) :
              /\ s[at] = EYE_CATCH
              /\ \A i \in 1 .. Len(s) : i < at => s[i] # EYE_CATCH
              /\ Strip(s) = Drop(s, at - 1)
<1> DEFINE T == {i \in 1 .. Len(s) : s[i] = EYE_CATCH}
           at == SelectInSeq(s, LAMBDA b : b = EYE_CATCH)
<1>1. Strip(s) = IF at = 0 THEN <<>> ELSE SubSeq(s, at, Len(s))
  BY DEF Strip
<1>2. at = IF T # {} THEN Min(T) ELSE 0
  BY DEF SelectInSeq
<1> HIDE DEF at
<1>3. CASE T = {}
  BY <1>1, <1>2, <1>3
<1>4. CASE T # {}
  <2>1. T \subseteq Nat
    OBVIOUS
  <2>2. \E n \in T : \A k \in T : n <= k
    <3> HIDE DEF T
    <3> QED BY <2>1, <1>4, Least
  <2>3. at \in T /\ \A k \in T : at <= k
    <3>1. at = CHOOSE x \in T : \A y \in T : x <= y
      BY <1>2, <1>4 DEF Min
    <3> HIDE DEF T
    <3> QED BY <2>2, <3>1
  <2>4. at \in 1 .. Len(s) /\ s[at] = EYE_CATCH
    BY <2>3
  <2>5. \A i \in 1 .. Len(s) : i < at => s[i] # EYE_CATCH
    BY <2>3, <2>4
  <2>6. Strip(s) = Drop(s, at - 1)
    <3>1. at # 0 /\ (at - 1) + 1 = at
      BY <2>4
    <3> QED BY <1>1, <3>1 DEF Drop
  <2> QED BY <2>4, <2>5, <2>6
<1> QED
  BY <1>3, <1>4

LEMMA StripType ==
  ASSUME NEW s \in Seq(Nat)
  PROVE  Strip(s) \in Seq(Nat)
<1>1. CASE Strip(s) = <<>>
  BY <1>1, EmptySeq
<1>2. CASE \E at \in 1 .. Len(s) : Strip(s) = Drop(s, at - 1)
  <2>1. PICK at \in 1 .. Len(s) : Strip(s) = Drop(s, at - 1)
    BY <1>2
  <2>2. at - 1 \in 0 .. Len(s)
    OBVIOUS
  <2> QED BY <2>1, <2>2, DropFacts
<1> QED
  BY <1>1, <1>2, StripFacts

\* The bytes of the transfer up to the k-th, with those left from before.
Upto(k) == Strip(mbuf \o SubSeq(rx, 1, k))

LEMMA UptoType ==
  ASSUME Typed, NEW k \in 0 .. Len(rx)
  PROVE  /\ mbuf \o SubSeq(rx, 1, k) \in Seq(Nat) /\ Upto(k) \in Seq(Nat)
         /\ Len(mbuf \o SubSeq(rx, 1, k)) = Len(mbuf) + k
<1>1. SubSeq(rx, 1, k) \in Seq(Nat) /\ Len(SubSeq(rx, 1, k)) = k
  BY TakeDrop DEF Typed
<1>2. mbuf \o SubSeq(rx, 1, k) \in Seq(Nat)
      /\ Len(mbuf \o SubSeq(rx, 1, k)) = Len(mbuf) + k
  <2> DEFINE t == SubSeq(rx, 1, k)
  <2>1. t \in Seq(Nat) /\ Len(t) = k /\ mbuf \in Seq(Nat)
    BY <1>1 DEF Typed
  <2> HIDE DEF t
  <2>2. mbuf \o t \in Seq(Nat) /\ Len(mbuf \o t) = Len(mbuf) + Len(t)
    BY <2>1, CatType
  <2>3. mbuf \o t \in Seq(Nat) /\ Len(mbuf \o t) = Len(mbuf) + k
    BY <2>1, <2>2
  <2> QED BY <2>3 DEF t
<1> QED
  BY <1>2, StripType DEF Upto

\* write_msg looks for the first byte that completes a message.
LEMMA ParseCases ==
  ASSUME Typed, Parse
  PROVE  \/ /\ \A k \in 1 .. Len(rx) : ~Complete(Upto(k))
            /\ mbuf' = Upto(Len(rx)) /\ rx' = <<>>
            /\ pc' \in {"pop", "top"}
            /\ UNCHANGED greet
         \/ \E k \in 1 .. Len(rx) :
              /\ Complete(Upto(k))
              /\ \A j \in 1 .. Len(rx) : Complete(Upto(j)) => k <= j
              /\ mbuf' = <<>> /\ rx' = Drop(rx, k)
              /\ pc' \in {"parse", "dead"}
  BY DEF Parse, Upto, Drop

LEMMA ParseTyped ==
  ASSUME Typed, Parse
  PROVE  mbuf' \in Seq(Nat) /\ rx' \in Seq(Nat)
<1>1. Len(rx) \in Nat /\ rx \in Seq(Nat)
  BY DEF Typed
<1>2. CASE mbuf' = Upto(Len(rx)) /\ rx' = <<>>
  <2>1. Len(rx) \in 0 .. Len(rx)
    BY <1>1
  <2>2. Upto(Len(rx)) \in Seq(Nat)
    BY <2>1, UptoType
  <2> QED BY <1>2, <2>2, EmptySeq
<1>3. CASE \E k \in 1 .. Len(rx) : mbuf' = <<>> /\ rx' = Drop(rx, k)
  <2>1. PICK k \in 1 .. Len(rx) : mbuf' = <<>> /\ rx' = Drop(rx, k)
    BY <1>3
  <2>2. Drop(rx, k) \in Seq(Nat)
    BY SMTT(60), <1>1, DropFacts
  <2> QED BY <2>1, <2>2, EmptySeq
<1> QED
  BY <1>2, <1>3, ParseCases

LEMMA ClockTyped ==
  ASSUME Typed, Clock
  PROVE  /\ rx' \in Seq(Nat) /\ tx' \in Seq(Nat) /\ read_buf' \in Seq(Nat)
         /\ write_buf' \in Seq(Nat) /\ spdr' \in Nat /\ lost' \in Nat
         /\ irq' \in BOOLEAN /\ edges' \in Seq(BOOLEAN)
         /\ WriteBufKeepsMargin => Len(write_buf') < BufSize
<1>1. rx' = Append(rx, spdr) /\ tx' = Tail(tx) /\ tx # <<>>
  BY DEF Clock
<1>2. rx' \in Seq(Nat) /\ tx' \in Seq(Nat) /\ Head(tx) \in Nat
  BY <1>1, AppendProperties, HeadTailProperties DEF Typed
<1>3. \/ /\ spdr' = SPI_READ_OVERFLOW /\ lost' = lost + 1
         /\ UNCHANGED <<read_buf, write_buf, irq, edges>>
      \/ /\ read_buf' = Append(read_buf, Head(tx)) \/ read_buf' = <<>>
         /\ lost' \in {lost, lost + 1}
         /\ SpiSend
  BY DEF Clock
<1>4. CASE spdr' = SPI_READ_OVERFLOW /\ lost' = lost + 1
           /\ UNCHANGED <<read_buf, write_buf, irq, edges>>
  BY <1>2, <1>4 DEF Typed, SPI_READ_OVERFLOW, WriteBufKeepsMargin
<1>5. CASE /\ read_buf' = Append(read_buf, Head(tx)) \/ read_buf' = <<>>
           /\ lost' \in {lost, lost + 1}
           /\ SpiSend
  <2>1. read_buf' \in Seq(Nat) /\ lost' \in Nat
    <3>1. Append(read_buf, Head(tx)) \in Seq(Nat) /\ <<>> \in Seq(Nat)
      BY <1>2, AppendProperties, EmptySeq DEF Typed
    <3>2. lost' \in Nat
      BY <1>5 DEF Typed
    <3> QED BY <1>5, <3>1, <3>2
  <2>2. CASE /\ write_buf # <<>>
             /\ spdr' = Head(write_buf) /\ write_buf' = Tail(write_buf)
             /\ UNCHANGED <<irq, edges>>
    <3>1. spdr' \in Nat /\ write_buf' \in Seq(Nat) /\ Len(write_buf') = Len(write_buf) - 1
          /\ Len(write_buf) \in Nat
      BY <2>2, HeadTailProperties DEF Typed
    <3> QED BY <1>2, <1>5, <2>1, <2>2, <3>1, SpiAssumption DEF Typed, WriteBufKeepsMargin
  <2>3. CASE /\ write_buf = <<>>
             /\ spdr' = SPI_WRITE_UNDERFLOW /\ SetIrq(FALSE)
             /\ UNCHANGED write_buf
    <3>1. irq' \in BOOLEAN /\ edges' \in Seq(BOOLEAN)
      BY <2>3, SetIrqTyped
    <3> QED BY <1>2, <1>5, <2>1, <2>3, <3>1 DEF Typed, WriteBufKeepsMargin,
          SPI_WRITE_UNDERFLOW
  <2> QED BY <1>5, <2>2, <2>3 DEF SpiSend
<1> QED
  BY <1>3, <1>4, <1>5

LEMMA BeginTyped ==
  ASSUME Typed, NEW m \in Messages, Begin(m)
  PROVE  tx' \in Seq(Nat) /\ rx' \in Seq(Nat)
  BY WrapFacts, EmptySeq DEF Begin

LEMMA PushTyped ==
  ASSUME Typed, NEW m \in Messages, Push(m)
  PROVE  toq' \in Seq(Messages) /\ pc' \in {pc, "top"}
  BY AppendProperties DEF Push, Typed, Notified

\* What an action leaves alone keeps its type.
LEMMA TypedStep == Typed /\ [Next]_vars => Typed'
<1> SUFFICES ASSUME Typed, [Next]_vars PROVE Typed'
  OBVIOUS
<1> USE DEF Typed
<1>1. CASE Top
  <2>1. CASE Begin(IdleMsg) /\ UNCHANGED toq
    <3>1. tx' \in Seq(Nat) /\ rx' \in Seq(Nat)
      BY <2>1, BeginTyped, MsgFacts
    <3> QED BY <2>1, <3>1 DEF Begin, wire, avr, user
  <2>2. CASE /\ pc' = "pop"
             /\ UNCHANGED <<rised, intq, toq, pending, tx, rx, mbuf, wire, avr,
                            user>>
    BY <2>2 DEF wire, avr, user
  <2> QED BY <1>1, <2>1, <2>2 DEF Top
<1>2. CASE Pop
  <2>1. intq # <<>> => Head(intq) \in BOOLEAN /\ Tail(intq) \in Seq(BOOLEAN)
    BY HeadTailProperties
  <2>2. intq' \in Seq(BOOLEAN) /\ rised' \in BOOLEAN
    BY <1>2, <2>1 DEF Pop
  <2> QED BY <1>2, <2>2 DEF Pop, wire, avr, user
<1>3. CASE Check
  BY <1>3 DEF Check, wire, avr, user
<1>4. CASE Send
  <2>1. CASE toq # <<>> /\ toq' = Tail(toq) /\ Begin(Head(toq))
    <3>1. Head(toq) \in Messages /\ Tail(toq) \in Seq(Messages)
      BY <2>1, HeadTailProperties
    <3>2. tx' \in Seq(Nat) /\ rx' \in Seq(Nat)
      BY <2>1, <3>1, BeginTyped
    <3> QED BY <2>1, <3>1, <3>2 DEF Begin, wire, avr, user
  <2>2. CASE /\ pc' = "top"
             /\ UNCHANGED <<rised, intq, toq, pending, tx, rx, mbuf, wire, avr,
                            user>>
    BY <2>2 DEF wire, avr, user
  <2> QED BY <1>4, <2>1, <2>2 DEF Send
<1>5. CASE Parse
  <2>1. mbuf' \in Seq(Nat) /\ rx' \in Seq(Nat)
    BY <1>5, ParseTyped
  <2>2. pc' \in {"pop", "top", "parse", "dead"}
    BY <1>5, ParseCases
  <2>3. UNCHANGED <<rised, intq, toq, tx, wire, avr, serial>>
    BY <1>5 DEF Parse
  <2> QED BY <2>1, <2>2, <2>3 DEF wire, avr
<1>6. CASE SpuriousWakeup
  BY <1>6 DEF SpuriousWakeup, wire, avr, user
<1>7. CASE HandleEvent
  <2>1. edges' \in Seq(BOOLEAN) /\ intq' \in Seq(BOOLEAN)
    <3>1. edges # <<>> /\ edges' = Tail(edges) /\ intq' = Append(intq, Head(edges))
      BY <1>7 DEF HandleEvent
    <3>2. Head(edges) \in BOOLEAN /\ Tail(edges) \in Seq(BOOLEAN)
      BY <3>1, HeadTailProperties
    <3> QED BY <3>1, <3>2, AppendProperties
  <2>2. pc' \in {pc, "top"}
    BY <1>7 DEF HandleEvent, Notified
  <2> QED BY <1>7, <2>1, <2>2 DEF HandleEvent, avr, user
<1>8. CASE SyncClock \/ McuVersion \/ InfoPush
  <2>1. next_serial \in Nat
    BY SpiAssumption DEF next_serial
  <2>2. PICK m \in Messages : Push(m)
    <3>1. CASE SyncClock
      <4>1. Zeros(2) \in Seq(Nat)
        BY ZerosType
      <4>2. Msg(next_serial, MSG_ID_SYNC_CLOCK, Zeros(2)) \in Messages
        BY <2>1, <4>1, MsgType DEF MSG_ID_SYNC_CLOCK
      <4> QED BY <3>1, <4>2 DEF SyncClock
    <3>2. CASE McuVersion
      BY <3>2, MsgFacts DEF McuVersion
    <3>3. CASE InfoPush
      <4>1. PICK n \in 1 .. LED_ARRAY_SIZE :
              Push(Msg(next_serial, MSG_ID_LED_ARRAY, Zeros(n)))
        BY <3>3 DEF InfoPush
      <4>2. n \in Nat
        BY SpiAssumption
      <4>3. Zeros(n) \in Seq(Nat)
        BY <4>2, ZerosType
      <4>4. Msg(next_serial, MSG_ID_LED_ARRAY, Zeros(n)) \in Messages
        BY <2>1, <4>3, MsgType DEF MSG_ID_LED_ARRAY
      <4> QED BY <4>1, <4>4
    <3> QED BY <1>8, <3>1, <3>2, <3>3
  <2>3. toq' \in Seq(Messages) /\ pc' \in {pc, "top"}
    BY <2>2, PushTyped
  <2>4. serial' \in Nat
    BY <1>8, <2>1 DEF SyncClock, McuVersion, InfoPush
  <2>5. UNCHANGED <<rised, intq, pending, tx, rx, mbuf, wire, avr>>
    BY <2>2 DEF Push
  <2> QED BY <2>3, <2>4, <2>5 DEF wire, avr
<1>9. CASE Clock
  <2>1. /\ rx' \in Seq(Nat) /\ tx' \in Seq(Nat) /\ read_buf' \in Seq(Nat)
        /\ write_buf' \in Seq(Nat) /\ spdr' \in Nat /\ lost' \in Nat
        /\ irq' \in BOOLEAN /\ edges' \in Seq(BOOLEAN)
    BY <1>9, ClockTyped
  <2>2. pc' \in {"parse", "xfer"}
    BY <1>9 DEF Clock
  <2>3. UNCHANGED <<rised, intq, toq, pending, mbuf, avr, user>>
    BY <1>9 DEF Clock
  <2> QED BY <2>1, <2>2, <2>3 DEF avr, user
<1>10. CASE DecodeSkip
  <2>1. read_buf' \in Seq(Nat)
    <3>1. read_buf # <<>> /\ read_buf' = Tail(read_buf)
      BY <1>10 DEF DecodeSkip
    <3> QED BY <3>1, HeadTailProperties
  <2> QED BY <1>10, <2>1 DEF DecodeSkip, pi, avr, user
<1>11. CASE DecodeWait
  <2>1. hdr' \in Seq(Nat) /\ read_buf' \in Seq(Nat)
    BY <1>11, DecodeWaits
  <2> QED BY <1>11, <2>1 DEF DecodeWait, pi, user
<1>12. CASE \E status \in Statuses : Decode(status)
  <2>1. PICK status \in Statuses : Decode(status)
    BY <1>12
  <2>2. /\ hdr' \in Seq(Nat) /\ read_buf' \in Seq(Nat) /\ connected' \in BOOLEAN
        /\ write_buf' \in Seq(Nat) /\ irq' \in BOOLEAN /\ edges' \in Seq(BOOLEAN)
        /\ slot' \in Seq(Replies)
    BY <2>1, DecodeTyped
  <2>3. UNCHANGED <<pi, spdr, lost, notes, user>>
    BY <2>1 DEF Decode
  <2> QED BY <2>2, <2>3 DEF pi, user
<1>13. CASE PostponeTry
  <2>1. slot[1] \in Replies
    BY <1>13, ElementOfSeq, EmptySeq DEF PostponeTry
  <2>2. write_buf' \in Seq(Nat) /\ irq' \in BOOLEAN /\ edges' \in Seq(BOOLEAN)
    BY <1>13, <2>1, FlushTyped DEF PostponeTry
  <2>3. slot' \in Seq(Replies)
    BY <1>13, EmptySeq DEF PostponeTry
  <2> QED BY <1>13, <2>2, <2>3 DEF PostponeTry, pi, user
<1>14. CASE Notify
  <2>1. /\ write_buf' \in Seq(Nat) /\ irq' \in BOOLEAN /\ edges' \in Seq(BOOLEAN)
        /\ slot' \in Seq(Replies)
    BY <1>14, MsgFacts, PostponeTyped DEF Notify
  <2> QED BY <1>14, <2>1 DEF Notify, pi, user
<1>15. CASE Provoke
  <2>1. irq' \in BOOLEAN /\ edges' \in Seq(BOOLEAN)
    BY <1>15, SetIrqTyped DEF Provoke
  <2> QED BY <1>15, <2>1 DEF Provoke, pi, user
<1>16. CASE ShiftDisplay
  BY <1>16 DEF ShiftDisplay, pi, wire, user
<1>18. CASE HandleEventFails
  BY <1>18 DEF HandleEventFails, pi, avr, user
<1>19. CASE TransferFails
  <2>1. tx' \in Seq(Nat) /\ pc' = "parse" /\ lost' \in Nat
    BY <1>19, EmptySeq DEF TransferFails
  <2> QED BY <1>19, <2>1 DEF TransferFails, avr, user
<1>17. CASE UNCHANGED vars
  BY <1>17 DEF vars, pi, wire, avr, user
<1> QED
  BY <1>1, <1>2, <1>3, <1>4, <1>5, <1>6, <1>7, <1>8, <1>9, <1>10, <1>11, <1>12,
     <1>13, <1>14, <1>15, <1>16, <1>17, <1>18, <1>19 DEF Next

-----------------------------------------------------------------------------
(* The AVR's write buffer.                                                 *)

LEMMA MarginStep ==
  Typed /\ WriteBufKeepsMargin /\ [Next]_vars => WriteBufKeepsMargin'
<1> SUFFICES ASSUME Typed, WriteBufKeepsMargin, [Next]_vars
             PROVE  WriteBufKeepsMargin'
  OBVIOUS
<1>1. CASE UNCHANGED write_buf
  BY <1>1 DEF WriteBufKeepsMargin
<1>2. CASE Clock
  BY <1>2, ClockTyped DEF WriteBufKeepsMargin
<1>3. CASE \E status \in Statuses : Decode(status)
  BY <1>3, DecodeTyped DEF WriteBufKeepsMargin
<1>4. CASE PostponeTry
  <2>1. slot[1] \in Replies
    BY <1>4, ElementOfSeq, EmptySeq DEF PostponeTry, Typed
  <2>2. Flush(slot[1]) /\ is_writable
    BY <1>4 DEF PostponeTry
  <2> QED BY <2>1, <2>2, FlushTyped DEF WriteBufKeepsMargin
<1>5. CASE Notify
  BY <1>5, MsgFacts, PostponeTyped DEF Notify, WriteBufKeepsMargin
<1>6. CASE Top \/ Pop \/ Check \/ Send \/ Parse \/ SpuriousWakeup \/ HandleEvent
           \/ SyncClock \/ McuVersion \/ InfoPush \/ DecodeSkip \/ DecodeWait
           \/ Provoke \/ ShiftDisplay \/ HandleEventFails \/ TransferFails
           \/ UNCHANGED vars
  <2>1. UNCHANGED write_buf
    BY <1>6 DEF Top, Pop, Check, Send, Parse, SpuriousWakeup, HandleEvent, SyncClock,
       McuVersion, InfoPush, Push, Begin, DecodeSkip, DecodeWait, Provoke,
       ShiftDisplay, HandleEventFails, TransferFails, vars, wire
  <2> QED BY <2>1, <1>1
<1> QED
  BY <1>2, <1>3, <1>4, <1>5, <1>6 DEF Next

LEMMA InitMargin == Init => WriteBufKeepsMargin
<1>1. Len(wrap(VersionMsg)) = 5
  <2>1. VersionMsg \in Messages /\ Len(VersionMsg.pay) = 1
    BY MsgFacts DEF Replies
  <2>2. Len(wrap(VersionMsg)) = Len(VersionMsg.pay) + 4
    BY <2>1, WrapFacts
  <2> QED BY <2>1, <2>2
<1>2. BufSize > 5
  BY SpiAssumption DEF ENOUGH_SPACE
<1> QED
  BY <1>1, <1>2 DEF Init, WriteBufKeepsMargin

LEMMA SpecTyped == Spec => []Typed
<1>1. Init => Typed
  BY InitTyped
<1>2. Typed /\ [Next]_vars => Typed'
  BY TypedStep
<1> QED
  BY <1>1, <1>2, PTL DEF Spec

\* The write buffer of the AVR is never filled to its last slot, and flush()
\* never writes a message that does not fit (spi.c 117-122 ignores the answer
\* of ring_write_array): both rest on the space that is_writable asks for.
THEOREM WriteBufferHasRoom == Spec => []WriteBufKeepsMargin
<1>1. Init => WriteBufKeepsMargin
  BY InitMargin
<1>2. Typed /\ WriteBufKeepsMargin /\ [Next]_vars => WriteBufKeepsMargin'
  BY MarginStep
<1> QED
  BY <1>1, <1>2, SpecTyped, PTL DEF Spec

-----------------------------------------------------------------------------
(* The interrupt line and what the thread knows of it.                     *)

\* The level that edges tell, from the newest to the oldest.
Seen(r, q, e) == IF e # <<>> THEN Last(e) ELSE IF q # <<>> THEN Last(q) ELSE r

Told == Seen(rised, intq, edges) = irq

LEMMA SeenIsLast ==
  ASSUME Typed
  PROVE  Last(<<rised>> \o intq \o edges) = Seen(rised, intq, edges)
<1> DEFINE r == <<rised>>
           s == r \o intq
           t == s \o edges
<1>1. r \in Seq(BOOLEAN) /\ Len(r) = 1 /\ r[1] = rised
  BY DEF Typed
<1>2. /\ intq \in Seq(BOOLEAN) /\ Len(intq) \in Nat /\ edges \in Seq(BOOLEAN)
      /\ Len(edges) \in Nat
  BY DEF Typed
<1> HIDE DEF r
<1>3. /\ s \in Seq(BOOLEAN) /\ Len(s) = Len(r) + Len(intq)
      /\ \A i \in 1 .. Len(r) + Len(intq) :
           s[i] = IF i <= Len(r) THEN r[i] ELSE intq[i - Len(r)]
  BY <1>1, <1>2, ConcatProperties
<1> HIDE DEF s
<1>4. /\ t \in Seq(BOOLEAN) /\ Len(t) = Len(s) + Len(edges)
      /\ \A i \in 1 .. Len(s) + Len(edges) :
           t[i] = IF i <= Len(s) THEN s[i] ELSE edges[i - Len(s)]
  <2>1. s \in Seq(BOOLEAN) /\ edges \in Seq(BOOLEAN)
    BY <1>2, <1>3
  <2> QED BY <2>1, ConcatProperties
<1> HIDE DEF t
<1>5. intq = <<>> <=> Len(intq) = 0
  BY <1>2, EmptySeq
<1>6. edges = <<>> <=> Len(edges) = 0
  BY <1>2, EmptySeq
<1>7. CASE Len(edges) # 0
  <2>1. t[Len(t)] = edges[Len(edges)]
    BY SMTT(60), <1>1, <1>2, <1>3, <1>4, <1>7
  <2> QED BY <1>6, <1>7, <2>1 DEF t, s, r, Last, Seen
<1>8. CASE Len(edges) = 0 /\ Len(intq) # 0
  <2>1. t[Len(t)] = s[Len(s)]
    BY <1>1, <1>2, <1>3, <1>4, <1>8
  <2>2. s[Len(s)] = intq[Len(intq)]
    BY <1>1, <1>2, <1>3, <1>8
  <2> QED BY <1>5, <1>6, <1>8, <2>1, <2>2 DEF t, s, r, Last, Seen
<1>9. CASE Len(edges) = 0 /\ Len(intq) = 0
  <2>1. t[Len(t)] = rised
    BY <1>1, <1>2, <1>3, <1>4, <1>9
  <2> QED BY <1>5, <1>6, <1>9, <2>1 DEF t, s, r, Last, Seen
<1> QED
  BY <1>2, <1>7, <1>8, <1>9

LEMMA LastOfTail ==
  ASSUME NEW s \in Seq(BOOLEAN), s # <<>>
  PROVE  Tail(s) # <<>> => Last(Tail(s)) = Last(s)
<1>1. Len(s) \in Nat /\ Len(s) # 0
  BY EmptySeq
<1>2. /\ Tail(s) \in Seq(BOOLEAN) /\ Len(Tail(s)) = Len(s) - 1
      /\ \A i \in 1 .. Len(Tail(s)) : Tail(s)[i] = s[i + 1]
  BY HeadTailProperties
<1>3. ASSUME Tail(s) # <<>> PROVE Last(Tail(s)) = Last(s)
  <2>1. Len(Tail(s)) # 0
    BY <1>2, <1>3, EmptySeq
  <2>2. Len(Tail(s)) \in 1 .. Len(Tail(s)) /\ Len(Tail(s)) + 1 = Len(s)
    BY <1>1, <1>2, <2>1
  <2> QED BY <1>2, <2>2 DEF Last
<1> QED BY <1>3

LEMMA HeadIsLast ==
  ASSUME NEW s \in Seq(BOOLEAN), s # <<>>, Tail(s) = <<>>
  PROVE  Last(s) = Head(s)
<1>1. Len(s) \in Nat /\ Len(s) # 0
  BY EmptySeq
<1>2. Len(Tail(s)) = Len(s) - 1
  BY HeadTailProperties
<1>3. Len(Tail(s)) = 0
  BY EmptySeq
<1>4. Len(s) - 1 = 0
  BY <1>2, <1>3, Zenon
<1>5. Len(s) = 1
  BY <1>1, <1>4
<1> QED
  BY <1>5 DEF Last

LEMMA LastOfAppend ==
  ASSUME NEW s \in Seq(BOOLEAN), NEW b \in BOOLEAN
  PROVE  Append(s, b) # <<>> /\ Last(Append(s, b)) = b
  BY AppendProperties DEF Last

\* The daemon has asked the kernel for the edges, but the only one so far was
\* too early: it sends its first message, a clock of six bytes, and has got as
\* many bytes back as it has sent, or the kernel has refused the message.
Unheard ==
  /\ irq /\ ~rised /\ intq = <<>> /\ edges = <<>>
  /\ greet = "no" /\ ~connected /\ slot = <<>>
  /\ \A i \in 1 .. Len(toq) : Len(toq[i].pay) = 2
  /\ pc \in {"top", "pop", "check", "wait", "send", "xfer", "parse"}
  /\ pc # "xfer" => Taken = <<>> /\ Len(write_buf) = 5
  /\ pc = "parse" => rx = <<>>
  /\ pc = "xfer" =>
       /\ Len(Taken \o tx) = 6 /\ (Taken \o tx)[1] = EYE_CATCH
       /\ (Taken \o tx)[2] = 4
       /\ Len(Taken) <= 5 /\ Len(write_buf) = 5 - Len(Taken)
       /\ Len(rx) = Len(Taken)

EdgeInv == Told \/ Unheard

LEMMA Assoc ==
  ASSUME NEW s \in Seq(Nat), NEW t \in Seq(Nat), NEW u \in Seq(Nat)
  PROVE  (s \o t) \o u = s \o (t \o u)
  BY SMTT(60), ConcatAssociative

LEMMA HeadTailCat ==
  ASSUME NEW s \in Seq(Nat), s # <<>>
  PROVE  /\ <<Head(s)>> \in Seq(Nat) /\ Tail(s) \in Seq(Nat) /\ Head(s) \in Nat
         /\ <<Head(s)>> \o Tail(s) = s
<1>1. Len(s) \in Nat /\ Len(s) # 0
  BY EmptySeq
<1>2. Head(s) \in Nat /\ Tail(s) \in Seq(Nat)
  BY HeadTailProperties
<1>3. Tail(s) = Drop(s, 1)
  <2>1. 1 + 1 = 2
    OBVIOUS
  <2> QED BY <2>1, TailIsSubSeq DEF Drop
<1>4. 1 \in 0 .. Len(s)
  BY <1>1
<1>5. /\ SubSeq(s, 1, 1) \in Seq(Nat) /\ Len(SubSeq(s, 1, 1)) = 1
      /\ \A i \in 1 .. 1 : SubSeq(s, 1, 1)[i] = s[i]
      /\ SubSeq(s, 1, 1) \o Drop(s, 1) = s
  BY <1>4, TakeDrop
<1>6. SubSeq(s, 1, 1) = <<Head(s)>>
  <2> DEFINE t == SubSeq(s, 1, 1)
             h == <<Head(s)>>
  <2>1. h \in Seq(Nat) /\ Len(h) = 1 /\ h[1] = s[1]
    BY <1>2
  <2>2. t \in Seq(Nat) /\ Len(t) = 1 /\ t[1] = s[1]
    BY <1>5
  <2> HIDE DEF t, h
  <2>3. t = h
    BY <2>1, <2>2, SeqEqual
  <2> QED BY <2>3 DEF t, h
<1> QED
  BY <1>2, <1>3, <1>5, <1>6

\* A byte changes sides, and the bytes stay the same.
LEMMA MoveByte ==
  ASSUME NEW h \in Seq(Nat), NEW r \in Seq(Nat), NEW t \in Seq(Nat), t # <<>>
  PROVE  /\ h \o Append(r, Head(t)) \in Seq(Nat)
         /\ Len(h \o Append(r, Head(t))) = Len(h \o r) + 1
         /\ (h \o Append(r, Head(t))) \o Tail(t) = (h \o r) \o t
<1> DEFINE b == <<Head(t)>>
           v == Tail(t)
           a == Append(r, Head(t))
<1>1. b \in Seq(Nat) /\ v \in Seq(Nat) /\ b \o v = t /\ Len(b) = 1
  BY HeadTailCat
<1>2. a = r \o b /\ a \in Seq(Nat)
  BY HeadTailCat, AppendIsConcat, AppendProperties
<1> HIDE DEF a, b, v
<1>3. h \o r \in Seq(Nat) /\ Len(h \o r) \in Nat
  BY CatType
<1>4. (h \o r) \o b = h \o (r \o b)
  BY <1>1, Assoc, ZenonT(60)
<1>5. ((h \o r) \o b) \o v = (h \o r) \o (b \o v)
  <2>1. PICK g \in Seq(Nat) : g = h \o r
    BY <1>3
  <2>2. b \in Seq(Nat) /\ v \in Seq(Nat)
    BY <1>1
  <2>3. (g \o b) \o v = g \o (b \o v)
    BY <2>2, Assoc, ZenonT(60)
  <2> QED BY <2>1, <2>3
<1>6. (h \o r) \o b \in Seq(Nat) /\ Len((h \o r) \o b) = Len(h \o r) + Len(b)
  BY <1>1, <1>3, CatType, Zenon
<1>7. h \o a \in Seq(Nat) /\ Len(h \o a) = Len(h \o r) + 1
  BY <1>1, <1>2, <1>4, <1>6, Zenon
<1>8. (h \o a) \o v = (h \o r) \o t
  BY <1>1, <1>2, <1>4, <1>5, Zenon
<1> QED
  BY <1>7, <1>8 DEF a, v

LEMMA ToldSetIrq ==
  ASSUME Typed, Told, NEW level \in BOOLEAN, SetIrq(level), UNCHANGED <<rised, intq>>
  PROVE  Told'
<1>1. CASE level = irq
  BY <1>1 DEF SetIrq, Told, Seen
<1>2. CASE level # irq
  <2>1. irq' = level /\ edges' = Append(edges, level)
    BY <1>2 DEF SetIrq
  <2>2. edges' # <<>> /\ Last(edges') = level
    BY <2>1, LastOfAppend DEF Typed
  <2> QED BY <2>1, <2>2 DEF Told, Seen
<1> QED BY <1>1, <1>2

\* Who moves the line, and who moves what is known of it.
LEMMA EdgeCases ==
  ASSUME Typed, [Next]_vars
  PROVE  \/ Pop \/ HandleEvent
         \/ UNCHANGED <<rised, intq, irq, edges>>
         \/ UNCHANGED <<rised, intq>> /\ \E level \in BOOLEAN : SetIrq(level)
<1>1. \A m : PostponeMessage(m) =>
             UNCHANGED <<irq, edges>> \/ SetIrq(TRUE)
  BY DEF PostponeMessage, Flush
<1>2. CASE Top \/ Check \/ Send \/ Parse \/ SpuriousWakeup
           \/ SyncClock \/ McuVersion \/ InfoPush \/ DecodeSkip \/ DecodeWait
           \/ ShiftDisplay \/ HandleEventFails \/ TransferFails
           \/ UNCHANGED vars
  BY <1>2 DEF Top, Check, Send, Parse, SpuriousWakeup, SyncClock,
     McuVersion, InfoPush, Push, Begin, DecodeSkip, DecodeWait,
     ShiftDisplay, HandleEventFails, TransferFails, vars, wire, pi
<1>3. CASE Clock
  <2>1. UNCHANGED <<rised, intq>>
    BY <1>3 DEF Clock
  <2>2. UNCHANGED <<irq, edges>> \/ SpiSend
    BY <1>3 DEF Clock
  <2>3. UNCHANGED <<irq, edges>> \/ SetIrq(FALSE)
    BY <2>2 DEF SpiSend
  <2> QED BY <2>1, <2>3
<1>4. CASE \E status \in Statuses : Decode(status)
  <2>1. PICK status \in Statuses : Decode(status)
    BY <1>4
  <2>2. UNCHANGED <<rised, intq>>
    BY <2>1 DEF Decode, pi
  <2>3. \/ PostponeMessage(StatusMsg(Taken[3], status, Taken[4]))
        \/ UNCHANGED <<irq, edges>>
    BY <2>1 DEF Decode
  <2> QED BY <1>1, <2>2, <2>3
<1>5. CASE PostponeTry
  BY <1>5 DEF PostponeTry, Flush, pi
<1>6. CASE Notify
  <2>1. UNCHANGED <<rised, intq>> /\ PostponeMessage(SuspendMsg)
    BY <1>6 DEF Notify, pi
  <2> QED BY <1>1, <2>1
<1>7. CASE Provoke
  BY <1>7 DEF Provoke, pi
<1> QED
  BY <1>2, <1>3, <1>4, <1>5, <1>6, <1>7 DEF Next

LEMMA ToldStep == Typed /\ Told /\ [Next]_vars => Told'
<1> SUFFICES ASSUME Typed, Told, [Next]_vars PROVE Told'
  OBVIOUS
<1>1. CASE Pop
  <2>1. CASE intq = <<>>
    BY <1>1, <2>1 DEF Pop, wire, Told, Seen
  <2>2. CASE intq # <<>>
    <3>1. rised' = Head(intq) /\ intq' = Tail(intq) /\ irq' = irq /\ edges' = edges
      BY <1>1, <2>2 DEF Pop, wire
    <3>2. intq \in Seq(BOOLEAN)
      BY DEF Typed
    <3>3. Tail(intq) # <<>> => Last(Tail(intq)) = Last(intq)
      BY <2>2, <3>2, LastOfTail
    <3>4. Tail(intq) = <<>> => Last(intq) = Head(intq)
      BY <2>2, <3>2, HeadIsLast
    <3> QED BY <2>2, <3>1, <3>3, <3>4 DEF Told, Seen
  <2> QED BY <2>1, <2>2
<1>2. CASE HandleEvent
  <2>1. /\ edges # <<>> /\ edges' = Tail(edges) /\ intq' = Append(intq, Head(edges))
        /\ UNCHANGED <<rised, irq>>
    BY <1>2 DEF HandleEvent
  <2>2. edges \in Seq(BOOLEAN) /\ intq \in Seq(BOOLEAN) /\ Head(edges) \in BOOLEAN
    BY <2>1, HeadTailProperties DEF Typed
  <2>3. intq' # <<>> /\ Last(intq') = Head(edges)
    BY <2>1, <2>2, LastOfAppend
  <2>4. Tail(edges) # <<>> => Last(Tail(edges)) = Last(edges)
    BY <2>1, <2>2, LastOfTail
  <2>5. Tail(edges) = <<>> => Last(edges) = Head(edges)
    BY <2>1, <2>2, HeadIsLast
  <2> QED BY <2>1, <2>3, <2>4, <2>5 DEF Told, Seen
<1>3. CASE UNCHANGED <<rised, intq, irq, edges>>
  BY <1>3 DEF Told, Seen
<1>4. CASE UNCHANGED <<rised, intq>> /\ \E level \in BOOLEAN : SetIrq(level)
  BY <1>4, ToldSetIrq
<1> QED
  BY <1>1, <1>2, <1>3, <1>4, EdgeCases

LEMMA InitUnheard == ~Reconnect /\ Init => Unheard
<1> SUFFICES ASSUME ~Reconnect, Init PROVE Unheard
  OBVIOUS
<1>1. Len(write_buf) = 5
  <2>1. VersionMsg \in Messages /\ Len(VersionMsg.pay) = 1
    BY MsgFacts DEF Replies
  <2>2. Len(wrap(VersionMsg)) = Len(VersionMsg.pay) + 4
    BY <2>1, WrapFacts
  <2> QED BY <2>1, <2>2 DEF Init
<1>2. Taken = <<>>
  BY DEF Init, Taken
<1>3. \A i \in 1 .. Len(toq) : Len(toq[i].pay) = 2
  BY DEF Init
<1> QED
  BY <1>1, <1>2, <1>3 DEF Init, Unheard

\* The daemon's own steps before it has sent anything.
LEMMA UnheardPi ==
  ASSUME Typed, Unheard,
         \/ Top \/ Pop \/ Check \/ Send \/ Parse \/ SpuriousWakeup
         \/ HandleEvent \/ HandleEventFails \/ TransferFails
  PROVE  Unheard'
<1>1. CASE Top
  <2>1. pc = "top" /\ pc' = "pop" /\ UNCHANGED <<rised, intq, toq, wire, avr, user, tx>>
    BY <1>1 DEF Top, Unheard
  <2> QED BY <2>1 DEF Unheard, wire, avr, user, Taken
<1>2. CASE Pop
  <2>1. /\ pc = "pop" /\ pc' = "check" /\ rised' = rised /\ intq' = intq
        /\ UNCHANGED <<toq, wire, avr, user, tx>>
    BY <1>2 DEF Pop, Unheard
  <2> QED BY <2>1 DEF Unheard, wire, avr, user, Taken
<1>3. CASE Check
  <2>1. /\ pc = "check" /\ pc' \in {"wait", "send"}
        /\ UNCHANGED <<rised, intq, toq, wire, avr, user, tx>>
    BY <1>3 DEF Check
  <2> QED BY <2>1 DEF Unheard, wire, avr, user, Taken
<1>4. CASE Send
  <2>1. CASE toq # <<>> /\ toq' = Tail(toq) /\ Begin(Head(toq))
    <3>1. /\ toq \in Seq(Messages) /\ Len(toq) \in Nat /\ Len(toq) # 0
      BY <2>1, EmptySeq DEF Typed
    <3>2. Head(toq) \in Messages /\ Len(Head(toq).pay) = 2
      <4>1. Head(toq) = toq[1] /\ 1 \in 1 .. Len(toq)
        BY <3>1
      <4> QED BY <3>1, <4>1, ElementOfSeq DEF Unheard
    <3>3. \A i \in 1 .. Len(toq') : Len(toq'[i].pay) = 2
      <4>1. /\ Len(Tail(toq)) = Len(toq) - 1
            /\ \A i \in 1 .. Len(Tail(toq)) : Tail(toq)[i] = toq[i + 1]
        BY <2>1, <3>1, HeadTailProperties
      <4>2. \A i \in 1 .. Len(Tail(toq)) : i + 1 \in 1 .. Len(toq)
        BY <3>1, <4>1
      <4> QED BY <2>1, <4>1, <4>2 DEF Unheard
    <3>4. /\ Len(tx') = 6 /\ tx'[1] = EYE_CATCH /\ tx'[2] = 4 /\ tx' \in Seq(Nat)
      <4>1. PICK m \in Messages : m = Head(toq) /\ Len(m.pay) = 2
        BY <3>2
      <4>2. /\ wrap(m) \in Seq(Nat) /\ Len(wrap(m)) = Len(m.pay) + 4
            /\ wrap(m)[1] = EYE_CATCH /\ wrap(m)[2] = Len(m.pay) + 2
        BY WrapFacts
      <4>3. tx' = wrap(m)
        BY <2>1, <4>1 DEF Begin
      <4>4. Len(wrap(m)) = 6 /\ wrap(m)[2] = 4
        <5>1. Len(m.pay) = 2
          BY <4>1
        <5>2. Len(wrap(m)) = 2 + 4 /\ wrap(m)[2] = 2 + 2
          BY <4>2, <5>1
        <5> QED BY <5>2
      <4> QED BY <4>2, <4>3, <4>4
    <3>5. pc = "send" /\ pc' = "xfer"
          /\ UNCHANGED <<rised, intq, wire, avr, user>>
      BY <1>4, <2>1 DEF Send, Begin
    <3>6. Taken = <<>> /\ Taken' = <<>> /\ Len(write_buf) = 5
      BY <3>5 DEF Unheard, Taken, wire, avr
    <3>7. (Taken \o tx)' = tx' /\ Len(Taken') = 0
      <4>1. (Taken \o tx)' = <<>> \o tx'
        BY <3>6
      <4> QED BY <3>4, <3>6, <4>1, ConcatEmptySeq, EmptySeq
    <3>8. pc' = "xfer" =>
            /\ Len((Taken \o tx)') = 6 /\ (Taken \o tx)'[1] = EYE_CATCH
            /\ (Taken \o tx)'[2] = 4
            /\ Len(Taken') <= 5 /\ Len(write_buf') = 5 - Len(Taken')
            /\ Len(rx') = Len(Taken')
      <4>1. Len(rx') = 0
        BY <2>1, EmptySeq DEF Begin
      <4> QED BY <3>4, <3>5, <3>6, <3>7, <4>1 DEF wire
    <3> QED BY <3>3, <3>5, <3>8 DEF Unheard, wire, avr, user
  <2>2. CASE /\ pc' = "top"
             /\ UNCHANGED <<rised, intq, toq, pending, tx, rx, mbuf, wire, avr,
                            user>>
    <3>1. pc = "send"
      BY <1>4 DEF Send
    <3> QED BY <2>2, <3>1 DEF Unheard, wire, avr, user, Taken
  <2> QED BY <1>4, <2>1, <2>2 DEF Send
<1>5. CASE Parse
  <2>1. pc = "parse" /\ rx = <<>> /\ ~rised
    BY <1>5 DEF Parse, Unheard
  <2>2. Len(rx) = 0
    BY <2>1, EmptySeq
  <2>3. rx' = <<>> /\ pc' = "top" /\ UNCHANGED greet
    BY <1>5, <2>1, <2>2 DEF Parse
  <2>4. UNCHANGED <<rised, intq, toq, tx, wire, avr>>
    BY <1>5 DEF Parse
  <2>5. Taken' = Taken
    BY <2>4 DEF wire, avr, Taken
  <2> QED BY <2>1, <2>3, <2>4, <2>5 DEF Unheard, wire, avr
<1>6. CASE SpuriousWakeup
  <2>1. pc = "wait" /\ pc' = "top" /\ UNCHANGED <<rised, intq, toq, wire, avr, user, tx>>
    BY <1>6 DEF SpuriousWakeup
  <2> QED BY <2>1 DEF Unheard, wire, avr, user, Taken
<1>7. CASE HandleEvent \/ HandleEventFails
  BY <1>7 DEF HandleEvent, HandleEventFails, Unheard
<1>8. CASE TransferFails
  <2>1. /\ pc = "xfer" /\ rx = <<>> /\ rx' = rx /\ pc' = "parse"
        /\ UNCHANGED <<rised, intq, toq, irq, edges, read_buf, write_buf, avr, user>>
    BY <1>8 DEF TransferFails
  <2>2. Len(Taken) = 0 /\ Len(write_buf) = 5
    <3>1. Len(rx) = 0
      BY <2>1, EmptySeq
    <3>2. Len(Taken) = Len(rx) /\ Len(write_buf) = 5 - Len(Taken)
      BY <2>1 DEF Unheard
    <3> QED BY <3>1, <3>2
  <2>3. Taken = <<>>
    BY <2>2, TakenType, EmptySeq
  <2>4. Taken' = Taken
    BY <2>1 DEF avr, Taken
  <2> QED BY <2>1, <2>2, <2>3, <2>4 DEF Unheard, avr, user
<1> QED
  BY <1>1, <1>2, <1>3, <1>4, <1>5, <1>6, <1>7, <1>8

\* The clock is the only one who queues a message before VERSION is seen.
LEMMA UnheardPush ==
  ASSUME Typed, Unheard, SyncClock \/ McuVersion \/ InfoPush
  PROVE  Unheard'
<1>1. SyncClock
  BY DEF McuVersion, InfoPush, Unheard
<1> DEFINE m == Msg(next_serial, MSG_ID_SYNC_CLOCK, Zeros(2))
<1>2. m \in Messages /\ Len(m.pay) = 2
  <2>1. Zeros(2) \in Seq(Nat) /\ Len(Zeros(2)) = 2
    BY ZerosType
  <2>2. next_serial \in Nat
    BY SpiAssumption DEF next_serial, Typed
  <2> QED BY <2>1, <2>2, MsgType DEF MSG_ID_SYNC_CLOCK
<1>3. toq' = Append(toq, m) /\ pc' \in {pc, "top"} /\ (pc = "xfer" => pc' = pc)
      /\ (pc # "xfer" => pc' # "xfer")
      /\ (pc # "parse" => pc' # "parse")
      /\ UNCHANGED <<rised, intq, wire, avr, tx, rx, greet>>
  BY <1>1 DEF SyncClock, Push, Notified
<1> HIDE DEF m
<1>4. \A i \in 1 .. Len(toq') : Len(toq'[i].pay) = 2
  <2>1. /\ Len(toq') = Len(toq) + 1 /\ Len(toq) \in Nat
        /\ \A i \in 1 .. Len(toq) : toq'[i] = toq[i]
        /\ toq'[Len(toq) + 1] = m
    BY <1>2, <1>3, AppendProperties DEF Typed
  <2>2. \A i \in 1 .. Len(toq') : i \in 1 .. Len(toq) \/ i = Len(toq) + 1
    BY <2>1
  <2> QED BY <1>2, <2>1, <2>2 DEF Unheard
<1>5. pc' \in {"top", "pop", "check", "wait", "send", "xfer", "parse"}
  BY <1>3 DEF Unheard
<1>6. Taken' = Taken
  BY <1>3 DEF wire, avr, Taken
<1> QED
  BY <1>3, <1>4, <1>5, <1>6 DEF Unheard, wire, avr

\* A byte in each direction; the sixth finds nothing to say and lowers the
\* line, and that edge is the first the daemon is told of.
LEMMA UnheardClock ==
  ASSUME Typed, Unheard, Clock
  PROVE  Told' \/ Unheard'
<1>1. /\ pc = "xfer" /\ tx # <<>> /\ tx' = Tail(tx)
      /\ pc' = IF tx' = <<>> THEN "parse" ELSE "xfer"
      /\ UNCHANGED <<rised, intq, toq, avr, user>>
  BY DEF Clock
<1>2. /\ Len(Taken \o tx) = 6 /\ (Taken \o tx)[1] = EYE_CATCH
      /\ (Taken \o tx)[2] = 4
      /\ Len(Taken) <= 5 /\ Len(write_buf) = 5 - Len(Taken)
  BY <1>1 DEF Unheard
<1>3. /\ Taken \in Seq(Nat) /\ Len(Taken) = Len(hdr) + Len(read_buf)
      /\ Len(hdr) \in Nat /\ Len(read_buf) \in Nat
  BY TakenType DEF Typed
<1>4. Len(read_buf) # BufSize /\ Len(read_buf) # BufSize - 1
  <2>1. BufSize > 6
    BY SpiAssumption DEF ENOUGH_SPACE
  <2> QED BY <1>2, <1>3, <2>1, SpiAssumption
<1>5. read_buf' = Append(read_buf, Head(tx)) /\ SpiSend
  BY <1>4 DEF Clock
<1>6. Taken' = hdr \o Append(read_buf, Head(tx))
  BY <1>1, <1>5 DEF Taken, avr
<1>7. /\ Taken' \in Seq(Nat) /\ Len(Taken') = Len(Taken) + 1
      /\ Taken' \o tx' = Taken \o tx
  <2>1. /\ hdr \in Seq(Nat) /\ read_buf \in Seq(Nat) /\ tx \in Seq(Nat)
    BY DEF Typed
  <2>2. /\ hdr \o Append(read_buf, Head(tx)) \in Seq(Nat)
        /\ Len(hdr \o Append(read_buf, Head(tx))) = Len(hdr \o read_buf) + 1
        /\ (hdr \o Append(read_buf, Head(tx))) \o Tail(tx) = (hdr \o read_buf) \o tx
    BY <1>1, <2>1, MoveByte
  <2> QED BY <1>1, <1>6, <2>2, Zenon DEF Taken
<1>8. write_buf \in Seq(Nat) /\ (write_buf = <<>> <=> Len(write_buf) = 0)
  BY EmptySeq DEF Typed
<1>9. CASE write_buf = <<>>
  <2>1. irq' = FALSE /\ edges' = Append(edges, FALSE)
    BY <1>5, <1>9 DEF SpiSend, SetIrq, Unheard
  <2>2. edges' # <<>> /\ Last(edges') = FALSE
    BY <2>1, LastOfAppend DEF Typed
  <2> QED BY <2>1, <2>2 DEF Told, Seen
<1>10. CASE write_buf # <<>>
  <2>1. write_buf' = Tail(write_buf) /\ UNCHANGED <<irq, edges>>
    BY <1>5, <1>10 DEF SpiSend
  <2>2. Len(write_buf') = Len(write_buf) - 1
    BY <1>8, <1>10, <2>1, HeadTailProperties
  <2>3. Len(write_buf) # 0 /\ Len(write_buf) \in Nat
    BY <1>8, <1>10
  <2>4. Len(Taken') <= 5 /\ Len(write_buf') = 5 - Len(Taken')
    BY <1>2, <1>3, <1>7, <2>2, <2>3
  <2>5. pc' = "xfer"
    <3>1. tx' \in Seq(Nat)
      BY ClockTyped
    <3>2. Len(Taken' \o tx') = Len(Taken') + Len(tx')
      BY <1>7, <3>1, CatType
    <3>3. Len(Taken' \o tx') = 6 /\ Len(tx') \in Nat
      BY <1>2, <1>7, <3>1
    <3>4. Len(tx') # 0
      BY <2>4, <3>2, <3>3, <1>7
    <3>5. tx' # <<>>
      BY <3>4, EmptySeq
    <3> QED BY <1>1, <3>5
  <2>6. /\ Len(Taken' \o tx') = 6 /\ (Taken' \o tx')[1] = EYE_CATCH
        /\ (Taken' \o tx')[2] = 4
    BY <1>2, <1>7
  <2>7. /\ irq' /\ ~rised' /\ intq' = <<>> /\ edges' = <<>>
        /\ greet' = "no" /\ ~connected' /\ slot' = <<>>
        /\ \A i \in 1 .. Len(toq') : Len(toq'[i].pay) = 2
    BY <1>1, <2>1 DEF Unheard, avr, user
  <2>8. Len(rx') = Len(Taken')
    <3>1. Len(rx) = Len(Taken) /\ rx' = Append(rx, spdr)
      BY <1>1 DEF Unheard, Clock
    <3>2. Len(rx') = Len(rx) + 1
      BY <3>1, AppendProperties DEF Typed
    <3> QED BY <1>7, <3>1, <3>2
  <2> QED BY <2>4, <2>5, <2>6, <2>7, <2>8 DEF Unheard
<1> QED BY <1>9, <1>10

LEMMA UnheardAvr ==
  ASSUME Typed, Unheard,
         \/ DecodeSkip \/ DecodeWait \/ \E status \in Statuses : Decode(status)
         \/ PostponeTry \/ Notify \/ Provoke \/ ShiftDisplay
  PROVE  Unheard'
<1>1. Taken \in Seq(Nat) /\ Len(Taken) \in Nat
      /\ Len(Taken) = Len(hdr) + Len(read_buf)
  BY TakenType
<1>2. read_buf # <<>> => Len(Taken) # 0 /\ pc = "xfer"
  <2>1. ASSUME read_buf # <<>> PROVE Len(Taken) # 0
    <3>1. Len(read_buf) \in Nat \ {0} /\ Len(hdr) \in Nat
      BY <2>1, EmptySeq DEF Typed
    <3> QED BY <1>1, <3>1
  <2>2. Taken = <<>> => Len(Taken) = 0
    BY EmptySeq
  <2> QED BY <2>1, <2>2 DEF Unheard
<1>3. ASSUME pc = "xfer", NEW i \in 1 .. Len(Taken)
      PROVE  Taken[i] = (Taken \o tx)[i]
  <2>1. tx \in Seq(Nat)
    BY DEF Typed
  <2> QED BY <1>1, <2>1, CatLeft
<1>4. CASE DecodeSkip
  <2>1. read_buf # <<>> /\ hdr = <<>> /\ Head(read_buf) # EYE_CATCH
    BY <1>4 DEF DecodeSkip
  <2>2. Taken = read_buf
    BY <2>1, ConcatEmptySeq DEF Taken, Typed
  <2>3. 1 \in 1 .. Len(Taken) /\ pc = "xfer"
    BY <1>1, <1>2, <2>1
  <2>4. Taken[1] = EYE_CATCH
    BY <1>3, <2>3 DEF Unheard
  <2> QED BY <2>1, <2>2, <2>4
<1>5. CASE DecodeWait
  <2>1. Taken' = Taken
    BY <1>5, DecodeWaits
  <2>2. UNCHANGED <<pi, irq, edges, spdr, write_buf, lost, slot, shift, connected,
                    notes, user>>
    BY <1>5 DEF DecodeWait
  <2> QED BY <2>1, <2>2 DEF Unheard, pi, user
<1>6. CASE \E status \in Statuses : Decode(status)
  <2>1. read_buf # <<>> /\ Ready
    BY <1>6 DEF Decode
  <2>2. pc = "xfer" /\ Len(Taken) >= 4 /\ Len(Taken) - 4 >= PayloadSize
    BY <1>2, <2>1 DEF Ready
  <2>3. Taken[2] = 4
    <3>1. 2 \in 1 .. Len(Taken)
      BY <1>1, <2>2
    <3> QED BY <1>3, <2>2, <3>1 DEF Unheard
  <2>4. PayloadSize = 2
    BY <2>3 DEF PayloadSize
  <2>5. Len(Taken) <= 5
    BY <2>2 DEF Unheard
  <2> QED BY <1>1, <2>2, <2>4, <2>5
<1>7. CASE PostponeTry
  BY <1>7 DEF PostponeTry, Unheard
<1>8. CASE Notify \/ Provoke
  BY <1>8 DEF Notify, Provoke, Unheard
<1>9. CASE ShiftDisplay
  BY <1>9 DEF ShiftDisplay, Unheard, pi, wire, user, Taken
<1> QED
  BY <1>4, <1>5, <1>6, <1>7, <1>8, <1>9

LEMMA EdgeStep == Typed /\ EdgeInv /\ [Next]_vars => EdgeInv'
<1> SUFFICES ASSUME Typed, EdgeInv, [Next]_vars PROVE EdgeInv'
  OBVIOUS
<1>1. CASE Told
  BY <1>1, ToldStep DEF EdgeInv
<1>2. CASE Unheard
  <2>1. CASE \/ Top \/ Pop \/ Check \/ Send \/ Parse \/ SpuriousWakeup
             \/ HandleEvent \/ HandleEventFails \/ TransferFails
    BY <1>2, <2>1, UnheardPi DEF EdgeInv
  <2>2. CASE SyncClock \/ McuVersion \/ InfoPush
    BY <1>2, <2>2, UnheardPush DEF EdgeInv
  <2>3. CASE Clock
    BY <1>2, <2>3, UnheardClock DEF EdgeInv
  <2>4. CASE \/ DecodeSkip \/ DecodeWait \/ \E status \in Statuses : Decode(status)
             \/ PostponeTry \/ Notify \/ Provoke \/ ShiftDisplay
    BY <1>2, <2>4, UnheardAvr DEF EdgeInv
  <2>5. CASE UNCHANGED vars
    BY <1>2, <2>5 DEF EdgeInv, Unheard, vars, pi, wire, avr, user, Taken
  <2> QED BY <2>1, <2>2, <2>3, <2>4, <2>5 DEF Next
<1> QED BY <1>1, <1>2 DEF EdgeInv

\* An AVR that was reset with the daemon's start: once VERSION has been seen,
\* the newest edge between the kernel and the thread, or the level the thread
\* has taken from the last one, is the level of the line.  The edge that nobody
\* saw is made up for by the one that ends the first exchange; until then the
\* AVR cannot say anything else, because it has not got one whole message
\* (spi-interrupt.cpp 71-102, mcu-handle.cpp 44-52, spi.c 136-143).
THEOREM ThreadFollowsLine == ASSUME ~Reconnect PROVE Spec => []EdgesTellLevel
<1>1. Init => EdgeInv
  BY InitUnheard DEF EdgeInv
<1>2. Typed /\ EdgeInv /\ [Next]_vars => EdgeInv'
  BY EdgeStep
<1>3. Typed /\ EdgeInv => EdgesTellLevel
  <2>1. ASSUME Typed, EdgeInv, greet # "no" PROVE Told
    BY <2>1 DEF EdgeInv, Unheard
  <2> QED BY <2>1, SeenIsLast DEF EdgesTellLevel, Told
<1> QED
  BY <1>1, <1>2, <1>3, SpecTyped, PTL DEF Spec

-----------------------------------------------------------------------------
(* What Frames reads off a sequence of bytes.                              *)

\* One turn of the recursion of Frames, with f for the shorter sequences.
Body(f, s) ==
  IF Len(s) < 4 THEN <<>>
  ELSE IF s[1] # EYE_CATCH THEN f[Tail(s)]
  ELSE IF s[2] > Len(s) - 2 THEN <<>>
  ELSE <<Unwrapped(SubSeq(s, 1, s[2] + 2))>>
         \o f[SubSeq(s, s[2] + 3, Len(s))]

\* Each turn shortens the sequence.
LEMMA BodyLocal ==
  ASSUME NEW f, NEW g, NEW s \in Seq(Nat),
         \A t \in Seq(Nat) : Len(t) < Len(s) => f[t] = g[t]
  PROVE  Body(f, s) = Body(g, s)
<1>1. Len(s) \in Nat
  OBVIOUS
<1>2. CASE Len(s) < 4
  BY <1>2 DEF Body
<1>3. CASE Len(s) >= 4
  <2>1. s # <<>> /\ 1 \in 1 .. Len(s) /\ 2 \in 1 .. Len(s)
    BY <1>1, <1>3, EmptySeq
  <2>2. s[1] \in Nat /\ s[2] \in Nat
    BY <2>1, ElementOfSeq
  <2>3. f[Tail(s)] = g[Tail(s)]
    <3>1. Tail(s) \in Seq(Nat) /\ Len(Tail(s)) = Len(s) - 1
      BY <2>1, HeadTailProperties
    <3>2. Len(Tail(s)) < Len(s)
      BY <1>1, <3>1
    <3> QED BY <3>1, <3>2
  <2>4. s[2] <= Len(s) - 2 =>
          f[SubSeq(s, s[2] + 3, Len(s))] = g[SubSeq(s, s[2] + 3, Len(s))]
    <3> SUFFICES ASSUME s[2] <= Len(s) - 2
                 PROVE  f[SubSeq(s, s[2] + 3, Len(s))] = g[SubSeq(s, s[2] + 3, Len(s))]
      OBVIOUS
    <3>1. PICK n \in Nat : n = s[2] + 2
      BY <2>2
    <3>2. n \in 0 .. Len(s) /\ n + 1 = s[2] + 3 /\ n >= 2
      BY <1>1, <2>2, <3>1
    <3>3. Drop(s, n) \in Seq(Nat) /\ Len(Drop(s, n)) = Len(s) - n
      BY <3>2, DropFacts
    <3>4. Len(Drop(s, n)) < Len(s)
      BY <1>1, <3>2, <3>3
    <3>5. f[Drop(s, n)] = g[Drop(s, n)]
      BY <3>3, <3>4
    <3> QED BY <3>2, <3>5 DEF Drop
  <2>5. s[2] <= Len(s) - 2 <=> ~(s[2] > Len(s) - 2)
    BY <1>1, <2>2
  <2> QED BY <1>1, <1>3, <2>3, <2>4, <2>5, Zenon DEF Body
<1> QED
  BY <1>1, <1>2, <1>3

\* f is what Frames has to be, for the sequences of less than n bytes.
Approx(f, n) == \A s \in Seq(Nat) : Len(s) < n => f[s] = Body(f, s)

LEMMA ApproxUnique ==
  ASSUME NEW f, NEW g, NEW n \in Nat, Approx(f, n), Approx(g, n)
  PROVE  \A s \in Seq(Nat) : Len(s) < n => f[s] = g[s]
<1> DEFINE T == {k \in Nat : k <= n =>
                    \A s \in Seq(Nat) : Len(s) < k => f[s] = g[s]}
<1>1. 0 \in T
  OBVIOUS
<1>2. ASSUME NEW k \in Nat, k \in T PROVE k + 1 \in T
  <2> SUFFICES ASSUME k + 1 <= n, NEW s \in Seq(Nat), Len(s) < k + 1
               PROVE  f[s] = g[s]
    OBVIOUS
  <2>1. \A t \in Seq(Nat) : Len(t) < k => f[t] = g[t]
    BY <1>2
  <2>2. Len(s) \in Nat /\ Len(s) <= k /\ Len(s) < n
    OBVIOUS
  <2>3. \A t \in Seq(Nat) : Len(t) < Len(s) => f[t] = g[t]
    BY <2>1, <2>2
  <2>4. Body(f, s) = Body(g, s)
    BY <2>3, BodyLocal
  <2> QED BY <2>2, <2>4 DEF Approx
<1>3. n \in T
  <2> HIDE DEF T
  <2> QED BY <1>1, <1>2, Induction
<1> QED
  BY <1>3

LEMMA ApproxExists ==
  ASSUME NEW n \in Nat
  PROVE  \E f : Approx(f, n)
<1> DEFINE Has(k) == \E f : Approx(f, k)
           T == {k \in Nat : Has(k)}
<1>1. 0 \in T
  <2>1. Approx(<<>>, 0)
    BY DEF Approx
  <2> QED BY <2>1
<1>2. ASSUME NEW k \in Nat, k \in T PROVE k + 1 \in T
  <2>1. PICK f : Approx(f, k)
    BY <1>2
  <2> DEFINE g == [s \in Seq(Nat) |-> IF Len(s) < k THEN f[s] ELSE Body(f, s)]
  <2>2. \A t \in Seq(Nat) : Len(t) < k => g[t] = f[t]
    OBVIOUS
  <2>3. ASSUME NEW s \in Seq(Nat), Len(s) < k + 1 PROVE g[s] = Body(g, s)
    <3>1. g[s] = Body(f, s)
      BY <2>1 DEF Approx
    <3> HIDE DEF g
    <3>2. Len(s) \in Nat /\ Len(s) <= k
      BY <2>3
    <3>3. \A t \in Seq(Nat) : Len(t) < Len(s) => f[t] = g[t]
      BY <2>2, <3>2
    <3>4. Body(f, s) = Body(g, s)
      BY <3>3, BodyLocal
    <3> QED BY <3>1, <3>4
  <2> HIDE DEF g
  <2>4. Approx(g, k + 1)
    BY <2>3 DEF Approx
  <2> QED BY <2>4
<1> HIDE DEF Has
<1>3. n \in T
  <2> HIDE DEF T
  <2> QED BY <1>1, <1>2, Induction
<1> QED
  BY <1>3 DEF Has

\* Frames is a fixed point of its equation.
LEMMA FramesEquation == \A s \in Seq(Nat) : Frames[s] = Body(Frames, s)
<1> DEFINE A(n) == CHOOSE f : Approx(f, n)
           h == [s \in Seq(Nat) |-> A(Len(s) + 1)[s]]
<1>1. \A n \in Nat : Approx(A(n), n)
  BY ApproxExists
<1>2. \A s \in Seq(Nat) : h[s] = A(Len(s) + 1)[s] /\ Len(s) \in Nat
  OBVIOUS
<1> HIDE DEF A
<1>3. ASSUME NEW s \in Seq(Nat) PROVE h[s] = Body(h, s)
  <2> HIDE DEF h
  <2>1. PICK n \in Nat : n = Len(s)
    OBVIOUS
  <2>2. Approx(A(n + 1), n + 1)
    BY <1>1
  <2>3. h[s] = Body(A(n + 1), s)
    BY <1>2, <2>1, <2>2 DEF Approx
  <2>4. ASSUME NEW t \in Seq(Nat), Len(t) < Len(s)
        PROVE  A(n + 1)[t] = h[t]
    <3>1. PICK k \in Nat : k = Len(t)
      OBVIOUS
    <3>2. Approx(A(k + 1), k + 1)
      BY <1>1
    <3>3. Approx(A(n + 1), k + 1)
      <4>1. \A u \in Seq(Nat) : Len(u) < k + 1 => Len(u) < n + 1
        BY <2>1, <2>4, <3>1
      <4> QED BY <2>2, <4>1 DEF Approx
    <3>4. A(k + 1)[t] = A(n + 1)[t]
      <4>1. Len(t) < k + 1 /\ k + 1 \in Nat
        BY <3>1
      <4> QED BY <3>2, <3>3, <4>1, ApproxUnique
    <3> QED BY <1>2, <3>1, <3>4
  <2>5. Body(A(n + 1), s) = Body(h, s)
    <3> DEFINE f == A(n + 1)
    <3>1. \A t \in Seq(Nat) : Len(t) < Len(s) => f[t] = h[t]
      BY <2>4
    <3> HIDE DEF f
    <3>2. Body(f, s) = Body(h, s)
      BY <3>1, BodyLocal
    <3> QED BY <3>2 DEF f
  <2> QED BY <2>3, <2>5
<1>4. h = [s \in Seq(Nat) |-> Body(h, s)]
  BY <1>3
<1> HIDE DEF h
<1>5. Frames = CHOOSE f : f = [s \in Seq(Nat) |-> Body(f, s)]
  BY DEF Frames, Body
<1>6. Frames = [s \in Seq(Nat) |-> Body(Frames, s)]
  BY <1>4, <1>5, Zenon
<1> QED
  BY <1>6

LEMMA WrapTake ==
  ASSUME NEW w \in Seq(Nat), NEW s \in Seq(Nat)
  PROVE  SubSeq(w \o s, 1, Len(w)) = w
<1> DEFINE u == w \o s
           t == SubSeq(u, 1, Len(w))
<1>1. Len(w) \in Nat /\ Len(s) \in Nat
  OBVIOUS
<1>2. u \in Seq(Nat) /\ Len(u) = Len(w) + Len(s)
  BY CatType
<1>3. \A i \in 1 .. Len(w) : u[i] = w[i]
  BY CatLeft
<1> HIDE DEF u
<1>4. Len(w) \in 0 .. Len(u)
  BY <1>1, <1>2
<1>5. t \in Seq(Nat) /\ Len(t) = Len(w) /\ \A i \in 1 .. Len(w) : t[i] = u[i]
  BY <1>2, <1>4, TakeDrop
<1> HIDE DEF t
<1>6. t = w
  BY <1>3, <1>5, SeqEqual
<1> QED
  BY <1>6 DEF t, u

\* A byte that does not start a message stands for nothing ...
LEMMA FramesSkip ==
  ASSUME NEW b \in Nat, b # EYE_CATCH, NEW s \in Seq(Nat)
  PROVE  Frames[<<b>> \o s] = Frames[s]
<1> DEFINE h == <<b>>
           u == h \o s
<1>1. h \in Seq(Nat) /\ Len(h) = 1 /\ h[1] = b
  OBVIOUS
<1> HIDE DEF h
<1>2. Len(s) \in Nat
  OBVIOUS
<1>3. u \in Seq(Nat) /\ Len(u) = Len(h) + Len(s)
  BY <1>1, CatType
<1>4. u[1] = b
  <2>1. 1 \in 1 .. Len(h)
    BY <1>1
  <2> QED BY <1>1, <2>1, CatLeft
<1>5. Drop(u, Len(h)) = s
  BY <1>1, DropCat
<1> HIDE DEF u
<1>6. Tail(u) = s
  <2>1. u # <<>>
    BY <1>1, <1>2, <1>3, EmptySeq
  <2>2. Tail(u) = SubSeq(u, 2, Len(u))
    BY <1>3, <2>1, TailIsSubSeq
  <2>3. Len(h) + 1 = 2
    BY <1>1
  <2> QED BY <1>5, <2>2, <2>3 DEF Drop
<1>7. Frames[u] = Body(Frames, u) /\ Frames[s] = Body(Frames, s)
  BY <1>3, FramesEquation
<1>8. CASE Len(u) < 4
  <2>1. Len(s) < 4
    BY <1>1, <1>2, <1>3, <1>8
  <2> QED BY <1>7, <1>8, <2>1 DEF Body, u, h
<1>9. CASE ~(Len(u) < 4)
  <2>1. Body(Frames, u) = Frames[Tail(u)]
    BY <1>4, <1>9 DEF Body
  <2> QED BY <1>6, <1>7, <2>1 DEF u, h
<1> QED BY <1>8, <1>9

\* ... and the bytes of a message stand for it.
LEMMA FramesTake ==
  ASSUME NEW m \in Messages, NEW s \in Seq(Nat)
  PROVE  Frames[wrap(m) \o s] = <<Unwrapped(wrap(m))>> \o Frames[s]
<1>1. PICK w \in Seq(Nat) :
        w = wrap(m) /\ Len(w) = Len(m.pay) + 4 /\ w[1] = EYE_CATCH
        /\ w[2] = Len(m.pay) + 2
  BY WrapFacts
<1>2. Len(m.pay) \in Nat /\ Len(w) \in Nat /\ Len(s) \in Nat
  BY DEF Messages
<1> DEFINE u == w \o s
<1>3. u \in Seq(Nat) /\ Len(u) = Len(w) + Len(s)
  BY CatType
<1>4. u[1] = w[1] /\ u[2] = w[2]
  <2>1. 1 \in 1 .. Len(w) /\ 2 \in 1 .. Len(w)
    BY <1>1, <1>2
  <2> QED BY <2>1, CatLeft
<1>5. SubSeq(u, 1, Len(w)) = w
  BY WrapTake
<1>6. Drop(u, Len(w)) = s
  BY DropCat
<1> HIDE DEF u
<1>7. u[2] + 2 = Len(w) /\ u[2] + 3 = Len(w) + 1
  BY <1>1, <1>2, <1>4
<1>8. ~(Len(u) < 4) /\ u[1] = EYE_CATCH /\ ~(u[2] > Len(u) - 2)
  <2>1. PICK n \in Nat : n = Len(m.pay)
    BY <1>2
  <2>2. Len(u) = n + 4 + Len(s) /\ u[2] = n + 2
    BY <1>1, <1>3, <1>4, <2>1, Zenon
  <2>3. ~(Len(u) < 4) /\ ~(u[2] > Len(u) - 2)
    BY <1>2, <2>2
  <2> QED BY <1>1, <1>4, <2>3, Zenon
<1>9. Body(Frames, u) = <<Unwrapped(SubSeq(u, 1, u[2] + 2))>>
                          \o Frames[SubSeq(u, u[2] + 3, Len(u))]
  BY <1>8, Zenon DEF Body
<1>10. Frames[u] = Body(Frames, u)
  BY <1>3, FramesEquation
<1>11. Frames[u] = <<Unwrapped(w)>> \o Frames[s]
  BY <1>5, <1>6, <1>7, <1>9, <1>10, Zenon DEF Drop
<1> QED
  BY <1>1, <1>11, Zenon DEF u

-----------------------------------------------------------------------------
(* Whole messages.                                                         *)

Grows(C) ==
  /\ <<>> \in C
  /\ \A b \in Nat : \A s \in C : b # EYE_CATCH => <<b>> \o s \in C
  /\ \A m \in Messages : \A s \in C : wrap(m) \o s \in C

\* What can be made of whole messages, and of other bytes between them.
Clean == {s \in Seq(Nat) : \A C \in SUBSET Seq(Nat) : Grows(C) => s \in C}

LEMMA CleanInduction ==
  ASSUME NEW C, C \subseteq Seq(Nat), Grows(C)
  PROVE  Clean \subseteq C
  BY DEF Clean

LEMMA CleanGrows == Grows(Clean)
<1>1. <<>> \in Clean
  BY EmptySeq DEF Clean, Grows
<1>2. ASSUME NEW b \in Nat, NEW s \in Clean, b # EYE_CATCH
      PROVE  <<b>> \o s \in Clean
  <2> DEFINE h == <<b>>
  <2>1. h \in Seq(Nat) /\ s \in Seq(Nat)
    BY DEF Clean
  <2> HIDE DEF h
  <2>2. h \o s \in Seq(Nat)
    BY <2>1, CatType
  <2>3. \A C \in SUBSET Seq(Nat) : Grows(C) => h \o s \in C
    BY <1>2, Zenon DEF Clean, Grows, h
  <2>4. h \o s \in Clean
    BY <2>2, <2>3, Zenon DEF Clean
  <2> QED BY <2>4 DEF h
<1>3. ASSUME NEW m \in Messages, NEW s \in Clean
      PROVE  wrap(m) \o s \in Clean
  <2>1. wrap(m) \in Seq(Nat) /\ s \in Seq(Nat)
    BY WrapFacts DEF Clean
  <2>2. wrap(m) \o s \in Seq(Nat)
    BY <2>1, CatType
  <2>3. \A C \in SUBSET Seq(Nat) : Grows(C) => wrap(m) \o s \in C
    BY Zenon DEF Clean, Grows
  <2> QED BY <2>2, <2>3, Zenon DEF Clean
<1> QED
  BY <1>1, <1>2, <1>3, Zenon DEF Grows

LEMMA CleanType == Clean \subseteq Seq(Nat)
  BY DEF Clean

\* How a sequence of whole messages begins.
Begins(s) ==
  \/ s = <<>>
  \/ \E b \in Nat : \E t \in Clean : b # EYE_CATCH /\ s = <<b>> \o t
  \/ \E m \in Messages : \E t \in Clean : s = wrap(m) \o t

LEMMA CleanBegins == \A s \in Clean : Begins(s)
<1> DEFINE C == {s \in Clean : Begins(s)}
<1>1. C \subseteq Seq(Nat)
  BY CleanType
<1>2. <<>> \in C
  BY CleanGrows DEF Grows, Begins
<1>3. \A b \in Nat : \A s \in C : b # EYE_CATCH => <<b>> \o s \in C
  BY CleanGrows, Zenon DEF Grows, Begins
<1>4. \A m \in Messages : \A s \in C : wrap(m) \o s \in C
  BY CleanGrows, Zenon DEF Grows, Begins
<1> HIDE DEF C
<1>5. Grows(C)
  BY <1>2, <1>3, <1>4, Zenon DEF Grows
<1>6. Clean \subseteq C
  BY <1>1, <1>5, CleanInduction
<1> QED
  BY <1>6 DEF C

\* What is added at the end of whole messages.
LEMMA CleanCat ==
  ASSUME NEW s \in Clean, NEW t \in Clean
  PROVE  s \o t \in Clean
<1> DEFINE C == {r \in Clean : r \o t \in Clean}
<1>0. t \in Seq(Nat)
  BY CleanType
<1>1. C \subseteq Seq(Nat)
  BY CleanType
<1>2. <<>> \in C
  <2>1. <<>> \o t = t
    BY <1>0, ConcatEmptySeq
  <2> QED BY <2>1, CleanGrows DEF Grows
<1>3. ASSUME NEW b \in Nat, NEW r \in C, b # EYE_CATCH PROVE <<b>> \o r \in C
  <2>1. PICK h \in Seq(Nat) : h = <<b>>
    <3>1. <<b>> \in Seq(Nat)
      OBVIOUS
    <3> QED BY <3>1, Zenon
  <2>2. r \in Seq(Nat) /\ r \in Clean /\ r \o t \in Clean
    BY CleanType
  <2>3. h \o r \in Clean /\ h \o (r \o t) \in Clean
    BY <1>3, <2>1, <2>2, CleanGrows, Zenon DEF Grows
  <2>4. (h \o r) \o t = h \o (r \o t)
    BY <1>0, <2>2, Assoc, ZenonT(60)
  <2> QED BY <2>1, <2>3, <2>4, Zenon
<1>4. ASSUME NEW m \in Messages, NEW r \in C PROVE wrap(m) \o r \in C
  <2>1. PICK h \in Seq(Nat) : h = wrap(m)
    BY WrapFacts
  <2>2. r \in Seq(Nat) /\ r \in Clean /\ r \o t \in Clean
    BY CleanType
  <2>3. h \o r \in Clean /\ h \o (r \o t) \in Clean
    BY <2>1, <2>2, CleanGrows, Zenon DEF Grows
  <2>4. (h \o r) \o t = h \o (r \o t)
    BY <1>0, <2>2, Assoc, ZenonT(60)
  <2> QED BY <2>1, <2>3, <2>4, Zenon
<1> HIDE DEF C
<1>5. Grows(C)
  BY <1>2, <1>3, <1>4, Zenon DEF Grows
<1>6. Clean \subseteq C
  BY <1>1, <1>5, CleanInduction
<1> QED
  BY <1>6 DEF C

\* A byte between messages, and a message, are whole.
LEMMA CleanByte ==
  ASSUME NEW b \in Nat, b # EYE_CATCH
  PROVE  <<b>> \in Clean
<1>1. PICK h \in Seq(Nat) : h = <<b>>
  <2>1. <<b>> \in Seq(Nat)
    OBVIOUS
  <2> QED BY <2>1, Zenon
<1>2. h \o <<>> \in Clean
  BY <1>1, CleanGrows, Zenon DEF Grows
<1>3. h \o <<>> = h
  BY ConcatEmptySeq
<1> QED
  BY <1>1, <1>2, <1>3, Zenon

LEMMA CleanMessage ==
  ASSUME NEW m \in Messages
  PROVE  wrap(m) \in Clean
<1>1. PICK h \in Seq(Nat) : h = wrap(m)
  BY WrapFacts
<1>2. h \o <<>> \in Clean
  BY <1>1, CleanGrows, Zenon DEF Grows
<1>3. h \o <<>> = h
  BY ConcatEmptySeq
<1> QED
  BY <1>1, <1>2, <1>3, Zenon

\* An underflow byte adds nothing to what whole messages stand for.
LEMMA CleanFrames ==
  ASSUME NEW s \in Clean, NEW b \in Nat, b # EYE_CATCH
  PROVE  Frames[s \o <<b>>] = Frames[s]
<1>1. PICK t \in Seq(Nat) : t = <<b>>
  <2>1. <<b>> \in Seq(Nat)
    OBVIOUS
  <2> QED BY <2>1, Zenon
<1> DEFINE C == {r \in Seq(Nat) : Frames[r \o t] = Frames[r]}
<1>2. C \subseteq Seq(Nat)
  OBVIOUS
<1>3. <<>> \in C
  <2>1. <<>> \in Seq(Nat)
    BY EmptySeq
  <2>2. t \o <<>> = t /\ <<>> \o t = t
    BY ConcatEmptySeq
  <2>3. Frames[t \o <<>>] = Frames[<<>>]
    BY <1>1, <2>1, FramesSkip, Zenon
  <2> QED BY <2>1, <2>2, <2>3, Zenon
<1>4. ASSUME NEW c \in Nat, NEW r \in C, c # EYE_CATCH PROVE <<c>> \o r \in C
  <2>1. PICK h \in Seq(Nat) : h = <<c>>
    <3>1. <<c>> \in Seq(Nat)
      OBVIOUS
    <3> QED BY <3>1, Zenon
  <2>2. r \in Seq(Nat) /\ Frames[r \o t] = Frames[r]
    OBVIOUS
  <2>3. r \o t \in Seq(Nat) /\ h \o r \in Seq(Nat)
    BY <2>2, CatType
  <2>4. (h \o r) \o t = h \o (r \o t)
    BY <2>2, Assoc, ZenonT(60)
  <2>5. Frames[h \o (r \o t)] = Frames[r \o t] /\ Frames[h \o r] = Frames[r]
    BY <1>4, <2>1, <2>2, <2>3, FramesSkip, Zenon
  <2>6. h \o r \in C
    BY <2>2, <2>3, <2>4, <2>5, Zenon
  <2> QED BY <2>1, <2>6, Zenon
<1>5. ASSUME NEW m \in Messages, NEW r \in C PROVE wrap(m) \o r \in C
  <2>1. PICK h \in Seq(Nat) : h = wrap(m)
    BY WrapFacts
  <2>2. r \in Seq(Nat) /\ Frames[r \o t] = Frames[r]
    OBVIOUS
  <2>3. r \o t \in Seq(Nat) /\ h \o r \in Seq(Nat)
    BY <2>2, CatType
  <2>4. (h \o r) \o t = h \o (r \o t)
    BY <2>2, Assoc, ZenonT(60)
  <2>5. /\ Frames[h \o (r \o t)] = <<Unwrapped(h)>> \o Frames[r \o t]
        /\ Frames[h \o r] = <<Unwrapped(h)>> \o Frames[r]
    BY <2>1, <2>2, <2>3, FramesTake, Zenon
  <2>6. h \o r \in C
    BY <2>2, <2>3, <2>4, <2>5, Zenon
  <2> QED BY <2>1, <2>6, Zenon
<1> HIDE DEF C
<1>6. Grows(C)
  BY <1>3, <1>4, <1>5, Zenon DEF Grows
<1>7. Clean \subseteq C
  BY <1>2, <1>6, CleanInduction
<1>8. s \in C
  BY <1>7
<1> QED
  BY <1>1, <1>8 DEF C

LEMMA DropNone ==
  ASSUME NEW s \in Seq(Nat)
  PROVE  Drop(s, 0) = s
<1>1. 0 + 1 = 1
  OBVIOUS
<1> QED
  BY <1>1, SubSeqFull DEF Drop

LEMMA DropTwice ==
  ASSUME NEW s \in Seq(Nat), NEW n \in Nat, NEW k \in Nat, n + k <= Len(s)
  PROVE  Drop(Drop(s, n), k) = Drop(s, n + k)
<1>1. Len(s) \in Nat
  OBVIOUS
<1>2. n \in 0 .. Len(s) /\ n + k \in 0 .. Len(s)
  BY <1>1
<1> DEFINE d == Drop(s, n)
           e == Drop(d, k)
           f == Drop(s, n + k)
<1>3. d \in Seq(Nat) /\ Len(d) = Len(s) - n /\ \A i \in 1 .. Len(s) - n : d[i] = s[n + i]
  BY <1>2, DropFacts
<1>4. f \in Seq(Nat) /\ Len(f) = Len(s) - (n + k)
      /\ \A i \in 1 .. Len(s) - (n + k) : f[i] = s[(n + k) + i]
  BY <1>2, DropFacts
<1> HIDE DEF d, f
<1>5. k \in 0 .. Len(d)
  BY <1>1, <1>3
<1>6. e \in Seq(Nat) /\ Len(e) = Len(d) - k /\ \A i \in 1 .. Len(d) - k : e[i] = d[k + i]
  BY <1>3, <1>5, DropFacts
<1> HIDE DEF e
<1>7. Len(e) = Len(f)
  BY <1>1, <1>3, <1>4, <1>6
<1>8. ASSUME NEW i \in 1 .. Len(e) PROVE e[i] = f[i]
  <2>1. i \in 1 .. Len(d) - k /\ k + i \in 1 .. Len(s) - n
        /\ i \in 1 .. Len(s) - (n + k) /\ n + (k + i) = (n + k) + i
    BY <1>1, <1>3, <1>4, <1>6, <1>7
  <2>2. e[i] = d[k + i]
    BY <1>6, <2>1
  <2>3. d[k + i] = s[n + (k + i)]
    BY <1>3, <2>1
  <2>4. f[i] = s[(n + k) + i]
    BY <1>4, <2>1
  <2> QED BY <2>1, <2>2, <2>3, <2>4
<1>9. e = f
  BY <1>4, <1>6, <1>7, <1>8, SeqEqual
<1> QED
  BY <1>9 DEF d, e, f

\* Whole messages without the bytes before the first of them.
LEMMA CleanDrop ==
  ASSUME NEW s \in Clean, NEW n \in 0 .. Len(s),
         \A i \in 1 .. n : s[i] # EYE_CATCH
  PROVE  Drop(s, n) \in Clean
<1> DEFINE Cut(k) == k <= n => Drop(s, k) \in Clean
           T == {k \in Nat : Cut(k)}
<1>0. s \in Seq(Nat) /\ Len(s) \in Nat
  BY CleanType
<1>1. 0 \in T
  BY <1>0, DropNone
<1>2. ASSUME NEW k \in Nat, k \in T PROVE k + 1 \in T
  <2> SUFFICES ASSUME k + 1 <= n PROVE Drop(s, k + 1) \in Clean
    OBVIOUS
  <2>1. PICK d \in Clean : d = Drop(s, k)
    BY <1>2
  <2>2. k \in 0 .. Len(s)
    BY <1>0
  <2>3. d \in Seq(Nat) /\ Len(d) = Len(s) - k /\ \A i \in 1 .. Len(s) - k : d[i] = s[k + i]
    BY <1>0, <2>1, <2>2, DropFacts
  <2>4. 1 \in 1 .. Len(s) - k /\ k + 1 \in 1 .. n
    BY <1>0
  <2>5. d[1] # EYE_CATCH /\ Len(d) # 0
    BY <1>0, <2>3, <2>4
  <2>6. Drop(s, k + 1) = Drop(d, 1)
    <3>1. k + 1 <= Len(s)
      BY <1>0
    <3> QED BY <1>0, <2>1, <3>1, DropTwice
  <2>7. Begins(d)
    BY CleanBegins
  <2>8. d # <<>>
    BY <2>5, EmptySeq
  <2>9. CASE \E b \in Nat : \E t \in Clean : b # EYE_CATCH /\ d = <<b>> \o t
    <3>1. PICK b \in Nat, t \in Clean : d = <<b>> \o t
      BY <2>9
    <3> DEFINE h == <<b>>
    <3>2. h \in Seq(Nat) /\ Len(h) = 1 /\ t \in Seq(Nat)
      BY CleanType
    <3>3. d = h \o t
      BY <3>1
    <3> HIDE DEF h
    <3>4. Drop(h \o t, Len(h)) = t
      BY <3>2, DropCat
    <3>5. Drop(d, 1) = t
      BY <3>2, <3>3, <3>4, Zenon
    <3> QED BY <2>6, <3>5
  <2>10. CASE \E m \in Messages : \E t \in Clean : d = wrap(m) \o t
    <3>1. PICK m \in Messages, t \in Clean : d = wrap(m) \o t
      BY <2>10
    <3>2. PICK w \in Seq(Nat) : w = wrap(m) /\ Len(w) = Len(m.pay) + 4
                                /\ w[1] = EYE_CATCH
      BY WrapFacts
    <3>3. t \in Seq(Nat) /\ 1 \in 1 .. Len(w)
      <4>1. Len(m.pay) \in Nat
        BY DEF Messages
      <4> QED BY <3>2, <4>1, CleanType
    <3>4. (w \o t)[1] = w[1]
      BY <3>3, CatLeft
    <3> QED BY <2>5, <3>1, <3>2, <3>4
  <2> QED BY <2>7, <2>8, <2>9, <2>10 DEF Begins
<1> HIDE DEF T
<1>3. n \in T
  BY <1>1, <1>2, Induction
<1> QED
  BY <1>3 DEF T

\* The first message, and those that follow it.
LEMMA CleanTake ==
  ASSUME NEW s \in Clean, s # <<>>, s[1] = EYE_CATCH
  PROVE  \E n \in Nat : /\ n = s[2] + 2 /\ n >= 4 /\ n <= Len(s)
                        /\ Drop(s, n) \in Clean
<1>1. Begins(s)
  BY CleanBegins
<1>2. CASE \E b \in Nat : \E t \in Clean : b # EYE_CATCH /\ s = <<b>> \o t
  <2>1. PICK b \in Nat, t \in Clean : b # EYE_CATCH /\ s = <<b>> \o t
    BY <1>2
  <2> DEFINE h == <<b>>
  <2>2. h \in Seq(Nat) /\ 1 \in 1 .. Len(h) /\ h[1] = b /\ t \in Seq(Nat)
    BY CleanType
  <2>3. s = h \o t
    BY <2>1
  <2> HIDE DEF h
  <2>4. (h \o t)[1] = h[1]
    BY <2>2, CatLeft
  <2> QED BY <2>1, <2>2, <2>3, <2>4
<1>3. CASE \E m \in Messages : \E t \in Clean : s = wrap(m) \o t
  <2>1. PICK m \in Messages, t \in Clean : s = wrap(m) \o t
    BY <1>3
  <2>2. PICK w \in Seq(Nat) : w = wrap(m) /\ Len(w) = Len(m.pay) + 4
                              /\ w[2] = Len(m.pay) + 2
    BY WrapFacts
  <2>3. PICK k \in Nat : k = Len(m.pay)
    BY DEF Messages
  <2>4. Len(w) = k + 4 /\ w[2] = k + 2 /\ t \in Seq(Nat) /\ Len(t) \in Nat
    BY <2>2, <2>3, CleanType
  <2>5. 2 \in 1 .. Len(w)
    BY <2>4
  <2>6. (w \o t)[2] = w[2] /\ Len(w \o t) = Len(w) + Len(t)
        /\ Drop(w \o t, Len(w)) = t
    BY <2>4, <2>5, CatLeft, CatType, DropCat
  <2>7. s = w \o t
    BY <2>1, <2>2
  <2>8. s[2] = k + 2 /\ Len(s) = k + 4 + Len(t) /\ Drop(s, k + 4) = t
    BY <2>4, <2>6, <2>7, Zenon
  <2>9. k + 4 \in Nat /\ k + 4 = s[2] + 2 /\ k + 4 >= 4 /\ k + 4 <= Len(s)
    BY <2>4, <2>8
  <2> QED BY <2>8, <2>9
<1> QED BY <1>1, <1>2, <1>3 DEF Begins

-----------------------------------------------------------------------------
(* What write_msg makes of the bytes it received.                          *)

\* A message that ends before the last byte was complete one byte earlier.
LEMMA CompleteEarlier ==
  ASSUME NEW t \in Seq(Nat), NEW r \in Seq(Nat), Len(t) = Len(r) + 1,
         \A i \in 1 .. Len(r) : r[i] = t[i],
         Complete(Strip(t)), 4 <= Strip(t)[2] + 2, Strip(t)[2] + 2 < Len(Strip(t))
  PROVE  Complete(Strip(r))
<1>1. Len(t) \in Nat /\ Len(r) \in Nat
  OBVIOUS
<1>2. Strip(t) # <<>>
  <2>1. Len(Strip(t)) >= 4
    BY DEF Complete
  <2>2. Len(<<>>) = 0
    BY EmptySeq
  <2> QED BY <2>1, <2>2
<1>3. PICK at \in 1 .. Len(t) : /\ t[at] = EYE_CATCH
                                /\ \A i \in 1 .. Len(t) : i < at => t[i] # EYE_CATCH
                                /\ Strip(t) = Drop(t, at - 1)
  BY <1>2, StripFacts
<1>4. PICK n \in Nat : n = at - 1 /\ n + 1 = at /\ n \in 0 .. Len(t)
  BY <1>1
<1> DEFINE u == Drop(t, n)
<1>5. u \in Seq(Nat) /\ Len(u) = Len(t) - n /\ \A i \in 1 .. Len(t) - n : u[i] = t[n + i]
  BY <1>4, DropFacts
<1>6. Strip(t) = u
  BY <1>3, <1>4
<1> HIDE DEF u
<1>7. Complete(u) /\ 4 <= u[2] + 2 /\ u[2] + 2 < Len(u)
  BY <1>6
<1>8. Len(u) >= 4 /\ 2 \in 1 .. Len(t) - n /\ Len(u) \in Nat
  BY <1>1, <1>4, <1>5, <1>7 DEF Complete
<1>9. u[2] \in Nat /\ u[2] = t[n + 2]
  <2>1. 2 \in 1 .. Len(u)
    BY <1>8
  <2> QED BY <1>5, <1>8, <2>1, ElementOfSeq
<1>10. Len(u) >= 5 /\ u[2] <= Len(u) - 3
  <2>1. PICK a \in Nat, b \in Nat : a = Len(u) /\ b = u[2]
    BY <1>8, <1>9
  <2>2. 4 <= b + 2 /\ b + 2 < a
    BY <1>7, <2>1, Zenon
  <2>3. a >= 5 /\ b <= a - 3
    BY <2>2
  <2> QED BY <2>1, <2>3, Zenon
<1>11. n + 2 \in 1 .. Len(r) /\ n + 1 \in 1 .. Len(r) /\ n \in 0 .. Len(r)
  <2>1. Len(u) = Len(t) - n /\ Len(t) = Len(r) + 1
    BY <1>5
  <2>2. PICK l \in Nat : l = Len(r)
    BY <1>1
  <2>3. n + 5 <= l + 1
    BY <1>1, <1>10, <2>1, <2>2
  <2>4. n + 2 \in 1 .. l /\ n + 1 \in 1 .. l /\ n \in 0 .. l
    BY <2>3
  <2> QED BY <2>2, <2>4, Zenon
<1>12. r[at] = EYE_CATCH /\ \A i \in 1 .. Len(r) : i < at => r[i] # EYE_CATCH
  <2>1. \A i \in 1 .. Len(r) : i \in 1 .. Len(t)
    BY <1>1
  <2> QED BY <1>3, <1>4, <1>11, <2>1
<1>13. Strip(r) = Drop(r, n)
  <2>1. at \in 1 .. Len(r)
    BY <1>4, <1>11
  <2>2. PICK a \in 1 .. Len(r) : /\ r[a] = EYE_CATCH
                                 /\ \A i \in 1 .. Len(r) : i < a => r[i] # EYE_CATCH
                                 /\ Strip(r) = Drop(r, a - 1)
    BY <1>12, <2>1, StripFacts
  <2>3. ~(a < at) /\ ~(at < a)
    BY <1>12, <2>1, <2>2
  <2>4. a = at
    BY <2>1, <2>3
  <2> QED BY <1>4, <2>2, <2>4
<1> DEFINE v == Drop(r, n)
<1>14. v \in Seq(Nat) /\ Len(v) = Len(r) - n /\ \A i \in 1 .. Len(r) - n : v[i] = r[n + i]
  BY <1>11, DropFacts
<1>15. Strip(r) = v
  BY <1>13
<1> HIDE DEF v
<1>16. Len(v) = Len(u) - 1
  BY <1>1, <1>4, <1>5, <1>14
<1>17. v[2] = u[2]
  <2>1. 2 \in 1 .. Len(r) - n
    BY <1>1, <1>4, <1>11
  <2> QED BY <1>9, <1>11, <1>14, <2>1
<1>18. Complete(v)
  BY <1>8, <1>9, <1>10, <1>16, <1>17 DEF Complete
<1> QED
  BY <1>15, <1>18

\* What is left of an earlier transfer: the beginning of a message.
Rest == mbuf # <<>> => mbuf[1] = EYE_CATCH /\ ~Complete(mbuf)

LEMMA UptoZero ==
  ASSUME Typed, Rest
  PROVE  Upto(0) = mbuf /\ ~Complete(mbuf)
<1>1. mbuf \in Seq(Nat) /\ Len(mbuf) \in Nat
  BY DEF Typed
<1>2. Upto(0) = Strip(mbuf)
  <2>1. SubSeq(rx, 1, 0) = <<>>
    BY SubSeqEmpty
  <2>2. mbuf \o <<>> = mbuf
    BY <1>1, ConcatEmptySeq
  <2> QED BY <2>1, <2>2 DEF Upto
<1>3. CASE mbuf = <<>>
  <2>1. Len(mbuf) = 0
    BY <1>3, EmptySeq
  <2>2. Strip(mbuf) = <<>>
    <3>1. ~(\E at \in 1 .. Len(mbuf) : TRUE)
      BY <2>1
    <3> QED BY <1>1, <3>1, StripFacts
  <2> QED BY <1>2, <1>3, <2>1, <2>2 DEF Complete
<1>4. CASE mbuf # <<>>
  <2>1. mbuf[1] = EYE_CATCH /\ ~Complete(mbuf) /\ 1 \in 1 .. Len(mbuf)
    BY <1>1, <1>4, EmptySeq DEF Rest
  <2>2. PICK at \in 1 .. Len(mbuf) :
          /\ \A i \in 1 .. Len(mbuf) : i < at => mbuf[i] # EYE_CATCH
          /\ Strip(mbuf) = Drop(mbuf, at - 1)
    BY <1>1, <2>1, StripFacts
  <2>3. ~(1 < at)
    BY <2>1, <2>2
  <2>4. at - 1 = 0
    BY <2>3
  <2>5. Strip(mbuf) = mbuf
    BY <1>1, <2>2, <2>4, DropNone
  <2> QED BY <1>2, <2>1, <2>5
<1> QED BY <1>3, <1>4

\* The bytes before the first EYE_CATCH are dropped ...
LEMMA StripClean ==
  ASSUME NEW s \in Seq(Nat), NEW z \in Seq(Nat), s \o z \in Clean
  PROVE  Strip(s) \o z \in Clean
<1>1. Len(s) \in Nat /\ Len(z) \in Nat
  OBVIOUS
<1> DEFINE u == s \o z
<1>2. u \in Clean /\ u \in Seq(Nat) /\ Len(u) = Len(s) + Len(z)
  BY CatType
<1>3. \A i \in 1 .. Len(s) : u[i] = s[i]
  BY CatLeft
<1>4. Drop(u, Len(s)) = z
  BY DropCat
<1>5. \A n \in 0 .. Len(s) : Drop(u, n) = Drop(s, n) \o z
  BY DropOfCat
<1> HIDE DEF u
<1>6. CASE (\A i \in 1 .. Len(s) : s[i] # EYE_CATCH) /\ Strip(s) = <<>>
  <2>1. \A i \in 1 .. Len(s) : u[i] # EYE_CATCH
    BY <1>3, <1>6
  <2>2. Len(s) \in 0 .. Len(u)
    BY <1>1, <1>2
  <2>3. Drop(u, Len(s)) \in Clean
    BY <1>2, <2>1, <2>2, CleanDrop
  <2>4. <<>> \o z = z
    BY ConcatEmptySeq
  <2> QED BY <1>4, <1>6, <2>3, <2>4
<1>7. CASE \E at \in 1 .. Len(s) :
             /\ \A i \in 1 .. Len(s) : i < at => s[i] # EYE_CATCH
             /\ Strip(s) = Drop(s, at - 1)
  <2>1. PICK at \in 1 .. Len(s) :
             /\ \A i \in 1 .. Len(s) : i < at => s[i] # EYE_CATCH
             /\ Strip(s) = Drop(s, at - 1)
    BY <1>7
  <2>2. PICK n \in Nat : n = at - 1 /\ n \in 0 .. Len(s) /\ n \in 0 .. Len(u)
    BY <1>1, <1>2
  <2>3. \A i \in 1 .. n : u[i] # EYE_CATCH
    <3>1. \A i \in 1 .. n : i \in 1 .. Len(s) /\ i < at
      BY <2>2
    <3> QED BY <1>3, <2>1, <3>1
  <2>4. Drop(u, n) \in Clean
    BY <1>2, <2>2, <2>3, CleanDrop
  <2> QED BY <1>5, <2>1, <2>2, <2>4
<1> QED BY <1>6, <1>7, StripFacts

\* ... and a stripped sequence starts with one.
LEMMA StripStarts ==
  ASSUME NEW s \in Seq(Nat), Strip(s) # <<>>
  PROVE  Strip(s)[1] = EYE_CATCH
<1>1. PICK at \in 1 .. Len(s) : s[at] = EYE_CATCH /\ Strip(s) = Drop(s, at - 1)
  BY StripFacts
<1>2. PICK n \in Nat : n = at - 1 /\ n \in 0 .. Len(s) /\ 1 \in 1 .. Len(s) - n
                       /\ n + 1 = at
  <2>1. Len(s) \in Nat
    OBVIOUS
  <2> QED BY <2>1
<1>3. Drop(s, n)[1] = s[n + 1]
  BY <1>2, DropFacts
<1> QED BY <1>1, <1>2, <1>3

\* The first byte that completes a message is its last one.
LEMMA FirstIsWhole ==
  ASSUME Typed, Rest, NEW k \in 1 .. Len(rx), Complete(Upto(k)),
         \A j \in 1 .. Len(rx) : Complete(Upto(j)) => k <= j,
         4 <= Upto(k)[2] + 2, Upto(k)[2] + 2 <= Len(Upto(k))
  PROVE  Upto(k)[2] + 2 = Len(Upto(k))
<1>1. Len(rx) \in Nat /\ rx \in Seq(Nat) /\ mbuf \in Seq(Nat) /\ Len(mbuf) \in Nat
  BY SMTT(60) DEF Typed
<1>2. PICK p \in Nat : p + 1 = k /\ p \in 0 .. Len(rx)
  <2>1. k - 1 \in Nat /\ (k - 1) + 1 = k /\ k - 1 \in 0 .. Len(rx)
    BY <1>1
  <2> QED BY <2>1
<1> DEFINE x == SubSeq(rx, 1, k)
           y == SubSeq(rx, 1, p)
           t == mbuf \o x
           r == mbuf \o y
<1>3. k \in 0 .. Len(rx)
  BY <1>1
<1>4. x \in Seq(Nat) /\ Len(x) = k /\ \A i \in 1 .. k : x[i] = rx[i]
  BY <1>1, <1>3, TakeDrop
<1>5. y \in Seq(Nat) /\ Len(y) = p /\ \A i \in 1 .. p : y[i] = rx[i]
  BY <1>1, <1>2, TakeDrop
<1> HIDE DEF x, y
<1>6. t \in Seq(Nat) /\ Len(t) = Len(mbuf) + Len(x)
      /\ \A i \in 1 .. Len(mbuf) : t[i] = mbuf[i]
  BY <1>1, <1>4, CatType, CatLeft
<1>7. \A i \in 1 .. Len(x) : t[Len(mbuf) + i] = x[i]
  BY <1>1, <1>4, CatRight
<1>8. r \in Seq(Nat) /\ Len(r) = Len(mbuf) + Len(y)
      /\ \A i \in 1 .. Len(mbuf) : r[i] = mbuf[i]
  BY <1>1, <1>5, CatType, CatLeft
<1>9. \A i \in 1 .. Len(y) : r[Len(mbuf) + i] = y[i]
  BY <1>1, <1>5, CatRight
<1>10. Upto(k) = Strip(t) /\ Upto(p) = Strip(r)
  BY DEF Upto, x, y
<1> HIDE DEF t, r
<1>11. Len(t) = Len(r) + 1 /\ Len(r) = Len(mbuf) + p
  <2>1. Len(t) = Len(mbuf) + k /\ Len(r) = Len(mbuf) + p
    BY <1>4, <1>5, <1>6, <1>8, Zenon
  <2> QED BY <1>1, <1>2, <2>1
<1>12. ASSUME NEW i \in 1 .. Len(r) PROVE r[i] = t[i]
  <2>1. CASE i <= Len(mbuf)
    <3>1. i \in 1 .. Len(mbuf)
      BY <2>1
    <3> QED BY <1>6, <1>8, <3>1
  <2>2. CASE ~(i <= Len(mbuf))
    <3> DEFINE j == i - Len(mbuf)
    <3>1. i = Len(mbuf) + j /\ j \in 1 .. p /\ j \in 1 .. k
      BY SMTT(60), <1>1, <1>2, <1>11, <2>2
    <3> HIDE DEF j
    <3>2. r[i] = y[j] /\ t[i] = x[j]
      BY <1>4, <1>5, <1>7, <1>9, <3>1
    <3> QED BY <1>4, <1>5, <3>1, <3>2
  <2> QED BY <2>1, <2>2
<1>13. ~Complete(Upto(p))
  <2>1. CASE p = 0
    BY <2>1, UptoZero
  <2>2. CASE p # 0
    <3>1. p \in 1 .. Len(rx) /\ ~(k <= p)
      BY <1>1, <1>2, <2>2
    <3> QED BY <3>1
  <2> QED BY <2>1, <2>2
<1>14. ~(Upto(k)[2] + 2 < Len(Upto(k)))
  <2> SUFFICES ASSUME Strip(t)[2] + 2 < Len(Strip(t)) PROVE FALSE
    BY <1>10
  <2>1. Complete(Strip(t)) /\ 4 <= Strip(t)[2] + 2
    BY <1>10
  <2>2. Complete(Strip(r))
    BY <1>6, <1>8, <1>11, <1>12, <2>1, CompleteEarlier
  <2> QED BY <1>10, <1>13, <2>2
<1>15. Upto(k)[2] \in Nat /\ Len(Upto(k)) \in Nat
  <2>1. Upto(k) \in Seq(Nat)
    BY <1>3, UptoType
  <2>2. PICK q \in Seq(Nat) : q = Upto(k)
    BY <2>1
  <2>3. Len(q) >= 4 /\ Len(q) \in Nat
    BY <2>2 DEF Complete
  <2>4. 2 \in 1 .. Len(q)
    BY <2>3
  <2>5. q[2] \in Nat
    BY <2>4, ElementOfSeq
  <2> QED BY <2>2, <2>3, <2>5
<1> QED
  BY <1>14, <1>15

\* write_msg takes whole messages from the front of the bytes received, and what
\* it leaves is the beginning of a message: whatever follows, the rest of the
\* bytes is as whole as all of them were.
LEMMA ParseWhole ==
  ASSUME Typed, Parse, Rest
  PROVE  /\ Rest'
         /\ \A z \in Seq(Nat) :
              (mbuf \o rx) \o z \in Clean => (mbuf' \o rx') \o z \in Clean
<1>1. Len(rx) \in Nat /\ rx \in Seq(Nat) /\ mbuf \in Seq(Nat)
  BY DEF Typed
<1>2. CASE /\ \A k \in 1 .. Len(rx) : ~Complete(Upto(k))
           /\ mbuf' = Upto(Len(rx)) /\ rx' = <<>>
  <2>1. SubSeq(rx, 1, Len(rx)) = rx
    BY <1>1, SubSeqFull
  <2>2. mbuf' = Strip(mbuf \o rx)
    BY <1>2, <2>1 DEF Upto
  <2>3. PICK s \in Seq(Nat) : s = mbuf \o rx
    BY <1>1, CatType
  <2>4. ~Complete(mbuf')
    <3>1. CASE Len(rx) = 0
      BY <1>2, <3>1, UptoZero
    <3>2. CASE Len(rx) # 0
      <4>1. Len(rx) \in 1 .. Len(rx)
        BY <1>1, <3>2
      <4> QED BY <1>2, <4>1
    <3> QED BY <3>1, <3>2
  <2>5. mbuf' # <<>> => mbuf'[1] = EYE_CATCH
    BY <2>2, <2>3, StripStarts
  <2>6. mbuf' \o rx' = mbuf'
    <3>1. Strip(s) \in Seq(Nat)
      BY StripType
    <3> QED BY <1>2, <2>2, <2>3, <3>1, ConcatEmptySeq
  <2>7. ASSUME NEW z \in Seq(Nat), (mbuf \o rx) \o z \in Clean
        PROVE  (mbuf' \o rx') \o z \in Clean
    <3>1. Strip(s) \o z \in Clean
      BY <2>3, <2>7, StripClean
    <3> QED BY <2>2, <2>3, <2>6, <3>1, Zenon
  <2>8. Rest'
    BY <2>4, <2>5 DEF Rest, Complete
  <2> QED BY <2>7, <2>8
<1>3. CASE \E k \in 1 .. Len(rx) :
             /\ Complete(Upto(k))
             /\ \A j \in 1 .. Len(rx) : Complete(Upto(j)) => k <= j
             /\ mbuf' = <<>> /\ rx' = Drop(rx, k)
  <2>1. PICK k \in 1 .. Len(rx) :
             /\ Complete(Upto(k))
             /\ \A j \in 1 .. Len(rx) : Complete(Upto(j)) => k <= j
             /\ mbuf' = <<>> /\ rx' = Drop(rx, k)
    BY <1>3
  <2>2. k \in 0 .. Len(rx)
    BY <1>1
  <2>3. PICK t \in Seq(Nat) : t = mbuf \o SubSeq(rx, 1, k)
    BY <2>2, UptoType
  <2>4. PICK d \in Seq(Nat) : d = Drop(rx, k)
    BY <1>1, <2>2, DropFacts
  <2>5. mbuf \o rx = t \o d
    <3>1. PICK x \in Seq(Nat) : x = SubSeq(rx, 1, k)
      BY <1>1, <2>2, TakeDrop
    <3>2. x \o d = rx
      BY <1>1, <2>2, <2>4, <3>1, TakeDrop
    <3>3. (mbuf \o x) \o d = mbuf \o (x \o d)
      BY ZenonT(60), <1>1, Assoc
    <3> QED BY <2>3, <3>1, <3>2, <3>3, Zenon
  <2>6. PICK u \in Seq(Nat) : u = Strip(t) /\ u = Upto(k)
    <3>1. Strip(t) = Upto(k)
      BY <2>3 DEF Upto
    <3>2. Strip(t) \in Seq(Nat)
      BY StripType
    <3> QED BY <3>1, <3>2, Zenon
  <2>7. Complete(u) /\ Len(u) >= 4 /\ Len(u) \in Nat
    BY <2>1, <2>6 DEF Complete
  <2>8. u # <<>> /\ u[1] = EYE_CATCH
    <3>1. u # <<>>
      BY <2>7, EmptySeq
    <3> QED BY <2>6, <3>1, StripStarts
  <2>9. mbuf' \o rx' = d
    BY <2>1, <2>4, ConcatEmptySeq
  <2>10. ASSUME NEW z \in Seq(Nat), (mbuf \o rx) \o z \in Clean
         PROVE  (mbuf' \o rx') \o z \in Clean
    <3>1. PICK y \in Seq(Nat) : y = d \o z
      BY CatType
    <3>2. (mbuf \o rx) \o z = t \o y
      <4>1. (t \o d) \o z = t \o (d \o z)
        BY ZenonT(60), Assoc
      <4> QED BY <2>5, <3>1, <4>1, Zenon
    <3>3. u \o y \in Clean
      BY <2>6, <2>10, <3>2, StripClean
    <3>4. PICK c \in Clean : c = u \o y
      BY <3>3
    <3>5. c \in Seq(Nat) /\ Len(c) = Len(u) + Len(y)
      BY <3>4, CatType, CleanType
    <3>6. 1 \in 1 .. Len(u) /\ 2 \in 1 .. Len(u)
      BY <2>7
    <3>7. c[1] = u[1] /\ c[2] = u[2]
      BY <3>4, <3>6, CatLeft
    <3>8. c # <<>>
      <4>1. Len(y) \in Nat
        OBVIOUS
      <4>2. Len(c) # 0
        BY <2>7, <3>5, <4>1
      <4> QED BY <4>2, EmptySeq
    <3>9. PICK n \in Nat : /\ n = c[2] + 2 /\ n >= 4 /\ n <= Len(c)
                           /\ Drop(c, n) \in Clean
      BY <2>8, <3>7, <3>8, CleanTake
    <3>10. n = Len(u)
      <4>1. u[2] \in Nat
        BY <3>6, ElementOfSeq
      <4>2. u[2] <= Len(u) - 2
        BY <2>7 DEF Complete
      <4>3. 4 <= u[2] + 2 /\ u[2] + 2 <= Len(u)
        <5>1. PICK e \in Nat, l \in Nat : e = u[2] /\ l = Len(u)
          BY <2>7, <4>1
        <5>2. n = e + 2 /\ n >= 4 /\ e <= l - 2
          BY <3>7, <3>9, <4>2, <5>1, Zenon
        <5>3. 4 <= e + 2 /\ e + 2 <= l
          BY <5>2
        <5> QED BY <5>1, <5>3, Zenon
      <4>4. u[2] + 2 = Len(u)
        BY <2>1, <2>6, <4>3, FirstIsWhole
      <4> QED BY <3>7, <3>9, <4>4
    <3>11. Drop(u \o y, Len(u)) = y
      BY DropCat
    <3>12. y \in Clean
      BY <3>4, <3>9, <3>10, <3>11, Zenon
    <3> QED BY <2>9, <3>1, <3>12, Zenon
  <2>11. Rest'
    BY <2>1 DEF Rest
  <2> QED BY <2>10, <2>11
<1> QED
  BY <1>2, <1>3, ParseCases

-----------------------------------------------------------------------------
(* A low line.                                                             *)

\* The bytes the daemon has and those it has yet to clock out are whole
\* messages; with a low line there is nothing in write_buf and no piece of a
\* message in SPDR, and between two transfers everything received is parsed.
Whole ==
  /\ (mbuf \o rx) \o (<<spdr>> \o write_buf) \in Clean
  /\ ~irq => /\ write_buf = <<>> /\ spdr = SPI_WRITE_UNDERFLOW
             /\ mbuf \o rx \in Clean
  /\ Rest
  /\ pc \in {"top", "pop", "check", "wait", "send"} => rx = <<>>

\* A message that is appended to write_buf.
LEMMA FlushWhole ==
  ASSUME Typed, Whole, NEW m \in Messages, irq' = TRUE,
         write_buf' = write_buf \o wrap(m) \/ write_buf' = write_buf,
         UNCHANGED <<mbuf, rx, spdr, pc>>
  PROVE  Whole'
<1>1. (mbuf' \o rx') \o (<<spdr'>> \o write_buf') \in Clean
  <2>1. CASE write_buf' = write_buf
    BY <2>1 DEF Whole
  <2>2. CASE write_buf' = write_buf \o wrap(m)
    <3>1. PICK a \in Seq(Nat) : a = mbuf \o rx
      BY CatType DEF Typed
    <3>2. PICK b \in Seq(Nat) : b = <<spdr>>
      <4>1. <<spdr>> \in Seq(Nat)
        BY DEF Typed
      <4> QED BY <4>1, Zenon
    <3>3. PICK w \in Clean : w = wrap(m)
      BY CleanMessage
    <3>4. w \in Seq(Nat) /\ write_buf \in Seq(Nat) /\ b \o write_buf \in Seq(Nat)
      BY CleanType, CatType DEF Typed
    <3>5. (a \o (b \o write_buf)) \o w \in Clean
      <4>1. a \o (b \o write_buf) \in Clean
        BY <3>1, <3>2, Zenon DEF Whole
      <4> QED BY <4>1, CleanCat
    <3>6. (a \o (b \o write_buf)) \o w = a \o ((b \o write_buf) \o w)
      BY <3>4, Assoc, ZenonT(60)
    <3>7. (b \o write_buf) \o w = b \o (write_buf \o w)
      BY <3>4, Assoc, ZenonT(60)
    <3> QED BY <2>2, <3>1, <3>2, <3>3, <3>5, <3>6, <3>7, Zenon
  <2> QED BY <2>1, <2>2
<1>2. Rest'
  BY DEF Whole, Rest, Complete
<1>3. pc' \in {"top", "pop", "check", "wait", "send"} => rx' = <<>>
  BY DEF Whole
<1> QED
  BY <1>1, <1>2, <1>3 DEF Whole

\* A byte on the wire: the one in SPDR goes to the daemon, and the next one
\* takes its place.
LEMMA ClockWhole ==
  ASSUME MaxLost = 0, Typed, Whole, Clock
  PROVE  Whole'
<1>1. Len(read_buf) # BufSize /\ Len(read_buf) # BufSize - 1
  <2>1. notes \in Nat /\ lost \in Nat /\ MainLoopKeepsUp
    BY DEF Typed, Clock
  <2>2. Len(read_buf) < BufSize - 1
    BY <2>1 DEF MainLoopKeepsUp
  <2>3. Len(read_buf) \in Nat
    BY DEF Typed
  <2> QED BY <2>2, <2>3, SpiAssumption
<1>2. SpiSend /\ rx' = Append(rx, spdr) /\ mbuf' = mbuf /\ pc' \in {"parse", "xfer"}
  BY <1>1 DEF Clock
<1>3. Rest'
  BY <1>2 DEF Whole, Rest, Complete
<1>4. PICK b \in Seq(Nat) : b = <<spdr>>
  <2>1. <<spdr>> \in Seq(Nat)
    BY DEF Typed
  <2> QED BY <2>1, Zenon
<1>5. PICK a \in Seq(Nat) : a = mbuf \o rx
  BY CatType DEF Typed
<1>6. mbuf' \o rx' = a \o b
  <2>1. Append(rx, spdr) = rx \o <<spdr>>
    BY AppendIsConcat DEF Typed
  <2>2. (mbuf \o rx) \o b = mbuf \o (rx \o b)
    <3>1. mbuf \in Seq(Nat) /\ rx \in Seq(Nat)
      BY DEF Typed
    <3> QED BY <3>1, Assoc, ZenonT(60)
  <2> QED BY <1>2, <1>4, <1>5, <2>1, <2>2, Zenon
<1>7. a \o (b \o write_buf) \in Clean
  BY <1>4, <1>5, Zenon DEF Whole
<1>8. a \o (b \o write_buf) = (a \o b) \o write_buf
  BY ZenonT(60), Assoc DEF Typed
<1>9. PICK c \in Clean : c = (a \o b) \o write_buf
  BY <1>7, <1>8
<1>10. CASE /\ write_buf # <<>>
            /\ spdr' = Head(write_buf) /\ write_buf' = Tail(write_buf)
            /\ UNCHANGED <<irq, edges>>
  <2>1. <<spdr'>> \o write_buf' = write_buf
    BY <1>10, HeadTailCat DEF Typed
  <2>2. (mbuf' \o rx') \o (<<spdr'>> \o write_buf') \in Clean
    BY <1>6, <1>9, <2>1, Zenon
  <2>3. irq'
    BY <1>10 DEF Whole
  <2> QED BY <1>2, <1>3, <2>2, <2>3 DEF Whole
<1>11. CASE /\ write_buf = <<>>
            /\ spdr' = SPI_WRITE_UNDERFLOW /\ SetIrq(FALSE)
            /\ UNCHANGED write_buf
  <2>1. a \o b \in Clean
    <3>1. a \o b \in Seq(Nat)
      BY CatType
    <3>2. (a \o b) \o <<>> = a \o b
      BY <3>1, ConcatEmptySeq
    <3> QED BY <1>9, <1>11, <3>2, Zenon
  <2>2. <<spdr'>> \o write_buf' \in Clean
    <3>1. SPI_WRITE_UNDERFLOW \in Nat /\ SPI_WRITE_UNDERFLOW # EYE_CATCH
      BY DEF SPI_WRITE_UNDERFLOW, EYE_CATCH
    <3>2. PICK h \in Clean : h = <<spdr'>>
      BY <1>11, <3>1, CleanByte
    <3>3. h \o <<>> = h
      BY CleanType, ConcatEmptySeq
    <3> QED BY <1>11, <3>2, <3>3, Zenon
  <2>3. mbuf' \o rx' \in Clean
    BY <1>6, <2>1, Zenon
  <2>4. (mbuf' \o rx') \o (<<spdr'>> \o write_buf') \in Clean
    BY <2>2, <2>3, CleanCat
  <2>5. write_buf' = <<>> /\ spdr' = SPI_WRITE_UNDERFLOW
    BY <1>11
  <2> QED BY <1>2, <1>3, <2>3, <2>4, <2>5, Zenon DEF Whole
<1> QED
  BY <1>2, <1>10, <1>11 DEF SpiSend

LEMMA ParseKeepsWhole ==
  ASSUME Typed, Whole, Parse
  PROVE  Whole'
<1>1. write_buf' = write_buf /\ spdr' = spdr /\ irq' = irq
  BY DEF Parse, wire
<1>2. PICK z \in Seq(Nat) : z = <<spdr>> \o write_buf
  <2>1. PICK b \in Seq(Nat) : b = <<spdr>>
    <3>1. <<spdr>> \in Seq(Nat)
      BY DEF Typed
    <3> QED BY <3>1, Zenon
  <2>2. b \o write_buf \in Seq(Nat)
    BY CatType DEF Typed
  <2> QED BY <2>1, <2>2, Zenon
<1>3. /\ Rest'
      /\ \A y \in Seq(Nat) :
           (mbuf \o rx) \o y \in Clean => (mbuf' \o rx') \o y \in Clean
  BY ParseWhole DEF Whole
<1>4. (mbuf' \o rx') \o z \in Clean
  BY <1>2, <1>3, Zenon DEF Whole
<1>5. mbuf \o rx \in Clean => mbuf' \o rx' \in Clean
  <2>1. mbuf \o rx \in Seq(Nat) /\ mbuf' \o rx' \in Seq(Nat)
    BY CatType, ParseTyped DEF Typed
  <2>2. (mbuf \o rx) \o <<>> = mbuf \o rx /\ (mbuf' \o rx') \o <<>> = mbuf' \o rx'
    BY <2>1, ConcatEmptySeq
  <2>3. <<>> \in Seq(Nat)
    BY EmptySeq
  <2> QED BY <1>3, <2>2, <2>3, Zenon
<1>6. pc' \in {"top", "pop", "check", "wait", "send"} => rx' = <<>>
  <2>1. rx' = <<>> \/ pc' \in {"parse", "dead"}
    BY ParseCases
  <2> QED BY <2>1
<1>7. (mbuf' \o rx') \o (<<spdr'>> \o write_buf') \in Clean
  BY <1>1, <1>2, <1>4, Zenon
<1>8. ~irq' => /\ write_buf' = <<>> /\ spdr' = SPI_WRITE_UNDERFLOW
               /\ mbuf' \o rx' \in Clean
  BY <1>1, <1>5, Zenon DEF Whole
<1> QED
  BY <1>3, <1>6, <1>7, <1>8, Zenon DEF Whole

\* Whatever leaves the bytes alone.
LEMMA SameWhole ==
  ASSUME Typed, Whole, UNCHANGED <<mbuf, rx, spdr, write_buf>>, irq' = irq \/ irq' = TRUE,
         pc' = pc \/ pc' = "xfer" \/ rx = <<>>
  PROVE  Whole'
<1>1. Rest'
  BY DEF Whole, Rest, Complete
<1>2. pc' \in {"top", "pop", "check", "wait", "send"} => rx' = <<>>
  BY DEF Whole
<1> QED
  BY <1>1, <1>2 DEF Whole

LEMMA PostponeWhole ==
  ASSUME Typed, Whole, NEW m \in Replies, PostponeMessage(m),
         UNCHANGED <<mbuf, rx, spdr, pc>>
  PROVE  Whole'
<1>1. CASE UNCHANGED <<write_buf, irq>>
  BY <1>1, SameWhole
<1>2. CASE Flush(m)
  <2>1. irq' = TRUE /\ (write_buf' = write_buf \o wrap(m) \/ write_buf' = write_buf)
    BY <1>2 DEF Flush, SetIrq
  <2>2. m \in Messages
    BY DEF Replies
  <2> QED BY <2>1, <2>2, FlushWhole
<1> QED
  BY <1>1, <1>2 DEF PostponeMessage

\* decode_try writes at most one message, a status.
LEMMA DecodeWhole ==
  ASSUME Typed, Whole, NEW status \in Statuses, Decode(status)
  PROVE  Whole'
<1>1. UNCHANGED <<mbuf, rx, spdr, pc>>
  BY DEF Decode, pi
<1>2. \/ UNCHANGED <<write_buf, irq>>
      \/ PostponeMessage(StatusMsg(Taken[3], status, Taken[4]))
  BY DEF Decode
<1>3. CASE UNCHANGED <<write_buf, irq>>
  BY <1>1, <1>3, SameWhole
<1>4. CASE PostponeMessage(StatusMsg(Taken[3], status, Taken[4]))
  <2>1. Taken \in Seq(Nat) /\ Len(Taken) \in Nat /\ Len(Taken) >= 4
    BY TakenType DEF Decode, Ready
  <2>2. 3 \in 1 .. Len(Taken) /\ 4 \in 1 .. Len(Taken)
    BY <2>1
  <2>3. Taken[3] \in Nat /\ Taken[4] \in Nat
    BY <2>1, <2>2, ElementOfSeq
  <2>4. status \in Nat
    BY DEF Statuses, STATUS_SUCCESS, STATUS_FAIL, STATUS_UNKNOWN_MSG
  <2>5. StatusMsg(Taken[3], status, Taken[4]) \in Replies
    BY <2>3, <2>4, StatusType
  <2> QED BY <1>1, <1>4, <2>5, PostponeWhole
<1> QED
  BY <1>2, <1>3, <1>4

LEMMA WholeStep == MaxLost = 0 /\ Typed /\ Whole /\ [Next]_vars => Whole'
<1> SUFFICES ASSUME MaxLost = 0, Typed, Whole, [Next]_vars PROVE Whole'
  OBVIOUS
<1>1. CASE Top \/ Send
  <2>1. rx = <<>>
    BY <1>1 DEF Top, Send, Whole
  <2>2. rx' = <<>> /\ UNCHANGED <<mbuf, spdr, write_buf, irq>>
    BY <1>1, <2>1 DEF Top, Send, Begin, wire
  <2> QED BY <2>1, <2>2, SameWhole
<1>2. CASE Pop \/ Check \/ SpuriousWakeup
  <2>1. rx = <<>>
    BY <1>2 DEF Pop, Check, SpuriousWakeup, Whole
  <2>2. UNCHANGED <<mbuf, rx, spdr, write_buf, irq>>
    BY <1>2 DEF Pop, Check, SpuriousWakeup, wire
  <2> QED BY <2>1, <2>2, SameWhole
<1>3. CASE Parse
  BY <1>3, ParseKeepsWhole
<1>4. CASE HandleEvent \/ SyncClock \/ McuVersion \/ InfoPush
  <2>1. UNCHANGED <<mbuf, rx, spdr, write_buf, irq>>
    BY <1>4 DEF HandleEvent, SyncClock, McuVersion, InfoPush, Push, wire
  <2>2. pc' = pc \/ pc = "wait"
    BY <1>4 DEF HandleEvent, SyncClock, McuVersion, InfoPush, Push, Notified
  <2>3. pc' = pc \/ rx = <<>>
    BY <2>2 DEF Whole
  <2> QED BY <2>1, <2>3, SameWhole
<1>5. CASE Clock
  BY <1>5, ClockWhole
<1>6. CASE DecodeSkip \/ DecodeWait \/ ShiftDisplay \/ UNCHANGED vars
  <2>1. UNCHANGED <<mbuf, rx, spdr, write_buf, irq, pc>>
    BY <1>6 DEF DecodeSkip, DecodeWait, ShiftDisplay, vars, pi, wire
  <2> QED BY <2>1, SameWhole
<1>7. CASE \E status \in Statuses : Decode(status)
  BY <1>7, DecodeWhole
<1>8. CASE PostponeTry
  <2>1. slot[1] \in Replies
    BY <1>8, ElementOfSeq, EmptySeq DEF PostponeTry, Typed
  <2>2. slot[1] \in Messages
    BY <2>1 DEF Replies
  <2>3. irq' = TRUE /\ (write_buf' = write_buf \o wrap(slot[1]) \/ write_buf' = write_buf)
    BY <1>8 DEF PostponeTry, Flush, SetIrq
  <2>4. UNCHANGED <<mbuf, rx, spdr, pc>>
    BY <1>8 DEF PostponeTry, pi
  <2> QED BY <2>2, <2>3, <2>4, FlushWhole
<1>9. CASE Notify
  <2>1. PostponeMessage(SuspendMsg) /\ UNCHANGED <<mbuf, rx, spdr, pc>>
    BY <1>9 DEF Notify, pi
  <2> QED BY <2>1, MsgFacts, PostponeWhole
<1>10. CASE Provoke
  <2>1. irq' = TRUE /\ UNCHANGED <<mbuf, rx, spdr, write_buf, pc>>
    BY <1>10 DEF Provoke, SetIrq, pi
  <2> QED BY <2>1, SameWhole
<1>11. CASE HandleEventFails \/ TransferFails
  <2>1. lost \in Nat /\ notes \in Nat /\ notes + lost < 0
    BY <1>11 DEF Typed, HandleEventFails, TransferFails
  <2> QED BY <2>1
<1> QED
  BY <1>1, <1>2, <1>3, <1>4, <1>5, <1>6, <1>7, <1>8, <1>9, <1>10, <1>11 DEF Next

LEMMA InitWhole == Init => Whole
<1> SUFFICES ASSUME Init PROVE Whole
  OBVIOUS
<1>1. mbuf = <<>> /\ rx = <<>> /\ irq = TRUE /\ write_buf = wrap(VersionMsg)
  BY DEF Init
<1>2. PICK w \in Clean : w = wrap(VersionMsg)
  BY MsgFacts, CleanMessage DEF Replies
<1>3. <<spdr>> \in Clean
  <2>1. spdr \in Nat /\ spdr # EYE_CATCH
    BY DEF Init, SPI_WRITE_UNDERFLOW, EYE_CATCH
  <2> QED BY <2>1, CleanByte
<1>4. PICK z \in Clean : z = <<spdr>> \o write_buf
  BY <1>1, <1>2, <1>3, CleanCat
<1>5. mbuf \o rx = <<>>
  BY <1>1, EmptySeq, ConcatEmptySeq
<1>6. <<>> \o z = z
  BY CleanType, ConcatEmptySeq
<1>7. (mbuf \o rx) \o (<<spdr>> \o write_buf) \in Clean
  BY <1>4, <1>5, <1>6, Zenon
<1> QED
  BY <1>1, <1>7, Zenon DEF Whole, Rest

\* As long as the main loop keeps up with the wire, a low interrupt line means
\* that the AVR has nothing to say: what the daemon has received holds every
\* message the AVR wrote, and the byte in SPDR belongs to none.  The interrupt
\* handler lowers the line one byte after the last one left write_buf, when that
\* byte has been clocked out too (spi.c 136-142).
THEOREM LowLineMeansReceived ==
  ASSUME MaxLost = 0 PROVE Spec => []LowMeansReceived
<1>1. Init => Whole
  BY InitWhole
<1>2. Typed /\ Whole /\ [Next]_vars => Whole'
  BY WholeStep
<1>3. Typed /\ Whole => LowMeansReceived
  <2> SUFFICES ASSUME Typed, Whole, ~irq PROVE Up = Received
    BY DEF LowMeansReceived
  <2>1. PICK a \in Clean : a = mbuf \o rx
    BY DEF Whole
  <2>2. write_buf = <<>> /\ spdr = SPI_WRITE_UNDERFLOW
    BY DEF Whole
  <2>3. spdr \in Nat /\ spdr # EYE_CATCH
    BY <2>2 DEF SPI_WRITE_UNDERFLOW, EYE_CATCH
  <2>4. PICK b \in Seq(Nat) : b = <<spdr>>
    <3>1. <<spdr>> \in Seq(Nat)
      BY <2>3
    <3> QED BY <3>1, Zenon
  <2>5. Frames[a \o b] = Frames[a]
    BY <2>3, <2>4, CleanFrames, Zenon
  <2>6. (a \o b) \o <<>> = a \o b
    <3>1. a \in Seq(Nat)
      BY CleanType
    <3>2. a \o b \in Seq(Nat)
      BY <3>1, CatType
    <3> QED BY <3>2, ConcatEmptySeq
  <2>7. Up = Frames[((mbuf \o rx) \o b) \o <<>>]
    BY <2>2, <2>4, Zenon DEF Up
  <2> QED BY <2>1, <2>5, <2>6, <2>7, Zenon DEF Received
<1> QED
  BY <1>1, <1>2, <1>3, SpecTyped, PTL DEF Spec
=============================================================================
