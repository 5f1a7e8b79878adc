----------------------------- MODULE TwiProofs ------------------------------
(***************************************************************************)
(* For a ring of any size, any modes, any times the Pi may send, and any   *)
(* number of pulses, calls and faults of the bus: what twi.c and watch.c   *)
(* rely on.                                                                *)
(*                                                                         *)
(* The ring holds the bytes of several requests one after another, which   *)
(* FlattenSeq computes by recursion; what it does to the first and the     *)
(* last request is shown by induction on the length of a sequence, in the  *)
(* form of a set that contains zero and with a number its successor.       *)
(***************************************************************************)
EXTENDS Twi, SequenceTheorems, WellFoundedInduction, TLAPS

\* A non-empty set of natural numbers has a least element.
LEMMA Least ==
  ASSUME NEW T, T \subseteq Nat, T # {}
  PROVE  \E n \in T : \A k \in T : n <= k
<1> DEFINE R == OpToRel(<, Nat)
<1>1. IsWellFoundedOn(R, Nat)
  BY NatLessThanWellFounded
<1>2. PICK n \in T : \A k \in T : <<k, n>> \notin R
  <2> HIDE DEF R
  <2> QED BY <1>1, WFMin
<1>3. \A k \in T : ~(k < n)
  BY <1>2 DEF OpToRel
<1> QED
  BY <1>3

\* Induction, for a set instead of a predicate.
LEMMA Induction ==
  ASSUME NEW T, 0 \in T, \A k \in Nat : k \in T => k + 1 \in T
  PROVE  Nat \subseteq T
<1> DEFINE U == Nat \ T
<1> SUFFICES ASSUME U # {} PROVE FALSE
  OBVIOUS
<1>1. PICK n \in U : \A k \in U : n <= k
  <2>1. U \subseteq Nat
    OBVIOUS
  <2> HIDE DEF U
  <2> QED BY <2>1, Least
<1>2. n \in Nat /\ n # 0 /\ n - 1 \in Nat /\ n - 1 \notin U
  BY <1>1
<1> QED
  BY <1>1, <1>2

-----------------------------------------------------------------------------
(* What FlattenSeq computes.                                               *)

\* f gives for every i up to n the first i members of s, one after another.
Partials(s, f, n) ==
  f = [i \in 1 .. n |-> IF i = 1 THEN s[i] ELSE f[i - 1] \o s[i]]

LEMMA PartialsExist ==
  ASSUME NEW s, NEW n \in Nat, n > 0
  PROVE  \E f : Partials(s, f, n)
<1> DEFINE Has(k) == \E f : Partials(s, f, k)
           T == {k \in Nat : k > 0 => Has(k)}
<1>1. Has(1)
  <2>1. Partials(s, [i \in 1 .. 1 |-> s[1]], 1)
    BY DEF Partials
  <2> QED
    BY <2>1
<1>2. ASSUME NEW k \in Nat, k > 0, Has(k) PROVE Has(k + 1)
  <2>1. PICK f : Partials(s, f, k)
    BY <1>2
  <2> DEFINE g == [i \in 1 .. k + 1 |-> IF i <= k THEN f[i] ELSE f[k] \o s[k + 1]]
  <2>2. \A i \in 1 .. k : f[i] = IF i = 1 THEN s[i] ELSE f[i - 1] \o s[i]
    BY <2>1 DEF Partials
  <2>3. \A i \in 1 .. k + 1 : g[i] = IF i = 1 THEN s[i] ELSE g[i - 1] \o s[i]
    BY <1>2, <2>2
  <2>4. g = [i \in 1 .. k + 1 |-> g[i]]
    OBVIOUS
  <2> HIDE DEF g
  <2>5. g = [i \in 1 .. k + 1 |-> IF i = 1 THEN s[i] ELSE g[i - 1] \o s[i]]
    BY <2>3, <2>4
  <2> QED
    BY <2>5 DEF Partials
<1> HIDE DEF Has
<1>3. 0 \in T /\ \A k \in Nat : k \in T => k + 1 \in T
  BY <1>1, <1>2
<1>4. Nat \subseteq T
  <2> HIDE DEF T
  <2> QED BY <1>3, Induction
<1>5. Has(n)
  BY <1>4
<1> QED
  BY <1>5 DEF Has

LEMMA Flattening ==
  ASSUME NEW s \in Seq(Seq(Nat)), s # <<>>
  PROVE  \E f : /\ \A i \in 1 .. Len(s) :
                     f[i] = IF i = 1 THEN s[i] ELSE f[i - 1] \o s[i]
                /\ FlattenSeq(s) = f[Len(s)]
<1> DEFINE f == CHOOSE f :
             f = [i \in 1 .. Len(s) |-> IF i = 1 THEN s[i] ELSE f[i - 1] \o s[i]]
<1>1. Len(s) \in Nat /\ Len(s) > 0
  BY EmptySeq
<1>2. FlattenSeq(s) = f[Len(s)]
  BY <1>1 DEF FlattenSeq
<1>3. \E g : Partials(s, g, Len(s))
  BY <1>1, PartialsExist
<1>4. Partials(s, f, Len(s))
  BY <1>3, Zenon DEF Partials
<1>5. \A i \in 1 .. Len(s) : f[i] = IF i = 1 THEN s[i] ELSE f[i - 1] \o s[i]
  <2> HIDE DEF f
  <2> QED BY <1>4 DEF Partials
<1> HIDE DEF f
<1> QED
  BY <1>2, <1>5

\* A request more is so many bytes more at the end ...
LEMMA FlattenAppend ==
  ASSUME NEW s \in Seq(Seq(Nat)), NEW r \in Seq(Nat)
  PROVE  FlattenSeq(Append(s, r)) = FlattenSeq(s) \o r
<1>1. CASE s = <<>>
  <2>1. Append(s, r) = <<r>> /\ <<r>> \in Seq(Seq(Nat)) /\ <<r>> # <<>>
    BY <1>1
  <2>2. FlattenSeq(<<r>>) = r
    <3> DEFINE one == <<r>>
    <3>1. Len(one) = 1 /\ one[1] = r /\ one \in Seq(Seq(Nat)) /\ one # <<>>
      BY <2>1
    <3> HIDE DEF one
    <3>2. PICK f : /\ \A i \in 1 .. Len(one) :
                        f[i] = IF i = 1 THEN one[i] ELSE f[i - 1] \o one[i]
                   /\ FlattenSeq(one) = f[Len(one)]
      BY <3>1, Flattening
    <3>3. f[1] = one[1]
      BY <3>1, <3>2
    <3> QED BY <3>1, <3>2, <3>3 DEF one
  <2>3. FlattenSeq(s) = <<>> /\ <<>> \o r = r
    BY <1>1 DEF FlattenSeq
  <2> QED
    BY <2>1, <2>2, <2>3
<1>2. CASE s # <<>>
  <2>1. PICK f : /\ \A i \in 1 .. Len(s) :
                     f[i] = IF i = 1 THEN s[i] ELSE f[i - 1] \o s[i]
                 /\ FlattenSeq(s) = f[Len(s)]
    BY <1>2, Flattening
  <2> DEFINE t == Append(s, r)
  <2>2. /\ t \in Seq(Seq(Nat)) /\ t # <<>> /\ Len(t) = Len(s) + 1
        /\ Len(s) \in Nat /\ Len(s) > 0
        /\ \A i \in 1 .. Len(s) : t[i] = s[i]
        /\ t[Len(s) + 1] = r
    BY <1>2, AppendProperties, EmptySeq
  <2> HIDE DEF t
  <2>3. PICK g : /\ \A i \in 1 .. Len(t) :
                     g[i] = IF i = 1 THEN t[i] ELSE g[i - 1] \o t[i]
                 /\ FlattenSeq(t) = g[Len(t)]
    BY <2>2, Flattening
  <2> DEFINE T == {k \in Nat : k \in 1 .. Len(s) => g[k] = f[k]}
  <2>4. 0 \in T
    OBVIOUS
  <2>5. ASSUME NEW k \in Nat, k \in T PROVE k + 1 \in T
    <3> SUFFICES ASSUME k + 1 \in 1 .. Len(s) PROVE g[k + 1] = f[k + 1]
      OBVIOUS
    <3>1. /\ g[k + 1] = IF k + 1 = 1 THEN s[k + 1] ELSE g[k] \o s[k + 1]
          /\ f[k + 1] = IF k + 1 = 1 THEN s[k + 1] ELSE f[k] \o s[k + 1]
      <4>1. (k + 1) - 1 = k /\ k + 1 \in 1 .. Len(t)
        BY <2>2
      <4> QED BY <4>1, <2>1, <2>2, <2>3
    <3>2. k # 0 => k \in 1 .. Len(s)
      BY <2>2
    <3> QED BY <2>5, <3>1, <3>2
  <2>6. Nat \subseteq T
    <3> HIDE DEF T
    <3> QED BY <2>4, <2>5, Induction
  <2>7. g[Len(s)] = f[Len(s)]
    <3>1. Len(s) \in T
      BY <2>2, <2>6
    <3> QED BY <2>2, <3>1
  <2>8. g[Len(s) + 1] = g[Len(s)] \o r
    <3>1. Len(s) + 1 \in 1 .. Len(t) /\ Len(s) + 1 # 1 /\ (Len(s) + 1) - 1 = Len(s)
      BY <2>2
    <3> QED BY <3>1, <2>2, <2>3
  <2>9. FlattenSeq(t) = f[Len(s)] \o r
    BY <2>2, <2>3, <2>7, <2>8
  <2> QED
    BY <2>1, <2>9 DEF t
<1> QED
  BY <1>1, <1>2

LEMMA Associative ==
  ASSUME NEW a \in Seq(Nat), NEW b \in Seq(Nat), NEW c \in Seq(Nat)
  PROVE  (a \o b) \o c = a \o (b \o c)
BY SMTT(60), ConcatAssociative

\* ... the bytes begin with those of the first request ...
LEMMA FlattenHead ==
  ASSUME NEW s \in Seq(Seq(Nat)), s # <<>>
  PROVE  FlattenSeq(s) = Head(s) \o FlattenSeq(Tail(s))
<1>1. PICK f : /\ \A i \in 1 .. Len(s) :
                     f[i] = IF i = 1 THEN s[i] ELSE f[i - 1] \o s[i]
               /\ FlattenSeq(s) = f[Len(s)]
  BY Flattening
<1> DEFINE t == Tail(s)
<1>2. /\ t \in Seq(Seq(Nat)) /\ Len(t) = Len(s) - 1
      /\ Len(s) \in Nat /\ Len(s) > 0
      /\ \A i \in 1 .. Len(t) : t[i] = s[i + 1]
      /\ Head(s) = s[1] /\ Head(s) \in Seq(Nat)
  BY HeadTailProperties, EmptySeq
<1> HIDE DEF t
<1>3. CASE t = <<>>
  <2>1. FlattenSeq(t) = <<>> /\ Len(s) = 1
    BY <1>2, <1>3 DEF FlattenSeq
  <2>2. Head(s) \o <<>> = Head(s)
    BY <1>2
  <2> QED
    BY <1>1, <1>2, <2>1, <2>2 DEF t
<1>4. CASE t # <<>>
  <2>1. PICK g : /\ \A i \in 1 .. Len(t) :
                     g[i] = IF i = 1 THEN t[i] ELSE g[i - 1] \o t[i]
                 /\ FlattenSeq(t) = g[Len(t)]
    BY <1>2, <1>4, Flattening
  <2> DEFINE P(k) == g[k] \in Seq(Nat) /\ f[k + 1] = Head(s) \o g[k]
  <2>2. P(1)
    <3>1. /\ g[1] = t[1] /\ t[1] = s[2] /\ t[1] \in Seq(Nat)
          /\ 2 \in 1 .. Len(s) /\ 1 \in 1 .. Len(s)
      BY <1>2, <1>4, <2>1, EmptySeq
    <3>2. f[1] = s[1] /\ f[2] = f[1] \o s[2]
      <4>1. 2 # 1 /\ 2 - 1 = 1
        OBVIOUS
      <4> QED BY <4>1, <1>1, <3>1
    <3>3. 1 + 1 = 2
      OBVIOUS
    <3> QED
      BY <1>2, <3>1, <3>2, <3>3
  <2>3. ASSUME NEW k \in Nat, k > 0, k + 1 \in 1 .. Len(t), P(k) PROVE P(k + 1)
    <3>1. t[k + 1] \in Seq(Nat) /\ s[k + 2] = t[k + 1] /\ k + 2 \in 1 .. Len(s)
      BY SMTT(60), <1>2, <2>3
    <3>2. g[k + 1] = g[k] \o t[k + 1]
      <4>1. k + 1 # 1 /\ (k + 1) - 1 = k
        BY <2>3
      <4> QED BY <4>1, <2>1, <2>3
    <3>3. f[k + 2] = f[k + 1] \o s[k + 2]
      <4>1. k + 2 # 1 /\ (k + 2) - 1 = k + 1
        BY <2>3
      <4> QED BY <4>1, <3>1, <1>1
    <3>4. f[k + 2] = (Head(s) \o g[k]) \o t[k + 1]
      BY <2>3, <3>1, <3>3
    <3>5. (Head(s) \o g[k]) \o t[k + 1] = Head(s) \o (g[k] \o t[k + 1])
      BY <1>2, <2>3, <3>1, Associative
    <3>6. g[k + 1] \in Seq(Nat)
      BY <2>3, <3>1, <3>2
    <3>7. (k + 1) + 1 = k + 2
      OBVIOUS
    <3> QED
      BY <3>2, <3>4, <3>5, <3>6, <3>7
  <2> DEFINE T == {k \in Nat : k \in 1 .. Len(t) => P(k)}
  <2> HIDE DEF P
  <2>4. 0 \in T /\ \A k \in Nat : k \in T => k + 1 \in T
    <3>1. 0 \in T
      OBVIOUS
    <3>2. ASSUME NEW k \in Nat, k \in T PROVE k + 1 \in T
      <4>1. CASE k = 0
        BY <4>1, <2>2
      <4>2. CASE k > 0 /\ k + 1 \in 1 .. Len(t)
        <5>1. P(k)
          BY <1>2, <3>2, <4>2
        <5>2. P(k + 1)
          BY <4>2, <5>1, <2>3
        <5> QED BY <5>2
      <4> QED
        BY <4>1, <4>2
    <3> QED BY <3>1, <3>2
  <2>5. Nat \subseteq T
    <3> HIDE DEF T
    <3> QED BY <2>4, Induction
  <2>6. P(Len(t))
    <3>1. Len(t) \in 1 .. Len(t) /\ Len(t) \in Nat
      BY <1>2, <1>4, EmptySeq
    <3> QED BY <2>5, <3>1
  <2>7. f[Len(s)] = Head(s) \o g[Len(t)]
    <3>1. Len(t) + 1 = Len(s)
      BY <1>2
    <3> QED BY <2>6, <3>1 DEF P
  <2> QED
    BY <1>1, <2>1, <2>7 DEF t
<1> QED
  BY <1>3, <1>4

\* ... and they are numbers.
LEMMA FlattenType ==
  ASSUME NEW s \in Seq(Seq(Nat))
  PROVE  FlattenSeq(s) \in Seq(Nat)
<1>1. CASE s = <<>>
  BY <1>1 DEF FlattenSeq
<1>2. CASE s # <<>>
  <2>1. PICK f : /\ \A i \in 1 .. Len(s) :
                     f[i] = IF i = 1 THEN s[i] ELSE f[i - 1] \o s[i]
                 /\ FlattenSeq(s) = f[Len(s)]
    BY <1>2, Flattening
  <2> DEFINE T == {k \in Nat : k \in 1 .. Len(s) => f[k] \in Seq(Nat)}
  <2>2. 0 \in T
    OBVIOUS
  <2>3. ASSUME NEW k \in Nat, k \in T PROVE k + 1 \in T
    <3>1. \A i \in 1 .. Len(s) : s[i] \in Seq(Nat)
      OBVIOUS
    <3>2. \A a, b \in Seq(Nat) : a \o b \in Seq(Nat)
      OBVIOUS
    <3>3. SUFFICES ASSUME k + 1 \in 1 .. Len(s) PROVE f[k + 1] \in Seq(Nat)
      OBVIOUS
    <3>4. CASE k = 0
      BY <2>1, <3>1, <3>3, <3>4
    <3>5. CASE k # 0
      <4>1. k \in 1 .. Len(s) /\ (k + 1) - 1 = k /\ k + 1 # 1
        BY <3>3, <3>5
      <4> QED
        BY ZenonT(60), <4>1, <2>1, <2>3, <3>1, <3>2, <3>3
    <3> QED
      BY <3>4, <3>5
  <2>4. Nat \subseteq T
    <3> HIDE DEF T
    <3> QED BY <2>2, <2>3, Induction
  <2>5. Len(s) \in 1 .. Len(s) /\ Len(s) \in Nat
    BY <1>2, EmptySeq
  <2> QED
    BY <2>1, <2>4, <2>5
<1> QED
  BY <1>1, <1>2

-----------------------------------------------------------------------------
(* The invariant.                                                          *)

\* A time of the day, as the clock keeps it.
Proper(reg, value) == reg \in Fields => rtc_from(value, reg) <= Limit(reg)

\* What is asked of the clock: to read one field of the time into the place of
\* the same name, or to write some of its registers with proper values.
IsRead(r) == /\ r[1] = 3 /\ Len(r) = OVERHEAD
             /\ r[3] = r[4] /\ r[4] \in Fields
IsWrite(r) == /\ Len(r) > OVERHEAD /\ r[1] = 2 * (Len(r) - OVERHEAD)
              /\ \A i \in 0 .. Len(r) - OVERHEAD - 1 :
                   r[4] + i \in Regs /\ Proper(r[4] + i, r[OVERHEAD + 1 + i])
Requests == {r \in Seq(Nat) : /\ Len(r) >= OVERHEAD /\ r[2] = TWI_ID_RTC
                              /\ IsRead(r) \/ IsWrite(r)}

\* The ring as a value.
Rings == [bytes : Seq(Nat), start : Nat]

\* The bytes of the first request of the main loop that are in the ring.
Started == IF rest = <<>> THEN <<>>
           ELSE SubSeq(Head(todo), 1, Len(Head(todo)) - Len(rest))

RingInv ==
  /\ asked \in Seq(Requests) /\ todo \in Seq(Requests) /\ rest \in Seq(Nat)
  /\ rest # <<>> => /\ todo # <<>> /\ Len(rest) <= Len(Head(todo))
                    /\ rest = SubSeq(Head(todo), Len(Head(todo)) - Len(rest) + 1,
                                     Len(Head(todo)))
  /\ queue \in Rings /\ Len(queue.bytes) <= Size
  /\ queue.bytes = FlattenSeq(asked) \o Started

WriteModes == {"WRITE_START", "WRITE_SLAVE", "WRITE_REG", "WRITE_VALUE"}
ReadModes == {"READ_START", "READ_SLAVE", "READ_REG", "READ_RESTART",
              "READ_RESTART_SLAVE", "READ_VALUE"}

\* What the bus is doing with the request it has taken, and how far it is.
Reading ==
  /\ m.action = "READ" /\ mode \in ReadModes \cup {"IDLE"}
  /\ m.max = 1 /\ m.tag = m.reg /\ m.reg \in Fields
  /\ mode # "IDLE" => m.index = 0 /\ m.data = <<>>
  /\ mode = "IDLE" /\ status = "SUCCESS" =>
       m.data = <<IF rtc.deaf THEN 255 ELSE rtc.reg[m.reg]>>
Writing ==
  /\ m.action = "WRITE" /\ mode \in WriteModes \cup {"IDLE"}
  /\ m.max = Len(m.data) /\ m.max > 0 /\ m.index <= m.max
  /\ \A i \in 0 .. m.max - 1 :
       m.reg + i \in Regs /\ Proper(m.reg + i, m.data[i + 1])
  /\ \A i \in 0 .. m.index - 1 : rtc.reg[m.reg + i] = m.data[i + 1]
  /\ mode # "IDLE" => m.index < m.max
  /\ mode = "IDLE" => IF status = "SUCCESS" THEN m.index = m.max
                                            ELSE "failed" \in spoilt
BusInv ==
  /\ m \in [action : {"IDLE", "READ", "WRITE"}, tag : Nat, reg : Nat,
            index : Nat, max : Nat, data : Seq(Nat)]
  /\ mode # "IDLE" => status = "SUCCESS"
  /\ \/ m = Idle /\ mode = "IDLE" /\ status = "SUCCESS"
     \/ Reading
     \/ Writing

ClockInv ==
  /\ rtc \in [reg : [Regs -> Nat], deaf : BOOLEAN]
  /\ buffer \in [Fields -> Nat]
  /\ \A f \in Fields : /\ Proper(f, rtc.reg[f])
                       /\ f \in unheard \/ Proper(f, buffer[f])

IInv == Kept => RingInv /\ BusInv /\ ClockInv

-----------------------------------------------------------------------------
(* The requests watch.c makes.                                             *)

LEMMA WriteShape ==
  ASSUME NEW reg \in Nat, NEW data \in Seq(Nat)
  PROVE  /\ Write(reg, data) \in Seq(Nat)
         /\ Len(Write(reg, data)) = OVERHEAD + Len(data)
         /\ Write(reg, data)[1] = 2 * Len(data)
         /\ Write(reg, data)[2] = TWI_ID_RTC
         /\ Write(reg, data)[4] = reg
         /\ \A i \in 1 .. Len(data) : Write(reg, data)[OVERHEAD + i] = data[i]
<1> DEFINE head == <<2 * Len(data), TWI_ID_RTC, 0, reg>>
<1>1. /\ head \in Seq(Nat) /\ Len(head) = 4 /\ head[1] = 2 * Len(data)
      /\ head[2] = TWI_ID_RTC /\ head[4] = reg
  BY DEF TWI_ID_RTC
<1> HIDE DEF head
<1>2. /\ head \o data \in Seq(Nat) /\ Len(head \o data) = 4 + Len(data)
      /\ \A i \in 1 .. 4 : (head \o data)[i] = head[i]
      /\ \A i \in 1 .. Len(data) : (head \o data)[4 + i] = data[i]
  <2>1. Len(data) \in Nat
    OBVIOUS
  <2>2. /\ head \o data \in Seq(Nat) /\ Len(head \o data) = Len(head) + Len(data)
        /\ \A i \in 1 .. Len(head) + Len(data) :
             (head \o data)[i] = IF i <= Len(head) THEN head[i]
                                 ELSE data[i - Len(head)]
    BY <1>1, ConcatProperties
  <2> QED
    BY SMTT(60), <1>1, <2>1, <2>2
<1> QED
  BY SMTT(60), <1>1, <1>2 DEF Write, OVERHEAD, head

LEMMA OneByteWrites ==
  ASSUME NEW reg \in {REG_ENABLE, REG_ENABLE_32KHZ}, NEW v \in Nat
  PROVE  /\ Write(reg, <<v>>) \in Requests /\ Len(Write(reg, <<v>>)) = 5
         /\ Write(reg, <<v>>)[1] = 2 /\ Write(reg, <<v>>)[4] = reg
         /\ Write(reg, <<v>>)[5] = v
<1> DEFINE d == <<v>>
           r == Write(reg, d)
<1>1. d \in Seq(Nat) /\ Len(d) = 1 /\ d[1] = v /\ reg \in Nat
  BY DEF REG_ENABLE, REG_ENABLE_32KHZ
<1> HIDE DEF d
<1>2. /\ r \in Seq(Nat) /\ Len(r) = 5 /\ r[1] = 2 /\ r[2] = TWI_ID_RTC
      /\ r[4] = reg /\ r[5] = v
  <2>1. /\ r \in Seq(Nat) /\ Len(r) = 4 + Len(d) /\ r[1] = 2 * Len(d)
        /\ r[2] = TWI_ID_RTC /\ r[4] = reg
        /\ \A i \in 1 .. Len(d) : r[4 + i] = d[i]
    BY <1>1, WriteShape DEF OVERHEAD
  <2> HIDE DEF r
  <2>2. r[4 + 1] = d[1]
    BY <1>1, <2>1
  <2> QED
    BY <1>1, <2>1, <2>2
<1> HIDE DEF r
<1>3. reg \in Regs /\ reg \notin Fields
  BY DEF Regs, Fields, REG_ENABLE, REG_ENABLE_32KHZ, SECOND, MINUTE, HOUR
<1>4. \A i \in 0 .. Len(r) - OVERHEAD - 1 : i = 0
  BY <1>2 DEF OVERHEAD
<1>5. IsWrite(r)
  BY <1>1, <1>2, <1>3, <1>4 DEF IsWrite, OVERHEAD, Proper
<1> QED
  BY <1>2, <1>5 DEF Requests, OVERHEAD, r, d

\* rtc (.., RTC_TO, ..) and back: whatever the number, it is a time of the day.
LEMMA Convert ==
  ASSUME NEW n \in Nat, NEW unit \in Fields
  PROVE  rtc_to(n, unit) \in Nat /\ Proper(unit, rtc_to(n, unit))
<1>1. \A k \in 0 .. 59 : /\ Packed(k) \in 0 .. 89
                         /\ Packed(k) \div 16 = k \div 10 /\ Packed(k) % 16 = k % 10
                         /\ k \div 10 \in 0 .. 5 /\ k % 10 \in 0 .. 9
                         /\ (k \div 10) * 10 + (k % 10) = k
  BY SMTT(60) DEF Packed
<1>2. \A k \in 0 .. 23 : k \div 10 \in 0 .. 2
  OBVIOUS
<1>a. (\A j \in 0 .. 2 : j % 4 = j) /\ (\A j \in 0 .. 5 : j % 8 = j)
  OBVIOUS
<1> DEFINE k == IF n > Limit(unit) THEN Limit(unit) ELSE n
<1>3. k \in 0 .. 59 /\ (unit = HOUR => k \in 0 .. 23)
  BY DEF Limit
<1>4. rtc_to(n, unit) = Packed(k)
  BY DEF rtc_to
<1> HIDE DEF k
<1>5. CASE unit = HOUR
  <2>1. /\ Packed(k) \div 16 = k \div 10 /\ Packed(k) % 16 = k % 10
        /\ k \div 10 \in 0 .. 2 /\ (k \div 10) * 10 + (k % 10) = k
        /\ (k \div 10) % 4 = k \div 10
    BY <1>a, <1>1, <1>2, <1>3, <1>5
  <2>2. rtc_from(Packed(k), unit) = k /\ k <= Limit(unit)
    BY <1>3, <1>5, <2>1 DEF rtc_from, Limit
  <2> QED
    BY SMTT(60), <1>1, <1>3, <1>4, <2>2 DEF Proper
<1>6. CASE unit # HOUR
  <2>1. /\ Packed(k) \div 16 = k \div 10 /\ Packed(k) % 16 = k % 10
        /\ k \div 10 \in 0 .. 5 /\ (k \div 10) * 10 + (k % 10) = k
        /\ (k \div 10) % 8 = k \div 10
    BY <1>a, <1>1, <1>3
  <2>2. rtc_from(Packed(k), unit) = k /\ k <= Limit(unit)
    BY <1>3, <1>6, <2>1 DEF rtc_from, Limit
  <2> QED
    BY SMTT(60), <1>1, <1>3, <1>4, <2>2 DEF Proper
<1> QED
  BY <1>5, <1>6

LEMMA TimeWrites ==
  ASSUME NEW h \in Nat, NEW mi \in Nat, NEW s \in Nat
  PROVE  /\ watch_set(h, mi, s) \in Requests /\ Len(watch_set(h, mi, s)) = 7
         /\ watch_set(h, mi, s)[4] = SECOND
<1> DEFINE a == rtc_to(s, SECOND)
           b == rtc_to(mi, MINUTE)
           c == rtc_to(h, HOUR)
           d == <<a, b, c>>
           r == Write(SECOND, d)
<1>1. /\ a \in Nat /\ Proper(SECOND, a)
      /\ b \in Nat /\ Proper(MINUTE, b)
      /\ c \in Nat /\ Proper(HOUR, c)
  BY Convert DEF Fields
<1>2. watch_set(h, mi, s) = r
  BY DEF watch_set
<1> HIDE DEF a, b, c
<1>3. d \in Seq(Nat) /\ Len(d) = 3 /\ d[1] = a /\ d[2] = b /\ d[3] = c
  BY <1>1
<1> HIDE DEF d
<1>4. SECOND \in Nat
  BY DEF SECOND
<1>5. /\ r \in Seq(Nat) /\ Len(r) = 7 /\ r[1] = 6 /\ r[2] = TWI_ID_RTC
      /\ r[4] = SECOND /\ r[5] = a /\ r[6] = b /\ r[7] = c
  <2>1. /\ r \in Seq(Nat) /\ Len(r) = 4 + Len(d) /\ r[1] = 2 * Len(d)
        /\ r[2] = TWI_ID_RTC /\ r[4] = SECOND
        /\ \A i \in 1 .. Len(d) : r[4 + i] = d[i]
    BY <1>3, <1>4, WriteShape DEF OVERHEAD
  <2> HIDE DEF r
  <2>2. r[4 + 1] = d[1] /\ r[4 + 2] = d[2] /\ r[4 + 3] = d[3]
    BY <1>3, <2>1
  <2> QED
    BY <1>3, <2>1, <2>2
<1> HIDE DEF r
<1>6. \A i \in 0 .. 2 : r[4] + i \in Regs /\ Proper(r[4] + i, r[5 + i])
  <2>1. \A i \in 0 .. 2 : i = 0 \/ i = 1 \/ i = 2
    OBVIOUS
  <2>2. 0 + 0 = 0 /\ 0 + 1 = 1 /\ 0 + 2 = 2 /\ 5 + 0 = 5 /\ 5 + 1 = 6 /\ 5 + 2 = 7
    OBVIOUS
  <2>3. SECOND = 0 /\ MINUTE = 1 /\ HOUR = 2 /\ 0 \in Regs /\ 1 \in Regs /\ 2 \in Regs
    BY DEF Regs, Fields, SECOND, MINUTE, HOUR
  <2> QED
    BY <2>1, <2>2, <2>3, <1>1, <1>5
<1>7. IsWrite(r)
  BY <1>5, <1>6 DEF IsWrite, OVERHEAD
<1>8. r \in Requests
  <2>1. Len(r) >= OVERHEAD
    BY <1>5 DEF OVERHEAD
  <2> QED
    BY <1>5, <1>7, <2>1, Zenon DEF Requests
<1> QED
  BY <1>2, <1>5, <1>8

LEMMA ReadRequests ==
  \A i \in 1 .. 3 : Reads[i] \in Requests /\ Len(Reads[i]) = OVERHEAD
                    /\ Reads[i][1] = 3
<1>1. ASSUME NEW f \in Fields
      PROVE  /\ Read(f, f) \in Requests /\ Len(Read(f, f)) = OVERHEAD
             /\ Read(f, f)[1] = 3
  BY DEF Read, Requests, IsRead, OVERHEAD, TWI_ID_RTC, Fields, SECOND, MINUTE, HOUR
<1> QED
  BY <1>1 DEF Reads, Fields

LEMMA RequestFacts ==
  /\ Requests \subseteq Seq(Nat)
  /\ \A q \in Seq(Requests) : q \in Seq(Seq(Nat))
  /\ \A r \in Requests : Len(r) \in Nat /\ Len(r) >= OVERHEAD /\ r # <<>>
<1>1. Requests \subseteq Seq(Nat)
  BY DEF Requests
<1>2. \A q \in Seq(Requests) : q \in Seq(Seq(Nat))
  BY <1>1
<1>3. ASSUME NEW r \in Requests
      PROVE  Len(r) \in Nat /\ Len(r) >= OVERHEAD /\ r # <<>>
  <2>1. r \in Seq(Nat) /\ Len(r) >= OVERHEAD
    BY DEF Requests
  <2> QED
    BY <2>1 DEF OVERHEAD
<1> QED
  BY <1>1, <1>2, <1>3

\* What mode_set, watch_set and watch_init ask for.
LEMMA ToggleRequests ==
  /\ watch_enable \in Requests /\ watch_disable \in Requests
  /\ watch_enable[1] = 2 /\ watch_enable[4] = REG_ENABLE
  /\ watch_enable[5] = REG_VALUE_ENABLE
  /\ watch_disable[1] = 2 /\ watch_disable[4] = REG_ENABLE
  /\ watch_disable[5] = REG_VALUE_DISABLE
  /\ Len(watch_enable) = 5 /\ Len(watch_disable) = 5
<1>1. REG_VALUE_ENABLE \in Nat /\ REG_VALUE_DISABLE \in Nat
  BY DEF REG_VALUE_ENABLE, REG_VALUE_DISABLE
<1> QED
  BY <1>1, OneByteWrites DEF watch_enable, watch_disable

LEMMA Concatenation ==
  ASSUME NEW S, NEW s1 \in Seq(S), NEW s2 \in Seq(S), NEW n \in Nat, Len(s1) = n
  PROVE  /\ s1 \o s2 \in Seq(S) /\ Len(s1 \o s2) = n + Len(s2)
         /\ \A i \in 1 .. n : (s1 \o s2)[i] = s1[i]
         /\ \A i \in 1 .. Len(s2) : (s1 \o s2)[n + i] = s2[i]
<1>1. Len(s2) \in Nat
  OBVIOUS
<1>2. /\ s1 \o s2 \in Seq(S) /\ Len(s1 \o s2) = Len(s1) + Len(s2)
      /\ \A i \in 1 .. Len(s1) + Len(s2) :
           (s1 \o s2)[i] = IF i <= Len(s1) THEN s1[i] ELSE s2[i - Len(s1)]
  BY ConcatProperties
<1>3. \A i \in 1 .. Len(s2) : (n + i) - n = i /\ ~(n + i <= n)
  BY <1>1
<1> QED
  BY <1>1, <1>2, <1>3

\* ... after one request.
LEMMA AfterOne ==
  ASSUME NEW S, NEW s1 \in Seq(S), NEW s2 \in Seq(S), Len(s1) = 1
  PROVE  /\ s1 \o s2 \in Seq(S) /\ Len(s1 \o s2) = 1 + Len(s2)
         /\ (s1 \o s2)[1] = s1[1]
         /\ \A i \in 1 .. Len(s2) : (s1 \o s2)[1 + i] = s2[i]
<1>1. Len(s2) \in Nat
  OBVIOUS
<1>2. /\ s1 \o s2 \in Seq(S) /\ Len(s1 \o s2) = Len(s1) + Len(s2)
      /\ \A i \in 1 .. Len(s1) + Len(s2) :
           (s1 \o s2)[i] = IF i <= Len(s1) THEN s1[i] ELSE s2[i - Len(s1)]
  BY ConcatProperties
<1>3. (s1 \o s2)[1] = s1[1]
  BY <1>1, <1>2
<1>4. ASSUME NEW i \in 1 .. Len(s2)
      PROVE  (s1 \o s2)[1 + i] = s2[i]
  <2>1. 1 + i \in 1 .. 1 + Len(s2) /\ ~(1 + i <= 1) /\ (1 + i) - 1 = i
    BY <1>1
  <2> QED
    BY <1>2, <2>1
<1> QED
  BY <1>2, <1>3, <1>4

LEMMA TwoAndTwo ==
  ASSUME NEW S, NEW s1 \in Seq(S), NEW s2 \in Seq(S), Len(s1) = 2, Len(s2) = 2
  PROVE  /\ s1 \o s2 \in Seq(S) /\ Len(s1 \o s2) = 4
         /\ (s1 \o s2)[1] = s1[1] /\ (s1 \o s2)[2] = s1[2]
         /\ (s1 \o s2)[3] = s2[1] /\ (s1 \o s2)[4] = s2[2]
<1> DEFINE t == s1 \o s2
<1>1. /\ t \in Seq(S) /\ Len(t) = Len(s1) + Len(s2)
      /\ \A i \in 1 .. Len(s1) + Len(s2) :
           t[i] = IF i <= Len(s1) THEN s1[i] ELSE s2[i - Len(s1)]
  BY ConcatProperties
<1> HIDE DEF t
<1>2. /\ 2 + 2 = 4 /\ 3 - 2 = 1 /\ 4 - 2 = 2
      /\ 1 <= 2 /\ 2 <= 2 /\ ~(3 <= 2) /\ ~(4 <= 2)
      /\ 1 \in 1 .. 4 /\ 2 \in 1 .. 4 /\ 3 \in 1 .. 4 /\ 4 \in 1 .. 4
  OBVIOUS
<1>3. Len(t) = 4 /\ t[1] = s1[1] /\ t[2] = s1[2] /\ t[3] = s2[1] /\ t[4] = s2[2]
  BY <1>1, <1>2
<1> QED
  BY <1>1, <1>3 DEF t

LEMMA ModeSets ==
  ASSUME NEW new
  PROVE  /\ mode_set(new) \in Seq(Requests)
         /\ Len(mode_set(new)) = IF new = "WATCH" THEN 2 ELSE 1
         /\ mode_set(new)[1] = watch_disable
         /\ new = "WATCH" => mode_set(new)[2] = watch_enable
<1> DEFINE off == <<watch_disable>>
           on  == <<watch_enable>>
           no  == <<>>
<1>1. /\ off \in Seq(Requests) /\ Len(off) = 1 /\ off[1] = watch_disable
      /\ on \in Seq(Requests) /\ Len(on) = 1 /\ on[1] = watch_enable
      /\ no \in Seq(Requests) /\ Len(no) = 0
  BY ToggleRequests
<1>2. mode_set(new) = off \o (IF new = "WATCH" THEN on ELSE no)
  BY DEF mode_set
<1> HIDE DEF off, on, no
<1>3. CASE new = "WATCH"
  <2>1. /\ off \o on \in Seq(Requests) /\ Len(off \o on) = 1 + Len(on)
        /\ (off \o on)[1] = off[1] /\ (off \o on)[1 + 1] = on[1]
    <3>1. /\ off \o on \in Seq(Requests) /\ Len(off \o on) = 1 + Len(on)
          /\ (off \o on)[1] = off[1]
          /\ \A i \in 1 .. Len(on) : (off \o on)[1 + i] = on[i]
      BY <1>1, AfterOne
    <3>2. 1 \in 1 .. Len(on)
      BY <1>1
    <3> QED
      BY <3>1, <3>2
  <2> QED
    BY <1>1, <1>2, <1>3, <2>1
<1>4. CASE new # "WATCH"
  <2>1. /\ off \o no \in Seq(Requests) /\ Len(off \o no) = 1 + Len(no)
        /\ (off \o no)[1] = off[1]
    BY <1>1, AfterOne
  <2> QED
    BY <1>1, <1>2, <1>4, <2>1
<1> QED
  BY <1>3, <1>4

LEMMA Boots ==
  /\ Boot \in Seq(Requests) /\ Len(Boot) = 4
  /\ Len(Boot[1]) = 5 /\ Boot[1][4] = REG_ENABLE_32KHZ
  /\ Len(Boot[2]) = 7 /\ Boot[2][4] = SECOND
  /\ Boot[3] = watch_disable /\ Boot[4] = watch_enable
<1> DEFINE a == Write(REG_ENABLE_32KHZ, <<0>>)
           b == watch_set(INITIAL_TIME, INITIAL_TIME, INITIAL_TIME)
           p == <<a, b>>
           q == mode_set("WATCH")
<1>1. a \in Requests /\ Len(a) = 5 /\ a[4] = REG_ENABLE_32KHZ
  BY OneByteWrites
<1>2. b \in Requests /\ Len(b) = 7 /\ b[4] = SECOND
  BY TimeWrites DEF INITIAL_TIME
<1>3. Boot = p \o q
  BY DEF Boot
<1>4. /\ q \in Seq(Requests) /\ Len(q) = 2
      /\ q[1] = watch_disable /\ q[2] = watch_enable
  BY ModeSets
<1> HIDE DEF a, b, q
<1>5. p \in Seq(Requests) /\ Len(p) = 2 /\ p[1] = a /\ p[2] = b
  BY <1>1, <1>2
<1> HIDE DEF p
<1>6. /\ p \o q \in Seq(Requests) /\ Len(p \o q) = 4
      /\ (p \o q)[1] = p[1] /\ (p \o q)[2] = p[2]
      /\ (p \o q)[3] = q[1] /\ (p \o q)[4] = q[2]
  BY <1>4, <1>5, TwoAndTwo
<1> QED
  BY <1>1, <1>2, <1>3, <1>4, <1>5, <1>6

LEMMA FlattenFour ==
  ASSUME NEW s \in Seq(Seq(Nat)), Len(s) = 4
  PROVE  FlattenSeq(s) = ((s[1] \o s[2]) \o s[3]) \o s[4]
<1>1. PICK f : /\ \A i \in 1 .. Len(s) :
                     f[i] = IF i = 1 THEN s[i] ELSE f[i - 1] \o s[i]
               /\ FlattenSeq(s) = f[Len(s)]
  <2>1. Len(s) # Len(<<>>)
    BY EmptySeq
  <2>2. s # <<>>
    BY <2>1, Zenon
  <2> QED
    BY <2>2, Flattening
<1>2. 2 - 1 = 1 /\ 3 - 1 = 2 /\ 4 - 1 = 3
  OBVIOUS
<1>3. /\ f[1] = s[1] /\ f[2] = f[1] \o s[2] /\ f[3] = f[2] \o s[3]
      /\ f[4] = f[3] \o s[4]
  BY SMTT(60), <1>1, <1>2
<1> QED
  BY <1>1, <1>3

LEMMA InitInv == Init => IInv
<1> SUFFICES ASSUME Init PROVE RingInv /\ BusInv /\ ClockInv
  BY DEF IInv
<1>1. RingInv
  <2> DEFINE f == FlattenSeq(Boot)
  <2>1. Boot \in Seq(Seq(Nat)) /\ \A i \in 1 .. 4 : Boot[i] \in Seq(Nat)
    <3>1. Boot \in Seq(Requests) /\ Len(Boot) = 4
      BY Boots
    <3>2. Boot \in Seq(Seq(Nat))
      BY <3>1, RequestFacts
    <3> QED BY <3>1, <3>2, ElementOfSeq
  <2>2. Len(Boot[1]) + Len(Boot[2]) + Len(Boot[3]) + Len(Boot[4]) = 22
    BY Boots, ToggleRequests
  <2>3. f = ((Boot[1] \o Boot[2]) \o Boot[3]) \o Boot[4]
    BY <2>1, Boots, FlattenFour
  <2>4. f \in Seq(Nat) /\ Len(f) = 22
    <3>1. Boot[1] \in Seq(Nat) /\ Boot[2] \in Seq(Nat) /\ Boot[3] \in Seq(Nat)
          /\ Boot[4] \in Seq(Nat)
      BY <2>1
    <3> DEFINE a == Boot[1]
               b == Boot[2]
               c == Boot[3]
               d == Boot[4]
    <3> HIDE DEF a, b, c, d
    <3>2. a \in Seq(Nat) /\ b \in Seq(Nat) /\ c \in Seq(Nat) /\ d \in Seq(Nat) =>
            /\ ((a \o b) \o c) \o d \in Seq(Nat)
            /\ Len(((a \o b) \o c) \o d) = Len(a) + Len(b) + Len(c) + Len(d)
      OBVIOUS
    <3> HIDE DEF f
    <3> QED BY <3>1, <3>2, <2>2, <2>3 DEF a, b, c, d
  <2>8. queue = [bytes |-> f, start |-> 0] /\ asked = Boot /\ todo = <<>> /\ rest = <<>>
    BY DEF Init
  <2> HIDE DEF f
  <2>5. Boot \in Seq(Requests) /\ <<>> \in Seq(Requests) /\ <<>> \in Seq(Nat)
    BY Boots
  <2>6. f = f \o <<>>
    BY <2>4
  <2> QED
    BY <2>4, <2>5, <2>6, <2>8, TwiAssumption DEF RingInv, Started, Rings, f
<1>2. BusInv
  BY DEF Init, BusInv, Idle
<1>3. ClockInv
  <2>1. PICK control \in {REG_VALUE_ENABLE, 28} :
          rtc = [reg  |-> [r \in Regs |-> IF r = REG_ENABLE THEN control ELSE 0],
                 deaf |-> FALSE]
    BY DEF Init
  <2>2. rtc \in [reg : [Regs -> Nat], deaf : BOOLEAN]
    BY <2>1 DEF REG_VALUE_ENABLE
  <2>3. \A f \in Fields : rtc.reg[f] = 0 /\ buffer[f] = 0 /\ Proper(f, 0)
    BY <2>1 DEF Init, Regs, Fields, SECOND, MINUTE, HOUR, REG_ENABLE, Proper,
       rtc_from, Limit
  <2>4. buffer \in [Fields -> Nat]
    BY DEF Init
  <2> QED
    BY <2>2, <2>3, <2>4 DEF ClockInv
<1> QED
  BY <1>1, <1>2, <1>3

-----------------------------------------------------------------------------
(* The ring, one step at a time, as long as nothing has spoilt a request.  *)

\* A byte more is a byte more, unless it fills the ring and loses it all.
LEMMA FillEffect ==
  ASSUME NEW q \in Rings, NEW b \in Nat
  PROVE  \/ Len(q.bytes) + 1 = Size /\ Fill(q, b).bytes = <<>>
         \/ /\ Fill(q, b) \in Rings
            /\ Fill(q, b).bytes = Append(q.bytes, b)
<1>1. CASE Len(q.bytes) + 1 = Size /\ q.start > 0
  BY <1>1 DEF Fill, Rings
<1>2. CASE ~(Len(q.bytes) + 1 = Size /\ q.start > 0)
  <2>1. Fill(q, b) = [q EXCEPT !.bytes = Append(@, b)]
    BY <1>2 DEF Fill
  <2>2. q.bytes \in Seq(Nat) /\ Append(q.bytes, b) \in Seq(Nat)
    BY DEF Rings
  <2> QED
    BY <2>1, <2>2 DEF Rings
<1> QED
  BY <1>1, <1>2

LEMMA FillShort ==
  ASSUME NEW q \in Rings, NEW b \in Nat, Len(q.bytes) + 1 # Size
  PROVE  Fill(q, b) \in Rings /\ Fill(q, b).bytes = Append(q.bytes, b)
<1>1. ~(Len(q.bytes) + 1 = Size)
  OBVIOUS
<1>2. Fill(q, b) = [q EXCEPT !.bytes = Append(@, b)]
  BY <1>1, Zenon DEF Fill
<1>3. q.bytes \in Seq(Nat) /\ Append(q.bytes, b) \in Seq(Nat)
  BY DEF Rings
<1> QED
  BY <1>2, <1>3 DEF Rings

\* The beginning of a sequence grows by the next element.
LEMMA LastOne ==
  ASSUME NEW S, NEW z \in Seq(S), NEW x \in Seq(S), NEW b \in S
  PROVE  z \o (x \o <<b>>) = Append(z \o x, b)
OBVIOUS

LEMMA Longer ==
  ASSUME NEW S, NEW z \in Seq(S), NEW r \in Seq(S), NEW k \in 1 .. Len(r)
  PROVE  z \o SubSeq(r, 1, k) = Append(z \o SubSeq(r, 1, k - 1), r[k])
<1> DEFINE x == SubSeq(r, 1, k - 1)
           y == SubSeq(r, 1, k)
<1>1. x \in Seq(S) /\ r[k] \in S
  BY SubSeqProperties
<1>2. y = x \o <<r[k]>>
  BY SubSeqRecursiveSecond
<1> HIDE DEF x, y
<1>3. z \o (x \o <<r[k]>>) = Append(z \o x, r[k])
  BY <1>1, LastOne
<1> QED
  BY <1>2, <1>3 DEF x, y

LEMMA OneMore ==
  ASSUME NEW z \in Seq(Nat), NEW r \in Seq(Nat), NEW k \in 1 .. Len(r),
         NEW j, j = k - 1
  PROVE  /\ SubSeq(r, 1, j) \in Seq(Nat) /\ SubSeq(r, 1, k) \in Seq(Nat)
         /\ Append(z \o SubSeq(r, 1, j), r[k]) = z \o SubSeq(r, 1, k)
         /\ Len(z \o SubSeq(r, 1, k)) = Len(z) + k
         /\ r[k] \in Nat
<1> DEFINE x == SubSeq(r, 1, k - 1)
           y == SubSeq(r, 1, k)
<1>1. /\ x \in Seq(Nat) /\ y \in Seq(Nat) /\ r[k] \in Nat /\ Len(y) = k
  BY SubSeqProperties
<1>2. z \o y = Append(z \o x, r[k])
  BY Longer
<1> HIDE DEF x, y
<1>3. Len(z \o y) = Len(z) + Len(y)
  BY <1>1, ConcatProperties
<1> QED
  BY <1>1, <1>2, <1>3 DEF x, y

LEMMA ThreeMore ==
  ASSUME NEW S, NEW z \in Seq(S), NEW r \in Seq(S), Len(r) = 3
  PROVE  /\ z \o SubSeq(r, 1, 1) = Append(z, r[1])
         /\ z \o SubSeq(r, 1, 2) = Append(z \o SubSeq(r, 1, 1), r[2])
         /\ z \o SubSeq(r, 1, 3) = Append(z \o SubSeq(r, 1, 2), r[3])
<1>1. /\ 1 \in 1 .. Len(r) /\ 2 \in 1 .. Len(r) /\ 3 \in 1 .. Len(r)
      /\ 1 - 1 = 0 /\ 2 - 1 = 1 /\ 3 - 1 = 2
  OBVIOUS
<1>2. z \o SubSeq(r, 1, 0) = z
  BY SubSeqEmpty, ConcatEmptySeq
<1>3. z \o SubSeq(r, 1, 1) = Append(z \o SubSeq(r, 1, 0), r[1])
  BY <1>1, Longer
<1>4. z \o SubSeq(r, 1, 2) = Append(z \o SubSeq(r, 1, 1), r[2])
  BY <1>1, Longer
<1>5. z \o SubSeq(r, 1, 3) = Append(z \o SubSeq(r, 1, 2), r[3])
  BY <1>1, Longer
<1> QED
  BY <1>2, <1>3, <1>4, <1>5

\* twi_read_array: nothing, the whole request, or a ring that has lost all.
LEMMA ReadEffect ==
  ASSUME NEW q \in Rings, Len(q.bytes) <= Size,
         NEW r \in Seq(Nat), Len(r) = OVERHEAD
  PROVE  \/ buffer_space(q) < OVERHEAD /\ twi_read(q, r) = q
         \/ buffer_space(q) >= OVERHEAD /\ Lost(q, twi_read(q, r))
         \/ /\ buffer_space(q) >= OVERHEAD
            /\ twi_read(q, r) \in Rings
            /\ twi_read(q, r).bytes = q.bytes \o r
            /\ Len(twi_read(q, r).bytes) <= Size
            /\ twi_read(q, r) # q
<1> DEFINE z == q.bytes
           q1 == Fill(q, r[1])
           q2 == Fill(q1, r[2])
           q3 == Fill(q2, r[3])
           q4 == Fill(q3, r[4])
<1>1. Len(z) \in Nat /\ Size \in Nat /\ Size >= 22 /\ z \in Seq(Nat)
  BY TwiAssumption DEF Rings
<1>2. CASE buffer_space(q) < OVERHEAD
  BY <1>2 DEF twi_read
<1>3. CASE buffer_space(q) >= OVERHEAD
  <2>1. Len(z) + 4 <= Size /\ ~(buffer_space(q) < OVERHEAD)
    BY <1>1, <1>3 DEF buffer_space, OVERHEAD
  <2>2. Len(r) = 4
    BY DEF OVERHEAD
  <2>3. twi_read(q, r) = q4
    BY <2>1, Zenon DEF twi_read
  <2> HIDE DEF z
  <2> DEFINE w0 == z \o SubSeq(r, 1, 0)
             w1 == z \o SubSeq(r, 1, 1)
             w2 == z \o SubSeq(r, 1, 2)
             w3 == z \o SubSeq(r, 1, 3)
             w4 == z \o SubSeq(r, 1, 4)
  <2>a. /\ 1 \in 1 .. Len(r) /\ 2 \in 1 .. Len(r) /\ 3 \in 1 .. Len(r)
        /\ 4 \in 1 .. Len(r) /\ 0 = 1 - 1 /\ 1 = 2 - 1 /\ 2 = 3 - 1 /\ 3 = 4 - 1
    BY <2>2
  <2>b. z = w0 /\ z \o r = w4
    <3>1. SubSeq(r, 1, 0) = <<>> /\ z \o <<>> = z
      BY <1>1, SubSeqEmpty, ConcatEmptySeq
    <3>2. SubSeq(r, 1, 4) = r
      BY <2>2, SubSeqFull
    <3> QED BY <3>1, <3>2
  <2>c1. Append(w0, r[1]) = w1 /\ r[1] \in Nat /\ Len(w1) = Len(z) + 1
    <3>1. Append(w0, r[1]) = w1
      BY <1>1, <2>a, OneMore, ZenonT(60)
    <3>2. r[1] \in Nat /\ Len(w1) = Len(z) + 1
      BY <1>1, <2>a, OneMore, ZenonT(60)
    <3> QED
      BY <3>1, <3>2
  <2>c2. Append(w1, r[2]) = w2 /\ r[2] \in Nat /\ Len(w2) = Len(z) + 2
    BY <1>1, <2>a, OneMore
  <2>c3. Append(w2, r[3]) = w3 /\ r[3] \in Nat /\ Len(w3) = Len(z) + 3
    BY <1>1, <2>a, OneMore
  <2>c4. Append(w3, r[4]) = w4 /\ r[4] \in Nat /\ Len(w4) = Len(z) + 4
    BY <1>1, <2>a, OneMore
  <2> HIDE DEF w0, w1, w2, w3, w4
  <2>c. Len(z) + 1 # Size /\ Len(w1) + 1 # Size /\ Len(w2) + 1 # Size
    BY <1>1, <2>1, <2>c1, <2>c2
  <2>d. q.bytes = z /\ Append(z, r[1]) = w1
    BY <2>b, <2>c1 DEF z
  <2>4. q1 \in Rings /\ q1.bytes = w1
    BY <2>c, <2>d, <2>c1, FillShort
  <2> HIDE DEF q1
  <2>5. q2 \in Rings /\ q2.bytes = w2
    BY <2>4, <2>c, <2>c2, FillShort
  <2> HIDE DEF q2
  <2>6. q3 \in Rings /\ q3.bytes = w3
    BY <2>5, <2>c, <2>c3, FillShort
  <2> HIDE DEF q3
  <2>7. \/ Len(q3.bytes) + 1 = Size /\ q4.bytes = <<>>
        \/ q4 \in Rings /\ q4.bytes = w4
    BY <2>6, <2>c4, FillEffect
  <2> HIDE DEF q4
  <2>8. CASE Len(q3.bytes) + 1 = Size /\ q4.bytes = <<>>
    <3>1. Len(z) > 0
      BY <1>1, <2>6, <2>8, <2>c3
    <3> QED
      BY <1>3, <2>3, <2>8, <3>1 DEF Lost, z
  <2>9. CASE q4 \in Rings /\ q4.bytes = w4
    <3>1. Len(q4.bytes) = Len(z) + 4
      BY <2>9, <2>c4
    <3>2. q4 # q
      BY <1>1, <3>1 DEF z
    <3> QED
      BY <1>1, <1>3, <2>1, <2>3, <2>9, <2>b, <3>1, <3>2 DEF z
  <2> QED
    BY <2>7, <2>8, <2>9
<1> QED
  BY <1>1, <1>2, <1>3 DEF buffer_space, OVERHEAD

-----------------------------------------------------------------------------
(* What a step leaves as it was.                                           *)

\* What has gone wrong stays wrong.
LEMMA SpoiltStays == [Next]_vars => spoilt \subseteq spoilt'
<1> SUFFICES ASSUME [Next]_vars PROVE spoilt \subseteq spoilt'
  OBVIOUS
<1>1. CASE Main
  BY <1>1 DEF Main, ModeSet, SyncClock, Ask, Put, Report, Start
<1>2. CASE Int2
  BY <1>2 DEF Int2
<1>3. CASE Interrupt
  BY <1>3 DEF Interrupt
<1>4. CASE UNCHANGED vars
  BY <1>4 DEF vars
<1> QED
  BY <1>1, <1>2, <1>3, <1>4 DEF Next

LEMMA KeptBefore == [Next]_vars /\ Kept' => Kept
BY SpoiltStays DEF Kept

LEMMA RingFrame ==
  ASSUME RingInv, UNCHANGED <<queue, asked, todo, rest>>
  PROVE  RingInv'
BY DEF RingInv, Started

LEMMA BusFrame ==
  ASSUME BusInv, UNCHANGED <<m, mode, status, rtc>>, spoilt \subseteq spoilt'
  PROVE  BusInv'
<1>1. Reading => Reading'
  BY DEF Reading
<1>2. Writing => Writing'
  BY DEF Writing
<1> QED
  BY <1>1, <1>2 DEF BusInv

LEMMA ClockFrame ==
  ASSUME ClockInv, UNCHANGED <<rtc, buffer, unheard>>
  PROVE  ClockInv'
BY DEF ClockInv

-----------------------------------------------------------------------------
(* The ring under each action of the main loop.                            *)

LEMMA ModeSetRing ==
  ASSUME RingInv, ModeSet
  PROVE  RingInv'
<1>1. PICK new \in Modes \ {current_mode} : todo' = mode_set(new)
  BY DEF ModeSet
<1>2. todo' \in Seq(Requests)
  BY <1>1, ModeSets
<1>3. rest = <<>> /\ UNCHANGED <<queue, rest, asked>>
  BY DEF ModeSet, Free
<1> QED
  BY <1>2, <1>3 DEF RingInv, Started

LEMMA SyncClockRing ==
  ASSUME RingInv, SyncClock
  PROVE  RingInv'
<1>1. PICK t \in Times : todo' = <<watch_set(t[1], t[2], 0)>>
  BY DEF SyncClock
<1>2. t[1] \in Nat /\ t[2] \in Nat /\ 0 \in Nat
  BY TwiAssumption
<1>3. watch_set(t[1], t[2], 0) \in Requests
  BY <1>2, TimeWrites
<1>4. todo' \in Seq(Requests)
  BY <1>1, <1>3
<1>5. rest = <<>> /\ UNCHANGED <<queue, rest, asked>>
  BY DEF SyncClock, Free
<1> QED
  BY <1>4, <1>5 DEF RingInv, Started

LEMMA AskRing ==
  ASSUME RingInv, Ask
  PROVE  RingInv'
<1>1. todo # <<>> /\ rest = <<>> /\ UNCHANGED <<queue, asked>>
  BY DEF Ask
<1>2. /\ todo \in Seq(Requests) /\ Head(todo) \in Requests
      /\ Tail(todo) \in Seq(Requests)
  BY <1>1, HeadTailProperties DEF RingInv
<1> DEFINE h == Head(todo)
<1>3. h \in Seq(Nat) /\ Len(h) \in Nat /\ h # <<>>
  BY <1>2, RequestFacts
<1>4. CASE rest' = h /\ UNCHANGED todo
  <2> HIDE DEF h
  <2>1. SubSeq(h, 1, Len(h) - Len(h)) = <<>> /\ SubSeq(h, Len(h) - Len(h) + 1, Len(h)) = h
    <3>1. Len(h) - Len(h) = 0 /\ Len(h) - Len(h) + 1 = 1
      BY <1>3
    <3> QED BY <1>3, <3>1, SubSeqFull, SubSeqEmpty
  <2>2. Started' = <<>> /\ Started = <<>>
    BY <1>1, <1>4, <2>1 DEF Started, h
  <2>3. Len(rest') <= Len(Head(todo')) /\ todo' # <<>> /\ rest' \in Seq(Nat)
    BY <1>1, <1>3, <1>4 DEF h
  <2>4. rest' = SubSeq(Head(todo'), Len(Head(todo')) - Len(rest') + 1, Len(Head(todo')))
    BY <1>4, <2>1 DEF h
  <2> QED
    BY <1>1, <1>4, <2>2, <2>3, <2>4 DEF RingInv
<1>5. CASE todo' = Tail(todo) /\ UNCHANGED rest
  BY <1>1, <1>2, <1>5 DEF RingInv, Started
<1> QED
  BY <1>4, <1>5 DEF Ask

LEMMA PutRing ==
  ASSUME RingInv, Put, Kept'
  PROVE  RingInv'
<1> DEFINE h == Head(todo)
           L == Len(h)
           n == Len(rest)
           k == L - n + 1
           z == FlattenSeq(asked)
<1>1. rest # <<>> /\ rest \in Seq(Nat) /\ todo \in Seq(Requests) /\ todo # <<>>
  BY DEF Put, RingInv
<1>2. /\ h \in Requests /\ h \in Seq(Nat) /\ Tail(todo) \in Seq(Requests)
      /\ L \in Nat /\ n \in Nat /\ n > 0 /\ n <= L
  <2>1. h \in Requests /\ Tail(todo) \in Seq(Requests)
    BY <1>1, HeadTailProperties
  <2>2. n \in Nat /\ n > 0 /\ n <= L
    BY <1>1, EmptySeq DEF RingInv
  <2> QED BY <2>1, <2>2, RequestFacts
<1>3. k \in 1 .. L /\ k - 1 = L - n /\ k \in Nat
  BY <1>2
<1>4. rest = SubSeq(h, k, L) /\ Started = SubSeq(h, 1, k - 1)
  BY <1>1, <1>3 DEF RingInv, Started
<1>5. asked \in Seq(Requests) /\ asked \in Seq(Seq(Nat)) /\ z \in Seq(Nat)
  BY RequestFacts, FlattenType DEF RingInv
<1>6. queue \in Rings /\ Len(queue.bytes) <= Size /\ queue.bytes = z \o Started
  BY DEF RingInv
<1>7. /\ Head(rest) = h[k] /\ Tail(rest) = SubSeq(h, k + 1, L)
      /\ Tail(rest) \in Seq(Nat) /\ Len(Tail(rest)) = n - 1
  <2>1. Tail(rest) \in Seq(Nat) /\ Len(Tail(rest)) = n - 1
    BY <1>1, HeadTailProperties
  <2> HIDE DEF h, k, n
  <2>2. L \in k .. L
    BY <1>2, <1>3
  <2>3. Head(SubSeq(h, k, L)) = h[k] /\ Tail(SubSeq(h, k, L)) = SubSeq(h, k + 1, L)
    BY <1>2, <1>3, <2>2, HeadTailOfSubSeq
  <2> QED
    BY <1>4, <2>1, <2>3
<1>8. /\ buffer_space(queue) # 0 /\ ~Lost(queue, queue')
      /\ queue' = Fill(queue, h[k]) /\ rest' = Tail(rest)
      /\ todo' = IF rest' = <<>> THEN Tail(todo) ELSE todo
      /\ asked' = IF rest' = <<>> THEN Append(asked, h) ELSE asked
  <2>1. ~(buffer_space(queue) = 0)
    BY DEF Put, Kept, Framing
  <2>2. ~Lost(queue, queue')
    BY <2>1 DEF Put, Kept, Framing
  <2> HIDE DEF h, k
  <2> QED BY <1>7, <2>1, <2>2 DEF Put, h
<1>9. /\ SubSeq(h, 1, k - 1) \in Seq(Nat) /\ h[k] \in Nat
      /\ Append(z \o SubSeq(h, 1, k - 1), h[k]) = z \o SubSeq(h, 1, k)
  <2> HIDE DEF h, k, L
  <2> QED BY <1>2, <1>3, <1>5, OneMore DEF L
<1>10. queue' \in Rings /\ queue'.bytes = z \o SubSeq(h, 1, k)
  <2> HIDE DEF h, k, L, z
  <2>1. \/ Len(queue.bytes) + 1 = Size /\ queue'.bytes = <<>>
        \/ queue' \in Rings /\ queue'.bytes = Append(queue.bytes, h[k])
    BY <1>6, <1>8, <1>9, FillEffect
  <2>2. ~(Len(queue.bytes) + 1 = Size /\ queue'.bytes = <<>>)
    BY <1>6, <1>8, TwiAssumption DEF Lost, Rings
  <2> QED
    BY <1>4, <1>6, <1>9, <2>1, <2>2
<1>11. Len(queue'.bytes) <= Size
  <2> HIDE DEF h, k, L, z
  <2>1. queue'.bytes = Append(queue.bytes, h[k]) /\ queue.bytes \in Seq(Nat)
    BY <1>4, <1>6, <1>9, <1>10 DEF Rings
  <2>2. Len(queue'.bytes) = Len(queue.bytes) + 1
    BY <2>1
  <2> QED BY <1>6, <1>8, <2>1, <2>2, TwiAssumption DEF buffer_space
<1>12. CASE n = 1
  <2>1. rest' = <<>> /\ k = L
    BY <1>2, <1>7, <1>8, <1>12, EmptySeq
  <2>2. SubSeq(h, 1, L) = h
    BY <1>2, SubSeqFull
  <2>3. asked' = Append(asked, h) /\ asked' \in Seq(Requests)
    BY <1>2, <1>5, <1>8, <2>1
  <2>4. FlattenSeq(asked') = z \o h
    BY <1>2, <1>5, <2>3, FlattenAppend
  <2> HIDE DEF h, k, L, z
  <2>5. z \o h \in Seq(Nat) /\ (z \o h) \o <<>> = z \o h
    BY <1>2, <1>5, ConcatProperties, ConcatEmptySeq
  <2>6. todo' = Tail(todo) /\ Started' = <<>>
    BY <1>8, <2>1 DEF Started
  <2>7. queue'.bytes = FlattenSeq(asked') \o Started'
    BY <1>10, <2>1, <2>2, <2>4, <2>5, <2>6
  <2>8. rest' \in Seq(Nat) /\ todo' \in Seq(Requests)
    BY <1>2, <2>1, <2>6
  <2> QED
    BY <1>10, <1>11, <2>1, <2>3, <2>7, <2>8, Zenon DEF RingInv
<1>13. CASE n # 1
  <2>1. rest' # <<>> /\ Len(rest') = n - 1 /\ rest' \in Seq(Nat)
    <3>1. rest' = Tail(rest) /\ Len(rest') = n - 1 /\ rest' \in Seq(Nat)
      <4> HIDE DEF h, k, L, n
      <4> QED BY <1>7, <1>8
    <3>2. n - 1 # 0 /\ Len(<<>>) = 0
      BY <1>2, <1>13
    <3>3. rest' # <<>>
      BY <3>1, <3>2
    <3> QED BY <3>1, <3>3
  <2>2. todo' = todo /\ asked' = asked
    BY <1>8, <2>1
  <2>3. L - Len(rest') = k /\ Len(rest') <= L
    BY <1>2, <2>1
  <2>4. Started' = SubSeq(h, 1, k)
    BY <2>1, <2>2, <2>3 DEF Started
  <2>5. rest' = SubSeq(Head(todo'), Len(Head(todo')) - Len(rest') + 1, Len(Head(todo')))
    BY <1>7, <1>8, <2>2, <2>3
  <2>6. Len(rest') <= Len(Head(todo'))
    BY <2>2, <2>3
  <2> HIDE DEF h, k, L, z
  <2> QED
    BY <1>1, <1>5, <1>10, <1>11, <2>1, <2>2, <2>4, <2>5, <2>6 DEF RingInv, z
<1> QED
  BY <1>12, <1>13

LEMMA ReadsType ==
  /\ Reads \in Seq(Requests) /\ Len(Reads) = 3
  /\ Reads[1] \in Requests /\ Reads[2] \in Requests /\ Reads[3] \in Requests
<1>1. Len(Reads) = 3 /\ Reads = <<Reads[1], Reads[2], Reads[3]>>
  BY DEF Reads
<1>2. Reads[1] \in Requests /\ Reads[2] \in Requests /\ Reads[3] \in Requests
  BY ReadRequests
<1>3. \A x, y, z \in Requests : <<x, y, z>> \in Seq(Requests)
  OBVIOUS
<1>4. <<Reads[1], Reads[2], Reads[3]>> \in Seq(Requests)
  BY <1>2, <1>3, Zenon
<1> QED
  BY <1>1, <1>2, <1>4

\* The three reads of one pulse, as far as there was room for them.
LEMMA ReadSequence ==
  ASSUME NEW s \in Seq(Requests), NEW a1, NEW a2, NEW a3,
         a1 = s \o SubSeq(Reads, 1, 1), a2 = s \o SubSeq(Reads, 1, 2),
         a3 = s \o SubSeq(Reads, 1, 3)
  PROVE  /\ a1 = Append(s, Reads[1]) /\ a2 = Append(a1, Reads[2])
         /\ a3 = Append(a2, Reads[3])
         /\ a1 \in Seq(Requests) /\ FlattenSeq(a1) = FlattenSeq(s) \o Reads[1]
         /\ a2 \in Seq(Requests) /\ FlattenSeq(a2) = FlattenSeq(a1) \o Reads[2]
         /\ a3 \in Seq(Requests) /\ FlattenSeq(a3) = FlattenSeq(a2) \o Reads[3]
<1>1. /\ Reads \in Seq(Requests) /\ Len(Reads) = 3
      /\ Reads[1] \in Requests /\ Reads[2] \in Requests /\ Reads[3] \in Requests
  BY ReadsType
<1>2. a1 = Append(s, Reads[1]) /\ a2 = Append(a1, Reads[2]) /\ a3 = Append(a2, Reads[3])
  BY <1>1, ThreeMore
<1>3. a1 \in Seq(Requests) /\ a2 \in Seq(Requests) /\ a3 \in Seq(Requests)
  BY <1>1, <1>2
<1>4. /\ s \in Seq(Seq(Nat)) /\ a1 \in Seq(Seq(Nat)) /\ a2 \in Seq(Seq(Nat))
      /\ Reads[1] \in Seq(Nat) /\ Reads[2] \in Seq(Nat) /\ Reads[3] \in Seq(Nat)
  BY <1>1, <1>3, RequestFacts
<1> QED
  BY <1>2, <1>3, <1>4, FlattenAppend

LEMMA Int2Ring ==
  ASSUME RingInv, Int2, Kept'
  PROVE  RingInv'
<1> DEFINE q1 == twi_read(queue, Reads[1])
           q2 == twi_read(q1, Reads[2])
           q3 == twi_read(q2, Reads[3])
           taken == IF q1 = queue THEN 0 ELSE IF q2 = q1 THEN 1
                    ELSE IF q3 = q2 THEN 2 ELSE 3
           a1 == asked \o SubSeq(Reads, 1, 1)
           a2 == asked \o SubSeq(Reads, 1, 2)
           a3 == asked \o SubSeq(Reads, 1, 3)
<1>1. /\ ~Lost(queue, q1) /\ ~Lost(q1, q2) /\ ~Lost(q2, q3) /\ ~Begun
      /\ taken > 0 /\ queue' = q3 /\ asked' = asked \o SubSeq(Reads, 1, taken)
      /\ UNCHANGED <<rest, todo>>
  <2>1. ~Begun /\ ~(Lost(queue, q1) \/ Lost(q1, q2) \/ Lost(q2, q3))
    BY Zenon DEF Int2, Kept, Framing
  <2> QED
    BY <2>1, Zenon DEF Int2, main
<1>2. /\ asked \in Seq(Requests) /\ asked \in Seq(Seq(Nat))
      /\ FlattenSeq(asked) \in Seq(Nat)
  BY RequestFacts, FlattenType DEF RingInv
<1>3. Started = <<>> /\ Started' = <<>>
  <2>1. CASE rest = <<>>
    BY <1>1, <2>1 DEF Started
  <2>2. CASE rest # <<>> /\ rest = Head(todo)
    <3>1. Len(Head(todo)) - Len(rest) = 0
      BY <2>2 DEF RingInv
    <3>2. SubSeq(Head(todo), 1, 0) = <<>>
      BY SubSeqEmpty
    <3> QED BY <1>1, <2>2, <3>1, <3>2 DEF Started
  <2> QED
    BY <1>1, <2>1, <2>2 DEF Begun
<1>4. /\ queue \in Rings /\ Len(queue.bytes) <= Size
      /\ queue.bytes = FlattenSeq(asked)
  BY <1>2, <1>3, ConcatEmptySeq DEF RingInv
<1>5. /\ Reads[1] \in Seq(Nat) /\ Len(Reads[1]) = OVERHEAD
      /\ Reads[2] \in Seq(Nat) /\ Len(Reads[2]) = OVERHEAD
      /\ Reads[3] \in Seq(Nat) /\ Len(Reads[3]) = OVERHEAD
  BY ReadRequests, RequestFacts
<1>7. /\ a1 \in Seq(Requests) /\ FlattenSeq(a1) = FlattenSeq(asked) \o Reads[1]
      /\ a2 \in Seq(Requests) /\ FlattenSeq(a2) = FlattenSeq(a1) \o Reads[2]
      /\ a3 \in Seq(Requests) /\ FlattenSeq(a3) = FlattenSeq(a2) \o Reads[3]
  BY <1>2, ReadSequence
<1>8. q1 # queue
  BY <1>1
<1>9. taken = (IF q2 = q1 THEN 1 ELSE IF q3 = q2 THEN 2 ELSE 3)
  BY <1>8
<1>10. asked' = IF q2 = q1 THEN a1 ELSE IF q3 = q2 THEN a2 ELSE a3
  <2> HIDE DEF q1, q2, q3
  <2> QED BY <1>1, <1>9
<1> HIDE DEF a1, a2, a3, taken
<1>a. q1 \in Rings /\ q1.bytes = FlattenSeq(a1) /\ Len(q1.bytes) <= Size
  BY <1>1, <1>4, <1>5, <1>7, <1>8, ReadEffect
<1> HIDE DEF q1
<1>11. CASE q2 = q1
  <2>1. q3 = q1
    <3>1. buffer_space(q1) < OVERHEAD
      BY <1>1, <1>5, <1>11, <1>a, ReadEffect
    <3> QED BY <1>11, <3>1 DEF twi_read
  <2>2. asked' = a1 /\ queue' = q1
    BY <1>1, <1>10, <1>11, <2>1
  <2> QED
    BY <1>1, <1>3, <1>7, <1>a, <2>2, ConcatEmptySeq DEF RingInv, Rings
<1>12. CASE q2 # q1
  <2>1. q2 \in Rings /\ q2.bytes = FlattenSeq(a2) /\ Len(q2.bytes) <= Size
    BY <1>1, <1>5, <1>7, <1>12, <1>a, ReadEffect
  <2> HIDE DEF q2
  <2>2. CASE q3 = q2
    <3>1. asked' = a2 /\ queue' = q2
      BY <1>1, <1>10, <1>12, <2>2
    <3> QED
      BY <1>1, <1>3, <1>7, <2>1, <3>1, ConcatEmptySeq DEF RingInv, Rings
  <2>3. CASE q3 # q2
    <3>1. q3 \in Rings /\ q3.bytes = FlattenSeq(a3) /\ Len(q3.bytes) <= Size
      BY <1>1, <1>5, <1>7, <2>1, <2>3, ReadEffect
    <3>2. asked' = a3 /\ queue' = q3
      BY <1>1, <1>10, <1>12, <2>3
    <3> HIDE DEF q3
    <3> QED
      BY <1>1, <1>3, <1>7, <3>1, <3>2, ConcatEmptySeq DEF RingInv, Rings
  <2> QED BY <2>2, <2>3
<1> QED
  BY <1>11, <1>12

\* twi_try finds a whole request at the beginning of the ring.
LEMMA FirstRequest ==
  ASSUME RingInv, Start
  PROVE  /\ asked # <<>> /\ Head(asked) \in Requests /\ Tail(asked) \in Seq(Requests)
         /\ Started = <<>> /\ Started' = <<>>
         /\ queue.bytes = Head(asked) \o FlattenSeq(Tail(asked))
         /\ FlattenSeq(Tail(asked)) \in Seq(Nat)
         /\ Len(queue.bytes) >= Len(Head(asked))
         /\ \A i \in 1 .. Len(Head(asked)) : queue.bytes[i] = Head(asked)[i]
<1>1. asked \in Seq(Requests) /\ asked \in Seq(Seq(Nat)) /\ FlattenSeq(asked) \in Seq(Nat)
  BY RequestFacts, FlattenType DEF RingInv
<1>2. Started = <<>> /\ Started' = <<>> /\ queue.bytes # <<>>
  BY DEF Start, Free, Started
<1>3. queue.bytes = FlattenSeq(asked)
  BY <1>1, <1>2, ConcatEmptySeq DEF RingInv
<1>4. asked # <<>>
  BY <1>2, <1>3 DEF FlattenSeq
<1> DEFINE r == Head(asked)
           t == FlattenSeq(Tail(asked))
<1>5. r \in Requests /\ Tail(asked) \in Seq(Requests)
  BY <1>1, <1>4, HeadTailProperties
<1>6. r \in Seq(Nat) /\ t \in Seq(Nat) /\ Len(r) \in Nat
  BY <1>5, RequestFacts, FlattenType
<1>7. queue.bytes = r \o t
  BY <1>1, <1>3, <1>4, FlattenHead
<1> HIDE DEF r, t
<1>8. /\ Len(r \o t) >= Len(r)
      /\ \A i \in 1 .. Len(r) : (r \o t)[i] = r[i]
  BY <1>6, Concatenation
<1> QED
  BY <1>2, <1>4, <1>5, <1>6, <1>7, <1>8 DEF r, t

\* ... and takes it out, as long as it is.
LEMMA FirstTaken ==
  ASSUME RingInv, Start
  PROVE  /\ Taken(queue) = (IF Head(asked)[1] = 3 THEN 0 ELSE Len(Head(asked)) - OVERHEAD)
         /\ OVERHEAD + Taken(queue) = Len(Head(asked))
         /\ queue' = Drain(queue, Len(Head(asked)))
         /\ m' = action_set(queue) /\ asked' = Tail(asked)
         /\ mode' = IF Head(asked)[1] % 2 = 1 THEN "READ_START" ELSE "WRITE_START"
<1> DEFINE r == Head(asked)
           b == queue.bytes
<1>1. /\ r \in Requests /\ Len(r) \in Nat /\ Len(r) >= 4 /\ Len(b) >= Len(r)
      /\ Len(b) \in Nat /\ asked # <<>>
      /\ \A i \in 1 .. Len(r) : b[i] = r[i]
  <2>1. /\ r \in Requests /\ Len(b) >= Len(r) /\ asked # <<>>
        /\ \A i \in 1 .. Len(r) : b[i] = r[i]
    BY FirstRequest
  <2>2. b \in Seq(Nat)
    BY DEF RingInv, Rings
  <2> HIDE DEF r, b
  <2> QED BY <2>1, <2>2, RequestFacts DEF OVERHEAD
<1>2. r[2] = TWI_ID_RTC /\ (IsRead(r) \/ IsWrite(r)) /\ b[1] = r[1] /\ b[2] = r[2]
  BY <1>1 DEF Requests
<1> HIDE DEF r, b
<1>3. Taken(queue) = (IF r[1] = 3 THEN 0 ELSE Len(r) - OVERHEAD)
      /\ OVERHEAD + Taken(queue) = Len(r)
  <2> DEFINE len == b[1] \div 2
             n   == Len(b) - OVERHEAD
  <2>1. Taken(queue) = IF b[1] % 2 = 1 THEN 0 ELSE IF len < n THEN len ELSE n
    BY DEF Taken, b
  <2>2. CASE IsRead(r)
    <3>1. r[1] = 3 /\ Len(r) = OVERHEAD /\ 3 % 2 = 1 /\ OVERHEAD \in Nat
      BY <2>2 DEF IsRead, OVERHEAD
    <3> QED BY <1>2, <2>1, <3>1
  <2>3. CASE IsWrite(r)
    <3>1. r[1] = 2 * (Len(r) - OVERHEAD) /\ Len(r) - OVERHEAD \in Nat
      BY <1>1, <2>3 DEF IsWrite, OVERHEAD
    <3>2. b[1] % 2 = 0 /\ len = Len(r) - OVERHEAD /\ r[1] # 3
      BY <1>2, <3>1
    <3>3. len <= n /\ n \in Nat
      BY <1>1, <3>2 DEF OVERHEAD
    <3>4. Taken(queue) = Len(r) - OVERHEAD
      BY <2>1, <3>1, <3>2, <3>3
    <3> QED BY <1>1, <3>2, <3>4 DEF OVERHEAD
  <2> QED BY <1>2, <2>2, <2>3
<1>4. ~(Len(queue.bytes) < OVERHEAD) /\ ~(queue.bytes[2] # TWI_ID_RTC)
  BY <1>1, <1>2 DEF OVERHEAD, b
<1>5. /\ queue' = Drain(queue, OVERHEAD + Taken(queue)) /\ m' = action_set(queue)
      /\ mode' = (IF m'.action = "WRITE" THEN "WRITE_START" ELSE "READ_START")
      /\ asked' = Tail(asked)
  BY <1>1, <1>4, Zenon DEF Start
<1>6. m'.action = IF r[1] % 2 = 1 THEN "READ" ELSE "WRITE"
  <2>1. m' = action_set(queue) /\ b[1] = r[1]
    BY <1>5, <1>2
  <2> QED BY <2>1 DEF action_set, b
<1> QED
  BY <1>3, <1>5, <1>6 DEF r

LEMMA StartRing ==
  ASSUME RingInv, Start
  PROVE  RingInv'
<1> DEFINE r == Head(asked)
           t == FlattenSeq(Tail(asked))
<1>1. /\ r \in Requests /\ Tail(asked) \in Seq(Requests)
      /\ Started' = <<>> /\ queue.bytes = r \o t /\ t \in Seq(Nat)
      /\ queue' = Drain(queue, Len(r)) /\ asked' = Tail(asked)
  BY FirstRequest, FirstTaken
<1>2. /\ queue \in Rings /\ Len(queue.bytes) <= Size
      /\ todo \in Seq(Requests) /\ rest = <<>> /\ UNCHANGED <<todo, rest>>
  BY DEF RingInv, Start, Free, main
<1>3. r \in Seq(Nat) /\ Len(r) \in Nat /\ Len(r) >= 4 /\ Len(t) \in Nat
      /\ Len(queue.bytes) = Len(r) + Len(t)
  BY <1>1, RequestFacts, ConcatProperties DEF OVERHEAD
<1> HIDE DEF r, t
<1>4. CASE Len(r) < Len(queue.bytes)
  <2>1. queue' = [bytes |-> SubSeq(queue.bytes, Len(r) + 1, Len(queue.bytes)),
                  start |-> (queue.start + Len(r)) % Size]
    BY <1>1, <1>4 DEF Drain
  <2>2. SubSeq(queue.bytes, Len(r) + 1, Len(queue.bytes)) = t
    <3>1. /\ Len(r) + 1 \in Len(r) + 1 .. Len(r) + Len(t)
          /\ Len(r) + Len(t) \in Len(r) + 1 .. Len(r) + Len(t)
          /\ (Len(r) + 1) - Len(r) = 1 /\ (Len(r) + Len(t)) - Len(r) = Len(t)
      BY <1>3, <1>4
    <3>2. SubSeq(r \o t, Len(r) + 1, Len(r) + Len(t)) = SubSeq(t, 1, Len(t))
      BY SMTT(60), <1>1, <1>3, <3>1, SubSeqOfConcat2
    <3>3. SubSeq(t, 1, Len(t)) = t
      BY <1>1, SubSeqFull
    <3> QED BY <1>1, <1>3, <3>2, <3>3
  <2>3. (queue.start + Len(r)) % Size \in Nat
    BY SMTT(60), <1>2, <1>3, TwiAssumption DEF Rings
  <2>4. queue' \in Rings /\ queue'.bytes = t /\ Len(queue'.bytes) <= Size
    <3>1. queue'.bytes = t /\ queue'.start \in Nat
      BY <2>1, <2>2, <2>3
    <3>2. queue' \in Rings
      BY <1>1, <2>1, <2>2, <2>3 DEF Rings
    <3>3. Len(t) <= Size
      BY <1>2, <1>3, TwiAssumption
    <3> QED BY <3>1, <3>2, <3>3
  <2>5. queue'.bytes = FlattenSeq(asked') \o Started'
    BY <1>1, <2>4, ConcatEmptySeq DEF t
  <2> QED
    BY <1>1, <1>2, <2>4, <2>5 DEF RingInv
<1>5. CASE ~(Len(r) < Len(queue.bytes))
  <2>1. queue' = [bytes |-> <<>>, start |-> 0] /\ t = <<>>
    <3>1. Len(t) = 0
      BY <1>3, <1>5
    <3> QED BY <1>1, <1>5, <3>1, EmptySeq DEF Drain
  <2>2. queue' \in Rings /\ queue'.bytes = t /\ Len(queue'.bytes) <= Size
    BY <2>1, TwiAssumption DEF Rings
  <2>3. queue'.bytes = FlattenSeq(asked') \o Started'
    BY <1>1, <2>2, ConcatEmptySeq DEF t
  <2> QED
    BY <1>1, <1>2, <2>2, <2>3 DEF RingInv
<1> QED
  BY <1>4, <1>5

-----------------------------------------------------------------------------
(* The bus and the clock.                                                  *)

\* action_set takes from a whole request what was asked.
LEMMA FirstTransfer ==
  ASSUME RingInv, BusInv, Start
  PROVE  /\ m = Idle
         /\ \E d \in Seq(Nat) :
              /\ m' = [action |-> IF Head(asked)[1] % 2 = 1 THEN "READ" ELSE "WRITE",
                       tag |-> Head(asked)[3], reg |-> Head(asked)[4], index |-> 0,
                       max |-> Head(asked)[1] \div 2, data |-> d]
              /\ Len(d) = Taken(queue)
              /\ \A i \in 1 .. Taken(queue) : d[i] = Head(asked)[OVERHEAD + i]
<1> DEFINE r == Head(asked)
           n == Len(r) - OVERHEAD
           d == SubSeq(queue.bytes, OVERHEAD + 1, OVERHEAD + Taken(queue))
<1>1. /\ r \in Requests /\ queue.bytes \in Seq(Nat) /\ Len(queue.bytes) >= Len(r)
      /\ \A i \in 1 .. Len(r) : queue.bytes[i] = r[i]
      /\ Taken(queue) = (IF r[1] = 3 THEN 0 ELSE n)
      /\ OVERHEAD + Taken(queue) = Len(r)
      /\ m' = action_set(queue)
      /\ mode' = IF r[1] % 2 = 1 THEN "READ_START" ELSE "WRITE_START"
  BY FirstRequest, FirstTaken DEF RingInv, Rings
<1>2. /\ r \in Seq(Nat) /\ Len(r) \in Nat /\ Len(r) >= 4 /\ n \in Nat
      /\ r[1] \in Nat /\ r[3] \in Nat /\ r[4] \in Nat
      /\ (IsRead(r) \/ IsWrite(r))
  <2>1. r \in Seq(Nat) /\ Len(r) >= 4 /\ (IsRead(r) \/ IsWrite(r))
    BY <1>1 DEF Requests, OVERHEAD
  <2> HIDE DEF r
  <2> QED BY <2>1 DEF OVERHEAD
<1>3. m = Idle /\ mode = "IDLE" /\ status = "SUCCESS" /\ status' = status
  <2>1. m.action = "IDLE" /\ mode = "IDLE" /\ status' = status
    BY DEF Start
  <2> QED BY <2>1 DEF BusInv, Reading, Writing, Idle
<1> HIDE DEF r
<1>a. /\ Taken(queue) \in Nat /\ 4 + Taken(queue) = Len(r)
      /\ \A i \in 1 .. Len(r) : queue.bytes[i] = r[i] /\ r[i] \in Nat
  <2>1. OVERHEAD + Taken(queue) = Len(r) /\ n \in Nat
    BY <1>1, <1>2
  <2>2. Taken(queue) \in Nat
    BY <1>1, <1>2
  <2>3. \A i \in 1 .. Len(r) : r[i] \in Nat
    BY <1>2, ElementOfSeq
  <2> QED BY <1>1, <2>1, <2>2, <2>3 DEF OVERHEAD
<1>b. queue.bytes[1] = r[1] /\ queue.bytes[3] = r[3] /\ queue.bytes[4] = r[4]
  <2>1. 1 \in 1 .. Len(r) /\ 3 \in 1 .. Len(r) /\ 4 \in 1 .. Len(r)
    BY <1>2
  <2> QED BY <1>a, <2>1
<1>4. /\ d \in Seq(Nat) /\ Len(d) = Taken(queue)
      /\ \A i \in 1 .. Taken(queue) : d[i] = r[OVERHEAD + i]
  <2> DEFINE k == Taken(queue)
             b == queue.bytes
  <2>1. /\ k \in Nat /\ Len(r) \in Nat /\ 4 + k = Len(r) /\ d = SubSeq(b, 4 + 1, 4 + k)
        /\ \A i \in 1 .. Len(r) : b[i] = r[i] /\ r[i] \in Nat
    BY <1>2, <1>a DEF OVERHEAD
  <2> HIDE DEF k, b, d
  <2>2. \A i \in 4 + 1 .. 4 + k : b[i] \in Nat
    BY <2>1
  <2>3. /\ d \in Seq(Nat)
        /\ Len(d) = IF 4 + 1 <= 4 + k THEN (4 + k) - (4 + 1) + 1 ELSE 0
        /\ \A i \in 1 .. (4 + k) - (4 + 1) + 1 : d[i] = b[(4 + 1) + i - 1]
    BY <2>1, <2>2, SubSeqProperties
  <2>4. \A i \in 1 .. k : /\ (4 + 1) + i - 1 = 4 + i /\ 4 + i \in 1 .. Len(r)
                          /\ i \in 1 .. (4 + k) - (4 + 1) + 1
    BY <2>1
  <2>5. Len(d) = k
    BY <2>1, <2>3
  <2>6. \A i \in 1 .. k : d[i] = r[4 + i]
    BY <2>1, <2>3, <2>4
  <2> QED
    BY <2>3, <2>5, <2>6 DEF OVERHEAD, k
<1>5. d \o SubSeq(<<>>, Taken(queue) + 1, 0) = d
  <2>1. Taken(queue) \in Nat
    BY <1>1, <1>2
  <2>2. SubSeq(<<>>, Taken(queue) + 1, 0) = <<>>
    BY <2>1, SubSeqEmpty
  <2> QED BY <1>4, <2>2, ConcatEmptySeq
<1>6. m' = [action |-> IF r[1] % 2 = 1 THEN "READ" ELSE "WRITE", tag |-> r[3],
            reg |-> r[4], index |-> 0, max |-> r[1] \div 2, data |-> d]
  <2>2. Len(m.data) = 0 /\ m.data = <<>>
    BY <1>3 DEF Idle
  <2>3. m' = [m EXCEPT !.action = IF r[1] % 2 = 1 THEN "READ" ELSE "WRITE",
                       !.index = 0, !.max = r[1] \div 2, !.tag = r[3],
                       !.reg = r[4], !.data = d]
    <3>1. action_set(queue) =
            [m EXCEPT !.action = IF r[1] % 2 = 1 THEN "READ" ELSE "WRITE",
                 !.index = 0, !.max = r[1] \div 2, !.tag = r[3], !.reg = r[4],
                 !.data = d \o SubSeq(m.data, Taken(queue) + 1, Len(m.data))]
      <4> HIDE DEF d
      <4> QED BY <1>b DEF action_set, d
    <3> QED BY ZenonT(60), <1>1, <1>5, <2>2, <3>1
  <2> HIDE DEF d
  <2> QED BY <1>3, <2>3 DEF Idle
<1> HIDE DEF d
<1> QED
  BY <1>3, <1>4, <1>6 DEF r

LEMMA StartBus ==
  ASSUME RingInv, BusInv, Start
  PROVE  BusInv'
<1> DEFINE r == Head(asked)
           n == Len(r) - OVERHEAD
<1>1. /\ r \in Requests
      /\ Taken(queue) = (IF r[1] = 3 THEN 0 ELSE n)
      /\ mode' = IF r[1] % 2 = 1 THEN "READ_START" ELSE "WRITE_START"
  BY FirstRequest, FirstTaken
<1>2. /\ r \in Seq(Nat) /\ Len(r) \in Nat /\ Len(r) >= 4 /\ n \in Nat
      /\ r[1] \in Nat /\ r[3] \in Nat /\ r[4] \in Nat
      /\ (IsRead(r) \/ IsWrite(r))
  <2>1. r \in Seq(Nat) /\ Len(r) >= 4 /\ (IsRead(r) \/ IsWrite(r))
    BY <1>1 DEF Requests, OVERHEAD
  <2> HIDE DEF r
  <2> QED BY <2>1 DEF OVERHEAD
<1>3. status = "SUCCESS" /\ status' = status
  BY DEF Start, BusInv, Reading, Writing, Idle
<1>4. PICK d \in Seq(Nat) :
        /\ m' = [action |-> IF r[1] % 2 = 1 THEN "READ" ELSE "WRITE", tag |-> r[3],
                 reg |-> r[4], index |-> 0, max |-> r[1] \div 2, data |-> d]
        /\ Len(d) = Taken(queue)
        /\ \A i \in 1 .. Taken(queue) : d[i] = r[OVERHEAD + i]
  BY FirstTransfer
<1> HIDE DEF r
<1>7. m' \in [action : {"IDLE", "READ", "WRITE"}, tag : Nat, reg : Nat,
              index : Nat, max : Nat, data : Seq(Nat)]
  <2>1. r[1] \div 2 \in Nat
    BY <1>2
  <2> QED BY <1>2, <1>4, <2>1
<1>8. CASE IsRead(r)
  <2>1. r[1] = 3 /\ r[3] = r[4] /\ r[4] \in Fields /\ 3 % 2 = 1 /\ 3 \div 2 = 1
    BY <1>8 DEF IsRead
  <2>2. d = <<>>
    BY <1>1, <1>4, <2>1, EmptySeq
  <2>3. /\ m'.action = "READ" /\ mode' = "READ_START" /\ m'.max = 1
        /\ m'.tag = m'.reg /\ m'.reg \in Fields /\ m'.index = 0 /\ m'.data = <<>>
    BY <1>1, <1>4, <2>1, <2>2
  <2>4. Reading'
    BY <2>3 DEF Reading, ReadModes
  <2> QED
    BY <1>3, <1>7, <2>4 DEF BusInv
<1>9. CASE IsWrite(r)
  <2>1. n > 0 /\ r[1] = 2 * n /\ r[1] # 3 /\ r[1] % 2 = 0 /\ r[1] \div 2 = n
    BY SMTT(60), <1>2, <1>9 DEF IsWrite, OVERHEAD
  <2>2. /\ m'.action = "WRITE" /\ mode' = "WRITE_START" /\ m'.max = n
        /\ m'.reg = r[4] /\ m'.index = 0 /\ m'.data = d /\ Len(d) = n
    BY <1>1, <1>4, <2>1
  <2>3. \A i \in 0 .. n - 1 : r[4] + i \in Regs /\ Proper(r[4] + i, d[i + 1])
    <3>1. \A i \in 0 .. n - 1 :
            r[4] + i \in Regs /\ Proper(r[4] + i, r[OVERHEAD + 1 + i])
      BY <1>9 DEF IsWrite
    <3>2. \A i \in 0 .. n - 1 : i + 1 \in 1 .. n /\ OVERHEAD + (i + 1) = OVERHEAD + 1 + i
      BY <1>2 DEF OVERHEAD
    <3>3. \A i \in 0 .. n - 1 : d[i + 1] = r[OVERHEAD + 1 + i]
      BY <1>1, <1>4, <2>1, <3>2
    <3> QED BY <3>1, <3>3
  <2>4. \A i \in 0 .. m'.index - 1 : rtc'.reg[m'.reg + i] = m'.data[i + 1]
    <3>1. m'.index - 1 < 0
      BY <2>2
    <3> QED BY <2>2, <3>1
  <2>5. \A i \in 0 .. m'.max - 1 : m'.reg + i \in Regs /\ Proper(m'.reg + i, m'.data[i + 1])
    BY <2>2, <2>3
  <2>6. /\ m'.max = Len(m'.data) /\ m'.max > 0 /\ m'.index <= m'.max /\ m'.index < m'.max
        /\ mode' \in WriteModes /\ mode' # "IDLE"
    BY <1>2, <2>1, <2>2 DEF WriteModes
  <2>7. Writing'
    BY <2>2, <2>4, <2>5, <2>6 DEF Writing
  <2> QED
    BY <1>3, <1>7, <2>7 DEF BusInv
<1> QED
  BY <1>2, <1>8, <1>9

LEMMA ReportInv ==
  ASSUME BusInv, ClockInv, Report
  PROVE  BusInv' /\ ClockInv'
<1>1. BusInv'
  BY DEF Report, BusInv, Idle
<1>2. ClockInv'
  <2>1. rtc' = rtc
    BY DEF Report
  <2>2. CASE m.action = "READ" /\ status = "SUCCESS" /\ m.tag \in Fields /\ m.max >= 1
    <3>1. Reading /\ mode = "IDLE"
      BY <2>2 DEF BusInv, Writing, Idle, Report
    <3>2. /\ m.tag = m.reg /\ m.data[1] = (IF rtc.deaf THEN 255 ELSE rtc.reg[m.reg])
      BY <2>2, <3>1 DEF Reading
    <3>3. m.data[1] \in Nat /\ (rtc.deaf \/ Proper(m.tag, m.data[1]))
      BY <2>2, <3>2 DEF ClockInv, Regs
    <3>4. /\ buffer' = [buffer EXCEPT ![m.tag] = m.data[1]]
          /\ unheard' = IF rtc.deaf THEN unheard \cup {m.tag}
                        ELSE unheard \ {m.tag}
      BY <2>2 DEF Report
    <3> QED
      BY <2>1, <2>2, <3>3, <3>4 DEF ClockInv
  <2>3. CASE ~(m.action = "READ" /\ status = "SUCCESS" /\ m.tag \in Fields /\ m.max >= 1)
    <3>1. buffer' = buffer /\ unheard' = unheard
      BY <2>3 DEF Report
    <3> QED BY <2>1, <3>1, ClockFrame
  <2> QED BY <2>2, <2>3
<1> QED
  BY <1>1, <1>2

\* What one answer of the bus does to a transfer.
LEMMA StepFacts ==
  /\ DOMAIN Steps = WriteModes \cup ReadModes
  /\ \A s \in WriteModes \ {"WRITE_VALUE"} : Steps[s].next \in WriteModes
  /\ \A s \in ReadModes \ {"READ_VALUE"} : Steps[s].next \in ReadModes
  /\ Steps["WRITE_VALUE"].expected = MT_DATA_ACK
  /\ Steps["WRITE_VALUE"].healthy = MT_DATA_ACK
  /\ Steps["WRITE_VALUE"].other = {MT_DATA_NACK}
BY DEF Steps, Step, WriteModes, ReadModes

\* A byte of a write is in the clock when it has been acknowledged, not before.
LEMMA Acknowledged ==
  \A st \in {MT_DATA_ACK, MT_DATA_NACK, BUS_ERROR} :
    MT_DATA_ACK \subseteq st <=> st = MT_DATA_ACK
BY DEF MT_DATA_ACK, MT_DATA_NACK, BUS_ERROR

\* The registers of the two-wire interface, as a value.
Transfers == [action : {"IDLE", "READ", "WRITE"}, tag : Nat, reg : Nat,
              index : Nat, max : Nat, data : Seq(Nat)]

LEMMA ClockEffect ==
  ASSUME ClockInv, NEW st
  PROVE  /\ Clock(st) \in [reg : [Regs -> Nat], deaf : BOOLEAN] \/ mode = "WRITE_VALUE"
         /\ mode # "WRITE_VALUE" => Clock(st).reg = rtc.reg
         /\ mode = "READ_VALUE" => Clock(st) = rtc
         /\ mode = "WRITE_VALUE" =>
              Clock(st) = IF st = MT_DATA_ACK /\ Pointer \in Regs
                          THEN [rtc EXCEPT !.reg[Pointer] = Datum(m.index)] ELSE rtc
BY DEF Clock, ClockInv

\* A step of a read: the clock keeps its registers.
LEMMA ReadStep ==
  ASSUME BusInv, ClockInv, Interrupt, Reading
  PROVE  BusInv' /\ ClockInv'
<1>1. /\ mode \in ReadModes /\ mode \in DOMAIN Steps /\ mode # "WRITE_VALUE"
      /\ mode # "IDLE" /\ mode # "SUCCESS"
  <2>1. mode \in DOMAIN Steps
    BY DEF Interrupt
  <2>2. mode # "IDLE"
    BY <2>1, StepFacts DEF WriteModes, ReadModes
  <2> QED
    BY <2>1, <2>2 DEF Reading, ReadModes
<1>2. PICK st :
        /\ rtc' = Clock(st)
        /\ IF ~check_status_register(st)
           THEN /\ mode' = "IDLE" /\ status' = mode
                /\ spoilt' = IF m.action = "WRITE" THEN spoilt \cup {"failed"} ELSE spoilt
                /\ UNCHANGED m
           ELSE /\ UNCHANGED <<status, spoilt>>
                /\ IF mode \notin {"WRITE_VALUE", "READ_VALUE"}
                   THEN mode' = Steps[mode].next /\ UNCHANGED m
                   ELSE /\ m' = [m EXCEPT !.index = @ + 1,
                                   !.data = IF mode = "WRITE_VALUE" THEN @
                                            ELSE IF m.index < Len(@)
                                            THEN [@ EXCEPT ![m.index + 1] = Received]
                                            ELSE Append(@, Received)]
                        /\ mode' = IF m'.index < m.max THEN mode ELSE "IDLE"
  BY Zenon DEF Interrupt
<1>3. /\ m.action = "READ" /\ m.max = 1 /\ m.tag = m.reg /\ m.reg \in Fields
      /\ m.index = 0 /\ m.data = <<>> /\ status = "SUCCESS"
  BY <1>1 DEF Reading, BusInv
<1>4. ClockInv'
  <2>1. /\ rtc' \in [reg : [Regs -> Nat], deaf : BOOLEAN] /\ rtc'.reg = rtc.reg
        /\ buffer' = buffer /\ unheard' = unheard
    BY <1>1, <1>2, ClockEffect DEF Interrupt
  <2> QED BY <2>1 DEF ClockInv
<1>5. CASE ~check_status_register(st)
  <2>1. mode' = "IDLE" /\ status' = mode /\ m' = m
    BY <1>2, <1>5
  <2>2. Reading'
    BY <1>1, <1>3, <2>1 DEF Reading
  <2> QED BY <1>4, <2>1, <2>2 DEF BusInv
<1>6. CASE check_status_register(st) /\ mode # "READ_VALUE"
  <2>1. mode' = Steps[mode].next /\ m' = m /\ status' = status
    BY <1>1, <1>2, <1>6
  <2>2. mode' \in ReadModes
    BY <1>1, <1>6, <2>1, StepFacts
  <2>3. mode' # "IDLE"
    BY <2>2 DEF ReadModes
  <2>4. Reading'
    BY <1>3, <2>1, <2>2, <2>3 DEF Reading
  <2> QED BY <1>3, <1>4, <2>1, <2>4 DEF BusInv
<1>7. CASE check_status_register(st) /\ mode = "READ_VALUE"
  <2>1. status' = status /\ rtc' = rtc
    BY <1>2, <1>7, ClockEffect
  <2>2. Received = (IF rtc.deaf THEN 255 ELSE rtc.reg[m.reg]) /\ Received \in Nat
    <3>1. Pointer = m.reg /\ m.reg \in Regs
      BY <1>3 DEF Pointer, Regs, Fields, SECOND, MINUTE, HOUR
    <3> QED BY <3>1 DEF Received, ClockInv
  <2>3. m' = [m EXCEPT !.index = 1, !.data = <<Received>>]
    <3>1. m' = [m EXCEPT !.index = m.index + 1,
                         !.data = IF m.index < Len(m.data)
                                  THEN [m.data EXCEPT ![m.index + 1] = Received]
                                  ELSE Append(m.data, Received)]
      BY <1>2, <1>7
    <3>2. ~(m.index < Len(m.data)) /\ m.index + 1 = 1
      BY <1>3
    <3>3. Append(m.data, Received) = <<Received>>
      BY <1>3
    <3> QED BY <3>1, <3>2, <3>3
  <2>4. mode' = "IDLE"
    <3>1. m'.index = 1
      <4>1. m \in Transfers
        BY DEF BusInv, Transfers
      <4> QED BY <2>3, <4>1 DEF Transfers
    <3>2. mode' = IF m'.index < m.max THEN mode ELSE "IDLE"
      BY <1>2, <1>7
    <3> QED BY <1>3, <3>1, <3>2
  <2>5. /\ m'.action = "READ" /\ m'.max = 1 /\ m'.tag = m'.reg /\ m'.reg = m.reg
        /\ m'.reg \in Fields /\ m'.data = <<Received>> /\ m' \in Transfers
    <3> DEFINE d == <<Received>>
    <3>1. d \in Seq(Nat) /\ 1 \in Nat /\ m \in Transfers
      BY <2>2 DEF BusInv, Transfers
    <3>2. m' = [m EXCEPT !.index = 1, !.data = d]
      BY <2>3
    <3> HIDE DEF d
    <3>3. /\ m'.action = m.action /\ m'.max = m.max /\ m'.tag = m.tag
          /\ m'.reg = m.reg /\ m'.data = d /\ m' \in Transfers
      BY <3>1, <3>2 DEF Transfers
    <3> QED BY <1>3, <3>3 DEF d
  <2>6. Reading'
    BY <2>1, <2>2, <2>4, <2>5 DEF Reading
  <2> QED BY <1>3, <1>4, <2>1, <2>4, <2>5, <2>6 DEF BusInv, Transfers
<1> QED
  BY <1>5, <1>6, <1>7

\* A step of a write: what has been acknowledged is in the clock.
LEMMA WriteStep ==
  ASSUME BusInv, ClockInv, Interrupt, Writing
  PROVE  BusInv' /\ ClockInv'
<1>1. /\ mode \in WriteModes /\ mode \in DOMAIN Steps /\ mode # "READ_VALUE"
      /\ mode # "IDLE" /\ mode # "SUCCESS" /\ buffer' = buffer /\ unheard' = unheard
  <2>1. mode \in DOMAIN Steps /\ buffer' = buffer /\ unheard' = unheard
    BY DEF Interrupt
  <2>2. mode # "IDLE"
    BY <2>1, StepFacts DEF WriteModes, ReadModes
  <2> QED
    BY <2>1, <2>2 DEF Writing, WriteModes
<1>2. PICK st \in {Steps[mode].healthy} \cup Steps[mode].other \cup {BUS_ERROR} :
        /\ rtc' = Clock(st)
        /\ IF ~check_status_register(st)
           THEN /\ mode' = "IDLE" /\ status' = mode
                /\ spoilt' = IF m.action = "WRITE" THEN spoilt \cup {"failed"} ELSE spoilt
                /\ UNCHANGED m
           ELSE /\ UNCHANGED <<status, spoilt>>
                /\ IF mode \notin {"WRITE_VALUE", "READ_VALUE"}
                   THEN mode' = Steps[mode].next /\ UNCHANGED m
                   ELSE /\ m' = [m EXCEPT !.index = @ + 1,
                                   !.data = IF mode = "WRITE_VALUE" THEN @
                                            ELSE IF m.index < Len(@)
                                            THEN [@ EXCEPT ![m.index + 1] = Received]
                                            ELSE Append(@, Received)]
                        /\ mode' = IF m'.index < m.max THEN mode ELSE "IDLE"
  BY Zenon DEF Interrupt
<1>3. /\ m.action = "WRITE" /\ m.max = Len(m.data) /\ m.max > 0
      /\ m.index < m.max /\ status = "SUCCESS"
      /\ m.index \in Nat /\ m.max \in Nat /\ m.reg \in Nat /\ m.data \in Seq(Nat)
      /\ \A i \in 0 .. m.max - 1 :
           m.reg + i \in Regs /\ Proper(m.reg + i, m.data[i + 1])
      /\ \A i \in 0 .. m.index - 1 : rtc.reg[m.reg + i] = m.data[i + 1]
  BY <1>1 DEF Writing, BusInv
<1>4. CASE mode # "WRITE_VALUE"
  <2>1. /\ rtc' \in [reg : [Regs -> Nat], deaf : BOOLEAN] /\ rtc'.reg = rtc.reg /\ m' = m
    BY <1>1, <1>2, <1>4, ClockEffect
  <2>2. ClockInv'
    BY <1>1, <2>1 DEF ClockInv
  <2>3. CASE ~check_status_register(st)
    <3>1. mode' = "IDLE" /\ status' = mode /\ "failed" \in spoilt'
      BY <1>2, <1>3, <2>3
    <3>2. Writing'
      BY <1>1, <1>3, <2>1, <3>1 DEF Writing
    <3> QED BY <2>1, <2>2, <3>1, <3>2 DEF BusInv
  <2>4. CASE check_status_register(st)
    <3>1. mode' = Steps[mode].next /\ status' = status
      BY <1>1, <1>2, <1>4, <2>4
    <3>2. mode' \in WriteModes
      BY <1>1, <1>4, <3>1, StepFacts
    <3>3. mode' # "IDLE"
      BY <3>2 DEF WriteModes
    <3>4. Writing'
      BY <1>3, <2>1, <3>1, <3>2, <3>3 DEF Writing
    <3> QED BY <1>3, <2>1, <2>2, <3>1, <3>4 DEF BusInv
  <2> QED BY <2>3, <2>4
<1>5. CASE mode = "WRITE_VALUE"
  <2>1. st \in {MT_DATA_ACK, MT_DATA_NACK, BUS_ERROR}
        /\ (check_status_register(st) <=> st = MT_DATA_ACK)
    BY <1>2, <1>5, StepFacts, Acknowledged DEF check_status_register
  <2>2. /\ m.index \in 0 .. m.max - 1 /\ Pointer = m.reg + m.index /\ Pointer \in Regs
        /\ Datum(m.index) = m.data[m.index + 1] /\ Datum(m.index) \in Nat
        /\ Proper(Pointer, Datum(m.index))
    <3>1. m.index \in 0 .. m.max - 1 /\ m.index < Len(m.data) /\ m.index + 1 \in 1 .. Len(m.data)
      BY <1>3
    <3>2. Datum(m.index) = m.data[m.index + 1]
      BY <3>1 DEF Datum
    <3>3. m.data[m.index + 1] \in Nat
      BY <1>3, <3>1, ElementOfSeq
    <3> QED BY <1>3, <3>1, <3>2, <3>3 DEF Pointer
  <2>3. CASE st # MT_DATA_ACK
    <3>1. rtc' = rtc /\ mode' = "IDLE" /\ status' = mode /\ m' = m /\ "failed" \in spoilt'
      BY <1>2, <1>3, <1>5, <2>1, <2>3, ClockEffect
    <3>2. Writing'
      BY <1>1, <1>3, <3>1 DEF Writing
    <3>3. ClockInv'
      BY <1>1, <3>1, ClockFrame
    <3> QED BY <3>1, <3>2, <3>3 DEF BusInv
  <2>4. CASE st = MT_DATA_ACK
    <3>1. rtc' = [rtc EXCEPT !.reg[Pointer] = Datum(m.index)]
      BY <1>2, <1>5, <2>2, <2>4, ClockEffect
    <3>2. /\ m' = [m EXCEPT !.index = m.index + 1]
          /\ status' = status
          /\ mode' = IF m'.index < m.max THEN mode ELSE "IDLE"
      BY <1>2, <1>5, <2>1, <2>4
    <3>3. /\ rtc.reg \in [Regs -> Nat] /\ rtc'.reg = [rtc.reg EXCEPT ![Pointer] = Datum(m.index)]
          /\ rtc' \in [reg : [Regs -> Nat], deaf : BOOLEAN]
      BY <2>2, <3>1 DEF ClockInv
    <3>4. ClockInv'
      BY <1>1, <2>2, <3>3 DEF ClockInv, Regs
    <3>5. /\ m'.index = m.index + 1 /\ m'.max = m.max /\ m'.data = m.data
          /\ m'.reg = m.reg /\ m'.action = "WRITE" /\ m' \in Transfers
      <4>1. m \in Transfers /\ m.index + 1 \in Nat
        BY <1>3 DEF BusInv, Transfers
      <4> QED BY <1>3, <3>2, <4>1 DEF Transfers
    <3>6. \A i \in 0 .. m'.index - 1 : rtc'.reg[m'.reg + i] = m'.data[i + 1]
      <4> SUFFICES ASSUME NEW i \in 0 .. m.index
                   PROVE  rtc'.reg[m.reg + i] = m.data[i + 1]
        BY <1>3, <3>5
      <4>1. CASE i = m.index
        BY <2>2, <3>3, <4>1
      <4>2. CASE i # m.index
        <5>1. i \in 0 .. m.index - 1 /\ i \in 0 .. m.max - 1
          BY <1>3, <4>2
        <5>2. m.reg + i # Pointer /\ m.reg + i \in Regs
          <6>1. m.reg + i \in Regs
            BY <1>3, <5>1
          <6>2. m.reg + i # m.reg + m.index
            BY <1>3, <4>2
          <6> QED BY <2>2, <6>1, <6>2
        <5> QED BY <1>3, <3>3, <5>1, <5>2
      <4> QED BY <4>1, <4>2
    <3>7. mode' = IF m.index + 1 < m.max THEN "WRITE_VALUE" ELSE "IDLE"
      BY <1>5, <3>2, <3>5
    <3>8. Writing'
      BY <1>3, <3>2, <3>5, <3>6, <3>7 DEF Writing, WriteModes
    <3> QED BY <1>3, <3>2, <3>4, <3>5, <3>8 DEF BusInv, Transfers
  <2> QED BY <2>3, <2>4
<1> QED
  BY <1>4, <1>5

LEMMA InterruptInv ==
  ASSUME BusInv, ClockInv, Interrupt
  PROVE  BusInv' /\ ClockInv'
<1>1. mode # "IDLE"
  BY StepFacts DEF Interrupt, WriteModes, ReadModes
<1> QED
  BY <1>1, ReadStep, WriteStep DEF BusInv

-----------------------------------------------------------------------------
(* The invariant, and what follows from it.                                *)

LEMMA NextInv == IInv /\ [Next]_vars => IInv'
<1> SUFFICES ASSUME IInv, [Next]_vars, Kept'
             PROVE  RingInv' /\ BusInv' /\ ClockInv'
  BY DEF IInv
<1>1. RingInv /\ BusInv /\ ClockInv /\ spoilt \subseteq spoilt'
  BY KeptBefore, SpoiltStays DEF IInv
<1>2. CASE ModeSet
  <2>1. UNCHANGED <<m, mode, status, rtc, buffer, unheard>>
    BY <1>2 DEF ModeSet, bus
  <2> QED BY <1>1, <1>2, <2>1, ModeSetRing, BusFrame, ClockFrame
<1>3. CASE SyncClock
  <2>1. UNCHANGED <<m, mode, status, rtc, buffer, unheard>>
    BY <1>3 DEF SyncClock, bus
  <2> QED BY <1>1, <1>3, <2>1, SyncClockRing, BusFrame, ClockFrame
<1>4. CASE Ask
  <2>1. UNCHANGED <<m, mode, status, rtc, buffer, unheard>>
    BY <1>4 DEF Ask, bus
  <2> QED BY <1>1, <1>4, <2>1, AskRing, BusFrame, ClockFrame
<1>5. CASE Put
  <2>1. UNCHANGED <<m, mode, status, rtc, buffer, unheard>>
    BY <1>5 DEF Put, bus
  <2> QED BY <1>1, <1>5, <2>1, PutRing, BusFrame, ClockFrame
<1>6. CASE Int2
  <2>1. UNCHANGED <<m, mode, status, rtc, buffer, unheard>>
    BY <1>6 DEF Int2, bus
  <2> QED BY <1>1, <1>6, <2>1, Int2Ring, BusFrame, ClockFrame
<1>7. CASE Report
  <2>1. UNCHANGED <<queue, asked, todo, rest>>
    BY <1>7 DEF Report, main
  <2> QED BY <1>1, <1>7, <2>1, RingFrame, ReportInv
<1>8. CASE Start
  <2>1. UNCHANGED <<rtc, buffer, unheard>>
    BY <1>8 DEF Start
  <2> QED BY <1>1, <1>8, <2>1, StartRing, StartBus, ClockFrame
<1>9. CASE Interrupt
  <2>1. UNCHANGED <<queue, asked, todo, rest>>
    BY <1>9 DEF Interrupt, main
  <2> QED BY <1>1, <1>9, <2>1, RingFrame, InterruptInv
<1>10. CASE UNCHANGED vars
  <2>1. UNCHANGED <<queue, asked, todo, rest, m, mode, status, rtc, buffer, unheard>>
    BY <1>10 DEF vars, main, bus
  <2> QED BY <1>1, <2>1, RingFrame, BusFrame, ClockFrame
<1> QED
  BY <1>2, <1>3, <1>4, <1>5, <1>6, <1>7, <1>8, <1>9, <1>10 DEF Next, Main

LEMMA Invariance == Spec => []IInv
BY InitInv, NextInv, PTL DEF Spec

\* Framed of Twi: nobody who fills the ring, and nobody who empties it, loses
\* the boundary between two requests, as long as twi_write_array is not
\* interrupted in the middle, is not promised space that is then taken, and the
\* ring is not filled to the last byte.
THEOREM RequestsKeepTheirFrame == Spec => []Framed
<1>1. IInv => Framed
  <2> SUFFICES ASSUME IInv, Kept
               PROVE  mode # "WILD" /\ queue.bytes = FlattenSeq(asked) \o Started
    BY DEF Framed, Started
  <2>1. RingInv /\ BusInv
    BY DEF IInv
  <2>2. mode # "WILD"
    BY <2>1 DEF BusInv, Reading, Writing, ReadModes, WriteModes
  <2> QED
    BY <2>1, <2>2 DEF RingInv
<1> QED
  BY <1>1, Invariance, PTL

\* SuccessIsTrue of Twi: ISR (TWI_vect) does not report success too early.
THEOREM SuccessMeansDone == Spec => []SuccessIsTrue
<1>1. IInv => SuccessIsTrue
  <2> SUFFICES ASSUME IInv, mode = "IDLE", status = "SUCCESS", Kept
               PROVE  /\ m.action = "WRITE" =>
                           \A i \in 0 .. m.max - 1 : rtc.reg[m.reg + i] = Datum(i)
                      /\ m.action = "READ" /\ ~rtc.deaf => m.data = <<rtc.reg[m.reg]>>
    BY DEF SuccessIsTrue
  <2>1. BusInv
    BY DEF IInv
  <2>2. ASSUME m.action = "WRITE"
        PROVE  \A i \in 0 .. m.max - 1 : rtc.reg[m.reg + i] = Datum(i)
    <3>1. Writing
      BY <2>1, <2>2 DEF BusInv, Reading, Idle
    <3>2. m.index = m.max /\ m.max = Len(m.data) /\ m.max \in Nat
      BY <2>1, <3>1 DEF Writing, BusInv
    <3>3. \A i \in 0 .. m.max - 1 : Datum(i) = m.data[i + 1]
      BY <3>2 DEF Datum
    <3> QED
      BY <3>1, <3>2, <3>3 DEF Writing
  <2>3. ASSUME m.action = "READ", ~rtc.deaf
        PROVE  m.data = <<rtc.reg[m.reg]>>
    <3>1. Reading
      BY <2>1, <2>3 DEF BusInv, Writing, Idle
    <3> QED
      BY <2>3, <3>1 DEF Reading
  <2> QED
    BY <2>2, <2>3
<1> QED
  BY <1>1, Invariance, PTL

\* TimeOfDay of Twi: no number that the Pi sends gets past rtc (.., RTC_TO, ..)
\* as anything but a time of the day, and what is read back is drawn as one; a
\* unit that a deaf clock answered for is the exception the property names.
THEOREM ClockTellsTimeOfDay == Spec => []TimeOfDay
<1>1. IInv => TimeOfDay
  BY DEF IInv, ClockInv, TimeOfDay, Proper
<1> QED
  BY <1>1, Invariance, PTL

-----------------------------------------------------------------------------
(* The square wave: the last request that says whether the clock pulses    *)
(* says what the mode wants, wherever it is: with the main loop, in the    *)
(* ring, on the bus, or in the clock.                                      *)

Enables(r) == IsWrite(r) /\ r[4] = REG_ENABLE
Some(q) == \E i \in 1 .. Len(q) : Enables(q[i])
Right(value) == ((value \div 4) % 2 = 0) = (current_mode = "WATCH")
LastRight(q) ==
  \A i \in 1 .. Len(q) :
    Enables(q[i]) => Right(q[i][5]) \/ \E j \in i + 1 .. Len(q) : Enables(q[j])

BusRight == IF m.action = "WRITE" /\ m.reg = REG_ENABLE
            THEN Right(m.data[1]) ELSE Right(rtc.reg[REG_ENABLE])

PulseInv ==
  /\ LastRight(todo)
  /\ ~Some(todo) => LastRight(asked)
  /\ ~Some(todo) /\ ~Some(asked) => BusRight

WaveInv == spoilt = {} => PulseInv

\* Appending a request, and taking the first one away.
LEMMA AppendSome ==
  ASSUME NEW s \in Seq(Requests), NEW r \in Requests
  PROVE  Some(Append(s, r)) <=> Some(s) \/ Enables(r)
<1> DEFINE t == Append(s, r)
<1>1. /\ Len(s) \in Nat /\ Len(t) = Len(s) + 1 /\ t[Len(s) + 1] = r
      /\ \A i \in 1 .. Len(s) : t[i] = s[i]
  BY AppendProperties
<1> HIDE DEF t
<1>2. \A i \in 1 .. Len(t) : i \in 1 .. Len(s) \/ i = Len(s) + 1
  BY <1>1
<1>3. Len(s) + 1 \in 1 .. Len(t) /\ \A i \in 1 .. Len(s) : i \in 1 .. Len(t)
  BY <1>1
<1> QED
  BY <1>1, <1>2, <1>3 DEF Some, t

LEMMA AppendLast ==
  ASSUME NEW s \in Seq(Requests), NEW r \in Requests,
         LastRight(s) \/ Enables(r), Enables(r) => Right(r[5])
  PROVE  LastRight(Append(s, r))
<1> DEFINE t == Append(s, r)
<1>1. /\ Len(s) \in Nat /\ Len(t) = Len(s) + 1 /\ t[Len(s) + 1] = r
      /\ \A i \in 1 .. Len(s) : t[i] = s[i]
  BY AppendProperties
<1> HIDE DEF t
<1>2. ASSUME NEW i \in 1 .. Len(t), Enables(t[i])
      PROVE  Right(t[i][5]) \/ \E j \in i + 1 .. Len(t) : Enables(t[j])
  <2>1. CASE i = Len(s) + 1
    BY <1>1, <1>2, <2>1
  <2>2. CASE i # Len(s) + 1 /\ Enables(r)
    <3>1. Len(s) + 1 \in i + 1 .. Len(t)
      BY <1>1, <2>2
    <3> QED BY <1>1, <2>2, <3>1
  <2>3. CASE i # Len(s) + 1 /\ ~Enables(r)
    <3>1. i \in 1 .. Len(s) /\ t[i] = s[i] /\ Enables(s[i]) /\ LastRight(s)
      BY <1>1, <1>2, <2>3
    <3>2. Right(s[i][5]) \/ \E j \in i + 1 .. Len(s) : Enables(s[j])
      BY <3>1 DEF LastRight
    <3>3. \A j \in i + 1 .. Len(s) : j \in i + 1 .. Len(t) /\ t[j] = s[j]
      BY <1>1, <3>1
    <3> QED BY <3>1, <3>2, <3>3
  <2> QED BY <2>1, <2>2, <2>3
<1> QED
  BY <1>2 DEF LastRight, t

LEMMA HeadOrTail ==
  ASSUME NEW s \in Seq(Requests), s # <<>>
  PROVE  /\ Some(s) <=> Enables(Head(s)) \/ Some(Tail(s))
         /\ LastRight(s) => /\ LastRight(Tail(s))
                            /\ Enables(Head(s)) =>
                                 Right(Head(s)[5]) \/ Some(Tail(s))
<1> DEFINE t == Tail(s)
<1>1. /\ Len(t) = Len(s) - 1 /\ Len(s) \in Nat /\ Len(s) > 0 /\ Head(s) = s[1]
      /\ \A i \in 1 .. Len(t) : t[i] = s[i + 1]
  BY HeadTailProperties, EmptySeq
<1> HIDE DEF t
<1>2. /\ 1 \in 1 .. Len(s)
      /\ \A i \in 1 .. Len(t) : i + 1 \in 1 .. Len(s)
      /\ \A i \in 1 .. Len(s) : i = 1 \/ (i - 1 \in 1 .. Len(t) /\ t[i - 1] = s[i])
  <2>1. 1 \in 1 .. Len(s) /\ \A i \in 1 .. Len(t) : i + 1 \in 1 .. Len(s)
    BY <1>1
  <2>2. ASSUME NEW i \in 1 .. Len(s), i # 1
        PROVE  i - 1 \in 1 .. Len(t) /\ t[i - 1] = s[i]
    <3>1. i - 1 \in 1 .. Len(t) /\ (i - 1) + 1 = i
      BY <1>1, <2>2
    <3> QED BY <1>1, <3>1
  <2> QED BY <2>1, <2>2
<1>3. Some(s) <=> Enables(Head(s)) \/ Some(t)
  BY <1>1, <1>2 DEF Some
<1>4. ASSUME LastRight(s) PROVE LastRight(t)
  <2> SUFFICES ASSUME NEW i \in 1 .. Len(t), Enables(t[i])
               PROVE  Right(t[i][5]) \/ \E j \in i + 1 .. Len(t) : Enables(t[j])
    BY DEF LastRight
  <2>1. i + 1 \in 1 .. Len(s) /\ t[i] = s[i + 1]
    BY <1>1, <1>2
  <2>2. Right(s[i + 1][5]) \/ \E j \in (i + 1) + 1 .. Len(s) : Enables(s[j])
    BY <1>4, <2>1 DEF LastRight
  <2>3. ASSUME NEW j \in (i + 1) + 1 .. Len(s)
        PROVE  j - 1 \in i + 1 .. Len(t) /\ t[j - 1] = s[j]
    <3>1. j - 1 \in i + 1 .. Len(t) /\ j \in 1 .. Len(s) /\ j # 1
      BY <1>1
    <3> QED BY <1>2, <3>1
  <2> QED BY <2>1, <2>2, <2>3
<1>5. ASSUME LastRight(s), Enables(Head(s)), ~Right(Head(s)[5]) PROVE Some(t)
  <2>1. PICK j \in 1 + 1 .. Len(s) : Enables(s[j])
    BY <1>1, <1>2, <1>5 DEF LastRight
  <2>2. j \in 1 .. Len(s) /\ j # 1
    BY <1>1
  <2> QED BY <1>2, <2>1, <2>2 DEF Some
<1> QED
  BY <1>3, <1>4, <1>5 DEF t

LEMMA NoneInEmpty == ~Some(<<>>) /\ LastRight(<<>>)
BY DEF Some, LastRight

\* The requests that are made.
LEMMA WhatEnables ==
  /\ Enables(watch_enable) /\ watch_enable[5] = 0
  /\ Enables(watch_disable) /\ watch_disable[5] = 4
  /\ \A i \in 1 .. 3 : ~Enables(Reads[i])
  /\ \A h, mi, s \in Nat : ~Enables(watch_set(h, mi, s))
<1>1. Enables(watch_enable) /\ Enables(watch_disable)
  <2>1. ASSUME NEW r \in Requests, r[1] = 2, r[4] = REG_ENABLE PROVE Enables(r)
    BY <2>1 DEF Requests, IsRead, Enables
  <2> QED BY <2>1, ToggleRequests
<1>2. \A i \in 1 .. 3 : ~Enables(Reads[i])
  <2>1. ASSUME NEW i \in 1 .. 3 PROVE ~IsWrite(Reads[i])
    BY ReadRequests DEF IsWrite
  <2> QED BY <2>1 DEF Enables
<1>3. ASSUME NEW h \in Nat, NEW mi \in Nat, NEW s \in Nat
      PROVE  ~Enables(watch_set(h, mi, s))
  <2>1. watch_set(h, mi, s)[4] # REG_ENABLE
    BY TimeWrites DEF SECOND, REG_ENABLE
  <2> QED BY <2>1 DEF Enables
<1> QED
  BY <1>1, <1>2, <1>3, ToggleRequests DEF REG_VALUE_ENABLE, REG_VALUE_DISABLE

LEMMA RightValues ==
  /\ Right(0) <=> current_mode = "WATCH"
  /\ Right(4) <=> current_mode # "WATCH"
<1>1. (0 \div 4) % 2 = 0 /\ (4 \div 4) % 2 = 1
  OBVIOUS
<1> QED
  BY <1>1 DEF Right

LEMMA InitWave == Init => WaveInv
<1> SUFFICES ASSUME Init PROVE PulseInv
  BY DEF WaveInv
<1>1. todo = <<>> /\ asked = Boot /\ current_mode = "WATCH"
  BY DEF Init
<1>2. /\ Boot \in Seq(Requests) /\ Len(Boot) = 4 /\ Boot[4] = watch_enable
      /\ Boot[3] = watch_disable
      /\ ~Enables(Boot[1]) /\ ~Enables(Boot[2])
  BY Boots DEF Enables, SECOND, REG_ENABLE, REG_ENABLE_32KHZ
<1>3. Enables(Boot[4]) /\ Right(Boot[4][5])
  BY <1>1, <1>2, WhatEnables, RightValues
<1>4. Some(asked) /\ LastRight(asked)
  <2>1. /\ \A i \in 1 .. 4 : i = 4 \/ 4 \in i + 1 .. 4
        /\ 4 \in 1 .. 4
    OBVIOUS
  <2> QED BY <1>1, <1>2, <1>3, <2>1, Zenon DEF Some, LastRight
<1> QED
  BY <1>1, <1>4, NoneInEmpty DEF PulseInv

LEMMA ModeSetWave ==
  ASSUME PulseInv, ModeSet
  PROVE  PulseInv'
<1>1. PICK new \in Modes \ {current_mode} :
        current_mode' = new /\ todo' = mode_set(new)
  BY DEF ModeSet
<1> DEFINE q == mode_set(new)
<1>2. /\ q[1] = watch_disable /\ Len(q) = (IF new = "WATCH" THEN 2 ELSE 1)
      /\ new = "WATCH" => q[2] = watch_enable
  BY ModeSets
<1> HIDE DEF q
<1>3. Some(q) /\ 1 \in 1 .. Len(q)
  <2>1. 1 \in 1 .. Len(q)
    BY <1>2
  <2> QED BY <1>2, <2>1, WhatEnables DEF Some
<1>4. LastRight(q)'
  <2>1. q' = q /\ (\A r : Enables(r)' <=> Enables(r))
    BY DEF q, Enables
  <2>2. /\ Right(watch_disable[5])' <=> new # "WATCH"
        /\ Right(watch_enable[5])' <=> new = "WATCH"
    <3>1. (0 \div 4) % 2 = 0 /\ (4 \div 4) % 2 = 1
      OBVIOUS
    <3> QED BY <1>1, <3>1, WhatEnables DEF Right
  <2>3. CASE new = "WATCH"
    <3>1. \A i \in 1 .. Len(q) : (i = 1 /\ 2 \in i + 1 .. Len(q)) \/ i = 2
      BY <1>2, <2>3
    <3> QED BY <1>2, <2>1, <2>2, <2>3, <3>1, WhatEnables DEF LastRight
  <2>4. CASE new # "WATCH"
    <3>1. \A i \in 1 .. Len(q) : i = 1
      BY <1>2, <2>4
    <3> QED BY <1>2, <2>1, <2>2, <2>4, <3>1 DEF LastRight
  <2> QED BY <2>3, <2>4
<1>5. Some(todo') /\ LastRight(todo)'
  <2>1. todo' = q
    BY <1>1 DEF q
  <2>2. LastRight(q)' <=> LastRight(todo)'
    BY <2>1 DEF LastRight, q
  <2> QED BY <1>3, <1>4, <2>1, <2>2
<1> QED
  BY <1>5 DEF PulseInv, Some, Enables

\* As long as the mode is the same, what is right is the same.
LEMMA WaveFrame ==
  ASSUME PulseInv, UNCHANGED <<current_mode, todo, asked, m, rtc>>
  PROVE  PulseInv'
BY DEF PulseInv, LastRight, Some, Right, BusRight, Enables

LEMMA SameMode ==
  ASSUME UNCHANGED current_mode
  PROVE  /\ LastRight(todo)' <=> LastRight(todo')
         /\ LastRight(asked)' <=> LastRight(asked')
         /\ Some(todo)' <=> Some(todo')
         /\ Some(asked)' <=> Some(asked')
BY DEF LastRight, Some, Right, Enables

LEMMA SyncClockWave ==
  ASSUME RingInv, PulseInv, SyncClock
  PROVE  PulseInv'
<1>1. PICK t \in Times : todo' = <<watch_set(t[1], t[2], 0)>>
  BY DEF SyncClock
<1> DEFINE w == watch_set(t[1], t[2], 0)
<1>2. w \in Requests /\ ~Enables(w)
  <2>1. t[1] \in Nat /\ t[2] \in Nat /\ 0 \in Nat
    BY TwiAssumption
  <2> QED BY <2>1, TimeWrites, WhatEnables
<1> HIDE DEF w
<1>3. todo' = Append(<<>>, w) /\ <<>> \in Seq(Requests)
  <2>1. todo' = <<w>>
    BY <1>1 DEF w
  <2> QED BY <1>2, <2>1
<1>4. LastRight(todo') /\ ~Some(todo')
  BY <1>2, <1>3, NoneInEmpty, AppendSome, AppendLast
<1>5. todo = <<>> /\ UNCHANGED <<current_mode, asked, m, rtc>>
  BY DEF SyncClock, Free, bus
<1>6. LastRight(asked) /\ (~Some(asked) => BusRight)
  BY <1>5, NoneInEmpty DEF PulseInv
<1>7. BusRight' = BusRight
  BY <1>5 DEF BusRight, Right
<1> QED
  BY <1>4, <1>5, <1>6, <1>7, SameMode DEF PulseInv

LEMMA PutWave ==
  ASSUME RingInv, PulseInv, Put, spoilt' = {}
  PROVE  PulseInv'
<1>1. UNCHANGED <<current_mode, m, rtc>>
  BY DEF Put, bus
<1>2. BusRight' = BusRight
  BY <1>1 DEF BusRight, Right
<1>3. rest # <<>> /\ todo # <<>> /\ todo \in Seq(Requests) /\ asked \in Seq(Requests)
  BY DEF Put, RingInv
<1> DEFINE h == Head(todo)
<1>4. h \in Requests /\ Tail(todo) \in Seq(Requests)
  BY <1>3, HeadTailProperties
<1>5. \/ UNCHANGED <<todo, asked>>
      \/ todo' = Tail(todo) /\ asked' = Append(asked, h)
  <2>1. ~(buffer_space(queue) = 0)
    BY DEF Put
  <2>2. ~Lost(queue, queue')
    BY <2>1 DEF Put
  <2> QED BY <2>1, <2>2, Zenon DEF Put
<1>6. CASE UNCHANGED <<todo, asked>>
  BY <1>1, <1>6, WaveFrame
<1>7. CASE todo' = Tail(todo) /\ asked' = Append(asked, h)
  <2>1. LastRight(todo')
    BY <1>3, <1>7, HeadOrTail DEF PulseInv
  <2>2. ASSUME ~Some(todo') PROVE LastRight(asked')
    <3>1. Enables(h) => Right(h[5])
      BY <1>3, <1>7, <2>2, HeadOrTail DEF PulseInv
    <3>2. ~Enables(h) => LastRight(asked)
      BY <1>3, <1>7, <2>2, HeadOrTail DEF PulseInv
    <3> QED BY <1>3, <1>4, <1>7, <3>1, <3>2, AppendLast
  <2>3. ASSUME ~Some(todo'), ~Some(asked') PROVE BusRight
    <3>1. ~Some(asked) /\ ~Enables(h)
      BY <1>3, <1>4, <1>7, <2>3, AppendSome
    <3>2. ~Some(todo)
      BY <1>3, <1>7, <2>3, <3>1, HeadOrTail
    <3> QED BY <3>1, <3>2 DEF PulseInv
  <2> QED
    BY <1>1, <1>2, <2>1, <2>2, <2>3, SameMode DEF PulseInv
<1> QED
  BY <1>5, <1>6, <1>7

LEMMA Int2Wave ==
  ASSUME RingInv, PulseInv, Int2, spoilt' = {}
  PROVE  PulseInv'
<1>1. UNCHANGED <<current_mode, todo, m, rtc>>
  BY DEF Int2, main, bus
<1>2. BusRight' = BusRight
  BY <1>1 DEF BusRight, Right
<1> DEFINE a1 == asked \o SubSeq(Reads, 1, 1)
           a2 == asked \o SubSeq(Reads, 1, 2)
           a3 == asked \o SubSeq(Reads, 1, 3)
           q1 == twi_read(queue, Reads[1])
           q2 == twi_read(q1, Reads[2])
           q3 == twi_read(q2, Reads[3])
           taken == IF q1 = queue THEN 0 ELSE IF q2 = q1 THEN 1
                    ELSE IF q3 = q2 THEN 2 ELSE 3
<1>3. asked' = a1 \/ asked' = a2 \/ asked' = a3
  <2>1. ~Begun /\ ~(Lost(queue, q1) \/ Lost(q1, q2) \/ Lost(q2, q3))
    BY Zenon DEF Int2
  <2>2. taken > 0 /\ asked' = asked \o SubSeq(Reads, 1, taken)
    BY <2>1, Zenon DEF Int2
  <2> HIDE DEF q1, q2, q3
  <2>3. taken = 1 \/ taken = 2 \/ taken = 3
    BY <2>2
  <2> HIDE DEF taken
  <2> QED BY <2>2, <2>3
<1>4. asked \in Seq(Requests)
  BY DEF RingInv
<1>5. /\ a1 = Append(asked, Reads[1]) /\ a2 = Append(a1, Reads[2])
      /\ a3 = Append(a2, Reads[3])
      /\ a1 \in Seq(Requests) /\ a2 \in Seq(Requests) /\ a3 \in Seq(Requests)
  BY <1>4, ReadSequence
<1> HIDE DEF a1, a2, a3
<1>6. /\ Reads[1] \in Requests /\ Reads[2] \in Requests /\ Reads[3] \in Requests
      /\ ~Enables(Reads[1]) /\ ~Enables(Reads[2]) /\ ~Enables(Reads[3])
  BY ReadsType, WhatEnables
<1>7. /\ Some(a1) <=> Some(asked)
      /\ Some(a2) <=> Some(asked)
      /\ Some(a3) <=> Some(asked)
  BY ZenonT(60), <1>4, <1>5, <1>6, AppendSome
<1>8. LastRight(asked) => LastRight(a1) /\ LastRight(a2) /\ LastRight(a3)
  BY <1>4, <1>5, <1>6, AppendLast
<1>9. (Some(asked') <=> Some(asked)) /\ (LastRight(asked) => LastRight(asked'))
  BY <1>3, <1>7, <1>8
<1> QED
  BY <1>1, <1>2, <1>9, SameMode DEF PulseInv

LEMMA StartWave ==
  ASSUME RingInv, BusInv, PulseInv, Start
  PROVE  PulseInv'
<1> DEFINE r == Head(asked)
<1>1. UNCHANGED <<current_mode, todo, rtc>>
  BY DEF Start, main
<1>2. /\ asked # <<>> /\ asked \in Seq(Requests) /\ asked' = Tail(asked) /\ r \in Requests
  BY FirstRequest, FirstTaken DEF RingInv
<1>3. todo = <<>> /\ ~Some(todo) /\ LastRight(todo) /\ LastRight(asked)
  BY NoneInEmpty DEF Start, Free, PulseInv
<1>4. LastRight(asked')
  BY <1>2, <1>3, HeadOrTail
<1>5. ASSUME ~Some(asked') PROVE BusRight'
  <2>1. PICK d \in Seq(Nat) :
          /\ m' = [action |-> IF r[1] % 2 = 1 THEN "READ" ELSE "WRITE", tag |-> r[3],
                   reg |-> r[4], index |-> 0, max |-> r[1] \div 2, data |-> d]
          /\ \A i \in 1 .. Taken(queue) : d[i] = r[OVERHEAD + i]
    BY FirstTransfer
  <2>2. /\ Taken(queue) = (IF r[1] = 3 THEN 0 ELSE Len(r) - OVERHEAD)
    BY FirstTaken
  <2>3. /\ IsRead(r) \/ IsWrite(r)
        /\ r \in Seq(Nat) /\ Len(r) \in Nat
    BY <1>2 DEF Requests
  <2> HIDE DEF r
  <2>4. CASE Enables(r)
    <3>1. Right(r[5])
      BY <1>2, <1>3, <1>5, <2>4, HeadOrTail DEF r
    <3>2. r[1] = 2 * (Len(r) - OVERHEAD) /\ Len(r) > OVERHEAD /\ r[4] = REG_ENABLE
      BY <2>4 DEF Enables, IsWrite
    <3>3. r[1] % 2 = 0 /\ r[1] # 3
      BY <2>3, <3>2 DEF OVERHEAD
    <3>4. 1 \in 1 .. Taken(queue) /\ OVERHEAD + 1 = 5
      BY <2>2, <2>3, <3>2, <3>3 DEF OVERHEAD
    <3>5. d[1] = r[5]
      BY <2>1, <3>4
    <3>6. m'.action = "WRITE" /\ m'.reg = REG_ENABLE /\ m'.data[1] = r[5]
      BY <2>1, <3>2, <3>3, <3>5
    <3> QED
      BY <1>1, <3>1, <3>6 DEF BusRight, Right
  <2>5. CASE ~Enables(r)
    <3>1. ~Some(asked)
      BY <1>2, <1>5, <2>5, HeadOrTail DEF r
    <3>2. Right(rtc.reg[REG_ENABLE])
      <4>1. m.action # "WRITE"
        BY FirstTransfer DEF Idle
      <4> QED BY <1>3, <3>1, <4>1 DEF PulseInv, BusRight
    <3>3. ~(m'.action = "WRITE" /\ m'.reg = REG_ENABLE)
      <4>1. CASE r[4] = REG_ENABLE
        <5>1. r[1] = 3 /\ 3 % 2 = 1
          BY <2>3, <2>5, <4>1 DEF Enables, IsRead
        <5> QED BY <2>1, <5>1
      <4>2. CASE r[4] # REG_ENABLE
        BY <2>1, <4>2
      <4> QED BY <4>1, <4>2
    <3> QED
      BY <1>1, <3>2, <3>3 DEF BusRight, Right
  <2> QED BY <2>4, <2>5
<1> QED
  BY <1>1, <1>3, <1>4, <1>5, SameMode DEF PulseInv

LEMMA ReportWave ==
  ASSUME BusInv, PulseInv, Report, spoilt = {}
  PROVE  PulseInv'
<1>1. UNCHANGED <<current_mode, todo, asked, rtc>> /\ m' = Idle /\ mode = "IDLE"
  BY DEF Report, main
<1>2. BusRight => BusRight'
  <2>1. BusRight' <=> Right(rtc.reg[REG_ENABLE])
    BY <1>1 DEF BusRight, Right, Idle
  <2>2. CASE m.action = "WRITE" /\ m.reg = REG_ENABLE
    <3>1. Writing
      BY <2>2 DEF BusInv, Reading, Idle
    <3>2. m.index = m.max /\ m.max > 0 /\ m.max \in Nat
      BY <1>1, <3>1 DEF Writing, BusInv
    <3>3. rtc.reg[m.reg + 0] = m.data[0 + 1]
      BY <3>1, <3>2 DEF Writing
    <3>4. m.reg + 0 = REG_ENABLE /\ 0 + 1 = 1
      BY <2>2 DEF REG_ENABLE
    <3> QED BY <2>1, <2>2, <3>3, <3>4 DEF BusRight
  <2>3. CASE ~(m.action = "WRITE" /\ m.reg = REG_ENABLE)
    BY <2>1, <2>3 DEF BusRight
  <2> QED BY <2>2, <2>3
<1> QED
  BY <1>1, <1>2, SameMode DEF PulseInv

LEMMA InterruptWave ==
  ASSUME BusInv, ClockInv, PulseInv, Interrupt
  PROVE  PulseInv'
<1>1. UNCHANGED <<current_mode, todo, asked>> /\ mode \in DOMAIN Steps
  BY DEF Interrupt, main
<1>2. mode # "IDLE"
  BY <1>1, StepFacts DEF WriteModes, ReadModes
<1>3. PICK st :
        /\ rtc' = Clock(st)
        /\ \/ m' = m
           \/ m' = [m EXCEPT !.index = @ + 1,
                             !.data = IF mode = "WRITE_VALUE" THEN @
                                      ELSE IF m.index < Len(@)
                                      THEN [@ EXCEPT ![m.index + 1] = Received]
                                      ELSE Append(@, Received)]
              /\ mode \in {"WRITE_VALUE", "READ_VALUE"}
  BY Zenon DEF Interrupt
<1>4. m'.action = m.action /\ m'.reg = m.reg
  BY <1>3 DEF BusInv
<1>5. CASE Reading
  <2>1. m.action = "READ" /\ mode # "WRITE_VALUE"
    BY <1>5 DEF Reading, ReadModes
  <2>2. rtc'.reg = rtc.reg
    BY <1>3, <2>1, ClockEffect
  <2>3. BusRight' = BusRight
    BY <1>1, <1>4, <2>1, <2>2 DEF BusRight, Right
  <2> QED
    BY <1>1, <2>3, SameMode DEF PulseInv
<1>6. CASE Writing
  <2>1. /\ m.action = "WRITE" /\ mode # "READ_VALUE" /\ m.index < m.max
        /\ m.index \in Nat /\ m.max \in Nat /\ m.reg \in Nat
        /\ \A i \in 0 .. m.max - 1 : m.reg + i \in Regs
    BY <1>2, <1>6 DEF Writing, WriteModes, BusInv
  <2>2. m'.data = m.data
    BY <1>3, <2>1 DEF BusInv
  <2>3. CASE m.reg = REG_ENABLE
    <3>1. BusRight' = BusRight
      BY <1>1, <1>4, <2>1, <2>2, <2>3 DEF BusRight, Right
    <3> QED BY <1>1, <3>1, SameMode DEF PulseInv
  <2>4. CASE m.reg # REG_ENABLE
    <3>1. Pointer # REG_ENABLE
      <4> SUFFICES ASSUME m.reg + m.index = REG_ENABLE PROVE FALSE
        BY DEF Pointer
      <4>1. m.index - 1 \in 0 .. m.max - 1 /\ m.reg + (m.index - 1) = 13
        BY <2>1, <2>4 DEF REG_ENABLE
      <4>2. 13 \in Regs
        BY <2>1, <4>1
      <4> QED
        BY <4>2 DEF Regs, Fields, SECOND, MINUTE, HOUR, REG_ENABLE, REG_ENABLE_32KHZ
    <3>2. rtc'.reg[REG_ENABLE] = rtc.reg[REG_ENABLE]
      <4>1. CASE mode # "WRITE_VALUE"
        BY <1>3, <4>1, ClockEffect
      <4>2. CASE mode = "WRITE_VALUE"
        <5>1. rtc' = [rtc EXCEPT !.reg[Pointer] = Datum(m.index)] \/ rtc' = rtc
          BY <1>3, <4>2, ClockEffect
        <5>2. rtc \in [reg : [Regs -> Nat], deaf : BOOLEAN] /\ REG_ENABLE \in Regs
          BY DEF ClockInv, Regs
        <5>3. rtc'.reg = [rtc.reg EXCEPT ![Pointer] = Datum(m.index)] \/ rtc'.reg = rtc.reg
          BY <5>1, <5>2
        <5> QED BY <3>1, <5>2, <5>3
      <4> QED BY <4>1, <4>2
    <3>3. BusRight' = BusRight
      BY <1>1, <1>4, <2>4, <3>2 DEF BusRight, Right
    <3> QED BY <1>1, <3>3, SameMode DEF PulseInv
  <2> QED BY <2>3, <2>4
<1> QED
  BY <1>2, <1>5, <1>6 DEF BusInv

LEMMA WaveInvariance == Spec => [](IInv /\ WaveInv)
<1>1. Init => IInv /\ WaveInv
  BY InitInv, InitWave
<1>2. IInv /\ WaveInv /\ [Next]_vars => (IInv /\ WaveInv)'
  <2> SUFFICES ASSUME IInv, WaveInv, [Next]_vars
               PROVE  IInv' /\ WaveInv'
    OBVIOUS
  <2>1. IInv'
    BY NextInv
  <2>2. ASSUME spoilt' = {} PROVE PulseInv'
    <3>1. spoilt = {} /\ Kept
      BY <2>2, SpoiltStays DEF Kept
    <3>2. RingInv /\ BusInv /\ ClockInv /\ PulseInv
      BY <3>1 DEF IInv, WaveInv
    <3>3. CASE ModeSet
      BY <3>2, <3>3, ModeSetWave
    <3>4. CASE SyncClock
      BY <3>2, <3>4, SyncClockWave
    <3>5. CASE Ask
      <4>1. UNCHANGED <<current_mode, todo, asked, m, rtc>>
        BY <2>2, <3>5 DEF Ask, bus
      <4> QED BY <3>2, <4>1, WaveFrame
    <3>6. CASE Put
      BY <2>2, <3>2, <3>6, PutWave
    <3>7. CASE Int2
      BY <2>2, <3>2, <3>7, Int2Wave
    <3>8. CASE Report
      BY <3>1, <3>2, <3>8, ReportWave
    <3>9. CASE Start
      BY <3>2, <3>9, StartWave
    <3>10. CASE Interrupt
      BY <3>2, <3>10, InterruptWave
    <3>11. CASE UNCHANGED vars
      <4>1. UNCHANGED <<current_mode, todo, asked, m, rtc>>
        BY <3>11 DEF vars, main, bus
      <4> QED BY <3>2, <4>1, WaveFrame
    <3> QED
      BY <3>3, <3>4, <3>5, <3>6, <3>7, <3>8, <3>9, <3>10, <3>11 DEF Next, Main
  <2> QED
    BY <2>1, <2>2 DEF WaveInv
<1> QED
  BY <1>1, <1>2, PTL DEF Spec

\* PulsesInWatchMode of Twi: whatever mode_set asks for and however the pulses
\* of the clock come in between, when the ring is empty the clock does what the
\* mode wants, as long as no request has been refused and no write has failed.
THEOREM ClockFollowsMode == Spec => []PulsesInWatchMode
<1>1. IInv /\ WaveInv => PulsesInWatchMode
  <2> SUFFICES ASSUME IInv, WaveInv, Free, queue.bytes = <<>>, mode = "IDLE",
                      m.action = "IDLE", spoilt = {}
               PROVE  SquareWave = (current_mode = "WATCH")
    BY DEF PulsesInWatchMode
  <2>1. RingInv /\ PulseInv
    BY DEF IInv, WaveInv, Kept
  <2>2. todo = <<>> /\ Started = <<>>
    BY DEF Free, Started
  <2>3. asked = <<>>
    <3> SUFFICES ASSUME asked # <<>> PROVE FALSE
      OBVIOUS
    <3>1. asked \in Seq(Requests) /\ asked \in Seq(Seq(Nat)) /\ FlattenSeq(asked) \in Seq(Nat)
      BY <2>1, RequestFacts, FlattenType DEF RingInv
    <3>2. queue.bytes = FlattenSeq(asked)
      BY <2>1, <2>2, <3>1, ConcatEmptySeq DEF RingInv
    <3> DEFINE r == Head(asked)
               t == FlattenSeq(Tail(asked))
    <3>3. r \in Requests /\ Tail(asked) \in Seq(Requests)
      BY <3>1, HeadTailProperties
    <3>4. r \in Seq(Nat) /\ t \in Seq(Nat) /\ Len(r) \in Nat /\ Len(r) >= 4
      BY <3>3, RequestFacts, FlattenType DEF OVERHEAD
    <3>5. FlattenSeq(asked) = r \o t
      BY <3>1, FlattenHead
    <3> HIDE DEF r, t
    <3>6. Len(r \o t) = Len(r) + Len(t)
      BY <3>4, ConcatProperties
    <3>7. Len(r \o t) = 0
      BY <3>2, <3>5
    <3> QED BY <3>4, <3>6, <3>7
  <2>4. Right(rtc.reg[REG_ENABLE])
    BY <2>1, <2>2, <2>3, NoneInEmpty DEF PulseInv, BusRight
  <2> QED
    BY <2>4 DEF Right, SquareWave
<1> QED
  BY <1>1, WaveInvariance, PTL
=============================================================================
