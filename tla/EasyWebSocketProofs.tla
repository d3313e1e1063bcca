------------------------ MODULE EasyWebSocketProofs ------------------------
(* What is proved of the client's websocket, for every number of frames and *)
(* messages, every length of a payload and every size of recv and socket.    *)
(*                                                                           *)
(* The two ends of each direction are looked at as one stream: what the      *)
(* server has sent and _dispatchBinary has not taken (in), and what sendData *)
(* has taken and the server has not read (out).  A recv or a send that takes *)
(* a part only does not change a stream; a frame is put behind it whole and  *)
(* taken from its front whole; a reset cuts its end.  The invariant says     *)
(* what a stream is made of and what has become of the frames taken from it. *)
EXTENDS MCEasyWebSocket, BytesProofs

-----------------------------------------------------------------------------
(* Sequences                                                                 *)

LEMMA ConcatFacts ==
    ASSUME NEW S, NEW a \in Seq(S), NEW b \in Seq(S)
    PROVE  /\ a \o b \in Seq(S)
           /\ Len(a \o b) = Len(a) + Len(b)
           /\ \A i \in 1 .. Len(a) + Len(b) :
                 (a \o b)[i] = IF i <= Len(a) THEN a[i] ELSE b[i - Len(a)]
  OBVIOUS

LEMMA SubSeqFacts ==
    ASSUME NEW S, NEW a \in Seq(S), NEW m \in Nat \ {0}, NEW n \in 0 .. Len(a), m <= n + 1
    PROVE  /\ SubSeq(a, m, n) \in Seq(S)
           /\ Len(SubSeq(a, m, n)) = n - m + 1
           /\ \A i \in 1 .. n - m + 1 : SubSeq(a, m, n)[i] = a[m + i - 1]
  OBVIOUS

LEMMA DropFacts ==
    ASSUME NEW S, NEW a \in Seq(S), NEW n \in 0 .. Len(a)
    PROVE  /\ SubSeq(a, n + 1, Len(a)) \in Seq(S)
           /\ Len(SubSeq(a, n + 1, Len(a))) = Len(a) - n
           /\ \A i \in 1 .. Len(a) - n : SubSeq(a, n + 1, Len(a))[i] = a[n + i]
<1>1. n + 1 \in Nat \ {0} /\ Len(a) \in 0 .. Len(a) /\ n + 1 <= Len(a) + 1
  OBVIOUS
<1>2. \A i \in 1 .. Len(a) - n : (n + 1) + i - 1 = n + i
  OBVIOUS
<1>3. QED
  BY <1>1, <1>2, SubSeqFacts

LEMMA Assoc ==
    ASSUME NEW S, NEW a \in Seq(S), NEW b \in Seq(S), NEW c \in Seq(S)
    PROVE  (a \o b) \o c = a \o (b \o c)
  OBVIOUS

LEMMA Moves ==
    ASSUME NEW S, NEW a \in Seq(S), NEW b \in Seq(S), NEW n \in 0 .. Len(b)
    PROVE  (a \o SubSeq(b, 1, n)) \o SubSeq(b, n + 1, Len(b)) = a \o b
<1>1. /\ 1 \in 1 .. Len(b) + 1 /\ n \in 1 - 1 .. Len(b) /\ Len(b) \in n .. Len(b)
  OBVIOUS
<1>2. SubSeq(b, 1, n) \o SubSeq(b, n + 1, Len(b)) = SubSeq(b, 1, Len(b))
  BY <1>1, ConcatAdjacentSubSeq
<1>3. SubSeq(b, 1, Len(b)) = b
  BY SubSeqFull
<1>4. SubSeq(b, 1, n) \in Seq(S) /\ SubSeq(b, n + 1, Len(b)) \in Seq(S)
  BY SubSeqFacts, DropFacts
<1>5. (a \o SubSeq(b, 1, n)) \o SubSeq(b, n + 1, Len(b)) = a \o (SubSeq(b, 1, n) \o SubSeq(b, n + 1, Len(b)))
  <2> DEFINE x == SubSeq(b, 1, n)
             y == SubSeq(b, n + 1, Len(b))
  <2>1. x \in Seq(S) /\ y \in Seq(S)
    BY <1>4
  <2> HIDE DEF x, y
  <2>2. (a \o x) \o y = a \o (x \o y)
    BY <2>1, Assoc, SMTT(40)
  <2>3. QED
    BY <2>2 DEF x, y
<1>6. QED
  BY <1>2, <1>3, <1>5

LEMMA DropFirst ==
    ASSUME NEW S, NEW a \in Seq(S), NEW b \in Seq(S), NEW n \in 0 .. Len(a)
    PROVE  SubSeq(a, n + 1, Len(a)) \o b = SubSeq(a \o b, n + 1, Len(a \o b))
<1> DEFINE x == SubSeq(a, n + 1, Len(a))
           y == a \o b
           z == SubSeq(y, n + 1, Len(y))
<1>1. /\ x \in Seq(S) /\ Len(x) = Len(a) - n
      /\ \A i \in 1 .. Len(a) - n : x[i] = a[n + i]
  BY DropFacts
<1>2. /\ y \in Seq(S) /\ Len(y) = Len(a) + Len(b)
      /\ \A i \in 1 .. Len(a) + Len(b) :
             y[i] = IF i <= Len(a) THEN a[i] ELSE b[i - Len(a)]
  BY ConcatFacts
<1>0. Len(a) \in Nat /\ Len(b) \in Nat /\ n \in Nat /\ n <= Len(a)
  OBVIOUS
<1> HIDE DEF x, y
<1>3. /\ z \in Seq(S) /\ Len(z) = Len(y) - n
      /\ \A i \in 1 .. Len(y) - n : z[i] = y[n + i]
  <2>1. n \in 0 .. Len(y)
    BY <1>0, <1>2
  <2>2. QED
    BY <1>2, <2>1, DropFacts
<1> HIDE DEF z
<1>4. /\ x \o b \in Seq(S) /\ Len(x \o b) = Len(x) + Len(b)
      /\ \A i \in 1 .. Len(x) + Len(b) :
             (x \o b)[i] = IF i <= Len(x) THEN x[i] ELSE b[i - Len(x)]
  <2>1. x \in Seq(S)
    BY <1>1
  <2>2. QED
    BY <2>1, ConcatFacts
<1>5. Len(x \o b) = Len(z) /\ Len(z) = (Len(a) + Len(b)) - n
  BY <1>0, <1>1, <1>2, <1>3, <1>4
<1>6. ASSUME NEW i \in 1 .. Len(z) PROVE (x \o b)[i] = z[i]
  <2>0. i \in Nat /\ i >= 1 /\ i <= (Len(a) + Len(b)) - n
    BY <1>0, <1>5
  <2>1. n + i \in 1 .. Len(a) + Len(b) /\ z[i] = y[n + i]
    BY <1>0, <1>2, <1>3, <2>0
  <2>2. CASE i <= Len(a) - n
    <3>1. (x \o b)[i] = x[i] /\ x[i] = a[n + i]
      BY <1>0, <1>1, <1>4, <2>0, <2>2
    <3>2. y[n + i] = a[n + i]
      BY <1>0, <1>2, <2>0, <2>1, <2>2
    <3>3. QED
      BY <2>1, <3>1, <3>2
  <2>3. CASE ~(i <= Len(a) - n)
    <3>1. (n + i) - Len(a) = i - Len(x)
      BY <1>0, <1>1, <2>0
    <3>2. y[n + i] = b[(n + i) - Len(a)]
      BY <1>0, <1>2, <2>0, <2>1, <2>3
    <3>3. (x \o b)[i] = b[i - Len(x)]
      BY <1>0, <1>1, <1>4, <2>0, <2>3
    <3>4. QED
      BY <2>1, <3>1, <3>2, <3>3
  <2>4. QED
    BY <2>2, <2>3
<1>7. x \o b = z
  BY <1>3, <1>4, <1>5, <1>6, SeqEqual
<1>8. QED
  BY <1>7 DEF x, y, z

-----------------------------------------------------------------------------
(* Frames                                                                    *)

Ops == {"text", "ping", "pong", "close", "other", "payload"}
Units == [op : Ops, fin : BOOLEAN, n : Nat, no : Nat, message : Nat, from : Nat]

IsHeader(unit) == unit.op # "payload"

\* Is s a whole frame with this header?
IsFrame(s, header) ==
    /\ s \in Seq(Units)
    /\ Len(s) = header.n + 1
    /\ s[1] = header
    /\ \A k \in 1 .. header.n : s[1 + k] = Unit(header.message, header.from + k)

LEMMA HeaderType ==
    ASSUME NEW op \in Ops, NEW fin \in BOOLEAN, NEW n \in Nat, NEW no \in Nat,
           NEW message \in Nat, NEW from \in Nat
    PROVE  Header(op, fin, n, no, message, from) \in Units
  BY DEF Header, Units

LEMMA UnitType ==
    ASSUME NEW message \in Nat, NEW k \in Nat
    PROVE  Unit(message, k) \in Units /\ ~IsHeader(Unit(message, k))
  BY DEF Unit, Header, Units, Ops, IsHeader

LEMMA PayloadFacts ==
    ASSUME NEW message \in Nat, NEW from \in Nat, NEW n \in Nat
    PROVE  /\ Payload(message, from, n) \in Seq(Units)
           /\ Len(Payload(message, from, n)) = n
           /\ \A k \in 1 .. n : Payload(message, from, n)[k] = Unit(message, from + k)
<1>1. \A k \in 1 .. n : Unit(message, from + k) \in Units
  BY UnitType
<1>2. Payload(message, from, n) = [k \in 1 .. n |-> Unit(message, from + k)]
  BY DEF Payload
<1>3. QED
  BY <1>1, <1>2

LEMMA FrameFacts ==
    ASSUME NEW header \in Units
    PROVE  IsFrame(Frame(header), header)
<1>1. /\ header.message \in Nat /\ header.from \in Nat /\ header.n \in Nat
  BY DEF Units
<1> DEFINE p == Payload(header.message, header.from, header.n)
<1>2. /\ p \in Seq(Units) /\ Len(p) = header.n
      /\ \A k \in 1 .. header.n : p[k] = Unit(header.message, header.from + k)
  BY <1>1, PayloadFacts, ZenonT(60)
<1>3. Frame(header) = <<header>> \o p
  BY DEF Frame
<1> HIDE DEF p
<1>4. <<header>> \in Seq(Units) /\ Len(<<header>>) = 1 /\ <<header>>[1] = header
  OBVIOUS
<1> DEFINE a == <<header>>
<1>5. a \in Seq(Units) /\ Len(a) = 1 /\ a[1] = header
  BY <1>4
<1> HIDE DEF a
<1>6. /\ a \o p \in Seq(Units)
      /\ Len(a \o p) = 1 + header.n
      /\ \A i \in 1 .. 1 + header.n : (a \o p)[i] = IF i <= 1 THEN a[i] ELSE p[i - 1]
  <2>1. /\ a \o p \in Seq(Units)
        /\ Len(a \o p) = Len(a) + Len(p)
        /\ \A i \in 1 .. Len(a) + Len(p) :
                (a \o p)[i] = IF i <= Len(a) THEN a[i] ELSE p[i - Len(a)]
    BY <1>2, <1>5, ConcatFacts
  <2>2. QED
    BY <1>2, <1>5, <2>1
<1>7. (a \o p)[1] = header
  BY <1>1, <1>5, <1>6
<1>8. ASSUME NEW k \in 1 .. header.n
      PROVE  (a \o p)[1 + k] = Unit(header.message, header.from + k)
  <2>1. 1 + k \in 1 .. 1 + header.n /\ ~(1 + k <= 1) /\ (1 + k) - 1 = k
    BY <1>1
  <2>2. QED
    BY <1>2, <1>6, <2>1
<1>9. Frame(header) = a \o p
  BY <1>3 DEF a
<1>10. Len(a \o p) = header.n + 1
  BY <1>1, <1>6
<1>11. QED
  BY <1>6, <1>7, <1>8, <1>9, <1>10 DEF IsFrame

LEMMA PayloadJoin ==
    ASSUME NEW message \in Nat, NEW from \in Nat, NEW n \in Nat
    PROVE  Payload(message, 0, from) \o Payload(message, from, n) = Payload(message, 0, from + n)
<1> DEFINE a == Payload(message, 0, from)
           b == Payload(message, from, n)
           c == Payload(message, 0, from + n)
<1>0. 0 \in Nat /\ from + n \in Nat
  OBVIOUS
<1>1. /\ a \in Seq(Units) /\ Len(a) = from
      /\ \A k \in 1 .. from : a[k] = Unit(message, 0 + k)
  BY <1>0, PayloadFacts
<1>2. /\ b \in Seq(Units) /\ Len(b) = n
      /\ \A k \in 1 .. n : b[k] = Unit(message, from + k)
  BY PayloadFacts
<1>3. /\ c \in Seq(Units) /\ Len(c) = from + n
      /\ \A k \in 1 .. from + n : c[k] = Unit(message, 0 + k)
  BY <1>0, PayloadFacts
<1> HIDE DEF a, b, c
<1>4. /\ a \o b \in Seq(Units)
      /\ Len(a \o b) = from + n
      /\ \A k \in 1 .. from + n : (a \o b)[k] = IF k <= from THEN a[k] ELSE b[k - from]
  BY <1>1, <1>2, ConcatFacts
<1>5. ASSUME NEW k \in 1 .. from + n PROVE (a \o b)[k] = c[k]
  <2>1. CASE k <= from
    <3>1. k \in 1 .. from
      BY <2>1
    <3>2. QED
      BY <1>1, <1>3, <1>4, <2>1, <3>1
  <2>2. CASE ~(k <= from)
    <3>1. k - from \in 1 .. n /\ from + (k - from) = 0 + k
      BY <2>2
    <3>2. QED
      BY <1>2, <1>3, <1>4, <2>2, <3>1
  <2>3. QED
    BY <2>1, <2>2
<1>6. a \o b = c
  BY <1>3, <1>4, <1>5, SeqEqual
<1>7. QED
  BY <1>6 DEF a, b, c

-----------------------------------------------------------------------------
(* Streams: what is on its way from one end to the other                     *)

\* What begins at unit i is a frame, or as much of one as is left.
FrameAt(s, i) ==
    /\ \A k \in 1 .. s[i].n :
            i + k <= Len(s) => s[i + k] = Unit(s[i].message, s[i].from + k)
    /\ i + s[i].n + 1 <= Len(s) => IsHeader(s[i + s[i].n + 1])

\* A stream begins with a frame, and every frame is followed by another one.
Framed(s) ==
    /\ s # <<>> => IsHeader(s[1])
    /\ \A i \in 1 .. Len(s) : IsHeader(s[i]) => FrameAt(s, i)

\* Its last frame is whole.
Uncut(s) == \A i \in 1 .. Len(s) : IsHeader(s[i]) => i + s[i].n <= Len(s)

LEMMA FramedType ==
    ASSUME NEW s \in Seq(Units), NEW i \in 1 .. Len(s)
    PROVE  /\ s[i] \in Units
           /\ s[i].n \in Nat /\ s[i].no \in Nat /\ s[i].message \in Nat /\ s[i].from \in Nat
           /\ s[i].op \in Ops /\ s[i].fin \in BOOLEAN
<1>1. s[i] \in Units
  OBVIOUS
<1>2. QED
  BY <1>1 DEF Units

\* A prefix of a stream is a stream.
LEMMA FramedPrefix ==
    ASSUME NEW s \in Seq(Units), Framed(s), NEW t \in Seq(Units), Len(t) <= Len(s),
           \A i \in 1 .. Len(t) : t[i] = s[i]
    PROVE  Framed(t)
<1>1. t # <<>> => IsHeader(t[1])
  <2>1. SUFFICES ASSUME t # <<>> PROVE IsHeader(t[1])
    OBVIOUS
  <2>2. 1 \in 1 .. Len(t) /\ s # <<>>
    BY <2>1
  <2>3. QED
    BY <2>2 DEF Framed
<1>2. ASSUME NEW i \in 1 .. Len(t), IsHeader(t[i]) PROVE FrameAt(t, i)
  <2>1. i \in 1 .. Len(s) /\ t[i] = s[i] /\ s[i].n \in Nat
    BY FramedType
  <2>2. FrameAt(s, i)
    BY <1>2, <2>1 DEF Framed
  <2>3. ASSUME NEW k \in 1 .. t[i].n, i + k <= Len(t)
        PROVE  t[i + k] = Unit(t[i].message, t[i].from + k)
    <3>1. t[i + k] = s[i + k] /\ i + k <= Len(s)
      BY <2>1, <2>3
    <3>2. QED
      BY <2>1, <2>2, <3>1 DEF FrameAt
  <2>4. ASSUME i + t[i].n + 1 <= Len(t) PROVE IsHeader(t[i + t[i].n + 1])
    <3>1. i + s[i].n + 1 \in 1 .. Len(t) /\ i + s[i].n + 1 <= Len(s)
      BY <2>1, <2>4
    <3>2. t[i + s[i].n + 1] = s[i + s[i].n + 1]
      BY <3>1
    <3>3. QED
      BY <2>1, <2>2, <3>1, <3>2 DEF FrameAt
  <2>5. QED
    BY <2>3, <2>4 DEF FrameAt
<1>3. QED
  BY <1>1, <1>2 DEF Framed

\* A frame that follows a stream continues it.
LEMMA FramedAppend ==
    ASSUME NEW s \in Seq(Units), Framed(s), Uncut(s),
           NEW h \in Units, IsHeader(h), NEW f, IsFrame(f, h)
    PROVE  /\ s \o f \in Seq(Units)
           /\ Len(s \o f) = Len(s) + h.n + 1
           /\ \A i \in 1 .. Len(s) : (s \o f)[i] = s[i]
           /\ (s \o f)[Len(s) + 1] = h
           /\ \A i \in Len(s) + 2 .. Len(s) + h.n + 1 : ~IsHeader((s \o f)[i])
           /\ Framed(s \o f) /\ Uncut(s \o f)
<1> DEFINE t == s \o f
<1>1. /\ f \in Seq(Units) /\ Len(f) = h.n + 1 /\ f[1] = h
      /\ \A k \in 1 .. h.n : f[1 + k] = Unit(h.message, h.from + k)
  BY DEF IsFrame
<1>2. h.n \in Nat /\ h.message \in Nat /\ h.from \in Nat /\ Len(s) \in Nat
  BY DEF Units
<1>3. /\ t \in Seq(Units)
      /\ Len(t) = Len(s) + h.n + 1
      /\ \A i \in 1 .. Len(s) + h.n + 1 : t[i] = IF i <= Len(s) THEN s[i] ELSE f[i - Len(s)]
  <2>1. /\ t \in Seq(Units)
        /\ Len(t) = Len(s) + Len(f)
        /\ \A i \in 1 .. Len(s) + Len(f) : t[i] = IF i <= Len(s) THEN s[i] ELSE f[i - Len(s)]
    BY <1>1, ConcatFacts
  <2> HIDE DEF t
  <2>2. Len(s) + Len(f) = Len(s) + h.n + 1
    BY <1>1, <1>2
  <2>3. QED
    BY <2>1, <2>2
<1> HIDE DEF t
<1>4. \A i \in 1 .. Len(s) : t[i] = s[i]
  BY <1>2, <1>3
<1>5. t[Len(s) + 1] = h
  <2>1. Len(s) + 1 \in 1 .. Len(s) + h.n + 1 /\ ~(Len(s) + 1 <= Len(s)) /\ (Len(s) + 1) - Len(s) = 1
    BY <1>2
  <2>2. QED
    BY <1>1, <1>3, <2>1
<1>6. ASSUME NEW k \in 1 .. h.n PROVE t[Len(s) + 1 + k] = Unit(h.message, h.from + k)
  <2>1. Len(s) + 1 + k \in 1 .. Len(s) + h.n + 1 /\ ~(Len(s) + 1 + k <= Len(s))
        /\ (Len(s) + 1 + k) - Len(s) = 1 + k
    BY <1>2
  <2>2. t[Len(s) + 1 + k] = f[1 + k]
    BY <1>3, <2>1
  <2>3. QED
    BY <1>1, <2>2
<1>7. ASSUME NEW i \in Len(s) + 2 .. Len(s) + h.n + 1 PROVE ~IsHeader(t[i])
  <2>1. i - Len(s) - 1 \in 1 .. h.n /\ i = Len(s) + 1 + (i - Len(s) - 1)
        /\ h.from + (i - Len(s) - 1) \in Nat
    BY <1>2
  <2>2. t[i] = Unit(h.message, h.from + (i - Len(s) - 1))
    BY <1>6, <2>1
  <2>3. QED
    BY <1>2, <2>1, <2>2, UnitType
<1>8. t # <<>> => IsHeader(t[1])
  <2>1. CASE s = <<>>
    BY <1>5, <2>1
  <2>2. CASE s # <<>>
    <3>1. 1 \in 1 .. Len(s)
      BY <2>2
    <3>2. QED
      BY <1>4, <2>2, <3>1 DEF Framed
  <2>3. QED
    BY <2>1, <2>2
<1>9. ASSUME NEW i \in 1 .. Len(t), IsHeader(t[i])
      PROVE  FrameAt(t, i) /\ i + t[i].n <= Len(t)
  <2>1. CASE i <= Len(s)
    <3>1. i \in 1 .. Len(s) /\ t[i] = s[i] /\ s[i].n \in Nat
      BY <1>2, <1>4, <2>1, FramedType
    <3>2. FrameAt(s, i) /\ i + s[i].n <= Len(s)
      BY <1>9, <3>1 DEF Framed, Uncut
    <3>3. ASSUME NEW k \in 1 .. t[i].n
          PROVE  t[i + k] = Unit(t[i].message, t[i].from + k)
      <4>1. i + k \in 1 .. Len(s)
        BY <1>2, <3>1, <3>2, SMTT(40)
      <4>2. t[i + k] = s[i + k] /\ i + k <= Len(s)
        BY <1>2, <1>4, <4>1
      <4>3. QED
        BY <3>1, <3>2, <4>2 DEF FrameAt
    <3>4. IsHeader(t[i + t[i].n + 1])
      <4>1. CASE i + s[i].n = Len(s)
        BY <1>5, <3>1, <4>1
      <4>2. CASE i + s[i].n # Len(s)
        <5>1. i + s[i].n + 1 \in 1 .. Len(s) /\ i + s[i].n + 1 <= Len(s)
          <6>1. PICK m \in Nat : m = s[i].n
            BY <3>1
          <6>2. i + m <= Len(s) /\ i + m # Len(s)
            BY <3>2, <4>2, <6>1
          <6>3. i + m + 1 \in 1 .. Len(s) /\ i + m + 1 <= Len(s)
            BY <1>2, <6>2
          <6>4. QED
            BY <6>1, <6>3
        <5>2. t[i + s[i].n + 1] = s[i + s[i].n + 1]
          BY <1>4, <5>1
        <5>3. QED
          BY <3>1, <3>2, <5>1, <5>2 DEF FrameAt
      <4>3. QED
        BY <4>1, <4>2
    <3>5. i + t[i].n <= Len(t)
      BY <1>2, <1>3, <3>1, <3>2
    <3>6. QED
      BY <3>3, <3>4, <3>5 DEF FrameAt
  <2>2. CASE i = Len(s) + 1
    <3>1. t[i] = h
      BY <1>5, <2>2
    <3>2. \A k \in 1 .. t[i].n : t[i + k] = Unit(t[i].message, t[i].from + k)
      BY <1>6, <2>2, <3>1
    <3>3. ~(i + t[i].n + 1 <= Len(t)) /\ i + t[i].n <= Len(t)
      BY <1>2, <1>3, <2>2, <3>1
    <3>4. QED
      BY <3>2, <3>3 DEF FrameAt
  <2>3. CASE ~(i <= Len(s)) /\ i # Len(s) + 1
    <3>1. i \in Len(s) + 2 .. Len(s) + h.n + 1
      BY <1>2, <1>3, <2>3
    <3>2. QED
      BY <1>7, <1>9, <3>1
  <2>4. QED
    BY <2>1, <2>2, <2>3
<1>10. Framed(t) /\ Uncut(t)
  BY <1>8, <1>9 DEF Framed, Uncut
<1>11. QED
  BY <1>3, <1>4, <1>5, <1>7, <1>10 DEF t

\* The first frame of a stream, and what follows it.
LEMMA FramedRest ==
    ASSUME NEW s \in Seq(Units), Framed(s), Whole(s)
    PROVE  /\ s[1] \in Units /\ Head(s) = s[1] /\ IsHeader(s[1]) /\ 1 \in 1 .. Len(s)
           /\ PayloadOf(s) = Payload(s[1].message, s[1].from, s[1].n)
           /\ Rest(s) \in Seq(Units)
           /\ Len(Rest(s)) = Len(s) - (s[1].n + 1)
           /\ \A i \in 1 .. Len(Rest(s)) : Rest(s)[i] = s[i + s[1].n + 1]
           /\ \A i \in 2 .. s[1].n + 1 : ~IsHeader(s[i])
           /\ Framed(Rest(s))
           /\ Uncut(s) => Uncut(Rest(s))
<1> DEFINE n == s[1].n
           t == Rest(s)
<1>1. s # <<>> /\ Len(s) > Head(s).n /\ Head(s) = s[1]
  BY DEF Whole
<1>2. 1 \in 1 .. Len(s) /\ Len(s) \in Nat
  BY <1>1
<1>3. /\ s[1] \in Units /\ n \in Nat /\ s[1].message \in Nat /\ s[1].from \in Nat
  BY <1>2, FramedType
<1>4. IsHeader(s[1]) /\ FrameAt(s, 1) /\ n + 1 <= Len(s)
  BY <1>1, <1>2, <1>3 DEF Framed
<1>5. PayloadOf(s) = Payload(s[1].message, s[1].from, s[1].n)
  <2> DEFINE a == PayloadOf(s)
             b == Payload(s[1].message, s[1].from, n)
  <2>1. a = SubSeq(s, 2, 1 + n)
    BY <1>1 DEF PayloadOf, FrameLength
  <2>2. 2 \in Nat \ {0} /\ 1 + n \in 0 .. Len(s) /\ 2 <= (1 + n) + 1
    BY <1>2, <1>3, <1>4
  <2>3. /\ a \in Seq(Units) /\ Len(a) = (1 + n) - 2 + 1
        /\ \A i \in 1 .. (1 + n) - 2 + 1 : a[i] = s[2 + i - 1]
    BY <2>1, <2>2, SubSeqFacts
  <2>4. /\ b \in Seq(Units) /\ Len(b) = n
        /\ \A k \in 1 .. n : b[k] = Unit(s[1].message, s[1].from + k)
    BY <1>3, PayloadFacts, ZenonT(60)
  <2> HIDE DEF a, b
  <2>5. Len(a) = n
    BY <1>3, <2>3
  <2>6. ASSUME NEW k \in 1 .. n PROVE a[k] = b[k]
    <3>1. k \in 1 .. (1 + n) - 2 + 1 /\ 2 + k - 1 = 1 + k /\ 1 + k <= Len(s)
      BY <1>2, <1>3, <1>4
    <3>2. a[k] = s[1 + k]
      BY <2>3, <3>1
    <3>3. s[1 + k] = Unit(s[1].message, s[1].from + k)
      BY <1>4, <3>1 DEF FrameAt
    <3>4. QED
      BY <2>4, <3>2, <3>3
  <2>7. a = b
    BY <2>3, <2>4, <2>5, <2>6, SeqEqual
  <2>8. QED
    BY <2>7 DEF a, b
<1>6. /\ t \in Seq(Units) /\ Len(t) = Len(s) - (n + 1)
      /\ \A i \in 1 .. Len(s) - (n + 1) : t[i] = s[(n + 1) + i]
  <2>1. t = SubSeq(s, (n + 1) + 1, Len(s))
    <3>1. 1 + n = n + 1
      BY <1>3
    <3>2. QED
      BY <1>1, <3>1 DEF Rest, FrameLength
  <2>2. n + 1 \in 0 .. Len(s)
    BY <1>2, <1>3, <1>4
  <2> HIDE DEF t, n
  <2>3. QED
    BY <2>1, <2>2, DropFacts
<1> HIDE DEF t, n
<1>7. ASSUME NEW i \in 1 .. Len(t)
      PROVE  t[i] = s[i + n + 1] /\ i + n + 1 \in 1 .. Len(s)
  <2>1. (n + 1) + i = i + n + 1 /\ i + n + 1 \in 1 .. Len(s)
    BY <1>2, <1>3, <1>6
  <2>2. QED
    BY <1>6, <2>1
<1>8. ASSUME NEW i \in 2 .. n + 1 PROVE ~IsHeader(s[i])
  <2>1. i - 1 \in 1 .. n /\ 1 + (i - 1) = i /\ i <= Len(s) /\ s[1].from + (i - 1) \in Nat
    BY <1>2, <1>3, <1>4
  <2>2. s[i] = Unit(s[1].message, s[1].from + (i - 1))
    BY <1>4, <2>1 DEF FrameAt, n
  <2>3. QED
    BY <1>3, <2>1, <2>2, UnitType
<1>9. t # <<>> => IsHeader(t[1])
  <2>1. SUFFICES ASSUME t # <<>> PROVE IsHeader(t[1])
    OBVIOUS
  <2>2. 1 \in 1 .. Len(t)
    BY <1>6, <2>1
  <2>3. t[1] = s[1 + n + 1] /\ 1 + n + 1 <= Len(s)
    BY <1>7, <2>2
  <2>4. QED
    BY <1>4, <2>3 DEF FrameAt, n
<1>10. ASSUME NEW i \in 1 .. Len(t), IsHeader(t[i]) PROVE FrameAt(t, i)
  <2>1. t[i] = s[i + n + 1] /\ i + n + 1 \in 1 .. Len(s) /\ s[i + n + 1].n \in Nat
    BY <1>7, FramedType
  <2>2. FrameAt(s, i + n + 1)
    BY <1>10, <2>1 DEF Framed
  <2>3. ASSUME NEW k \in 1 .. t[i].n, i + k <= Len(t)
        PROVE  t[i + k] = Unit(t[i].message, t[i].from + k)
    <3>1. i + k \in 1 .. Len(t) /\ (i + k) + n + 1 = (i + n + 1) + k
      <4>1. Len(t) \in Nat /\ k \in Nat \ {0} /\ i \in Nat /\ i + k <= Len(t)
        BY <1>2, <1>3, <1>6, <2>1, <2>3, SMTT(40)
      <4>2. QED
        BY <1>3, <4>1
    <3>2. t[i + k] = s[(i + n + 1) + k] /\ (i + n + 1) + k <= Len(s)
      BY <1>7, <3>1
    <3>3. QED
      BY <2>1, <2>2, <3>2 DEF FrameAt
  <2>4. ASSUME i + t[i].n + 1 <= Len(t) PROVE IsHeader(t[i + t[i].n + 1])
    <3>1. PICK m \in Nat : m = s[i + n + 1].n
      BY <2>1
    <3>2. i + m + 1 \in 1 .. Len(t) /\ (i + m + 1) + n + 1 = (i + n + 1) + m + 1
      <4>1. Len(t) \in Nat /\ i \in Nat /\ i + m + 1 <= Len(t)
        BY <1>2, <1>3, <1>6, <2>1, <2>4, <3>1
      <4>2. QED
        BY <1>3, <4>1
    <3>3. t[i + m + 1] = s[(i + n + 1) + m + 1] /\ (i + n + 1) + m + 1 <= Len(s)
      BY <1>7, <3>2
    <3>4. IsHeader(s[(i + n + 1) + m + 1])
      BY <2>2, <3>1, <3>3 DEF FrameAt
    <3>5. QED
      BY <2>1, <3>1, <3>3, <3>4
  <2>5. QED
    BY <2>3, <2>4 DEF FrameAt
<1>11. ASSUME Uncut(s), NEW i \in 1 .. Len(t), IsHeader(t[i]) PROVE i + t[i].n <= Len(t)
  <2>1. t[i] = s[i + n + 1] /\ i + n + 1 \in 1 .. Len(s) /\ s[i + n + 1].n \in Nat
    BY <1>7, FramedType
  <2>2. (i + n + 1) + s[i + n + 1].n <= Len(s)
    BY <1>11, <2>1 DEF Uncut
  <2>3. QED
    BY <1>2, <1>3, <1>6, <2>1, <2>2
<1>12. Framed(t) /\ (Uncut(s) => Uncut(t))
  BY <1>9, <1>10, <1>11 DEF Framed, Uncut
<1>13. QED
  BY <1>1, <1>2, <1>3, <1>4, <1>5, <1>6, <1>7, <1>8, <1>12 DEF t, n

-----------------------------------------------------------------------------
(* The text frames of a stream                                               *)

IsText(unit) == unit.op = "text"

\* They are numbered in their order, and those up to number done have been
\* taken from the stream.
Chain(s, done) ==
    \A j \in 1 .. Len(s) : IsText(s[j]) =>
        /\ s[j].no > done
        /\ \A i \in 1 .. j - 1 : IsText(s[i]) => s[i].no < s[j].no
        /\ s[j].no = done + 1 \/ \E i \in 1 .. j - 1 : IsText(s[i]) /\ s[i].no = s[j].no - 1

\* The last one that was put into the stream is number last.
Ends(s, done, last) ==
    /\ \A j \in 1 .. Len(s) : IsText(s[j]) => s[j].no <= last
    /\ last = done \/ \E i \in 1 .. Len(s) : IsText(s[i]) /\ s[i].no = last

Carries(s, headers) == \A i \in 1 .. Len(s) : IsHeader(s[i]) => s[i] \in headers

\* A stream of frames with these headers.
Stream(s, headers, done) ==
    s \in Seq(Units) /\ Framed(s) /\ Carries(s, headers) /\ Chain(s, done)

LEMMA TextIsHeader == \A u \in Units : IsText(u) => IsHeader(u)
  BY DEF IsText, IsHeader

LEMMA StreamPrefix ==
    ASSUME NEW headers, NEW done \in Nat, NEW s, Stream(s, headers, done),
           NEW t \in Seq(Units), Len(t) <= Len(s),
           \A i \in 1 .. Len(t) : t[i] = s[i]
    PROVE  Stream(t, headers, done)
<1>1. s \in Seq(Units) /\ Framed(s) /\ Carries(s, headers) /\ Chain(s, done)
  BY DEF Stream
<1>2. Framed(t)
  BY <1>1, FramedPrefix
<1>3. \A i \in 1 .. Len(t) : i \in 1 .. Len(s)
  BY <1>1
<1>4. Carries(t, headers)
  BY <1>1, <1>3 DEF Carries
<1>5. ASSUME NEW j \in 1 .. Len(t), IsText(t[j])
      PROVE  /\ t[j].no > done
             /\ \A i \in 1 .. j - 1 : IsText(t[i]) => t[i].no < t[j].no
             /\ t[j].no = done + 1 \/ \E i \in 1 .. j - 1 : IsText(t[i]) /\ t[i].no = t[j].no - 1
  <2>1. j \in 1 .. Len(s) /\ t[j] = s[j] /\ IsText(s[j])
    BY <1>3, <1>5
  <2>2. \A i \in 1 .. j - 1 : t[i] = s[i]
    OBVIOUS
  <2>3. /\ s[j].no > done
        /\ \A i \in 1 .. j - 1 : IsText(s[i]) => s[i].no < s[j].no
        /\ s[j].no = done + 1 \/ \E i \in 1 .. j - 1 : IsText(s[i]) /\ s[i].no = s[j].no - 1
    BY <1>1, <2>1 DEF Chain
  <2>4. QED
    BY <2>1, <2>2, <2>3
<1>6. Chain(t, done)
  BY <1>5 DEF Chain
<1>7. QED
  BY <1>2, <1>4, <1>6 DEF Stream

\* How far the first frame of a stream counts.
Counted(s, done) == IF IsText(s[1]) THEN done + 1 ELSE done

LEMMA StreamRest ==
    ASSUME NEW headers, NEW done \in Nat, NEW s, Stream(s, headers, done), Whole(s)
    PROVE  /\ s[1] \in headers
           /\ IsText(s[1]) => s[1].no = done + 1
           /\ Stream(Rest(s), headers, Counted(s, done))
           /\ Uncut(s) => Uncut(Rest(s))
           /\ \A last \in Nat :
                 Ends(s, done, last) => Ends(Rest(s), Counted(s, done), last)
<1>1. s \in Seq(Units) /\ Framed(s) /\ Carries(s, headers) /\ Chain(s, done)
  BY DEF Stream
<1> DEFINE n == s[1].n
           t == Rest(s)
           d == Counted(s, done)
<1>2. /\ s[1] \in Units /\ IsHeader(s[1]) /\ 1 \in 1 .. Len(s)
      /\ t \in Seq(Units)
      /\ Len(t) = Len(s) - (n + 1)
      /\ \A i \in 1 .. Len(t) : t[i] = s[i + n + 1]
      /\ \A i \in 2 .. n + 1 : ~IsHeader(s[i])
      /\ Framed(t)
      /\ Uncut(s) => Uncut(t)
  BY <1>1, FramedRest
<1>3. n \in Nat /\ Len(s) \in Nat /\ n + 1 <= Len(s)
  <2>1. n \in Nat /\ Len(s) \in Nat /\ Len(t) \in Nat
    BY <1>1, <1>2 DEF Units
  <2>2. QED
    BY <1>2, <2>1
<1>4. s[1] \in headers
  BY <1>1, <1>2 DEF Carries
<1>5. /\ IsText(s[1]) => s[1].no = done + 1
      /\ d \in Nat
      /\ IsText(s[1]) => d = done + 1
      /\ ~IsText(s[1]) => d = done
  <2>1. ~\E i \in 1 .. 1 - 1 : IsText(s[i]) /\ s[i].no = s[1].no - 1
    OBVIOUS
  <2>2. QED
    BY <1>1, <1>2, <2>1 DEF Chain, Counted
<1> HIDE DEF t, n, d
<1>6. ASSUME NEW i \in 1 .. Len(t) PROVE t[i] = s[i + n + 1] /\ i + n + 1 \in 2 .. Len(s)
  BY <1>2, <1>3
<1>7. Carries(t, headers)
  <2>1. SUFFICES ASSUME NEW i \in 1 .. Len(t), IsHeader(t[i]) PROVE t[i] \in headers
    BY DEF Carries
  <2>2. t[i] = s[i + n + 1] /\ i + n + 1 \in 1 .. Len(s)
    BY <1>3, <1>6
  <2>3. QED
    BY <1>1, <2>1, <2>2 DEF Carries
\* A text frame of s is the first frame or one of the others.
<1>8. ASSUME NEW j \in 1 .. Len(s), IsText(s[j])
      PROVE  (j = 1) \/ (j - n - 1 \in 1 .. Len(t) /\ t[j - n - 1] = s[j])
  <2>1. s[j] \in Units /\ IsHeader(s[j])
    BY <1>1, <1>8, FramedType, TextIsHeader
  <2>2. j \notin 2 .. n + 1
    BY <1>2, <2>1
  <2>3. ASSUME j # 1 PROVE j - n - 1 \in 1 .. Len(t) /\ (j - n - 1) + n + 1 = j
    BY <1>2, <1>3, <2>2, <2>3
  <2>4. QED
    BY <1>2, <2>3
<1>9. ASSUME NEW j \in 1 .. Len(t), IsText(t[j])
      PROVE  /\ t[j].no > d
             /\ \A i \in 1 .. j - 1 : IsText(t[i]) => t[i].no < t[j].no
             /\ t[j].no = d + 1 \/ \E i \in 1 .. j - 1 : IsText(t[i]) /\ t[i].no = t[j].no - 1
  <2> DEFINE J == j + n + 1
  <2>1. t[j] = s[J] /\ J \in 2 .. Len(s) /\ J \in 1 .. Len(s) /\ IsText(s[J])
    BY <1>3, <1>6, <1>9
  <2>2. s[J].no \in Nat
    BY <1>1, <2>1, FramedType
  <2>3. /\ s[J].no > done
        /\ \A i \in 1 .. J - 1 : IsText(s[i]) => s[i].no < s[J].no
        /\ s[J].no = done + 1 \/ \E i \in 1 .. J - 1 : IsText(s[i]) /\ s[i].no = s[J].no - 1
    BY <1>1, <2>1 DEF Chain
  <2>4. 1 \in 1 .. J - 1
    BY <1>3
  <2>5. t[j].no > d
    BY <1>5, <2>1, <2>2, <2>3, <2>4
  <2>6. ASSUME NEW i \in 1 .. j - 1, IsText(t[i]) PROVE t[i].no < t[j].no
    <3>1. i \in 1 .. Len(t) /\ i + n + 1 \in 1 .. J - 1
      BY <1>2, <1>3
    <3>2. t[i] = s[i + n + 1]
      BY <1>6, <3>1
    <3>3. QED
      BY <2>1, <2>3, <2>6, <3>1, <3>2
  <2>7. ASSUME t[j].no # d + 1
        PROVE  \E i \in 1 .. j - 1 : IsText(t[i]) /\ t[i].no = t[j].no - 1
    <3>1. s[J].no # done + 1
      BY <1>5, <2>1, <2>3, <2>4, <2>5, <2>7
    <3>2. PICK i \in 1 .. J - 1 : IsText(s[i]) /\ s[i].no = s[J].no - 1
      BY <2>3, <3>1
    <3>3. i # 1
      BY <1>5, <2>1, <2>2, <2>7, <3>2
    <3>4. i \in 1 .. Len(s)
      BY <1>3, <2>1
    <3>5. i - n - 1 \in 1 .. Len(t) /\ t[i - n - 1] = s[i]
      BY <1>8, <3>2, <3>3, <3>4
    <3>6. i - n - 1 \in 1 .. j - 1
      BY <1>2, <1>3, <3>4, <3>5
    <3>7. QED
      BY <2>1, <3>2, <3>5, <3>6
  <2>8. QED
    BY <2>5, <2>6, <2>7
<1>10. Chain(t, d)
  BY <1>9 DEF Chain
<1>11. Stream(t, headers, d)
  BY <1>2, <1>7, <1>10 DEF Stream
<1>12. ASSUME NEW last \in Nat, Ends(s, done, last) PROVE Ends(t, d, last)
  <2>1. \A j \in 1 .. Len(t) : IsText(t[j]) => t[j].no <= last
    <3>1. SUFFICES ASSUME NEW j \in 1 .. Len(t), IsText(t[j]) PROVE t[j].no <= last
      OBVIOUS
    <3>2. t[j] = s[j + n + 1] /\ j + n + 1 \in 1 .. Len(s)
      BY <1>3, <1>6
    <3>3. QED
      BY <1>12, <3>1, <3>2 DEF Ends
  <2>2. ASSUME last # d PROVE \E i \in 1 .. Len(t) : IsText(t[i]) /\ t[i].no = last
    <3>1. last # done
      <4>1. CASE IsText(s[1])
        <5>1. s[1].no <= last
          BY <1>2, <1>12, <4>1 DEF Ends
        <5>2. QED
          BY <1>5, <4>1, <5>1
      <4>2. CASE ~IsText(s[1])
        BY <1>5, <2>2, <4>2
      <4>3. QED
        BY <4>1, <4>2
    <3>2. PICK i \in 1 .. Len(s) : IsText(s[i]) /\ s[i].no = last
      BY <1>12, <3>1 DEF Ends
    <3>3. i # 1
      BY <1>5, <2>2, <3>2
    <3>4. i - n - 1 \in 1 .. Len(t) /\ t[i - n - 1] = s[i]
      BY <1>8, <3>2, <3>3
    <3>5. QED
      BY <3>2, <3>4
  <2>3. QED
    BY <2>1, <2>2 DEF Ends
<1>13. QED
  BY <1>2, <1>4, <1>5, <1>11, <1>12 DEF t, d

LEMMA StreamAppend ==
    ASSUME NEW headers, NEW done \in Nat, NEW s, Stream(s, headers, done), Uncut(s),
           NEW h \in Units \cap headers, IsHeader(h), NEW f, IsFrame(f, h),
           NEW last \in Nat, Ends(s, done, last), IsText(h) => h.no = last + 1
    PROVE  /\ Stream(s \o f, headers, done)
           /\ Uncut(s \o f)
           /\ Ends(s \o f, done, IF IsText(h) THEN last + 1 ELSE last)
<1>1. s \in Seq(Units) /\ Framed(s) /\ Carries(s, headers) /\ Chain(s, done)
  BY DEF Stream
<1> DEFINE t == s \o f
           e == IF IsText(h) THEN last + 1 ELSE last
<1>2. /\ t \in Seq(Units)
      /\ Len(t) = Len(s) + h.n + 1
      /\ \A i \in 1 .. Len(s) : t[i] = s[i]
      /\ t[Len(s) + 1] = h
      /\ \A i \in Len(s) + 2 .. Len(s) + h.n + 1 : ~IsHeader(t[i])
      /\ Framed(t) /\ Uncut(t)
  BY <1>1, FramedAppend
<1>3. h.n \in Nat /\ h.no \in Nat /\ Len(s) \in Nat
  BY <1>1 DEF Units
<1> HIDE DEF t, e
\* A header of t is one of s or the new one.
<1>4. ASSUME NEW i \in 1 .. Len(t), IsHeader(t[i])
      PROVE  (i \in 1 .. Len(s) /\ t[i] = s[i]) \/ (i = Len(s) + 1 /\ t[i] = h)
  <2>1. i \notin Len(s) + 2 .. Len(s) + h.n + 1
    BY <1>2, <1>4
  <2>2. i \in 1 .. Len(s) \/ i = Len(s) + 1
    BY <1>2, <1>3, <2>1
  <2>3. QED
    BY <1>2, <2>2
<1>5. ASSUME NEW i \in 1 .. Len(t), IsText(t[i])
      PROVE  (i \in 1 .. Len(s) /\ t[i] = s[i]) \/ (i = Len(s) + 1 /\ t[i] = h)
  <2>1. IsHeader(t[i])
    BY <1>2, <1>5, FramedType, TextIsHeader
  <2>2. QED
    BY <1>4, <2>1
<1>6. Carries(t, headers)
  BY <1>1, <1>4 DEF Carries
<1>7. ASSUME NEW j \in 1 .. Len(t), IsText(t[j])
      PROVE  /\ t[j].no > done
             /\ \A i \in 1 .. j - 1 : IsText(t[i]) => t[i].no < t[j].no
             /\ t[j].no = done + 1 \/ \E i \in 1 .. j - 1 : IsText(t[i]) /\ t[i].no = t[j].no - 1
  <2>1. CASE j \in 1 .. Len(s) /\ t[j] = s[j]
    <3>1. IsText(s[j])
      BY <1>7, <2>1
    <3>2. /\ s[j].no > done
          /\ \A i \in 1 .. j - 1 : IsText(s[i]) => s[i].no < s[j].no
          /\ s[j].no = done + 1 \/ \E i \in 1 .. j - 1 : IsText(s[i]) /\ s[i].no = s[j].no - 1
      BY <1>1, <2>1, <3>1 DEF Chain
    <3>3. \A i \in 1 .. j - 1 : t[i] = s[i]
      BY <1>2, <1>3, <2>1
    <3>4. QED
      BY <2>1, <3>2, <3>3
  <2>2. CASE j = Len(s) + 1 /\ t[j] = h
    <3>1. h.no = last + 1 /\ j - 1 = Len(s)
      BY <1>3, <1>7, <2>2
    <3>2. \A i \in 1 .. Len(s) : IsText(s[i]) => s[i].no \in Nat /\ s[i].no <= last /\ s[i].no > done
      BY <1>1, FramedType DEF Ends, Chain
    <3>3. last >= done
      BY <3>2 DEF Ends
    <3>4. last # done => \E i \in 1 .. Len(s) : IsText(t[i]) /\ t[i].no = last
      BY <1>2 DEF Ends
    <3>5. \A i \in 1 .. j - 1 : IsText(t[i]) => t[i].no < t[j].no
      BY <1>2, <2>2, <3>1, <3>2
    <3>6. t[j].no > done /\ t[j].no - 1 = last
      BY <2>2, <3>1, <3>3
    <3>7. QED
      BY <2>2, <3>1, <3>4, <3>5, <3>6
  <2>3. QED
    BY <1>5, <1>7, <2>1, <2>2
<1>8. Chain(t, done)
  BY <1>7 DEF Chain
<1>9. \A j \in 1 .. Len(t) : IsText(t[j]) => t[j].no <= e
  <2>1. SUFFICES ASSUME NEW j \in 1 .. Len(t), IsText(t[j]) PROVE t[j].no <= e
    OBVIOUS
  <2>2. CASE j \in 1 .. Len(s) /\ t[j] = s[j]
    <3>1. s[j].no <= last /\ s[j].no \in Nat
      BY <1>1, <2>1, <2>2, FramedType DEF Ends
    <3>2. QED
      BY <2>2, <3>1 DEF e
  <2>3. CASE j = Len(s) + 1 /\ t[j] = h
    BY <1>3, <2>1, <2>3 DEF e
  <2>4. QED
    BY <1>5, <2>1, <2>2, <2>3
<1>10. e = done \/ \E i \in 1 .. Len(t) : IsText(t[i]) /\ t[i].no = e
  <2>1. CASE IsText(h)
    <3>1. Len(s) + 1 \in 1 .. Len(t)
      BY <1>2, <1>3
    <3>2. QED
      BY <1>2, <2>1, <3>1 DEF e
  <2>2. CASE ~IsText(h)
    <3>1. \A i \in 1 .. Len(s) : i \in 1 .. Len(t) /\ t[i] = s[i]
      BY <1>2, <1>3
    <3>2. e = last
      BY <2>2 DEF e
    <3>3. QED
      BY <3>1, <3>2 DEF Ends
  <2>3. QED
    BY <2>1, <2>2
<1>11. QED
  BY <1>2, <1>6, <1>8, <1>9, <1>10 DEF Stream, Ends, t, e

-----------------------------------------------------------------------------
(* The invariant                                                             *)

TypeOK ==
    /\ readyState \in {"OPEN", "CLOSING", "CLOSED"}
    /\ {rxbuf, txbuf, receivedData, inWire, outWire, texts} \subseteq Seq(Units)
    /\ at \in {"recv", "send", "queue", "dispatch"} /\ second \in BOOLEAN
    /\ send_queue \in Seq(Nat)
    /\ {dispatched, atServer} \subseteq Seq(Seq(Units))
    /\ {said, frames} \subseteq Nat
    /\ peer \in {"open", "closing", "closed", "reset"}
    /\ closeRead \in BOOLEAN

\* From the server to onMessage, and from sendData to the server.
in == rxbuf \o inWire
out == outWire \o txbuf

ControlHeaders == {h \in Units : IsHeader(h) /\ ~IsText(h) /\ h = Control(h.op, h.n)}

InHeaders == {texts[m] : m \in 1 .. Len(texts)} \cup ControlHeaders
OutHeaders == {Header("text", TRUE, 1, m, m, 0) : m \in 1 .. said} \cup ControlHeaders

\* How many messages the first m text frames complete, and how much of the
\* next one they carry.
ToldBy(m) ==
    IF m = 0 THEN 0
    ELSE IF texts[m].fin THEN texts[m].message ELSE texts[m].message - 1

Offset(m) ==
    IF m = 0 THEN 0 ELSE IF texts[m].fin THEN 0 ELSE texts[m].from + texts[m].n

\* Every text frame goes on where the one before it ends.
TextsLinked ==
    \A m \in 1 .. Len(texts) :
        /\ IsText(texts[m]) /\ texts[m].no = m
        /\ texts[m].message = ToldBy(m - 1) + 1
        /\ texts[m].from = Offset(m - 1)
        /\ ToldBy(m) \in Nat /\ ToldBy(m) <= Told

\* The text frames that have been dispatched are the first ones: they are all
\* that onMessage was called with and all that is kept for the next call.
Received(done) ==
    /\ Len(dispatched) = ToldBy(done)
    /\ receivedData = Payload(ToldBy(done) + 1, 0, Offset(done))

InFrom(done) ==
    /\ Stream(in, InHeaders, done)
    /\ peer # "reset" => Uncut(in) /\ Ends(in, done, Len(texts))
    /\ Received(done)

HeardIntact ==
    \A i \in 1 .. Len(dispatched) :
        \E t \in 1 .. Len(texts) :
            /\ texts[t].fin /\ texts[t].message = i
            /\ dispatched[i] = Payload(i, 0, texts[t].from + texts[t].n)

InInv ==
    /\ TextsLinked
    /\ \E done \in 0 .. Len(texts) : InFrom(done)
    /\ HeardIntact

\* The messages that are still queued are the last ones.
Queued ==
    /\ Len(send_queue) <= said
    /\ \A i \in 1 .. Len(send_queue) : send_queue[i] = said - Len(send_queue) + i

CloseLast ==
    /\ closeRead => out = <<>>
    /\ \A i \in 1 .. Len(out) : out[i].op = "close" => i = Len(out)

OutInv ==
    /\ Queued
    /\ Stream(out, OutHeaders, Len(atServer)) /\ Uncut(out)
    /\ readyState = "OPEN" =>
          /\ Ends(out, Len(atServer), said - Len(send_queue))
          /\ ~closeRead /\ \A i \in 1 .. Len(out) : out[i].op # "close"
    /\ CloseLast
    /\ \A i \in 1 .. Len(atServer) : atServer[i] = Payload(i, 0, 1)

IInv == TypeOK /\ InInv /\ OutInv

-----------------------------------------------------------------------------
(* Types                                                                     *)

LEMMA Sequences ==
    ASSUME TypeOK
    PROVE  /\ rxbuf \in Seq(Units) /\ txbuf \in Seq(Units) /\ receivedData \in Seq(Units)
           /\ inWire \in Seq(Units) /\ outWire \in Seq(Units) /\ texts \in Seq(Units)
           /\ in \in Seq(Units) /\ out \in Seq(Units)
           /\ said \in Nat /\ frames \in Nat
  BY DEF TypeOK, in, out

\* The pieces into which an action cuts a buffer.
LEMMA Pieces ==
    ASSUME NEW b \in Seq(Units), NEW n \in 0 .. Len(b)
    PROVE  /\ SubSeq(b, 1, n) \in Seq(Units)
           /\ SubSeq(b, n + 1, Len(b)) \in Seq(Units)
  BY SubSeqFacts, DropFacts

LEMMA FrameType ==
    ASSUME NEW h \in Units
    PROVE  Frame(h) \in Seq(Units)
  BY FrameFacts DEF IsFrame

LEMMA ControlType ==
    ASSUME NEW op \in Ops \ {"text", "payload"}, NEW n \in Nat
    PROVE  Control(op, n) \in ControlHeaders
<1>1. Control(op, n) \in Units
  BY HeaderType DEF Control
<1>2. Control(op, n).op = op /\ Control(op, n).n = n
  BY DEF Control, Header
<1>3. QED
  BY <1>1, <1>2 DEF ControlHeaders, IsHeader, IsText

\* The header of the next text frame.
NextText(n, fin) ==
    Header("text", fin, n, Len(texts) + 1, Told + 1,
           IF Partial THEN Latest.from + Latest.n ELSE 0)

LEMMA Linked ==
    ASSUME TypeOK, TextsLinked
    PROVE  /\ Told = ToldBy(Len(texts)) /\ Told \in Nat
           /\ \A m \in 0 .. Len(texts) :
                 ToldBy(m) \in Nat /\ Offset(m) \in Nat /\ ToldBy(m) <= Told
           /\ Offset(Len(texts)) = IF Partial THEN Latest.from + Latest.n ELSE 0
<1>1. texts \in Seq(Units) /\ Len(texts) \in Nat
  BY Sequences
<1>2. Told = ToldBy(Len(texts))
  BY <1>1 DEF Told, ToldBy, Latest
<1>3. Told \in Nat
  <2>1. CASE texts = <<>>
    BY <2>1 DEF Told
  <2>2. CASE texts # <<>>
    <3>1. Len(texts) \in 1 .. Len(texts)
      BY <1>1, <2>2
    <3>2. QED
      BY <1>2, <3>1 DEF TextsLinked
  <2>3. QED
    BY <2>1, <2>2
<1>4. ASSUME NEW m \in 0 .. Len(texts)
      PROVE  ToldBy(m) \in Nat /\ Offset(m) \in Nat /\ ToldBy(m) <= Told
  <2>1. CASE m = 0
    BY <1>3, <2>1 DEF ToldBy, Offset
  <2>2. CASE m # 0
    <3>1. m \in 1 .. Len(texts)
      BY <2>2
    <3>2. texts[m].from \in Nat /\ texts[m].n \in Nat
      BY <1>1, <3>1, FramedType
    <3>3. QED
      BY <3>1, <3>2 DEF TextsLinked, Offset
  <2>3. QED
    BY <2>1, <2>2
<1>5. Offset(Len(texts)) = IF Partial THEN Latest.from + Latest.n ELSE 0
  <2>1. CASE texts = <<>>
    BY <2>1 DEF Offset, Partial
  <2>2. CASE texts # <<>>
    <3>1. Len(texts) # 0
      BY <1>1, <2>2
    <3>2. QED
      BY <2>2, <3>1 DEF Offset, Partial, Latest
  <2>3. QED
    BY <2>1, <2>2
<1>6. QED
  BY <1>2, <1>3, <1>4, <1>5

LEMMA NextTextType ==
    ASSUME TypeOK, TextsLinked, NEW n \in Nat, NEW fin \in BOOLEAN
    PROVE  NextText(n, fin) \in Units
<1>1. /\ Told + 1 \in Nat /\ Len(texts) + 1 \in Nat
      /\ (IF Partial THEN Latest.from + Latest.n ELSE 0) \in Nat
  <2>1. Told \in Nat /\ Len(texts) \in Nat /\ Len(texts) \in 0 .. Len(texts)
    BY Linked, Sequences
  <2>2. Offset(Len(texts)) \in Nat
    BY <2>1, Linked
  <2>3. QED
    BY <2>1, <2>2, Linked
<1>2. "text" \in Ops
  BY DEF Ops
<1>3. QED
  BY <1>1, <1>2, HeaderType DEF NextText

\* What the client puts into its buffer.
LEMMA SendsType ==
    ASSUME TypeOK, NEW f \in Seq(Units), sendData(f)
    PROVE  txbuf' \in Seq(Units)
  BY DEF TypeOK, sendData

LEMMA SendTexts ==
    ASSUME NEW m \in Nat
    PROVE  Header("text", TRUE, 1, m, m, 0) \in Units
<1>1. "text" \in Ops /\ TRUE \in BOOLEAN /\ 1 \in Nat /\ 0 \in Nat
  BY DEF Ops
<1>2. QED
  BY <1>1, HeaderType

LEMMA Reads ==
    ASSUME NEW s \in Seq(Units), Whole(s)
    PROVE  PayloadOf(s) \in Seq(Units) /\ Rest(s) \in Seq(Units)
<1>1. s # <<>> /\ Len(s) > Head(s).n /\ Head(s) = s[1] /\ 1 \in 1 .. Len(s) /\ Len(s) \in Nat
  BY DEF Whole
<1>2. PICK n \in Nat : n = Head(s).n
  BY <1>1, FramedType
<1>3. /\ PayloadOf(s) = SubSeq(s, 2, 1 + n)
      /\ Rest(s) = SubSeq(s, (1 + n) + 1, Len(s))
  BY <1>2 DEF PayloadOf, Rest, FrameLength
<1>4. /\ 2 \in Nat \ {0} /\ 1 + n \in 0 .. Len(s) /\ 2 <= (1 + n) + 1
  BY <1>1, <1>2
<1>5. QED
  BY <1>3, <1>4, SubSeqFacts, DropFacts

\* What a dispatch finds at the front of rxbuf.
LEMMA FirstFrame ==
    ASSUME TypeOK, InInv, Whole(rxbuf)
    PROVE  /\ rxbuf[1] \in Units /\ Head(rxbuf) = rxbuf[1] /\ IsHeader(rxbuf[1])
           /\ in[1] = rxbuf[1] /\ Whole(in)
           /\ PayloadOf(rxbuf) = Payload(rxbuf[1].message, rxbuf[1].from, rxbuf[1].n)
           /\ PayloadOf(rxbuf) \in Seq(Units)
           /\ Rest(rxbuf) \in Seq(Units)
           /\ Rest(rxbuf) \o inWire = Rest(in)
<1>1. /\ rxbuf \in Seq(Units) /\ inWire \in Seq(Units) /\ in \in Seq(Units)
      /\ Len(rxbuf) \in Nat /\ Len(inWire) \in Nat
  BY Sequences
<1>2. /\ Len(in) = Len(rxbuf) + Len(inWire)
      /\ \A i \in 1 .. Len(rxbuf) + Len(inWire) :
            in[i] = IF i <= Len(rxbuf) THEN rxbuf[i] ELSE inWire[i - Len(rxbuf)]
  BY <1>1, ConcatFacts DEF in
<1>3. Framed(in)
  BY DEF InInv, InFrom, Stream
<1>4. Len(rxbuf) <= Len(in) /\ \A i \in 1 .. Len(rxbuf) : rxbuf[i] = in[i]
  BY <1>1, <1>2
<1>5. Framed(rxbuf)
  BY <1>1, <1>3, <1>4, FramedPrefix
<1>6. /\ rxbuf[1] \in Units /\ Head(rxbuf) = rxbuf[1] /\ IsHeader(rxbuf[1]) /\ 1 \in 1 .. Len(rxbuf)
      /\ PayloadOf(rxbuf) = Payload(rxbuf[1].message, rxbuf[1].from, rxbuf[1].n)
      /\ Rest(rxbuf) \in Seq(Units)
  BY <1>1, <1>5, FramedRest
<1> DEFINE n == rxbuf[1].n
<1>7. n \in Nat /\ rxbuf[1].message \in Nat /\ rxbuf[1].from \in Nat
  BY <1>6 DEF Units
<1>8. PayloadOf(rxbuf) \in Seq(Units)
  <2>1. Payload(rxbuf[1].message, rxbuf[1].from, n) \in Seq(Units)
    BY <1>7, PayloadFacts
  <2>2. QED
    BY <1>6, <2>1
<1>9. in[1] = rxbuf[1]
  BY <1>4, <1>6
<1>10. in # <<>> /\ Head(in) = in[1]
  BY <1>1, <1>2, <1>6
<1>11. Len(rxbuf) > n
  BY <1>6 DEF Whole
<1>12. Whole(in)
  BY <1>4, <1>1, <1>7, <1>9, <1>10, <1>11 DEF Whole
<1>13. Rest(rxbuf) \o inWire = Rest(in)
  <2>1. Rest(rxbuf) = SubSeq(rxbuf, (1 + n) + 1, Len(rxbuf))
    BY <1>6 DEF Rest, FrameLength
  <2>2. Rest(in) = SubSeq(in, (1 + n) + 1, Len(in))
    BY <1>9, <1>10 DEF Rest, FrameLength
  <2>3. 1 + n \in 0 .. Len(rxbuf)
    BY <1>1, <1>7, <1>11
  <2>4. SubSeq(rxbuf, (1 + n) + 1, Len(rxbuf)) \o inWire
          = SubSeq(rxbuf \o inWire, (1 + n) + 1, Len(rxbuf \o inWire))
    <3> HIDE DEF n
    <3>1. QED
      BY <1>1, <2>3, DropFirst
  <2>5. QED
    BY <2>1, <2>2, <2>4 DEF in
<1>14. QED
  BY <1>6, <1>8, <1>9, <1>12, <1>13

LEMMA TypeInit == Init => TypeOK
<1>1. <<>> \in Seq(Units) /\ <<>> \in Seq(Nat) /\ <<>> \in Seq(Seq(Units))
  OBVIOUS
<1>2. ASSUME Init
      PROVE  /\ {rxbuf, txbuf, receivedData, inWire, outWire, texts} \subseteq Seq(Units)
             /\ {dispatched, atServer} \subseteq Seq(Seq(Units))
             /\ send_queue \in Seq(Nat)
  BY <1>1, <1>2, Zenon DEF Init
<1>3. ASSUME Init
      PROVE  /\ readyState \in {"OPEN", "CLOSING", "CLOSED"}
             /\ at \in {"recv", "send", "queue", "dispatch"}
             /\ {said, frames} \subseteq Nat
             /\ peer \in {"open", "closing", "closed", "reset"}
  BY <1>3, SMT DEF Init
<1>4. ASSUME Init PROVE second \in BOOLEAN /\ closeRead \in BOOLEAN
  BY <1>4, Zenon DEF Init
<1>5. QED
  BY <1>2, <1>3, <1>4 DEF TypeOK

LEMMA TypeStep ==
    ASSUME TypeOK, InInv, [Next]_vars
    PROVE  TypeOK'
<1> USE DEF client, server
<1>1. ASSUME NEW n \in 0 .. MaxLength, NEW fin \in BOOLEAN, ServerSends(n, fin)
      PROVE  TypeOK'
  <2> DEFINE h == NextText(n, fin)
  <2>1. n \in Nat
    BY BoundsAssumption
  <2>2. h \in Units
    BY <2>1, NextTextType DEF InInv
  <2>3. Frame(h) \in Seq(Units)
    BY <2>2, FrameType
  <2>4. texts' = Append(texts, h) /\ Transmits(Frame(h))
    BY <1>1 DEF ServerSends, NextText
  <2> HIDE DEF h
  <2>5. texts' \in Seq(Units) /\ inWire' \in Seq(Units) /\ frames' \in Nat
    BY <2>2, <2>3, <2>4, Sequences, SMTT(40) DEF Transmits
  <2>6. UNCHANGED <<client, send_queue, said, outWire, peer, atServer, closeRead>>
    BY <1>1 DEF ServerSends
  <2>7. QED
    BY <2>5, <2>6 DEF TypeOK
<1>2. ASSUME NEW op \in Ops \ {"text", "payload"}, NEW n \in Nat, ServerControls(op, n)
      PROVE  TypeOK'
  <2>1. Frame(Control(op, n)) \in Seq(Units)
    BY ControlType, FrameType DEF ControlHeaders
  <2>2. inWire' \in Seq(Units) /\ frames' \in Nat
    BY <1>2, <2>1, Sequences, SMTT(40) DEF ServerControls, Transmits
  <2>3. peer' \in {"open", "closing", "closed", "reset"}
    BY <1>2 DEF ServerControls
  <2>4. UNCHANGED <<client, send_queue, said, outWire, texts, atServer, closeRead>>
    BY <1>2 DEF ServerControls
  <2>5. QED
    BY <2>2, <2>3, <2>4 DEF TypeOK
<1>3. CASE ServerCloses
  BY <1>3 DEF ServerCloses, TypeOK
<1>4. CASE ConnectionResets
  <2>1. PICK n \in 0 .. Len(inWire) : inWire' = SubSeq(inWire, 1, n)
    BY <1>4 DEF ConnectionResets
  <2>2. inWire' \in Seq(Units)
    BY <2>1, Pieces, Sequences
  <2>3. /\ UNCHANGED <<client, send_queue, said, outWire, frames, texts, atServer, closeRead>>
        /\ peer' = "reset"
    BY <1>4 DEF ConnectionResets
  <2>4. QED
    BY <2>2, <2>3 DEF TypeOK
<1>5. CASE ServerReads
  <2>1. Whole(outWire)
    BY <1>5 DEF ServerReads
  <2>2. PayloadOf(outWire) \in Seq(Units) /\ Rest(outWire) \in Seq(Units)
    BY <2>1, Reads, Sequences
  <2>3. /\ outWire' = Rest(outWire)
        /\ atServer' = Append(atServer, PayloadOf(outWire)) \/ atServer' = atServer
        /\ closeRead' \in BOOLEAN
        /\ UNCHANGED <<client, send_queue, said, inWire, peer, frames, texts>>
    BY <1>5 DEF ServerReads, TypeOK
  <2>4. atServer \in Seq(Seq(Units))
    BY DEF TypeOK
  <2>5. atServer' \in Seq(Seq(Units))
    <3> DEFINE read == PayloadOf(outWire)
    <3>1. read \in Seq(Units) /\ (atServer' = Append(atServer, read) \/ atServer' = atServer)
      BY <2>2, <2>3
    <3> HIDE DEF read
    <3>2. QED
      BY <2>4, <3>1, SMTT(40)
  <2>6. QED
    BY <2>2, <2>3, <2>5 DEF TypeOK
<1>6. CASE Send
  <2>1. send_queue' \in Seq(Nat) /\ said' \in Nat
    BY <1>6 DEF Send, TypeOK
  <2>2. UNCHANGED <<client, inWire, outWire, server>>
    BY <1>6 DEF Send
  <2>3. QED
    BY <2>1, <2>2 DEF TypeOK
<1>7. CASE PollsClosed
  BY <1>7 DEF PollsClosed, TypeOK, AfterPoll
<1>8. CASE Receives
  <2>1. PICK n \in 1 .. (IF Len(inWire) < MaxRecv THEN Len(inWire) ELSE MaxRecv) :
          /\ rxbuf' = rxbuf \o SubSeq(inWire, 1, n)
          /\ inWire' = SubSeq(inWire, n + 1, Len(inWire))
    BY <1>8 DEF Receives
  <2>2. n \in 0 .. Len(inWire)
    BY <2>1, Sequences, SocketAssumption, SMTT(40)
  <2>3. inWire' \in Seq(Units) /\ SubSeq(inWire, 1, n) \in Seq(Units)
    BY <2>1, <2>2, Pieces, Sequences
  <2>4. rxbuf' \in Seq(Units)
    BY <2>1, <2>3, Sequences
  <2>5. UNCHANGED <<readyState, txbuf, receivedData, at, second, dispatched,
                   send_queue, said, outWire, server>>
    BY <1>8 DEF Receives
  <2>6. QED
    BY <2>3, <2>4, <2>5 DEF TypeOK
<1>9. CASE ReceivesNothing
  BY <1>9 DEF ReceivesNothing, TypeOK
<1>10. CASE ConnectionEnds
  BY <1>10 DEF ConnectionEnds, TypeOK
<1>11. CASE Flushes
  <2>1. PICK n \in 1 .. Len(txbuf) :
          /\ outWire' = outWire \o SubSeq(txbuf, 1, n)
          /\ txbuf' = SubSeq(txbuf, n + 1, Len(txbuf))
    BY <1>11 DEF Flushes
  <2>2. n \in 0 .. Len(txbuf)
    BY <2>1
  <2>3. txbuf' \in Seq(Units) /\ SubSeq(txbuf, 1, n) \in Seq(Units)
    BY <2>1, <2>2, Pieces, Sequences
  <2>4. outWire' \in Seq(Units)
    BY <2>1, <2>3, Sequences
  <2>5. UNCHANGED <<readyState, rxbuf, receivedData, at, second, dispatched,
                   send_queue, said, inWire, server>>
    BY <1>11 DEF Flushes
  <2>6. QED
    BY <2>3, <2>4, <2>5 DEF TypeOK
<1>12. CASE FlushBlocks
  BY <1>12 DEF FlushBlocks, TypeOK, AfterPoll
<1>13. CASE FlushFails
  BY <1>13 DEF FlushFails, TypeOK, AfterPoll
<1>14. CASE FlushEnds
  BY <1>14 DEF FlushEnds, TypeOK, AfterPoll
<1>15. CASE SendsQueued
  <2> DEFINE m == Head(send_queue)
  <2>1. m \in Nat /\ send_queue' \in Seq(Nat)
    BY <1>15 DEF SendsQueued, TypeOK
  <2>2. Frame(Header("text", TRUE, 1, m, m, 0)) \in Seq(Units)
    BY <2>1, SendTexts, FrameType
  <2>3. txbuf' \in Seq(Units)
    BY <1>15, <2>2, SendsType DEF SendsQueued
  <2>4. /\ UNCHANGED <<readyState, rxbuf, receivedData, dispatched, said, inWire, outWire, server>>
        /\ at' = "recv" /\ second' = TRUE
    BY <1>15 DEF SendsQueued
  <2>5. QED
    BY <2>1, <2>3, <2>4 DEF TypeOK
<1>16. CASE QueueEmpty
  BY <1>16 DEF QueueEmpty, TypeOK
<1>17. ASSUME NEW ops, Dispatches(ops)
       PROVE  /\ rxbuf' \in Seq(Units) /\ PayloadOf(rxbuf) \in Seq(Units)
              /\ rxbuf[1] \in Units /\ Head(rxbuf) = rxbuf[1]
              /\ UNCHANGED <<at, second, send_queue, said, inWire, outWire, server>>
  BY <1>17, FirstFrame DEF Dispatches
<1>18. CASE DispatchesData
  <2>1. Dispatches({"text"}) /\ UNCHANGED <<readyState, txbuf>>
    BY <1>18 DEF DispatchesData
  <2>2. /\ rxbuf' \in Seq(Units) /\ PayloadOf(rxbuf) \in Seq(Units)
        /\ UNCHANGED <<at, second, send_queue, said, inWire, outWire, server>>
    BY <1>17, <2>1
  <2> DEFINE received == receivedData \o PayloadOf(rxbuf)
  <2>3. received \in Seq(Units)
    BY <2>2, Sequences
  <2>4. \/ dispatched' = Append(dispatched, received) /\ receivedData' = <<>>
        \/ receivedData' = received /\ UNCHANGED dispatched
    BY <1>18 DEF DispatchesData
  <2> HIDE DEF received
  <2>5. receivedData' \in Seq(Units) /\ dispatched' \in Seq(Seq(Units))
    <3>1. dispatched \in Seq(Seq(Units)) /\ <<>> \in Seq(Units)
      BY DEF TypeOK
    <3>2. CASE dispatched' = Append(dispatched, received) /\ receivedData' = <<>>
      BY <2>3, <3>1, <3>2
    <3>3. CASE receivedData' = received /\ UNCHANGED dispatched
      BY <2>3, <3>1, <3>3
    <3>4. QED
      BY <2>4, <3>2, <3>3
  <2>6. QED
    BY <2>1, <2>2, <2>5 DEF TypeOK
<1>19. CASE DispatchesPing
  <2>1. /\ Dispatches({"ping"}) /\ UNCHANGED <<readyState, receivedData, dispatched>>
        /\ sendData(<<Control("pong", Head(rxbuf).n)>> \o PayloadOf(rxbuf))
    BY <1>19 DEF DispatchesPing
  <2>2. /\ rxbuf' \in Seq(Units) /\ PayloadOf(rxbuf) \in Seq(Units)
        /\ rxbuf[1] \in Units /\ Head(rxbuf) = rxbuf[1]
        /\ UNCHANGED <<at, second, send_queue, said, inWire, outWire, server>>
    BY <1>17, <2>1
  <2>3. Control("pong", Head(rxbuf).n) \in Units
    <3>1. Head(rxbuf).n \in Nat
      BY <2>2 DEF Units
    <3>2. "pong" \in Ops \ {"text", "payload"}
      BY DEF Ops
    <3>3. QED
      BY <3>1, <3>2, ControlType DEF ControlHeaders
  <2>4. <<Control("pong", Head(rxbuf).n)>> \o PayloadOf(rxbuf) \in Seq(Units)
    BY <2>2, <2>3
  <2>5. txbuf' \in Seq(Units)
    BY <2>1, <2>4, SendsType
  <2>6. QED
    BY <2>1, <2>2, <2>5 DEF TypeOK
<1>20. CASE DispatchesPong
  <2>1. Dispatches({"pong"}) /\ UNCHANGED <<readyState, txbuf, receivedData, dispatched>>
    BY <1>20 DEF DispatchesPong
  <2>2. /\ rxbuf' \in Seq(Units)
        /\ UNCHANGED <<at, second, send_queue, said, inWire, outWire, server>>
    BY <1>17, <2>1
  <2>3. QED
    BY <2>1, <2>2 DEF TypeOK
<1>21. CASE DispatchesClose
  <2>1. /\ Dispatches({"close", "other", "payload"}) /\ close
        /\ UNCHANGED <<receivedData, dispatched>>
    BY <1>21 DEF DispatchesClose
  <2>2. /\ rxbuf' \in Seq(Units)
        /\ UNCHANGED <<at, second, send_queue, said, inWire, outWire, server>>
    BY <1>17, <2>1
  <2>3. Frame(Control("close", 0)) \in Seq(Units)
    <3>1. "close" \in Ops \ {"text", "payload"} /\ 0 \in Nat
      BY DEF Ops
    <3>2. QED
      BY <3>1, ControlType, FrameType DEF ControlHeaders
  <2>4. txbuf' \in Seq(Units) /\ readyState' \in {"OPEN", "CLOSING", "CLOSED"}
    <3>1. /\ txbuf' = txbuf \o Frame(Control("close", 0)) \/ txbuf' = txbuf
          /\ readyState' = "CLOSING" \/ readyState' = readyState
      BY <2>1 DEF close
    <3>2. txbuf \in Seq(Units)
      BY Sequences
    <3>3. txbuf' \in Seq(Units)
      <4> DEFINE f == Frame(Control("close", 0))
      <4>1. f \in Seq(Units) /\ (txbuf' = txbuf \o f \/ txbuf' = txbuf)
        BY <2>3, <3>1
      <4> HIDE DEF f
      <4>2. txbuf \o f \in Seq(Units)
        BY <3>2, <4>1
      <4>3. QED
        BY <3>2, <4>1, <4>2
    <3>4. QED
      BY <3>1, <3>3 DEF TypeOK
  <2>5. QED
    BY <2>1, <2>2, <2>4 DEF TypeOK
<1>22. CASE DispatchReturns
  BY <1>22 DEF DispatchReturns, TypeOK
<1>23. CASE UNCHANGED vars
  BY <1>23 DEF vars, TypeOK
<1>24. ASSUME Server PROVE TypeOK'
  <2>1. MaxLength \in Nat /\ 0 \in Nat
    BY BoundsAssumption
  <2>2. {"ping", "pong", "close", "other"} \subseteq Ops \ {"text", "payload"}
    BY DEF Ops
  <2>3. QED
    BY <1>1, <1>2, <1>3, <1>4, <1>24, <2>1, <2>2 DEF Server
<1>25. ASSUME Loop PROVE TypeOK'
  BY <1>7, <1>8, <1>9, <1>10, <1>11, <1>12, <1>13, <1>14, <1>15, <1>16, <1>18, <1>19,
     <1>20, <1>21, <1>22, <1>25 DEF Loop
<1>26. QED
  BY <1>5, <1>6, <1>23, <1>24, <1>25 DEF Next

-----------------------------------------------------------------------------
(* From the server to onMessage                                              *)

\* Receiving moves units from inWire to rxbuf and leaves the stream as it is;
\* so does all that happens at the other stream.
LEMMA InKept ==
    ASSUME TypeOK, InInv, in' = in, UNCHANGED <<texts, dispatched, receivedData>>,
           peer' # "reset" => peer # "reset"
    PROVE  InInv'
<1>1. TextsLinked' /\ HeardIntact'
  BY DEF InInv, TextsLinked, HeardIntact, ToldBy, Offset, Told, Latest
<1>2. PICK done \in 0 .. Len(texts) : InFrom(done)
  BY DEF InInv
<1>3. InHeaders' = InHeaders
  BY DEF InHeaders
<1>4. Received(done)'
  BY <1>2 DEF InFrom, Received, ToldBy, Offset
<1>5. InFrom(done)'
  BY <1>2, <1>3, <1>4 DEF InFrom
<1>6. QED
  BY <1>1, <1>5 DEF InInv

LEMMA StreamMore ==
    ASSUME NEW headers, NEW more, headers \subseteq more,
           NEW done, NEW s, Stream(s, headers, done)
    PROVE  Stream(s, more, done)
  BY DEF Stream, Carries

\* When the connection is reset the end of the stream is lost.
LEMMA InCut ==
    ASSUME TypeOK, InInv, NEW n \in 0 .. Len(inWire), inWire' = SubSeq(inWire, 1, n),
           UNCHANGED <<rxbuf, texts, dispatched, receivedData>>, peer' = "reset"
    PROVE  InInv'
<1>1. TextsLinked' /\ HeardIntact'
  BY DEF InInv, TextsLinked, HeardIntact, ToldBy, Offset, Told, Latest
<1>2. PICK done \in 0 .. Len(texts) : InFrom(done)
  BY DEF InInv
<1>3. InHeaders' = InHeaders /\ done \in Nat
  BY <1>2, Sequences DEF InHeaders
<1>4. Received(done)'
  BY <1>2 DEF InFrom, Received, ToldBy, Offset
<1>5. Stream(in', InHeaders, done)
  <2> DEFINE x == SubSeq(inWire, 1, n)
  <2>1. /\ rxbuf \in Seq(Units) /\ inWire \in Seq(Units) /\ Len(rxbuf) \in Nat
        /\ Len(inWire) \in Nat /\ n \in Nat /\ n <= Len(inWire)
    BY Sequences
  <2>2. 1 \in Nat \ {0} /\ 1 <= n + 1 /\ n - 1 + 1 = n /\ \A i \in 1 .. n : 1 + i - 1 = i
    BY <2>1
  <2>3. x \in Seq(Units) /\ Len(x) = n /\ \A i \in 1 .. n : x[i] = inWire[i]
    BY <2>1, <2>2, SubSeqFacts
  <2> HIDE DEF x
  <2>4. /\ Len(in) = Len(rxbuf) + Len(inWire)
        /\ \A i \in 1 .. Len(rxbuf) + Len(inWire) :
              in[i] = IF i <= Len(rxbuf) THEN rxbuf[i] ELSE inWire[i - Len(rxbuf)]
    BY <2>1, ConcatFacts DEF in
  <2> DEFINE t == rxbuf \o x
  <2>5. /\ t \in Seq(Units) /\ Len(t) = Len(rxbuf) + Len(x)
        /\ \A i \in 1 .. Len(rxbuf) + Len(x) :
              t[i] = IF i <= Len(rxbuf) THEN rxbuf[i] ELSE x[i - Len(rxbuf)]
    BY <2>1, <2>3, ConcatFacts
  <2>6. in' = t
    BY DEF in, t, x
  <2> HIDE DEF t
  <2>7. Len(t) <= Len(in)
    BY <2>1, <2>3, <2>4, <2>5
  <2>8. ASSUME NEW i \in 1 .. Len(t) PROVE t[i] = in[i]
    <3>1. CASE i <= Len(rxbuf)
      <4>1. i \in 1 .. n + Len(rxbuf) /\ i \in 1 .. Len(rxbuf) + Len(inWire) /\ i \in 1 .. Len(rxbuf) + Len(x)
        BY <2>1, <2>3, <2>5
      <4>2. t[i] = rxbuf[i]
        BY <2>5, <3>1, <4>1
      <4>3. in[i] = rxbuf[i]
        BY <2>4, <3>1, <4>1
      <4>4. QED
        BY <4>2, <4>3
    <3>2. CASE ~(i <= Len(rxbuf))
      <4>1. i - Len(rxbuf) \in 1 .. n
        BY <2>1, <2>3, <2>5, <3>2
      <4>2. t[i] = x[i - Len(rxbuf)]
        BY <2>1, <2>3, <2>5, <3>2
      <4>3. in[i] = inWire[i - Len(rxbuf)]
        BY <2>1, <2>3, <2>4, <2>5, <3>2
      <4>4. QED
        BY <2>3, <4>1, <4>2, <4>3
    <3>3. QED
      BY <3>1, <3>2
  <2>9. Stream(t, InHeaders, done)
    BY <1>2, <1>3, <2>5, <2>7, <2>8, StreamPrefix DEF InFrom
  <2>10. QED
    BY <2>6, <2>9
<1>6. InFrom(done)'
  BY <1>3, <1>4, <1>5 DEF InFrom
<1>7. QED
  BY <1>1, <1>6 DEF InInv

LEMMA InAppended ==
    ASSUME TypeOK, NEW h \in Units, inWire' = inWire \o Frame(h), rxbuf' = rxbuf
    PROVE  in' = in \o Frame(h)
<1> DEFINE f == Frame(h)
<1>1. f \in Seq(Units)
  BY FrameFacts DEF IsFrame
<1> HIDE DEF f
<1>2. (rxbuf \o inWire) \o f = rxbuf \o (inWire \o f)
  <2>1. rxbuf \in Seq(Units) /\ inWire \in Seq(Units)
    BY Sequences
  <2>2. \A a, b, c \in Seq(Units) : (a \o b) \o c = a \o (b \o c)
    BY Assoc
  <2>3. QED
    BY <1>1, <2>1, <2>2
<1>3. QED
  BY <1>2 DEF in, f

\* A control frame of the server.
LEMMA InControl ==
    ASSUME TypeOK, InInv, NEW h \in ControlHeaders, inWire' = inWire \o Frame(h),
           UNCHANGED <<rxbuf, texts, dispatched, receivedData>>, peer = "open"
    PROVE  InInv'
<1>1. TextsLinked' /\ HeardIntact'
  BY DEF InInv, TextsLinked, HeardIntact, ToldBy, Offset, Told, Latest
<1>2. PICK done \in 0 .. Len(texts) : InFrom(done)
  BY DEF InInv
<1>3. InHeaders' = InHeaders /\ done \in Nat /\ Len(texts) \in Nat
  BY <1>2, Sequences DEF InHeaders
<1>4. Received(done)'
  BY <1>2 DEF InFrom, Received, ToldBy, Offset
<1>5. h \in Units \cap InHeaders /\ IsHeader(h) /\ ~IsText(h) /\ IsFrame(Frame(h), h)
  BY FrameFacts DEF InHeaders, ControlHeaders
<1>6. in' = in \o Frame(h)
  BY <1>5, InAppended
<1>7. Stream(in, InHeaders, done) /\ Uncut(in) /\ Ends(in, done, Len(texts))
  BY <1>2 DEF InFrom
<1>8. /\ Stream(in \o Frame(h), InHeaders, done)
      /\ Uncut(in \o Frame(h))
      /\ Ends(in \o Frame(h), done, Len(texts))
  BY <1>3, <1>5, <1>7, StreamAppend
<1>9. InFrom(done)'
  BY <1>3, <1>4, <1>6, <1>8 DEF InFrom
<1>10. QED
  BY <1>1, <1>9 DEF InInv

\* A text frame of the server goes on with the message that is begun, or
\* begins the next one.
LEMMA LinkedMore ==
    ASSUME TypeOK, TextsLinked, NEW n \in Nat, NEW fin \in BOOLEAN,
           texts' = Append(texts, NextText(n, fin))
    PROVE  /\ TextsLinked'
           /\ Told' = IF fin THEN Told + 1 ELSE Told
           /\ \A m \in 0 .. Len(texts) : ToldBy(m)' = ToldBy(m) /\ Offset(m)' = Offset(m)
           /\ Len(texts') = Len(texts) + 1
           /\ \A m \in 1 .. Len(texts) : texts'[m] = texts[m]
           /\ texts'[Len(texts) + 1] = NextText(n, fin)
<1> DEFINE h == NextText(n, fin)
           L == Len(texts)
<1>1. /\ h \in Units /\ h.op = "text" /\ h.fin = fin /\ h.no = L + 1
      /\ h.message = Told + 1 /\ h.from = Offset(L)
  <2>1. /\ h.op = "text" /\ h.fin = fin /\ h.no = L + 1 /\ h.message = Told + 1
        /\ h.from = IF Partial THEN Latest.from + Latest.n ELSE 0
    BY DEF NextText, Header
  <2>2. h \in Units
    BY NextTextType
  <2>3. QED
    BY <2>1, <2>2, Linked
<1>2. /\ texts \in Seq(Units) /\ L \in Nat
  BY Sequences
<1>3. /\ Told = ToldBy(L) /\ Told \in Nat
      /\ \A m \in 0 .. L : ToldBy(m) \in Nat /\ ToldBy(m) <= Told
  BY Linked
<1> HIDE DEF h
<1>4. /\ Len(texts') = L + 1 /\ texts' # <<>>
      /\ \A m \in 1 .. L : texts'[m] = texts[m]
      /\ texts'[L + 1] = h
  BY <1>1, <1>2 DEF h
<1> HIDE DEF L
<1>5. Told' = IF fin THEN Told + 1 ELSE Told
  <2>1. Latest' = h
    BY <1>4 DEF Latest
  <2>2. Told' = IF h.fin THEN h.message ELSE h.message - 1
    BY <1>4, <2>1 DEF Told
  <2>3. QED
    BY <1>1, <1>3, <2>2
<1>6. ASSUME NEW m \in 0 .. L PROVE ToldBy(m)' = ToldBy(m) /\ Offset(m)' = Offset(m)
  <2>1. CASE m = 0
    BY <2>1 DEF ToldBy, Offset
  <2>2. CASE m # 0
    <3>1. texts'[m] = texts[m]
      BY <1>2, <1>4, <2>2
    <3>2. QED
      BY <2>2, <3>1 DEF ToldBy, Offset
  <2>3. QED
    BY <2>1, <2>2
<1>7. ASSUME NEW m \in 1 .. L + 1
      PROVE  /\ IsText(texts'[m]) /\ texts'[m].no = m
             /\ texts'[m].message = ToldBy(m - 1)' + 1
             /\ texts'[m].from = Offset(m - 1)'
             /\ ToldBy(m)' \in Nat /\ ToldBy(m)' <= Told'
  <2>1. CASE m \in 1 .. L
    <3>1. /\ m - 1 \in 0 .. L /\ m \in 0 .. L
      BY <1>2, <2>1
    <3>2. /\ texts'[m] = texts[m] /\ ToldBy(m)' = ToldBy(m)
          /\ ToldBy(m - 1)' = ToldBy(m - 1) /\ Offset(m - 1)' = Offset(m - 1)
      BY <1>4, <1>6, <2>1, <3>1
    <3>3. /\ IsText(texts[m]) /\ texts[m].no = m
          /\ texts[m].message = ToldBy(m - 1) + 1
          /\ texts[m].from = Offset(m - 1)
      BY <2>1 DEF TextsLinked, L
    <3>4. ToldBy(m) \in Nat /\ ToldBy(m) <= Told'
      BY <1>3, <1>5, <3>1
    <3>5. QED
      BY <3>2, <3>3, <3>4
  <2>2. CASE m = L + 1
    <3>1. /\ m - 1 = L /\ L \in 0 .. L /\ m # 0
      BY <1>2, <2>2
    <3>2. texts'[m] = h
      BY <1>4, <2>2
    <3>3. /\ ToldBy(m - 1)' = Told /\ Offset(m - 1)' = Offset(L)
      BY <1>3, <1>6, <3>1
    <3>4. ToldBy(m)' = IF h.fin THEN h.message ELSE h.message - 1
      BY <3>1, <3>2 DEF ToldBy
    <3>5. ToldBy(m)' = Told'
      BY <1>1, <1>3, <1>5, <3>4
    <3>6. Told' \in Nat
      BY <1>3, <1>5
    <3>7. IsText(h) /\ h.no = m /\ h.message = Told + 1 /\ h.from = Offset(L)
      BY <1>1, <2>2 DEF IsText
    <3>8. QED
      BY <3>2, <3>3, <3>5, <3>6, <3>7
  <2>3. m \in 1 .. L \/ m = L + 1
    BY <1>2
  <2>4. QED
    BY <2>1, <2>2, <2>3
<1>8. TextsLinked'
  BY <1>4, <1>7 DEF TextsLinked
<1>9. QED
  BY <1>4, <1>5, <1>6, <1>8 DEF h, L

LEMMA InText ==
    ASSUME TypeOK, InInv, NEW n \in Nat, NEW fin \in BOOLEAN,
           texts' = Append(texts, NextText(n, fin)),
           inWire' = inWire \o Frame(NextText(n, fin)),
           UNCHANGED <<rxbuf, dispatched, receivedData, peer>>, peer = "open"
    PROVE  InInv'
<1> DEFINE h == NextText(n, fin)
           L == Len(texts)
<1>0. TextsLinked /\ HeardIntact
  BY DEF InInv
<1>1. /\ TextsLinked'
      /\ \A m \in 0 .. L : ToldBy(m)' = ToldBy(m) /\ Offset(m)' = Offset(m)
      /\ Len(texts') = L + 1
      /\ \A m \in 1 .. L : texts'[m] = texts[m]
      /\ texts'[L + 1] = h
  BY <1>0, LinkedMore
<1>2. PICK done \in 0 .. L : InFrom(done)
  BY DEF InInv
<1>3. L \in Nat /\ done \in Nat
  BY Sequences
<1>4. h \in Units /\ IsText(h) /\ IsHeader(h) /\ h.no = L + 1
  <2>1. h \in Units
    BY <1>0, NextTextType
  <2>2. IsText(h) /\ h.no = L + 1
    BY DEF NextText, Header, IsText
  <2>3. QED
    BY <2>1, <2>2, TextIsHeader
<1>5. IsFrame(Frame(h), h)
  BY <1>4, FrameFacts
<1>6. in' = in \o Frame(h)
  BY <1>4, InAppended
<1> HIDE DEF h, L
<1>7. InHeaders \subseteq InHeaders' /\ h \in InHeaders'
  <2>1. \A m \in 1 .. L : m \in 1 .. L + 1
    BY <1>3
  <2>2. L + 1 \in 1 .. L + 1
    BY <1>3
  <2>3. QED
    BY <1>1, <2>1, <2>2 DEF InHeaders, L
<1>8. Stream(in, InHeaders', done) /\ Uncut(in) /\ Ends(in, done, L)
  BY <1>2, <1>7, StreamMore DEF InFrom, L
<1>9. h \in Units \cap InHeaders'
  BY <1>4, <1>7
<1>10. /\ Stream(in \o Frame(h), InHeaders', done)
       /\ Uncut(in \o Frame(h))
       /\ Ends(in \o Frame(h), done, L + 1)
  <2> DEFINE H == InHeaders'
             f == Frame(h)
  <2>1. Stream(in, H, done) /\ h \in Units \cap H /\ IsFrame(f, h)
    BY <1>5, <1>8, <1>9
  <2> HIDE DEF H, f
  <2>2. /\ Stream(in \o f, H, done)
        /\ Uncut(in \o f)
        /\ Ends(in \o f, done, L + 1)
    BY <1>3, <1>4, <1>8, <2>1, StreamAppend
  <2>3. QED
    BY <2>2 DEF H, f
<1>11. Received(done)'
  BY <1>1, <1>2 DEF InFrom, Received
<1>12. InFrom(done)'
  BY <1>1, <1>6, <1>10, <1>11 DEF InFrom
<1>13. done \in 0 .. Len(texts')
  BY <1>1, <1>2, <1>3
<1>14. HeardIntact'
  <2>1. \A m \in 1 .. L : m \in 1 .. Len(texts')
    BY <1>1, <1>3
  <2>2. SUFFICES ASSUME NEW i \in 1 .. Len(dispatched)
                 PROVE  \E t \in 1 .. Len(texts') :
                            /\ texts'[t].fin /\ texts'[t].message = i
                            /\ dispatched[i] = Payload(i, 0, texts'[t].from + texts'[t].n)
    BY DEF HeardIntact
  <2>3. PICK t \in 1 .. L : /\ texts[t].fin /\ texts[t].message = i
                            /\ dispatched[i] = Payload(i, 0, texts[t].from + texts[t].n)
    BY <1>0 DEF HeardIntact, L
  <2>4. texts'[t] = texts[t] /\ t \in 1 .. Len(texts')
    BY <1>1, <2>1, <2>3
  <2>5. QED
    BY <2>3, <2>4
<1>15. QED
  BY <1>1, <1>12, <1>13, <1>14 DEF InInv

\* A frame that is no text frame is taken from the stream.
LEMMA InTaken ==
    ASSUME TypeOK, InInv, Whole(rxbuf), ~IsText(rxbuf[1]), rxbuf' = Rest(rxbuf),
           UNCHANGED <<inWire, texts, dispatched, receivedData, peer>>
    PROVE  InInv'
<1>1. TextsLinked' /\ HeardIntact'
  BY DEF InInv, TextsLinked, HeardIntact, ToldBy, Offset, Told, Latest
<1>2. PICK done \in 0 .. Len(texts) : InFrom(done)
  BY DEF InInv
<1>3. InHeaders' = InHeaders /\ done \in Nat /\ Len(texts) \in Nat
  BY <1>2, Sequences DEF InHeaders
<1>4. Received(done)'
  BY <1>2 DEF InFrom, Received, ToldBy, Offset
<1>5. in[1] = rxbuf[1] /\ Whole(in) /\ in' = Rest(in)
  BY FirstFrame DEF in
<1>6. Counted(in, done) = done
  BY <1>5 DEF Counted
<1>7. Stream(in, InHeaders, done) /\ (peer # "reset" => Uncut(in) /\ Ends(in, done, Len(texts)))
  BY <1>2 DEF InFrom
<1>8. /\ Stream(Rest(in), InHeaders, done)
      /\ peer # "reset" => Uncut(Rest(in)) /\ Ends(Rest(in), done, Len(texts))
  <2>1. /\ Stream(Rest(in), InHeaders, Counted(in, done))
        /\ Uncut(in) => Uncut(Rest(in))
        /\ \A last \in Nat : Ends(in, done, last) => Ends(Rest(in), Counted(in, done), last)
    BY <1>3, <1>5, <1>7, StreamRest
  <2>2. QED
    BY <1>3, <1>6, <1>7, <2>1
<1>9. InFrom(done)'
  BY <1>3, <1>4, <1>5, <1>8 DEF InFrom
<1>10. QED
  BY <1>1, <1>9 DEF InInv

\* A text frame is dispatched: it is the next one, and it continues what is
\* kept of its message.
LEMMA InDispatched ==
    ASSUME TypeOK, InInv, DispatchesData
    PROVE  /\ InInv'
           /\ Len(dispatched') = Len(dispatched)
              \/ (Len(dispatched') = Len(dispatched) + 1 /\ Len(dispatched) < Told)
<1> DEFINE h == rxbuf[1]
           L == Len(texts)
<1>1. /\ Whole(rxbuf) /\ Head(rxbuf).op = "text" /\ rxbuf' = Rest(rxbuf)
      /\ UNCHANGED <<inWire, texts, peer>>
  BY DEF DispatchesData, Dispatches, server
<1>2. /\ h \in Units /\ Head(rxbuf) = h /\ IsHeader(h)
      /\ in[1] = h /\ Whole(in) /\ in' = Rest(in)
      /\ PayloadOf(rxbuf) = Payload(h.message, h.from, h.n)
  BY <1>1, FirstFrame DEF in
<1>3. IsText(h) /\ h.op = "text"
  BY <1>1, <1>2 DEF IsText
<1>4. PICK done \in 0 .. L : InFrom(done)
  BY DEF InInv
<1>5. /\ L \in Nat /\ done \in Nat /\ texts \in Seq(Units)
      /\ dispatched \in Seq(Seq(Units)) /\ receivedData \in Seq(Units)
  BY Sequences DEF TypeOK
<1>6. InHeaders' = InHeaders
  BY <1>1 DEF InHeaders
<1>7. TextsLinked /\ HeardIntact
  BY DEF InInv
<1>8. /\ Stream(in, InHeaders, done) /\ (peer # "reset" => Uncut(in) /\ Ends(in, done, L))
      /\ Received(done)
  BY <1>4 DEF InFrom
<1> HIDE DEF h, L
<1>9. Counted(in, done) = done + 1
  BY <1>2, <1>3 DEF Counted
<1>10. /\ h \in InHeaders /\ h.no = done + 1
       /\ Stream(Rest(in), InHeaders, done + 1)
       /\ peer # "reset" => Uncut(Rest(in)) /\ Ends(Rest(in), done + 1, L)
  <2>1. /\ in[1] \in InHeaders
        /\ IsText(in[1]) => in[1].no = done + 1
        /\ Stream(Rest(in), InHeaders, Counted(in, done))
        /\ Uncut(in) => Uncut(Rest(in))
        /\ \A last \in Nat : Ends(in, done, last) => Ends(Rest(in), Counted(in, done), last)
    BY <1>2, <1>5, <1>8, StreamRest
  <2>2. QED
    BY <1>2, <1>3, <1>5, <1>8, <1>9, <2>1
<1>11. done + 1 \in 1 .. L /\ h = texts[done + 1]
  <2>1. PICK m \in 1 .. L : h = texts[m]
    BY <1>3, <1>10 DEF InHeaders, ControlHeaders, L
  <2>2. h.no = m
    BY <1>7, <2>1 DEF TextsLinked, L
  <2>3. QED
    BY <1>10, <2>1, <2>2
<1> DEFINE M == ToldBy(done) + 1
           O == Offset(done)
<1>12. /\ h.message = M /\ h.from = O /\ ToldBy(done + 1) <= Told
  <2>1. (done + 1) - 1 = done
    BY <1>5
  <2>2. QED
    BY <1>7, <1>11, <2>1 DEF TextsLinked, L
<1>13. ToldBy(done) \in Nat /\ O \in Nat /\ M \in Nat /\ Told \in Nat /\ h.n \in Nat
  <2>1. done \in 0 .. Len(texts)
    BY <1>4 DEF L
  <2>2. ToldBy(done) \in Nat /\ O \in Nat /\ Told \in Nat
    BY <1>7, <2>1, Linked
  <2>3. h.n \in Nat
    BY <1>2 DEF Units
  <2>4. QED
    BY <2>2, <2>3
<1>14. /\ ToldBy(done + 1) = IF h.fin THEN M ELSE M - 1
       /\ Offset(done + 1) = IF h.fin THEN 0 ELSE O + h.n
  <2>1. done + 1 # 0
    BY <1>5
  <2>2. /\ ToldBy(done + 1) = IF h.fin THEN h.message ELSE h.message - 1
        /\ Offset(done + 1) = IF h.fin THEN 0 ELSE h.from + h.n
    BY <1>11, <2>1 DEF ToldBy, Offset
  <2>3. QED
    BY <1>12, <2>2
<1>15. Len(dispatched) = M - 1 /\ receivedData = Payload(M, 0, O)
  BY <1>8, <1>13 DEF Received
<1> HIDE DEF M, O
<1> DEFINE whole == Payload(M, 0, O + h.n)
<1>16. receivedData \o PayloadOf(rxbuf) = whole
  <2>1. PayloadOf(rxbuf) = Payload(M, O, h.n)
    BY <1>2, <1>12
  <2>2. Payload(M, 0, O) \o Payload(M, O, h.n) = whole
    BY <1>13, PayloadJoin
  <2>3. QED
    BY <1>15, <2>1, <2>2
<1>17. IF h.fin THEN dispatched' = Append(dispatched, whole) /\ receivedData' = <<>>
               ELSE receivedData' = whole /\ dispatched' = dispatched
  BY <1>2, <1>16 DEF DispatchesData
<1>18. TextsLinked'
  BY <1>1, <1>7 DEF TextsLinked, ToldBy, Offset, Told, Latest
<1>19. /\ whole \in Seq(Units)
       /\ Payload(ToldBy(done + 1) + 1, 0, 0) = <<>>
  <2>1. O + h.n \in Nat /\ 0 \in Nat
    BY <1>13
  <2>2. whole \in Seq(Units)
    BY <1>13, <2>1, PayloadFacts
  <2>3. \A m : Payload(m, 0, 0) = <<>>
    BY DEF Payload
  <2>4. QED
    BY <2>2, <2>3
<1> HIDE DEF whole
<1>20. CASE h.fin
  <2>1. dispatched' = Append(dispatched, whole) /\ receivedData' = <<>>
    BY <1>17, <1>20
  <2>2. /\ Len(dispatched') = M
        /\ \A i \in 1 .. M - 1 : dispatched'[i] = dispatched[i]
        /\ dispatched'[M] = whole
    <3>1. /\ Len(dispatched') = Len(dispatched) + 1
          /\ \A i \in 1 .. Len(dispatched) : dispatched'[i] = dispatched[i]
          /\ dispatched'[Len(dispatched) + 1] = whole
      BY <1>5, <1>19, <2>1
    <3>2. Len(dispatched) + 1 = M
      BY <1>13, <1>15 DEF M
    <3>3. QED
      BY <1>15, <3>1, <3>2
  <2>3. ToldBy(done + 1)' = ToldBy(done + 1) /\ Offset(done + 1)' = Offset(done + 1)
    BY <1>1 DEF ToldBy, Offset
  <2>4. Received(done + 1)'
    <3>1. Len(dispatched') = ToldBy(done + 1) /\ Offset(done + 1) = 0
      BY <1>14, <1>20, <2>2
    <3>2. receivedData' = Payload(ToldBy(done + 1) + 1, 0, Offset(done + 1))
      BY <1>19, <2>1, <3>1
    <3>3. QED
      BY <2>3, <3>1, <3>2 DEF Received
  <2>5. HeardIntact'
    <3>1. SUFFICES ASSUME NEW i \in 1 .. M
                   PROVE  \E t \in 1 .. L :
                            /\ texts[t].fin /\ texts[t].message = i
                            /\ dispatched'[i] = Payload(i, 0, texts[t].from + texts[t].n)
      BY <1>1, <2>2 DEF HeardIntact, L
    <3>2. CASE i = M
      BY <1>11, <1>12, <1>20, <2>2, <3>2 DEF whole
    <3>3. CASE i # M
      <4>1. i \in 1 .. M - 1 /\ i \in 1 .. Len(dispatched)
        BY <1>13, <1>15, <3>3
      <4>2. dispatched'[i] = dispatched[i]
        BY <2>2, <4>1
      <4>3. QED
        BY <1>7, <4>1, <4>2 DEF HeardIntact, L
    <3>4. QED
      BY <3>2, <3>3
  <2>6. InFrom(done + 1)'
    BY <1>1, <1>2, <1>6, <1>10, <2>4 DEF InFrom, L
  <2>7. done + 1 \in 0 .. Len(texts')
    BY <1>1, <1>11 DEF L
  <2>8. InInv'
    BY <1>18, <2>5, <2>6, <2>7 DEF InInv
  <2>9. Len(dispatched') = Len(dispatched) + 1 /\ Len(dispatched) < Told
    BY <1>12, <1>13, <1>14, <1>15, <1>20, <2>2
  <2>10. QED
    BY <2>8, <2>9
<1>21. CASE ~h.fin
  <2>1. dispatched' = dispatched /\ receivedData' = whole
    BY <1>17, <1>21
  <2>2. ToldBy(done + 1)' = ToldBy(done + 1) /\ Offset(done + 1)' = Offset(done + 1)
    BY <1>1 DEF ToldBy, Offset
  <2>3. Received(done + 1)'
    <3>1. ToldBy(done + 1) = M - 1 /\ Offset(done + 1) = O + h.n
      BY <1>14, <1>21
    <3>2. (M - 1) + 1 = M
      BY <1>13
    <3>3. QED
      BY <1>15, <2>1, <2>2, <3>1, <3>2 DEF Received, whole
  <2>4. HeardIntact'
    BY <1>1, <1>7, <2>1 DEF HeardIntact
  <2>5. InFrom(done + 1)'
    BY <1>1, <1>2, <1>6, <1>10, <2>3 DEF InFrom, L
  <2>6. done + 1 \in 0 .. Len(texts')
    BY <1>1, <1>11 DEF L
  <2>7. InInv'
    BY <1>18, <2>4, <2>5, <2>6 DEF InInv
  <2>8. QED
    BY <2>1, <2>7
<1>22. QED
  BY <1>20, <1>21

-----------------------------------------------------------------------------
(* From the program to the server                                            *)

\* Sending moves units from txbuf to outWire and leaves the stream as it is;
\* a websocket that is no longer open takes a message from the queue and drops
\* it.
LEMMA OutKept ==
    ASSUME TypeOK, OutInv, out' = out, UNCHANGED <<said, atServer, closeRead>>, Queued',
           readyState' = "OPEN" => readyState = "OPEN" /\ send_queue' = send_queue
    PROVE  OutInv'
<1>1. OutHeaders' = OutHeaders
  BY DEF OutHeaders
<1>2. Stream(out, OutHeaders, Len(atServer)) /\ Uncut(out)
  BY DEF OutInv
<1>3. Stream(out, OutHeaders, Len(atServer))' /\ Uncut(out)'
  BY <1>1, <1>2
<1>4. CloseLast'
  BY DEF OutInv, CloseLast
<1>5. QED
  BY <1>3, <1>4 DEF OutInv

LEMMA OutSaid ==
    ASSUME TypeOK, OutInv, Send
    PROVE  OutInv'
<1>1. /\ said' = said + 1 /\ send_queue' = Append(send_queue, said + 1)
      /\ out' = out /\ UNCHANGED <<readyState, atServer, closeRead>>
  BY DEF Send, client, server, out
<1>2. send_queue \in Seq(Nat) /\ said \in Nat /\ Len(send_queue) \in Nat
  BY DEF TypeOK
<1>3. Queued
  BY DEF OutInv
<1>4. /\ Len(send_queue') = Len(send_queue) + 1
      /\ \A i \in 1 .. Len(send_queue) : send_queue'[i] = send_queue[i]
      /\ send_queue'[Len(send_queue) + 1] = said + 1
  BY <1>1, <1>2
<1>5. said' - Len(send_queue') = said - Len(send_queue)
  BY <1>1, <1>2, <1>4
<1>6. Queued'
  <2>1. Len(send_queue') <= said'
    BY <1>1, <1>2, <1>3, <1>4 DEF Queued
  <2>2. ASSUME NEW i \in 1 .. Len(send_queue')
        PROVE  send_queue'[i] = said - Len(send_queue) + i
    <3>1. CASE i \in 1 .. Len(send_queue)
      BY <1>3, <1>4, <3>1 DEF Queued
    <3>2. CASE i = Len(send_queue) + 1
      BY <1>2, <1>4, <3>2
    <3>3. i \in 1 .. Len(send_queue) \/ i = Len(send_queue) + 1
      BY <1>2, <1>4
    <3>4. QED
      BY <3>1, <3>2, <3>3
  <2>3. QED
    BY <1>5, <2>1, <2>2 DEF Queued
<1>7. OutHeaders \subseteq OutHeaders'
  <2>1. \A m \in 1 .. said : m \in 1 .. said'
    BY <1>1, <1>2
  <2>2. QED
    BY <2>1 DEF OutHeaders
<1>8. Stream(out, OutHeaders, Len(atServer)) /\ Uncut(out)
  BY DEF OutInv
<1>9. Stream(out, OutHeaders', Len(atServer))
  BY <1>7, <1>8, StreamMore
<1>10. Stream(out, OutHeaders, Len(atServer))' /\ Uncut(out)'
  BY <1>1, <1>8, <1>9
<1>11. CloseLast'
  BY <1>1 DEF OutInv, CloseLast
<1>12. (Ends(out, Len(atServer), said - Len(send_queue)))' <=> Ends(out, Len(atServer), said - Len(send_queue))
  BY <1>1, <1>5
<1>13. QED
  BY <1>1, <1>6, <1>10, <1>11, <1>12 DEF OutInv

LEMMA OutAppended ==
    ASSUME TypeOK, NEW h \in Units, txbuf' = txbuf \o Frame(h), outWire' = outWire
    PROVE  out' = out \o Frame(h)
<1> DEFINE f == Frame(h)
<1>1. f \in Seq(Units)
  BY FrameFacts DEF IsFrame
<1> HIDE DEF f
<1>2. (outWire \o txbuf) \o f = outWire \o (txbuf \o f)
  <2>1. outWire \in Seq(Units) /\ txbuf \in Seq(Units)
    BY Sequences
  <2>2. \A a, b, c \in Seq(Units) : (a \o b) \o c = a \o (b \o c)
    BY Assoc
  <2>3. QED
    BY <1>1, <2>1, <2>2
<1>3. QED
  BY <1>2 DEF out, f

LEMMA Appended ==
    \A h \in Units : \A s \in Seq(Units) : \A f :
        Framed(s) /\ Uncut(s) /\ IsHeader(h) /\ IsFrame(f, h) =>
           /\ Len(s \o f) = Len(s) + h.n + 1
           /\ \A i \in 1 .. Len(s) : (s \o f)[i] = s[i]
           /\ (s \o f)[Len(s) + 1] = h
           /\ \A i \in Len(s) + 2 .. Len(s) + h.n + 1 : ~IsHeader((s \o f)[i])
<1> TAKE h \in Units
<1> TAKE s \in Seq(Units)
<1> TAKE f
<1> HAVE Framed(s) /\ Uncut(s) /\ IsHeader(h) /\ IsFrame(f, h)
<1>1. /\ s \o f \in Seq(Units)
      /\ Len(s \o f) = Len(s) + h.n + 1
      /\ \A i \in 1 .. Len(s) : (s \o f)[i] = s[i]
      /\ (s \o f)[Len(s) + 1] = h
      /\ \A i \in Len(s) + 2 .. Len(s) + h.n + 1 : ~IsHeader((s \o f)[i])
      /\ Framed(s \o f) /\ Uncut(s \o f)
  BY FramedAppend, Zenon
<1>2. QED
  BY <1>1

\* A frame is put into the stream of a websocket that is open.
LEMMA OutMore ==
    ASSUME TypeOK, OutInv, readyState = "OPEN",
           NEW h \in Units \cap OutHeaders, IsHeader(h),
           txbuf' = txbuf \o Frame(h), UNCHANGED <<outWire, said, atServer, closeRead>>,
           Queued',
           IsText(h) => /\ h.no = said - Len(send_queue) + 1
                        /\ Len(send_queue') = Len(send_queue) - 1,
           ~IsText(h) => send_queue' = send_queue,
           h.op = "close" => h.n = 0 /\ readyState' # "OPEN"
    PROVE  OutInv'
<1> DEFINE d == Len(atServer)
           last == said - Len(send_queue)
           e == IF IsText(h) THEN last + 1 ELSE last
           f == Frame(h)
<1>1. out' = out \o f
  BY OutAppended
<1>2. IsFrame(f, h)
  BY FrameFacts
<1>3. /\ Stream(out, OutHeaders, d) /\ Uncut(out) /\ Ends(out, d, last)
      /\ ~closeRead /\ \A i \in 1 .. Len(out) : out[i].op # "close"
  BY DEF OutInv
<1>4. /\ d \in Nat /\ last \in Nat /\ Len(send_queue) \in Nat /\ said \in Nat
      /\ out \in Seq(Units) /\ Framed(out)
  <2>1. Len(send_queue) <= said /\ said \in Nat /\ Len(send_queue) \in Nat /\ d \in Nat
    BY SMTT(40) DEF OutInv, Queued, TypeOK
  <2>2. QED
    BY <1>3, <2>1 DEF Stream
<1>5. said' - Len(send_queue') = e
  <2>1. CASE IsText(h)
    <3>1. Len(send_queue') = Len(send_queue) - 1 /\ said' = said /\ e = last + 1
      BY <2>1
    <3> HIDE DEF e
    <3>2. QED
      BY <1>4, <3>1
  <2>2. CASE ~IsText(h)
    BY <2>2
  <2>3. QED
    BY <2>1, <2>2
<1> HIDE DEF d, last, f
<1>6. Stream(out \o f, OutHeaders, d) /\ Uncut(out \o f) /\ Ends(out \o f, d, e)
  <2>1. IsText(h) => h.no = last + 1
    BY DEF last
  <2>2. QED
    BY <1>2, <1>3, <1>4, <2>1, StreamAppend
<1>7. /\ Len(out \o f) = Len(out) + h.n + 1
      /\ \A i \in 1 .. Len(out) : (out \o f)[i] = out[i]
      /\ (out \o f)[Len(out) + 1] = h
      /\ \A i \in Len(out) + 2 .. Len(out) + h.n + 1 : ~IsHeader((out \o f)[i])
  BY <1>2, <1>3, <1>4, Appended
<1>8. h.n \in Nat /\ Len(out) \in Nat
  BY <1>4 DEF Units
<1>9. ASSUME NEW i \in 1 .. Len(out \o f), (out \o f)[i].op = "close"
      PROVE  h.op = "close" /\ i = Len(out) + 1
  <2>1. i \in 1 .. Len(out) \/ i = Len(out) + 1 \/ i \in Len(out) + 2 .. Len(out) + h.n + 1
    BY <1>7, <1>8
  <2>2. CASE i \in 1 .. Len(out)
    BY <1>3, <1>7, <1>9, <2>2
  <2>3. CASE i = Len(out) + 1
    BY <1>7, <1>9, <2>3
  <2>4. CASE i \in Len(out) + 2 .. Len(out) + h.n + 1
    BY <1>7, <1>9, <2>4 DEF IsHeader
  <2>5. QED
    BY <2>1, <2>2, <2>3, <2>4
<1> HIDE DEF e
<1>10. CloseLast'
  <2>1. ~closeRead'
    BY <1>3
  <2>2. \A i \in 1 .. Len(out \o f) : (out \o f)[i].op = "close" => i = Len(out \o f)
    <3>1. SUFFICES ASSUME NEW i \in 1 .. Len(out \o f), (out \o f)[i].op = "close"
                   PROVE  i = Len(out \o f)
      OBVIOUS
    <3>2. h.op = "close" /\ i = Len(out) + 1
      BY <1>9, <3>1
    <3>3. QED
      BY <1>7, <1>8, <3>2
  <2>3. QED
    BY <1>1, <2>1, <2>2 DEF CloseLast
<1>11. readyState' = "OPEN" => ~closeRead' /\ \A i \in 1 .. Len(out') : out'[i].op # "close"
  <2>1. SUFFICES ASSUME readyState' = "OPEN"
                 PROVE  ~closeRead' /\ \A i \in 1 .. Len(out') : out'[i].op # "close"
    OBVIOUS
  <2>2. h.op # "close"
    BY <2>1
  <2>3. QED
    BY <1>1, <1>3, <1>9, <2>2
<1>12. OutHeaders' = OutHeaders
  BY DEF OutHeaders
<1>13. Stream(out, OutHeaders, Len(atServer))' /\ Uncut(out)'
  BY <1>1, <1>6, <1>12 DEF d
<1>14. Ends(out, Len(atServer), said - Len(send_queue))'
  BY <1>1, <1>5, <1>6 DEF d
<1>15. \A i \in 1 .. Len(atServer') : atServer'[i] = Payload(i, 0, 1)
  BY DEF OutInv
<1>16. QED
  BY <1>10, <1>11, <1>13, <1>14, <1>15 DEF OutInv

\* The server reads the first frame.
LEMMA OutRead ==
    ASSUME TypeOK, OutInv, ServerReads
    PROVE  /\ OutInv'
           /\ Len(atServer') = Len(atServer)
              \/ (Len(atServer') = Len(atServer) + 1 /\ Len(atServer) < said)
<1> DEFINE h == outWire[1]
           d == Len(atServer)
           last == said - Len(send_queue)
<1>1. /\ Whole(outWire) /\ outWire' = Rest(outWire)
      /\ atServer' = IF Head(outWire).op = "text"
                     THEN Append(atServer, PayloadOf(outWire)) ELSE atServer
      /\ closeRead' = (closeRead \/ Head(outWire).op = "close")
      /\ UNCHANGED <<readyState, txbuf, send_queue, said>>
  BY DEF ServerReads, client
<1>2. /\ outWire \in Seq(Units) /\ txbuf \in Seq(Units) /\ out \in Seq(Units)
      /\ Len(outWire) \in Nat /\ Len(txbuf) \in Nat /\ said \in Nat
  BY Sequences
<1>3. /\ Stream(out, OutHeaders, d) /\ Uncut(out) /\ Framed(out)
      /\ readyState = "OPEN" =>
            /\ Ends(out, d, last)
            /\ ~closeRead /\ \A i \in 1 .. Len(out) : out[i].op # "close"
      /\ Queued /\ CloseLast
      /\ \A i \in 1 .. d : atServer[i] = Payload(i, 0, 1)
  BY DEF OutInv, Stream
<1>4. /\ Len(out) = Len(outWire) + Len(txbuf)
      /\ \A i \in 1 .. Len(outWire) + Len(txbuf) :
            out[i] = IF i <= Len(outWire) THEN outWire[i] ELSE txbuf[i - Len(outWire)]
  BY <1>2, ConcatFacts DEF out
<1>5. Framed(outWire)
  <2>1. Len(outWire) <= Len(out) /\ \A i \in 1 .. Len(outWire) : outWire[i] = out[i]
    BY <1>2, <1>4
  <2>2. QED
    BY <1>2, <1>3, <2>1, FramedPrefix
<1>6. /\ h \in Units /\ Head(outWire) = h /\ IsHeader(h) /\ 1 \in 1 .. Len(outWire)
      /\ PayloadOf(outWire) = Payload(h.message, h.from, h.n)
      /\ Rest(outWire) \in Seq(Units)
  BY <1>1, <1>2, <1>5, FramedRest
<1>7. h.n \in Nat /\ Len(outWire) > h.n
  BY <1>1, <1>6 DEF Whole, Units
<1>8. out[1] = h /\ out # <<>> /\ Head(out) = h /\ Len(out) > h.n
  BY <1>2, <1>4, <1>6, <1>7
<1>9. Whole(out)
  BY <1>8 DEF Whole
<1>10. out' = Rest(out)
  <2>1. Rest(outWire) = SubSeq(outWire, (1 + h.n) + 1, Len(outWire))
    BY <1>6 DEF Rest, FrameLength
  <2>2. Rest(out) = SubSeq(out, (1 + h.n) + 1, Len(out))
    BY <1>8 DEF Rest, FrameLength
  <2>3. 1 + h.n \in 0 .. Len(outWire)
    BY <1>2, <1>7
  <2>4. SubSeq(outWire, (1 + h.n) + 1, Len(outWire)) \o txbuf
          = SubSeq(outWire \o txbuf, (1 + h.n) + 1, Len(outWire \o txbuf))
    <3> HIDE DEF h
    <3>1. QED
      BY <1>2, <2>3, DropFirst
  <2>5. QED
    BY <1>1, <2>1, <2>2, <2>4 DEF out
<1>11. d \in Nat /\ last \in Nat
  <2>1. Len(send_queue) <= said /\ Len(send_queue) \in Nat
    BY <1>3 DEF Queued, TypeOK
  <2>2. atServer \in Seq(Seq(Units))
    BY DEF TypeOK
  <2>3. QED
    BY <1>2, <2>1, <2>2
<1> HIDE DEF h, last
<1>12. /\ h \in OutHeaders
       /\ IsText(h) => h.no = d + 1
       /\ Stream(Rest(out), OutHeaders, Counted(out, d)) /\ Uncut(Rest(out))
       /\ Ends(out, d, last) => Ends(Rest(out), Counted(out, d), last)
  <2>1. /\ out[1] \in OutHeaders
        /\ IsText(out[1]) => out[1].no = d + 1
        /\ Stream(Rest(out), OutHeaders, Counted(out, d))
        /\ Uncut(out) => Uncut(Rest(out))
        /\ \A l \in Nat : Ends(out, d, l) => Ends(Rest(out), Counted(out, d), l)
    BY <1>3, <1>9, <1>11, StreamRest
  <2>2. QED
    BY <1>3, <1>8, <1>11, <2>1
<1>13. /\ Rest(out) \in Seq(Units)
       /\ Len(Rest(out)) = Len(out) - (h.n + 1)
       /\ \A i \in 1 .. Len(Rest(out)) : Rest(out)[i] = out[i + h.n + 1]
  BY <1>2, <1>3, <1>8, <1>9, FramedRest
<1>14. OutHeaders' = OutHeaders
  BY <1>1 DEF OutHeaders
<1>15. Queued'
  BY <1>1, <1>3 DEF Queued
<1>16. \A i \in 1 .. Len(Rest(out)) : i + h.n + 1 \in 1 .. Len(out)
  BY <1>2, <1>4, <1>7, <1>13
<1>17. CloseLast'
  <2>1. ~closeRead
    BY <1>3, <1>8 DEF CloseLast
  <2>2. Head(outWire).op = "close" => Rest(out) = <<>>
    <3>1. SUFFICES ASSUME h.op = "close" PROVE Rest(out) = <<>>
      BY <1>6
    <3>2. 1 \in 1 .. Len(out)
      BY <1>2, <1>4, <1>6
    <3>3. 1 = Len(out)
      BY <1>3, <1>8, <3>1, <3>2 DEF CloseLast
    <3>4. Len(Rest(out)) = 0
      <4>1. PICK n \in Nat : n = h.n
        BY <1>7
      <4>2. n = 0
        BY <1>2, <1>4, <1>8, <3>3, <4>1
      <4>3. QED
        BY <1>2, <1>4, <1>13, <3>3, <4>1, <4>2
    <3>5. QED
      BY <1>13, <3>4
  <2>3. \A i \in 1 .. Len(Rest(out)) : Rest(out)[i].op = "close" => i = Len(Rest(out))
    <3>1. SUFFICES ASSUME NEW i \in 1 .. Len(Rest(out)), Rest(out)[i].op = "close"
                   PROVE  i = Len(Rest(out))
      OBVIOUS
    <3>2. i + h.n + 1 = Len(out)
      BY <1>3, <1>13, <1>16, <3>1 DEF CloseLast
    <3>3. QED
      BY <1>2, <1>4, <1>7, <1>13, <3>2
  <2>4. closeRead' => Rest(out) = <<>>
    BY <1>1, <2>1, <2>2
  <2>5. QED
    BY <1>10, <2>3, <2>4 DEF CloseLast
<1>18. readyState' = "OPEN" =>
          ~closeRead' /\ \A i \in 1 .. Len(out') : out'[i].op # "close"
  <2>1. SUFFICES ASSUME readyState = "OPEN"
                 PROVE  ~closeRead' /\ \A i \in 1 .. Len(out') : out'[i].op # "close"
    BY <1>1
  <2>2. 1 \in 1 .. Len(out)
    BY <1>2, <1>4, <1>6
  <2>3. h.op # "close"
    BY <1>3, <1>8, <2>1, <2>2
  <2>4. ~closeRead'
    BY <1>1, <1>3, <1>6, <2>1, <2>3
  <2>5. \A i \in 1 .. Len(Rest(out)) : Rest(out)[i].op # "close"
    BY <1>3, <1>13, <1>16, <2>1
  <2>6. QED
    BY <1>10, <2>4, <2>5
<1>19. CASE IsText(h)
  <2>1. h = Header("text", TRUE, 1, h.no, h.no, 0) /\ h.no \in 1 .. said
    <3>1. PICK m \in 1 .. said : h = Header("text", TRUE, 1, m, m, 0)
      BY <1>12, <1>19 DEF OutHeaders, ControlHeaders
    <3>2. h.no = m
      BY <3>1 DEF Header
    <3>3. QED
      BY <3>1, <3>2
  <2>2. h.message = d + 1 /\ h.from = 0 /\ h.n = 1
    BY <1>12, <1>19, <2>1 DEF Header
  <2>3. atServer' = Append(atServer, Payload(d + 1, 0, 1))
    BY <1>1, <1>6, <1>19, <2>2 DEF IsText
  <2>4. /\ Len(atServer') = d + 1
        /\ \A i \in 1 .. d : atServer'[i] = atServer[i]
        /\ atServer'[d + 1] = Payload(d + 1, 0, 1)
    <3>1. atServer \in Seq(Seq(Units))
      BY DEF TypeOK
    <3> DEFINE p == Payload(d + 1, 0, 1)
    <3>2. atServer' = Append(atServer, p)
      BY <2>3
    <3> HIDE DEF p
    <3>3. /\ Len(atServer') = Len(atServer) + 1
          /\ \A i \in 1 .. Len(atServer) : atServer'[i] = atServer[i]
          /\ atServer'[Len(atServer) + 1] = p
      BY <3>1, <3>2
    <3>4. QED
      BY <3>3 DEF p
  <2>5. \A i \in 1 .. Len(atServer') : atServer'[i] = Payload(i, 0, 1)
    <3>1. SUFFICES ASSUME NEW i \in 1 .. d + 1 PROVE atServer'[i] = Payload(i, 0, 1)
      BY <2>4
    <3>2. i \in 1 .. d \/ i = d + 1
      BY <1>11
    <3>3. QED
      BY <1>3, <2>4, <3>2
  <2>6. Counted(out, d) = d + 1
    BY <1>8, <1>19 DEF Counted
  <2>7. Stream(out, OutHeaders, Len(atServer))' /\ Uncut(out)'
    BY <1>10, <1>12, <1>14, <2>4, <2>6
  <2>8. readyState' = "OPEN" => Ends(out, Len(atServer), said - Len(send_queue))'
    BY <1>1, <1>3, <1>10, <1>12, <2>4, <2>6 DEF last
  <2>9. OutInv'
    BY <1>15, <1>17, <1>18, <2>5, <2>7, <2>8 DEF OutInv
  <2>10. Len(atServer) < said
    BY <1>2, <1>11, <1>12, <1>19, <2>1
  <2>11. QED
    BY <2>4, <2>9, <2>10
<1>20. CASE ~IsText(h)
  <2>1. atServer' = atServer
    BY <1>1, <1>6, <1>20 DEF IsText
  <2>2. Counted(out, d) = d
    BY <1>8, <1>20 DEF Counted
  <2>3. Stream(out, OutHeaders, Len(atServer))' /\ Uncut(out)'
    BY <1>10, <1>12, <1>14, <2>1, <2>2
  <2>4. readyState' = "OPEN" => Ends(out, Len(atServer), said - Len(send_queue))'
    BY <1>1, <1>3, <1>10, <1>12, <2>1, <2>2 DEF last
  <2>5. OutInv'
    BY <1>3, <1>15, <1>17, <1>18, <2>1, <2>3, <2>4 DEF OutInv
  <2>6. QED
    BY <2>1, <2>5
<1>21. QED
  BY <1>19, <1>20

-----------------------------------------------------------------------------
(* The steps                                                                 *)

LEMMA InStep ==
    ASSUME TypeOK, InInv, [Next]_vars
    PROVE  InInv'
<1> USE DEF client, server
<1>1. ASSUME NEW n \in 0 .. MaxLength, NEW fin \in BOOLEAN, ServerSends(n, fin)
      PROVE  InInv'
  <2>1. n \in Nat
    BY BoundsAssumption
  <2>2. /\ texts' = Append(texts, NextText(n, fin))
        /\ inWire' = inWire \o Frame(NextText(n, fin)) /\ peer = "open"
        /\ UNCHANGED <<rxbuf, dispatched, receivedData, peer>>
    BY <1>1 DEF ServerSends, NextText, Transmits
  <2>3. QED
    BY <2>1, <2>2, InText
<1>2. ASSUME NEW op \in Ops \ {"text", "payload"}, NEW n \in Nat, ServerControls(op, n)
      PROVE  InInv'
  <2>1. Control(op, n) \in ControlHeaders
    BY ControlType
  <2>2. /\ inWire' = inWire \o Frame(Control(op, n)) /\ peer = "open"
        /\ UNCHANGED <<rxbuf, texts, dispatched, receivedData>>
    BY <1>2 DEF ServerControls, Transmits
  <2>3. QED
    BY <2>1, <2>2, InControl
<1>3. CASE ConnectionResets
  <2>1. PICK n \in 0 .. Len(inWire) : inWire' = SubSeq(inWire, 1, n)
    BY <1>3 DEF ConnectionResets
  <2>2. UNCHANGED <<rxbuf, texts, dispatched, receivedData>> /\ peer' = "reset"
    BY <1>3 DEF ConnectionResets
  <2>3. QED
    BY <2>1, <2>2, InCut
<1>4. CASE Receives
  <2>1. PICK n \in 1 .. (IF Len(inWire) < MaxRecv THEN Len(inWire) ELSE MaxRecv) :
          /\ rxbuf' = rxbuf \o SubSeq(inWire, 1, n)
          /\ inWire' = SubSeq(inWire, n + 1, Len(inWire))
    BY <1>4 DEF Receives
  <2>2. n \in 0 .. Len(inWire)
    BY <2>1, Sequences, SocketAssumption, SMTT(40)
  <2>3. in' = in
    <3>1. rxbuf \in Seq(Units) /\ inWire \in Seq(Units)
      BY Sequences
    <3>2. (rxbuf \o SubSeq(inWire, 1, n)) \o SubSeq(inWire, n + 1, Len(inWire)) = rxbuf \o inWire
      BY <2>2, <3>1, Moves
    <3>3. QED
      BY <2>1, <3>2 DEF in
  <2>4. UNCHANGED <<texts, dispatched, receivedData, peer>>
    BY <1>4 DEF Receives
  <2>5. QED
    BY <2>3, <2>4, InKept
<1>5. CASE DispatchesData
  BY <1>5, InDispatched
<1>6. ASSUME NEW ops, "text" \notin ops, Dispatches(ops),
             UNCHANGED <<receivedData, dispatched>>
      PROVE  InInv'
  <2>1. /\ Whole(rxbuf) /\ Head(rxbuf).op # "text" /\ rxbuf' = Rest(rxbuf)
        /\ UNCHANGED <<inWire, texts, dispatched, receivedData, peer>>
    BY <1>6 DEF Dispatches
  <2>2. Head(rxbuf) = rxbuf[1]
    BY <2>1, FirstFrame
  <2>3. ~IsText(rxbuf[1])
    BY <2>1, <2>2 DEF IsText
  <2>4. QED
    BY <2>1, <2>3, InTaken
<1>7. CASE DispatchesPing
  BY <1>6, <1>7 DEF DispatchesPing
<1>8. CASE DispatchesPong
  BY <1>6, <1>8 DEF DispatchesPong
<1>9. CASE DispatchesClose
  BY <1>6, <1>9 DEF DispatchesClose
<1>10. ASSUME UNCHANGED <<rxbuf, inWire, texts, dispatched, receivedData>>,
              peer' # "reset" => peer # "reset"
       PROVE  InInv'
  <2>1. in' = in
    BY <1>10 DEF in
  <2>2. QED
    BY <1>10, <2>1, InKept
<1>11. CASE ServerCloses
  BY <1>10, <1>11 DEF ServerCloses
<1>12. CASE ServerReads
  BY <1>10, <1>12 DEF ServerReads
<1>13. CASE Send
  BY <1>10, <1>13 DEF Send
<1>14. CASE PollsClosed
  BY <1>10, <1>14 DEF PollsClosed
<1>15. CASE ReceivesNothing
  BY <1>10, <1>15 DEF ReceivesNothing
<1>16. CASE ConnectionEnds
  BY <1>10, <1>16 DEF ConnectionEnds
<1>17. CASE Flushes
  BY <1>10, <1>17 DEF Flushes
<1>18. CASE FlushBlocks \/ FlushFails \/ FlushEnds
  BY <1>10, <1>18 DEF FlushBlocks, FlushFails, FlushEnds
<1>19. CASE SendsQueued
  BY <1>10, <1>19 DEF SendsQueued
<1>20. CASE QueueEmpty
  BY <1>10, <1>20 DEF QueueEmpty
<1>21. CASE DispatchReturns
  BY <1>10, <1>21 DEF DispatchReturns
<1>22. CASE UNCHANGED vars
  BY <1>10, <1>22 DEF vars
<1>23. ASSUME Server PROVE InInv'
  <2>1. MaxLength \in Nat /\ 0 \in Nat
    BY BoundsAssumption
  <2>2. {"ping", "pong", "close", "other"} \subseteq Ops \ {"text", "payload"}
    BY DEF Ops
  <2>3. QED
    BY <1>1, <1>2, <1>3, <1>11, <1>23, <2>1, <2>2 DEF Server
<1>24. ASSUME Loop PROVE InInv'
  BY <1>4, <1>5, <1>7, <1>8, <1>9, <1>14, <1>15, <1>16, <1>17, <1>18, <1>19, <1>20,
     <1>21, <1>24 DEF Loop
<1>25. QED
  BY <1>12, <1>13, <1>22, <1>23, <1>24 DEF Next

LEMMA QueuedTail ==
    ASSUME TypeOK, Queued, send_queue # <<>>, send_queue' = Tail(send_queue), said' = said
    PROVE  /\ Queued'
           /\ Len(send_queue') = Len(send_queue) - 1
           /\ Head(send_queue) = said - Len(send_queue) + 1
           /\ Head(send_queue) \in 1 .. said
<1>1. send_queue \in Seq(Nat) /\ Len(send_queue) \in Nat \ {0} /\ said \in Nat
  BY DEF TypeOK
<1>2. /\ Len(send_queue') = Len(send_queue) - 1
      /\ \A i \in 1 .. Len(send_queue) - 1 : send_queue'[i] = send_queue[i + 1]
      /\ Head(send_queue) = send_queue[1]
  BY <1>1
<1>3. Head(send_queue) = said - Len(send_queue) + 1 /\ Len(send_queue) <= said
  BY <1>1, <1>2 DEF Queued
<1>4. ASSUME NEW i \in 1 .. Len(send_queue')
      PROVE  send_queue'[i] = said' - Len(send_queue') + i
  <2>1. i \in 1 .. Len(send_queue) - 1 /\ i + 1 \in 1 .. Len(send_queue)
    BY <1>1, <1>2
  <2>2. send_queue[i + 1] = said - Len(send_queue) + (i + 1)
    BY <2>1 DEF Queued
  <2>3. send_queue'[i] = send_queue[i + 1]
    BY <1>2, <2>1
  <2>4. QED
    BY <1>1, <1>2, <2>2, <2>3
<1>5. Queued'
  BY <1>1, <1>2, <1>3, <1>4 DEF Queued
<1>6. QED
  BY <1>1, <1>2, <1>3, <1>5

LEMMA OutSent ==
    ASSUME TypeOK, OutInv, SendsQueued
    PROVE  OutInv'
<1> DEFINE m == Head(send_queue)
           h == Header("text", TRUE, 1, m, m, 0)
<1>1. /\ send_queue # <<>> /\ send_queue' = Tail(send_queue) /\ sendData(Frame(h))
      /\ UNCHANGED <<readyState, said, outWire, atServer, closeRead>>
  BY DEF SendsQueued, server
<1>2. /\ Queued'
      /\ Len(send_queue') = Len(send_queue) - 1
      /\ m = said - Len(send_queue) + 1
      /\ m \in 1 .. said
  BY <1>1, QueuedTail DEF OutInv
<1>3. /\ h \in Units \cap OutHeaders /\ IsHeader(h) /\ IsText(h) /\ h.no = m /\ h.op # "close"
  <2>1. m \in Nat
    BY <1>2
  <2>2. h \in Units
    BY <2>1, SendTexts
  <2>3. h \in OutHeaders
    BY <1>2 DEF OutHeaders
  <2>4. h.op = "text" /\ h.no = m
    BY DEF Header
  <2>5. QED
    BY <2>2, <2>3, <2>4 DEF IsHeader, IsText
<1> HIDE DEF h
<1>4. CASE readyState = "OPEN"
  <2>1. txbuf' = txbuf \o Frame(h)
    BY <1>1, <1>4 DEF sendData
  <2>2. h.no = said - Len(send_queue) + 1
    BY <1>2, <1>3
  <2>3. QED
    BY <1>1, <1>2, <1>3, <1>4, <2>1, <2>2, OutMore
<1>5. CASE readyState # "OPEN"
  <2>1. out' = out
    BY <1>1, <1>5 DEF sendData, out
  <2>2. QED
    BY <1>1, <1>2, <1>5, <2>1, OutKept
<1>6. QED
  BY <1>4, <1>5

\* A ping is answered by a whole frame.
LEMMA OutPong ==
    ASSUME TypeOK, InInv, OutInv, DispatchesPing
    PROVE  OutInv'
<1> DEFINE u == rxbuf[1]
           h == Control("pong", u.n)
<1>1. /\ Whole(rxbuf) /\ Head(rxbuf).op = "ping"
      /\ sendData(<<Control("pong", Head(rxbuf).n)>> \o PayloadOf(rxbuf))
      /\ UNCHANGED <<readyState, send_queue, said, outWire, atServer, closeRead>>
  BY DEF DispatchesPing, Dispatches, server
<1>2. /\ u \in Units /\ Head(rxbuf) = u /\ IsHeader(u) /\ in[1] = u /\ Whole(in)
      /\ PayloadOf(rxbuf) = Payload(u.message, u.from, u.n)
  BY <1>1, FirstFrame
<1>3. u \in InHeaders
  <2>1. PICK done \in 0 .. Len(texts) : InFrom(done)
    BY DEF InInv
  <2>2. done \in Nat /\ Stream(in, InHeaders, done)
    BY <2>1, Sequences DEF InFrom
  <2>3. in[1] \in InHeaders
    BY <1>2, <2>2, StreamRest
  <2>4. QED
    BY <1>2, <2>3
<1>4. u = Control("ping", u.n)
  <2>1. u.op = "ping"
    BY <1>1, <1>2
  <2>2. \A m \in 1 .. Len(texts) : texts[m].op = "text"
    BY DEF InInv, TextsLinked, IsText
  <2>3. u \in ControlHeaders
    BY <1>3, <2>1, <2>2 DEF InHeaders
  <2>4. QED
    BY <2>1, <2>3 DEF ControlHeaders
<1>5. u.message = 0 /\ u.from = 0 /\ u.n \in Nat
  <2>1. u.n \in Nat
    BY <1>2 DEF Units
  <2>2. QED
    BY <1>4, <2>1 DEF Control, Header
<1>6. h \in ControlHeaders /\ h.message = 0 /\ h.from = 0 /\ h.n = u.n /\ h.op = "pong"
  <2>1. "pong" \in Ops \ {"text", "payload"}
    BY DEF Ops
  <2>2. QED
    BY <1>5, <2>1, ControlType DEF Control, Header
<1>7. Frame(h) = <<Control("pong", Head(rxbuf).n)>> \o PayloadOf(rxbuf)
  BY <1>2, <1>5, <1>6 DEF Frame
<1> HIDE DEF h
<1>8. sendData(Frame(h))
  BY <1>1, <1>7
<1>9. h \in Units \cap OutHeaders /\ IsHeader(h) /\ ~IsText(h) /\ h.op # "close"
  BY <1>6 DEF OutHeaders, ControlHeaders
<1>10. Queued'
  BY <1>1 DEF OutInv, Queued
<1>11. CASE readyState = "OPEN"
  <2>1. txbuf' = txbuf \o Frame(h)
    BY <1>8, <1>11 DEF sendData
  <2>2. QED
    BY <1>1, <1>9, <1>10, <1>11, <2>1, OutMore
<1>12. CASE readyState # "OPEN"
  <2>1. out' = out
    BY <1>1, <1>8, <1>12 DEF sendData, out
  <2>2. QED
    BY <1>1, <1>10, <1>12, <2>1, OutKept
<1>13. QED
  BY <1>11, <1>12

LEMMA OutClose ==
    ASSUME TypeOK, OutInv, DispatchesClose
    PROVE  OutInv'
<1> DEFINE h == Control("close", 0)
<1>1. close /\ UNCHANGED <<send_queue, said, outWire, atServer, closeRead>>
  BY DEF DispatchesClose, Dispatches, server
<1>2. h \in ControlHeaders /\ h.op = "close" /\ h.n = 0
  <2>1. "close" \in Ops \ {"text", "payload"} /\ 0 \in Nat
    BY DEF Ops
  <2>2. QED
    BY <2>1, ControlType DEF Control, Header
<1>3. Queued'
  BY <1>1 DEF OutInv, Queued
<1> HIDE DEF h
<1>4. h \in Units \cap OutHeaders /\ IsHeader(h) /\ ~IsText(h)
  BY <1>2 DEF OutHeaders, ControlHeaders
<1>5. CASE readyState = "OPEN"
  <2>1. txbuf' = txbuf \o Frame(h) /\ readyState' = "CLOSING"
    BY <1>1, <1>5 DEF close, h
  <2>2. QED
    BY <1>1, <1>2, <1>3, <1>4, <1>5, <2>1, OutMore
<1>6. CASE readyState # "OPEN"
  <2>1. out' = out /\ readyState' = readyState
    BY <1>1, <1>6 DEF close, out
  <2>2. QED
    BY <1>1, <1>3, <1>6, <2>1, OutKept
<1>7. QED
  BY <1>5, <1>6

LEMMA OutStep ==
    ASSUME TypeOK, InInv, OutInv, [Next]_vars
    PROVE  OutInv'
<1> USE DEF client, server
<1>1. ASSUME UNCHANGED <<outWire, txbuf, said, send_queue, atServer, closeRead>>,
             readyState' = "OPEN" => readyState = "OPEN"
      PROVE  OutInv'
  <2>1. out' = out /\ Queued'
    BY <1>1 DEF out, OutInv, Queued
  <2>2. QED
    BY <1>1, <2>1, OutKept
<1>2. ASSUME NEW n, NEW fin, ServerSends(n, fin) PROVE OutInv'
  BY <1>1, <1>2 DEF ServerSends
<1>3. ASSUME NEW op, NEW n, ServerControls(op, n) PROVE OutInv'
  BY <1>1, <1>3 DEF ServerControls
<1>4. CASE ServerCloses \/ ConnectionResets
  BY <1>1, <1>4 DEF ServerCloses, ConnectionResets
<1>5. CASE PollsClosed
  BY <1>1, <1>5 DEF PollsClosed
<1>6. CASE Receives
  BY <1>1, <1>6 DEF Receives
<1>7. CASE ReceivesNothing \/ ConnectionEnds
  BY <1>1, <1>7 DEF ReceivesNothing, ConnectionEnds
<1>8. CASE FlushBlocks \/ FlushFails \/ FlushEnds
  BY <1>1, <1>8 DEF FlushBlocks, FlushFails, FlushEnds
<1>9. CASE QueueEmpty
  BY <1>1, <1>9 DEF QueueEmpty
<1>10. CASE DispatchesData
  BY <1>1, <1>10 DEF DispatchesData, Dispatches
<1>11. CASE DispatchesPong
  BY <1>1, <1>11 DEF DispatchesPong, Dispatches
<1>12. CASE DispatchReturns
  BY <1>1, <1>12 DEF DispatchReturns
<1>13. CASE UNCHANGED vars
  BY <1>1, <1>13 DEF vars
<1>14. CASE Flushes
  <2>1. PICK n \in 1 .. Len(txbuf) :
          /\ outWire' = outWire \o SubSeq(txbuf, 1, n)
          /\ txbuf' = SubSeq(txbuf, n + 1, Len(txbuf))
    BY <1>14 DEF Flushes
  <2>2. n \in 0 .. Len(txbuf)
    BY <2>1
  <2>3. out' = out
    <3>1. outWire \in Seq(Units) /\ txbuf \in Seq(Units)
      BY Sequences
    <3>2. (outWire \o SubSeq(txbuf, 1, n)) \o SubSeq(txbuf, n + 1, Len(txbuf)) = outWire \o txbuf
      BY <2>2, <3>1, Moves
    <3>3. QED
      BY <2>1, <3>2 DEF out
  <2>4. UNCHANGED <<readyState, said, send_queue, atServer, closeRead>>
    BY <1>14 DEF Flushes
  <2>5. Queued'
    BY <2>4 DEF OutInv, Queued
  <2>6. QED
    BY <2>3, <2>4, <2>5, OutKept
<1>15. ASSUME Server PROVE OutInv'
  BY <1>2, <1>3, <1>4, <1>15 DEF Server
<1>16. ASSUME Loop PROVE OutInv'
  BY <1>5, <1>6, <1>7, <1>8, <1>9, <1>10, <1>11, <1>12, <1>14, <1>16, OutSent, OutPong,
     OutClose DEF Loop
<1>17. QED
  BY <1>13, <1>15, <1>16, OutRead, OutSaid DEF Next

-----------------------------------------------------------------------------
(* The theorems                                                              *)

LEMMA StreamInit ==
    ASSUME Init
    PROVE  InInv /\ OutInv
<1>1. in = <<>> /\ out = <<>> /\ texts = <<>> /\ dispatched = <<>> /\ receivedData = <<>>
      /\ send_queue = <<>> /\ said = 0 /\ atServer = <<>> /\ ~closeRead
  BY DEF Init, in, out
<1>2. ASSUME NEW headers PROVE Stream(<<>>, headers, 0) /\ Uncut(<<>>) /\ Ends(<<>>, 0, 0)
  BY DEF Stream, Framed, Carries, Chain, Uncut, Ends
<1>3. Len(texts) = 0 /\ Len(atServer) = 0 /\ Len(dispatched) = 0 /\ Len(send_queue) = 0
      /\ Len(out) = 0
  BY <1>1
<1>4. TextsLinked /\ HeardIntact
  BY <1>3 DEF TextsLinked, HeardIntact
<1>5. Received(0)
  BY <1>1, <1>3 DEF Received, ToldBy, Offset, Payload
<1>6. InFrom(0)
  BY <1>1, <1>2, <1>3, <1>5 DEF InFrom
<1>7. InInv
  BY <1>3, <1>4, <1>6 DEF InInv
<1>8. Queued /\ CloseLast
  BY <1>1, <1>3 DEF Queued, CloseLast
<1>9. said - Len(send_queue) = 0
  <2>1. said = 0 /\ Len(send_queue) = 0
    BY <1>1, <1>3
  <2>2. 0 - 0 = 0
    OBVIOUS
  <2>3. QED
    BY <2>1, <2>2, Zenon
<1>10. OutInv
  BY <1>1, <1>2, <1>3, <1>8, <1>9 DEF OutInv
<1>11. QED
  BY <1>7, <1>10

\* The invariant holds of every execution.
LEMMA Invariant == Spec => []IInv
<1>1. Init => IInv
  BY TypeInit, StreamInit DEF IInv
<1>2. IInv /\ [Next]_vars => IInv'
  BY TypeStep, InStep, OutStep DEF IInv
<1>3. QED
  BY <1>1, <1>2, PTL DEF Spec

\* Whatever the network and the server make of the frames, and whatever
\* control frames come between those of a message: _dispatchBinary hands
\* onMessage the server's messages in their order, each of them once and whole;
\* and the server reads in the same way what the program sends.
THEOREM MessagesIntactCorrect == Spec => []MessagesIntact
<1>1. IInv => MessagesIntact
  <2>1. SUFFICES ASSUME IInv PROVE MessagesIntact
    OBVIOUS
  <2>2. DOMAIN dispatched = 1 .. Len(dispatched) /\ DOMAIN texts = 1 .. Len(texts)
        /\ DOMAIN atServer = 1 .. Len(atServer)
    BY <2>1 DEF IInv, TypeOK
  <2>3. HeardIntact /\ \A i \in 1 .. Len(atServer) : atServer[i] = Payload(i, 0, 1)
    BY <2>1 DEF IInv, InInv, OutInv
  <2>4. QED
    BY <2>2, <2>3 DEF MessagesIntact, HeardIntact
<1>2. QED
  BY <1>1, Invariant, PTL

\* Once close has put its frame behind everything else, neither sendData nor
\* the answer to a ping puts another one behind it, and nothing of the stream
\* is left when the server has read it.
THEOREM NothingAfterCloseCorrect == Spec => []NothingAfterClose
<1>1. IInv => NothingAfterClose
  <2>1. SUFFICES ASSUME IInv PROVE NothingAfterClose
    OBVIOUS
  <2>2. out \in Seq(Units) /\ CloseLast
    BY <2>1, Sequences DEF IInv, OutInv
  <2>3. DOMAIN out = 1 .. Len(out)
    BY <2>2
  <2>4. QED
    BY <2>2, <2>3 DEF NothingAfterClose, CloseLast, out
<1>2. QED
  BY <1>1, Invariant, PTL

LEMMA PipeInitially ==
    ASSUME Init
    PROVE  Pipe!PipeInit
<1>1. Told = 0 /\ Len(dispatched) = 0 /\ Len(atServer) = 0 /\ said = 0
  BY DEF Init, Told
<1>2. (readyState = "OPEN" /\ peer = "open") = TRUE
  BY DEF Init
<1>3. QED
  BY <1>1, <1>2 DEF Pipe!PipeInit

\* A step at which no message goes in or comes out.
LEMMA PipeQuiet ==
    ASSUME Told' = Told, Len(dispatched') = Len(dispatched),
           said' = said, Len(atServer') = Len(atServer),
           readyState' = "OPEN" /\ peer' = "open" => readyState = "OPEN" /\ peer = "open"
    PROVE  [Pipe!PipeNext]_(Pipe!pvars)
<1> DEFINE o == readyState = "OPEN" /\ peer = "open"
<1>1. CASE o
  <2>1. CASE o'
    <3>1. o' = o
      BY <1>1, <2>1
    <3>2. QED
      BY <3>1 DEF Pipe!pvars
  <2>2. CASE ~o'
    <3>1. o' = FALSE
      BY <2>2
    <3>2. QED
      BY <3>1 DEF Pipe!PipeNext, Pipe!Close
  <2>3. QED
    BY <2>1, <2>2
<1>2. CASE ~o
  <2>1. ~o'
    BY <1>2
  <2>2. o' = FALSE
    BY <2>1
  <2>3. QED
    BY <2>2 DEF Pipe!PipeNext, Pipe!Close
<1>3. QED
  BY <1>1, <1>2

LEMMA PipeStep ==
    ASSUME IInv, [Next]_vars
    PROVE  [Pipe!PipeNext]_(Pipe!pvars)
<1> USE DEF client, server
<1>0. TypeOK /\ InInv /\ OutInv /\ TextsLinked
  BY DEF IInv, InInv
<1>1. ASSUME NEW n \in 0 .. MaxLength, NEW fin \in BOOLEAN, ServerSends(n, fin)
      PROVE  [Pipe!PipeNext]_(Pipe!pvars)
  <2>1. n \in Nat
    BY BoundsAssumption
  <2>2. /\ texts' = Append(texts, NextText(n, fin))
        /\ UNCHANGED <<dispatched, said, atServer, readyState, peer>>
    BY <1>1 DEF ServerSends, NextText
  <2>3. Told' = IF fin THEN Told + 1 ELSE Told
    BY <1>0, <2>1, <2>2, LinkedMore
  <2>4. CASE fin
    BY <2>2, <2>3, <2>4 DEF Pipe!PipeNext, Pipe!Tell
  <2>5. CASE ~fin
    BY <2>2, <2>3, <2>5, PipeQuiet
  <2>6. QED
    BY <2>4, <2>5
<1>2. CASE DispatchesData
  <2>1. UNCHANGED <<texts, said, atServer, readyState, peer>>
    BY <1>2 DEF DispatchesData, Dispatches
  <2>2. Told' = Told
    BY <2>1 DEF Told, Latest
  <2>3. \/ Len(dispatched') = Len(dispatched)
        \/ Len(dispatched') = Len(dispatched) + 1 /\ Len(dispatched) < Told
    BY <1>0, <1>2, InDispatched
  <2>4. CASE Len(dispatched') = Len(dispatched)
    BY <2>1, <2>2, <2>4, PipeQuiet
  <2>5. CASE Len(dispatched') = Len(dispatched) + 1 /\ Len(dispatched) < Told
    BY <2>1, <2>2, <2>5 DEF Pipe!PipeNext, Pipe!Hear
  <2>6. QED
    BY <2>3, <2>4, <2>5
<1>3. CASE Send
  <2>1. said' = said + 1 /\ UNCHANGED <<texts, dispatched, atServer, readyState, peer>>
    BY <1>3 DEF Send
  <2>2. Told' = Told
    BY <2>1 DEF Told, Latest
  <2>3. QED
    BY <2>1, <2>2 DEF Pipe!PipeNext, Pipe!Say
<1>4. CASE ServerReads
  <2>1. UNCHANGED <<texts, dispatched, said, readyState, peer>>
    BY <1>4 DEF ServerReads
  <2>2. Told' = Told
    BY <2>1 DEF Told, Latest
  <2>3. \/ Len(atServer') = Len(atServer)
        \/ Len(atServer') = Len(atServer) + 1 /\ Len(atServer) < said
    BY <1>0, <1>4, OutRead
  <2>4. CASE Len(atServer') = Len(atServer)
    BY <2>1, <2>2, <2>4, PipeQuiet
  <2>5. CASE Len(atServer') = Len(atServer) + 1 /\ Len(atServer) < said
    BY <2>1, <2>2, <2>5 DEF Pipe!PipeNext, Pipe!Get
  <2>6. QED
    BY <2>3, <2>4, <2>5
<1>5. ASSUME UNCHANGED <<texts, dispatched, said, atServer>>,
             readyState' = "OPEN" => readyState = "OPEN",
             peer' = "open" => peer = "open"
      PROVE  [Pipe!PipeNext]_(Pipe!pvars)
  <2>1. Told' = Told
    BY <1>5 DEF Told, Latest
  <2>2. QED
    BY <1>5, <2>1, PipeQuiet
<1>6. ASSUME NEW op, NEW n, ServerControls(op, n) PROVE [Pipe!PipeNext]_(Pipe!pvars)
  BY <1>5, <1>6 DEF ServerControls, Transmits
<1>7. CASE ServerCloses \/ ConnectionResets
  BY <1>5, <1>7 DEF ServerCloses, ConnectionResets
<1>8. CASE PollsClosed
  BY <1>5, <1>8 DEF PollsClosed
<1>9. CASE Receives
  BY <1>5, <1>9 DEF Receives
<1>10. CASE ReceivesNothing \/ ConnectionEnds
  BY <1>5, <1>10 DEF ReceivesNothing, ConnectionEnds
<1>11. CASE Flushes
  BY <1>5, <1>11 DEF Flushes
<1>12. CASE FlushBlocks \/ FlushFails \/ FlushEnds
  BY <1>5, <1>12 DEF FlushBlocks, FlushFails, FlushEnds
<1>13. CASE SendsQueued
  BY <1>5, <1>13 DEF SendsQueued
<1>14. CASE QueueEmpty
  BY <1>5, <1>14 DEF QueueEmpty
<1>15. CASE DispatchesPing
  BY <1>5, <1>15 DEF DispatchesPing, Dispatches
<1>16. CASE DispatchesPong
  BY <1>5, <1>16 DEF DispatchesPong, Dispatches
<1>17. CASE DispatchesClose
  BY <1>5, <1>17 DEF DispatchesClose, Dispatches, close
<1>18. CASE DispatchReturns
  BY <1>5, <1>18 DEF DispatchReturns
<1>19. CASE UNCHANGED vars
  BY <1>5, <1>19 DEF vars
<1>20. ASSUME Server PROVE [Pipe!PipeNext]_(Pipe!pvars)
  BY <1>1, <1>6, <1>7, <1>20 DEF Server
<1>21. ASSUME Loop PROVE [Pipe!PipeNext]_(Pipe!pvars)
  BY <1>2, <1>8, <1>9, <1>10, <1>11, <1>12, <1>13, <1>14, <1>15, <1>16, <1>17, <1>18,
     <1>21 DEF Loop
<1>22. QED
  BY <1>3, <1>4, <1>19, <1>20, <1>21 DEF Next

\* The websocket implements the safety of a pipe of messages: of the messages
\* that go in at one end no other one comes out at the other, none twice and
\* none before the one that went in ahead of it.
THEOREM ImplementsPipeSafely == Spec => Pipe!PipeSafe
<1>1. Init => Pipe!PipeInit
  BY PipeInitially
<1>2. IInv /\ [Next]_vars => [Pipe!PipeNext]_(Pipe!pvars)
  BY PipeStep
<1>3. QED
  BY <1>1, <1>2, Invariant, PTL DEF Spec, Pipe!PipeSafe

-----------------------------------------------------------------------------
(* Bytes on the wire                                                         *)

\* Numbers of four bytes, the high ones of eight being 0.
Longs == {n \in Nat : n < 4294967296}

Third(n) == n \div 16777216
Second(n) == (n \div 65536) % 256

LEMMA LongParts ==
    ASSUME NEW n \in Longs
    PROVE  /\ Third(n) \in Byte /\ Second(n) \in Byte /\ High(n) \in Byte /\ Low(n) \in Byte
           /\ 256 * (256 * (256 * Third(n) + Second(n)) + High(n)) + Low(n) = n
<1>1. n \in Nat /\ n < 4294967296
    BY DEF Longs
<1> DEFINE a == n \div 256
           b == a \div 256
           c == b \div 256
<1>2. a \in Nat /\ a < 16777216 /\ Low(n) \in 0 .. 255 /\ 256 * a + Low(n) = n
    BY <1>1, SMT DEF Low
<1> HIDE DEF a
<1>3. b \in Nat /\ b < 65536 /\ a % 256 \in 0 .. 255 /\ 256 * b + (a % 256) = a
    BY <1>2, SMT
<1> HIDE DEF b
<1>4. c \in Nat /\ c < 256 /\ b % 256 \in 0 .. 255 /\ 256 * c + (b % 256) = b
    BY <1>3, SMT
<1> HIDE DEF c
<1>5. High(n) = a % 256
    BY DEF High, a
<1>6. b = n \div 65536
    BY <1>1, SMT DEF a, b
<1>7. c = n \div 16777216
    BY <1>1, SMT DEF a, b, c
<1>8. Third(n) = c /\ Second(n) = b % 256
    BY <1>6, <1>7 DEF Third, Second
<1> QED
    BY <1>2, <1>3, <1>4, <1>5, <1>8 DEF Byte

LEMMA BytesOfLong ==
    ASSUME NEW n \in Longs
    PROVE  /\ BigEndian(n, 8) \in Seq(Byte) /\ Len(BigEndian(n, 8)) = 8
           /\ \A i \in 1 .. 4 : BigEndian(n, 8)[i] = 0
           /\ BigEndian(n, 8)[5] = Third(n) /\ BigEndian(n, 8)[6] = Second(n)
           /\ BigEndian(n, 8)[7] = High(n) /\ BigEndian(n, 8)[8] = Low(n)
<1> DEFINE s == BigEndian(n, 8)
<1>1. n \in Nat
    BY DEF Longs
<1>2. s = [i \in 1 .. 8 |-> IF 8 - i > 3 THEN 0 ELSE (n \div 256 ^ (8 - i)) % 256]
    BY DEF BigEndian
<1>3. \A i \in 1 .. 4 : s[i] = 0
    BY <1>2
<1>4. s[8] = Low(n)
    BY <1>1, <1>2, SMT DEF Low
<1>5. s[7] = High(n)
    BY <1>1, <1>2, SMT DEF High
<1>6. s[6] = Second(n)
    BY <1>1, <1>2, SMT DEF Second
<1>7. s[5] = Third(n)
    <2>1. s[5] = (n \div 256 ^ 3) % 256
        BY <1>1, <1>2, SMT
    <2>2. 256 ^ 3 = 16777216
        BY SMT
    <2>3. Third(n) \in 0 .. 255
        BY LongParts DEF Byte
    <2>4. Third(n) % 256 = Third(n)
        BY <2>3, SmallByte
    <2> QED
        BY <2>1, <2>2, <2>4 DEF Third
<1>8. DOMAIN s = 1 .. 8 /\ s = [i \in DOMAIN s |-> s[i]]
    BY <1>2
<1> HIDE DEF s
<1>9. 0 \in Byte
    BY DEF Byte
<1>10. \A i \in 1 .. 8 : s[i] \in Byte
    <2>1. \A i \in 1 .. 8 : i \in 1 .. 4 \/ i = 5 \/ i = 6 \/ i = 7 \/ i = 8
        OBVIOUS
    <2> QED
        BY <1>3, <1>4, <1>5, <1>6, <1>7, <1>9, <2>1, LongParts
<1>11. s \in Seq(Byte) /\ Len(s) = 8
    <2>1. s \in [1 .. 8 -> Byte]
        BY <1>8, <1>10
    <2>2. s \in Seq(Byte)
        BY <2>1, SeqDef
    <2> QED
        BY <1>8, <2>2
<1> QED
    BY <1>3, <1>4, <1>5, <1>6, <1>7, <1>11 DEF s

LEMMA LongOfBytes ==
    ASSUME NEW n \in Longs PROVE Number(BigEndian(n, 8)) = n
<1> DEFINE data == BigEndian(n, 8)
<1>1. /\ data \in Seq(Byte) /\ Len(data) = 8 /\ \A i \in 1 .. 4 : data[i] = 0
      /\ data[5] = Third(n) /\ data[6] = Second(n) /\ data[7] = High(n) /\ data[8] = Low(n)
    BY BytesOfLong
<1> HIDE DEF data
<1>2. PICK f : Counts(data, f)
    BY <1>1, NumberSteps, Zenon
<1>3. /\ f[0] = 0 /\ Number(data) = f[8]
      /\ \A i \in 1 .. 8 : f[i] = 256 * f[i - 1] + data[i]
    BY <1>1, <1>2, SMT DEF Counts
<1>4. f[1] = 0
    BY <1>1, <1>3
<1>5. f[2] = 0
    BY <1>1, <1>3, <1>4
<1>6. f[3] = 0
    BY <1>1, <1>3, <1>5
<1>7. f[4] = 0
    BY <1>1, <1>3, <1>6
<1>8. Third(n) \in Nat /\ Second(n) \in Nat /\ High(n) \in Nat /\ Low(n) \in Nat
    BY LongParts DEF Byte
<1>9. f[5] = Third(n)
    BY <1>1, <1>3, <1>7, <1>8
<1>10. f[6] = 256 * Third(n) + Second(n)
    BY <1>1, <1>3, <1>8, <1>9
<1>11. f[7] = 256 * (256 * Third(n) + Second(n)) + High(n)
    BY <1>1, <1>3, <1>8, <1>10
<1>12. f[8] = 256 * (256 * (256 * Third(n) + Second(n)) + High(n)) + Low(n)
    BY <1>1, <1>3, <1>8, <1>11, SMTT(40)
<1> QED
    BY <1>3, <1>12, LongParts DEF data

\* A part of a sequence of bytes.
LEMMA Slice ==
    ASSUME NEW v \in Seq(Byte), NEW i \in Nat, NEW n \in Nat, i + n <= Len(v)
    PROVE  /\ SubSeq(v, i + 1, i + n) \in Seq(Byte)
           /\ Len(SubSeq(v, i + 1, i + n)) = n
           /\ \A k \in 1 .. n : SubSeq(v, i + 1, i + n)[k] = v[i + k]
<1> DEFINE a == i + 1
           b == i + n
           s == SubSeq(v, a, b)
<1>1. a \in 1 .. Len(v) + 1 /\ b \in a - 1 .. Len(v) /\ b - a + 1 = n
    OBVIOUS
<1>2. \A k \in 1 .. n : a + k - 1 = i + k
    OBVIOUS
<1> HIDE DEF a, b
<1>3. s \in Seq(Byte) /\ Len(s) = b - a + 1 /\ \A k \in 1 .. b - a + 1 : s[k] = v[a + k - 1]
    BY <1>1, SubSeqProperties, SMTT(40)
<1> HIDE DEF s
<1>4. s \in Seq(Byte) /\ Len(s) = n /\ \A k \in 1 .. n : s[k] = v[i + k]
    BY <1>1, <1>2, <1>3
<1> QED
    BY <1>4 DEF s, a, b

LEMMA PairJoined ==
    ASSUME NEW a \in Byte, NEW b \in Byte PROVE <<a>> \o <<b>> = <<a, b>>
<1> DEFINE s == <<a>> \o <<b>>
           t == <<a, b>>
<1>1. s \in Seq(Byte) /\ Len(s) = 2 /\ s[1] = a /\ s[2] = b
    OBVIOUS
<1>2. t \in Seq(Byte) /\ Len(t) = 2 /\ t[1] = a /\ t[2] = b
    OBVIOUS
<1> HIDE DEF s, t
<1>3. \A k \in 1 .. 2 : s[k] = t[k]
    BY <1>1, <1>2
<1>4. s = t
    BY <1>1, <1>2, <1>3, SeqEqual
<1> QED
    BY <1>4 DEF s, t

\* The middle of three sequences.
LEMMA Middle ==
    ASSUME NEW x \in Seq(Byte), NEW y \in Seq(Byte), NEW z \in Seq(Byte)
    PROVE  /\ x \o y \o z \in Seq(Byte)
           /\ Len(x \o y \o z) = Len(x) + Len(y) + Len(z)
           /\ \A k \in 1 .. Len(x) : (x \o y \o z)[k] = x[k]
           /\ SubSeq(x \o y \o z, Len(x) + 1, Len(x) + Len(y)) = y
           /\ SubSeq(x \o y \o z, Len(x) + Len(y) + 1, Len(x) + Len(y) + Len(z)) = z
<1> DEFINE u == x \o y
           v == u \o z
           l == Len(x)
           m == Len(y)
           n == Len(z)
<1>1. /\ u \in Seq(Byte) /\ Len(u) = l + m
      /\ \A k \in 1 .. l : u[k] = x[k]
      /\ \A k \in 1 .. m : u[l + k] = y[k]
    BY Joining, Zenon
<1> HIDE DEF u
<1>2. /\ v \in Seq(Byte) /\ Len(v) = Len(u) + n
      /\ \A k \in 1 .. Len(u) : v[k] = u[k]
      /\ \A k \in 1 .. n : v[Len(u) + k] = z[k]
    BY <1>1, Joining, Zenon
<1>3. l \in Nat /\ m \in Nat /\ n \in Nat
    OBVIOUS
<1>4. Len(x) = l /\ Len(y) = m /\ Len(z) = n
    OBVIOUS
<1> HIDE DEF v, l, m, n
<1>5. Len(v) = l + m + n
    BY <1>1, <1>2, <1>3
<1>6. \A k \in 1 .. l : v[k] = x[k]
    BY <1>1, <1>2, <1>3
<1>7. SubSeq(v, l + 1, l + m) = y
    <2> DEFINE s == SubSeq(v, l + 1, l + m)
    <2>1. s \in Seq(Byte) /\ Len(s) = m /\ \A k \in 1 .. m : s[k] = v[l + k]
        <3>1. l + m <= Len(v)
            BY <1>3, <1>5
        <3> QED
            BY <1>2, <1>3, <3>1, Slice
    <2>2. \A k \in 1 .. m : v[l + k] = y[k]
        BY <1>1, <1>2, <1>3
    <2> HIDE DEF s
    <2>3. \A k \in 1 .. m : s[k] = y[k]
        BY <2>1, <2>2
    <2>4. s = y
        BY <1>4, <2>1, <2>3, SeqEqual
    <2> QED
        BY <2>4 DEF s
<1>8. SubSeq(v, l + m + 1, l + m + n) = z
    <2> DEFINE s == SubSeq(v, l + m + 1, l + m + n)
    <2>1. s \in Seq(Byte) /\ Len(s) = n /\ \A k \in 1 .. n : s[k] = v[l + m + k]
        <3>1. (l + m) + n <= Len(v) /\ l + m \in Nat
            BY <1>3, <1>5
        <3> QED
            BY <1>2, <1>3, <3>1, Slice
    <2>2. \A k \in 1 .. n : v[l + m + k] = z[k]
        BY <1>1, <1>2, <1>3
    <2> HIDE DEF s
    <2>3. \A k \in 1 .. n : s[k] = z[k]
        BY <2>1, <2>2
    <2>4. s = z
        BY <1>4, <2>1, <2>3, SeqEqual
    <2> QED
        BY <2>4 DEF s
<1> QED
    BY <1>2, <1>4, <1>5, <1>6, <1>7, <1>8 DEF u, v

-----------------------------------------------------------------------------
(* Headers                                                                   *)

\* The second byte of a header, without its mask bit; the bytes of the length
\* and of the key behind it.
Small(size) == IF size < 126 THEN size ELSE IF size < 65536 THEN 126 ELSE 127
Wide(size) ==
    IF size < 126 THEN <<>> ELSE IF size < 65536 THEN BigEndian(size, 2) ELSE BigEndian(size, 8)
Key(useMask) == IF useMask THEN masking_key ELSE <<>>

\* How many bytes of a header the second one announces.
Announced(b) ==
    2 + (IF b % 128 = 126 THEN 2 ELSE 0) + (IF b % 128 = 127 THEN 8 ELSE 0)
      + (IF b >= 128 THEN 4 ELSE 0)

LEMMA KeyFacts ==
    ASSUME NEW useMask \in BOOLEAN
    PROVE  Key(useMask) \in Seq(Byte) /\ Len(Key(useMask)) = IF useMask THEN 4 ELSE 0
<1>1. 18 \in Byte /\ 52 \in Byte /\ 86 \in Byte /\ 120 \in Byte
    BY DEF Byte
<1>2. masking_key \in Seq(Byte) /\ Len(masking_key) = 4
    BY <1>1 DEF masking_key
<1>3. <<>> \in Seq(Byte) /\ Len(<<>>) = 0
    OBVIOUS
<1>4. CASE useMask
    BY <1>2, <1>4 DEF Key
<1>5. CASE ~useMask
    BY <1>3, <1>5 DEF Key
<1> QED
    BY <1>4, <1>5

LEMMA SmallFacts ==
    ASSUME NEW size \in Longs, NEW useMask \in BOOLEAN
    PROVE  LET b == Small(size) + MaskBit(useMask)
           IN  /\ b \in Byte
               /\ b % 128 = Small(size)
               /\ b >= 128 <=> useMask
               /\ Small(size) \in Nat
<1>1. Small(size) \in Nat /\ Small(size) < 128
    BY DEF Small, Longs
<1>2. \A n \in Nat : n < 128 => /\ n + 0 \in Byte /\ (n + 0) % 128 = n /\ ~(n + 0 >= 128)
                                /\ n + 128 \in Byte /\ (n + 128) % 128 = n /\ n + 128 >= 128
    BY SMT DEF Byte
<1> QED
    BY <1>1, <1>2 DEF MaskBit

LEMMA WideFacts ==
    ASSUME NEW size \in Longs
    PROVE  /\ Wide(size) \in Seq(Byte)
           /\ Len(Wide(size)) = IF size < 126 THEN 0 ELSE IF size < 65536 THEN 2 ELSE 8
           /\ ~(size < 126) => Number(Wide(size)) = size
<1>1. size \in Nat
    BY DEF Longs
<1>2. CASE size < 126
    <2>1. Wide(size) = <<>>
        BY <1>2 DEF Wide
    <2>2. <<>> \in Seq(Byte) /\ Len(<<>>) = 0
        OBVIOUS
    <2> QED
        BY <1>2, <2>1, <2>2
<1>3. CASE ~(size < 126) /\ size < 65536
    <2>1. size \in WordNumbers
        BY <1>1, <1>3 DEF WordNumbers
    <2>2. High(size) \in Byte /\ Low(size) \in Byte /\ WordOf(High(size), Low(size)) = size
        BY <2>1, WordParts
    <2>3. Wide(size) = <<High(size), Low(size)>>
        BY <1>3, <2>1, BytesOfWord DEF Wide
    <2>4. Number(<<High(size), Low(size)>>) = size
        BY <2>2, WordOfBytes
    <2>5. <<High(size), Low(size)>> \in Seq(Byte) /\ Len(<<High(size), Low(size)>>) = 2
        BY <2>2
    <2> QED
        BY <1>3, <2>3, <2>4, <2>5
<1>4. CASE ~(size < 126) /\ ~(size < 65536)
    <2>1. Wide(size) = BigEndian(size, 8)
        BY <1>4 DEF Wide
    <2> QED
        BY <1>4, <2>1, BytesOfLong, LongOfBytes
<1> QED
    BY <1>2, <1>3, <1>4

\* A header is its two bytes, its length and its key.
LEMMA HeaderParts ==
    ASSUME NEW type \in 0 .. 15, NEW size \in Longs, NEW useMask \in BOOLEAN
    PROVE  HeaderOf(type, size, useMask)
              = <<128 + type, Small(size) + MaskBit(useMask)>> \o Wide(size) \o Key(useMask)
<1> DEFINE a == 128 + type
           b == Small(size) + MaskBit(useMask)
           w == Wide(size)
           k == Key(useMask)
<1>1. a \in Byte /\ b \in Byte /\ w \in Seq(Byte) /\ k \in Seq(Byte)
    <2>1. a \in Byte
        BY DEF Byte
    <2> QED
        BY <2>1, SmallFacts, WideFacts, KeyFacts
<1>2. HeaderOf(type, size, useMask) = <<a>> \o LengthField(size, useMask) \o k
    BY DEF HeaderOf, Key
<1>3. LengthField(size, useMask) = <<b>> \o w
    <2>1. LengthField(size, useMask) =
              IF size < 126 THEN <<size + MaskBit(useMask)>>
              ELSE IF size < 65536 THEN <<126 + MaskBit(useMask)>> \o BigEndian(size, 2)
              ELSE <<127 + MaskBit(useMask)>> \o BigEndian(size, 8)
        BY DEF LengthField
    <2>2. CASE size < 126
        <3>1. b = size + MaskBit(useMask) /\ w = <<>> /\ LengthField(size, useMask) = <<size + MaskBit(useMask)>>
            BY <2>1, <2>2 DEF Small, Wide
        <3> HIDE DEF b, w
        <3>2. <<b>> \o <<>> = <<b>>
            BY <1>1
        <3> QED
            BY <3>1, <3>2
    <2>3. CASE ~(size < 126)
        BY <2>1, <2>3 DEF Small, Wide
    <2> QED
        BY <2>2, <2>3
<1> HIDE DEF a, b, w, k
<1>4. <<a>> \o (<<b>> \o w) = (<<a>> \o <<b>>) \o w
    BY <1>1
<1>5. <<a>> \o <<b>> = <<a, b>>
    BY <1>1, PairJoined
<1>6. HeaderOf(type, size, useMask) = <<a, b>> \o w \o k
    BY <1>2, <1>3, <1>4, <1>5, Zenon
<1> QED
    BY <1>6 DEF a, b, w, k

LEMMA HeaderBytes ==
    ASSUME NEW type \in 0 .. 15, NEW size \in Longs, NEW useMask \in BOOLEAN
    PROVE  LET h == HeaderOf(type, size, useMask)
               b == Small(size) + MaskBit(useMask)
               m == Len(Wide(size))
               n == Len(Key(useMask))
           IN  /\ h \in Seq(Byte) /\ Len(h) = 2 + m + n
               /\ h[1] = 128 + type /\ h[2] = b
               /\ SubSeq(h, 2 + 1, 2 + m) = Wide(size)
               /\ SubSeq(h, 2 + m + 1, 2 + m + n) = Key(useMask)
               /\ Announced(b) = 2 + m + n
               /\ m \in Nat /\ n \in Nat
<1> DEFINE a == 128 + type
           b == Small(size) + MaskBit(useMask)
           w == Wide(size)
           k == Key(useMask)
           x == <<a, b>>
           h == HeaderOf(type, size, useMask)
           m == Len(w)
           n == Len(k)
<1>1. h = x \o w \o k
    BY HeaderParts
<1>2. a \in Byte /\ b \in Byte /\ w \in Seq(Byte) /\ k \in Seq(Byte)
    <2>1. a \in Byte
        BY DEF Byte
    <2> QED
        BY <2>1, SmallFacts, WideFacts, KeyFacts
<1>3. Announced(b) = 2 + m + n /\ m \in Nat /\ n \in Nat
    <2>1. m = IF size < 126 THEN 0 ELSE IF size < 65536 THEN 2 ELSE 8
        BY WideFacts
    <2>2. n = IF useMask THEN 4 ELSE 0
        BY KeyFacts
    <2>3. b % 128 = Small(size) /\ (b >= 128 <=> useMask)
        BY SmallFacts
    <2> HIDE DEF b, m, n
    <2> QED
        BY <2>1, <2>2, <2>3 DEF Announced, Small, Longs
<1> HIDE DEF a, b, w, k, h
<1>4. x \in Seq(Byte) /\ Len(x) = 2 /\ x[1] = a /\ x[2] = b
    BY <1>2
<1> HIDE DEF x
<1>5. /\ h \in Seq(Byte) /\ Len(h) = Len(x) + m + n
      /\ \A i \in 1 .. Len(x) : h[i] = x[i]
      /\ SubSeq(h, Len(x) + 1, Len(x) + m) = w
      /\ SubSeq(h, Len(x) + m + 1, Len(x) + m + n) = k
    <2> DEFINE v == x \o w \o k
    <2>1. /\ v \in Seq(Byte) /\ Len(v) = Len(x) + m + n
          /\ \A i \in 1 .. Len(x) : v[i] = x[i]
          /\ SubSeq(v, Len(x) + 1, Len(x) + m) = w
          /\ SubSeq(v, Len(x) + m + 1, Len(x) + m + n) = k
        <3>1. x \in Seq(Byte) /\ w \in Seq(Byte) /\ k \in Seq(Byte)
            BY <1>2, <1>4
        <3>2. /\ x \o w \o k \in Seq(Byte)
              /\ Len(x \o w \o k) = Len(x) + Len(w) + Len(k)
              /\ \A i \in 1 .. Len(x) : (x \o w \o k)[i] = x[i]
              /\ SubSeq(x \o w \o k, Len(x) + 1, Len(x) + Len(w)) = w
              /\ SubSeq(x \o w \o k, Len(x) + Len(w) + 1, Len(x) + Len(w) + Len(k)) = k
            BY <3>1, Middle
        <3> QED
            BY <3>2
    <2>2. h = v
        BY <1>1
    <2> HIDE DEF v, m, n
    <2> QED
        BY <2>1, <2>2, Zenon
<1> HIDE DEF m, n
<1>6. h[1] = a /\ h[2] = b
    BY <1>4, <1>5
<1>7. /\ Len(h) = 2 + m + n
      /\ SubSeq(h, 2 + 1, 2 + m) = w
      /\ SubSeq(h, 2 + m + 1, 2 + m + n) = k
    BY <1>4, <1>5, Zenon
<1> QED
    BY <1>2, <1>3, <1>5, <1>6, <1>7 DEF a, b, w, k, h, m, n

\* A header of any length of less than 2^32, of any opcode, masked or not, is
\* read by _dispatchBinary as sendData wrote it, and no front of it is taken
\* for a header (easywsclient.cpp:257 and :355).
THEOREM HeaderRead ==
    ASSUME NEW type \in 0 .. 15, NEW size \in Longs, NEW useMask \in BOOLEAN
    PROVE  HeaderUnderstood(type, size, useMask)
<1> DEFINE h == HeaderOf(type, size, useMask)
           b == Small(size) + MaskBit(useMask)
           m == Len(Wide(size))
           n == Len(Key(useMask))
<1>1. /\ h \in Seq(Byte) /\ Len(h) = 2 + m + n
      /\ h[1] = 128 + type /\ h[2] = b
      /\ SubSeq(h, 2 + 1, 2 + m) = Wide(size)
      /\ SubSeq(h, 2 + m + 1, 2 + m + n) = Key(useMask)
      /\ Announced(b) = 2 + m + n
      /\ m \in Nat /\ n \in Nat
    BY HeaderBytes, ZenonT(60)
<1>2. /\ m = IF size < 126 THEN 0 ELSE IF size < 65536 THEN 2 ELSE 8
      /\ ~(size < 126) => Number(Wide(size)) = size
    BY WideFacts
<1>3. n = IF useMask THEN 4 ELSE 0
    BY KeyFacts
<1>4. b % 128 = Small(size) /\ (b >= 128 <=> useMask) /\ b \in Byte
    BY SmallFacts
<1> HIDE DEF h, b, m, n
<1>5. \A data : header_size(data) = Announced(data[2])
    BY DEF header_size, Announced, N0, IsMasked
<1>6. header_size(h) = Len(h)
    BY <1>1, <1>5, Zenon
<1>7. N0(h) = Small(size) /\ (IsMasked(h) <=> useMask)
    BY <1>1, <1>4 DEF N0, IsMasked
<1>8. LengthOf(h) = size
    <2>1. CASE size < 126
        <3>1. Small(size) = size
            BY <2>1 DEF Small
        <3> QED
            BY <1>7, <2>1, <3>1 DEF LengthOf
    <2>2. CASE ~(size < 126) /\ size < 65536
        <3>1. Small(size) = 126 /\ m = 2
            BY <1>2, <2>2 DEF Small
        <3>2. LengthOf(h) = Number(SubSeq(h, 3, 4))
            BY <1>7, <3>1 DEF LengthOf
        <3>3. SubSeq(h, 3, 4) = Wide(size)
            <4>1. 2 + 1 = 3 /\ 2 + m = 4
                BY <3>1
            <4> QED
                BY <1>1, <4>1, Zenon
        <3>4. Number(Wide(size)) = size
            BY <1>2, <2>2
        <3> QED
            BY <3>2, <3>3, <3>4, Zenon
    <2>3. CASE ~(size < 126) /\ ~(size < 65536)
        <3>1. Small(size) = 127 /\ m = 8
            BY <1>2, <2>3 DEF Small
        <3>2. LengthOf(h) = Number(SubSeq(h, 3, 10))
            BY <1>7, <3>1 DEF LengthOf
        <3>3. SubSeq(h, 3, 10) = Wide(size)
            <4>1. 2 + 1 = 3 /\ 2 + m = 10
                BY <3>1
            <4> QED
                BY <1>1, <4>1, Zenon
        <3>4. Number(Wide(size)) = size
            BY <1>2, <2>3
        <3> QED
            BY <3>2, <3>3, <3>4, Zenon
    <2> QED
        BY <2>1, <2>2, <2>3
<1>9. KeyOf(h) = IF useMask THEN masking_key ELSE <<0, 0, 0, 0>>
    <2>1. CASE useMask
        <3>1. n = 4 /\ Key(useMask) = masking_key
            BY <1>3, <2>1 DEF Key
        <3>2. header_size(h) - 3 = 2 + m + 1 /\ header_size(h) = 2 + m + n
            BY <1>1, <1>6, <3>1
        <3>3. SubSeq(h, header_size(h) - 3, header_size(h)) = masking_key
            BY <1>1, <3>1, <3>2, Zenon
        <3> QED
            BY <1>7, <2>1, <3>3 DEF KeyOf
    <2>2. CASE ~useMask
        BY <1>7, <2>2 DEF KeyOf
    <2> QED
        BY <2>1, <2>2
<1>10. (h[1] >= 128) = TRUE /\ h[1] % 16 = type
    <2>1. (128 + type) >= 128 /\ (128 + type) % 16 = type
        BY SMT
    <2> QED
        BY <1>1, <2>1
<1>11. Read(h) = [fin |-> TRUE, opcode |-> type, N |-> size,
                  key |-> IF useMask THEN masking_key ELSE <<0, 0, 0, 0>>]
    BY <1>8, <1>9, <1>10, Zenon DEF Read
<1>12. ASSUME NEW l \in 0 .. Len(h) - 1 PROVE Incomplete(SubSeq(h, 1, l))
    <2> DEFINE s == SubSeq(h, 1, l)
    <2>1. l \in Nat /\ l < Len(h)
        BY <1>1
    <2>2. Len(s) = l /\ \A k \in 1 .. l : s[k] = h[k]
        <3>1. 0 + 1 = 1 /\ 0 + l = l /\ 0 + l <= Len(h)
            BY <2>1
        <3>2. \A i \in Nat : i + l <= Len(h) =>
                  /\ Len(SubSeq(h, i + 1, i + l)) = l
                  /\ \A k \in 1 .. l : SubSeq(h, i + 1, i + l)[k] = h[i + k]
            <4>1. h \in Seq(Byte)
                BY <1>1
            <4> QED
                BY <2>1, <4>1, Slice, Zenon
        <3>3. /\ Len(SubSeq(h, 0 + 1, 0 + l)) = l
              /\ \A k \in 1 .. l : SubSeq(h, 0 + 1, 0 + l)[k] = h[0 + k]
            BY <3>1, <3>2
        <3>4. \A k \in 1 .. l : 0 + k = k
            OBVIOUS
        <3> QED
            BY <3>1, <3>3, <3>4
    <2> HIDE DEF s
    <2>3. l < 2 => Incomplete(s)
        BY <2>2 DEF Incomplete
    <2>4. ASSUME ~(l < 2) PROVE Incomplete(s)
        <3>1. s[2] = h[2]
            BY <2>1, <2>2, <2>4
        <3>2. header_size(s) = Len(h)
            BY <1>5, <1>6, <3>1, Zenon
        <3>3. Len(s) < header_size(s)
            BY <2>1, <2>2, <3>2
        <3> QED
            BY <3>3 DEF Incomplete
    <2> QED
        BY <2>3, <2>4 DEF s
<1> QED
    BY <1>6, <1>11, <1>12 DEF HeaderUnderstood, h

LEMMA TypeIsUnderstood ==
    ASSUME NEW type \in 0 .. 15, NEW useMask \in BOOLEAN
    PROVE  TypeUnderstood(type, useMask)
<1>1. Sizes \subseteq Longs
    BY SMT DEF Sizes, Longs
<1> QED
    BY <1>1, HeaderRead DEF TypeUnderstood

-----------------------------------------------------------------------------
(* Masks                                                                     *)

LEMMA ParityOne ==
    ASSUME NEW a \in Byte, NEW k \in 0 .. 7 PROVE Parity(<<a>>, k) = Bit(a, k)
<1> DEFINE s == <<>>
<1>1. s \in Seq(Byte)
    OBVIOUS
<1>2. Parity(s, k) = 0
    <2>1. {i \in DOMAIN s : Bit(s[i], k) = 1} = {}
        OBVIOUS
    <2>2. Cardinality({}) = 0
        BY FS_EmptySet
    <2>3. 0 % 2 = 0
        OBVIOUS
    <2> HIDE DEF s
    <2> QED
        BY <2>1, <2>2, <2>3, Zenon DEF Parity
<1>3. <<a>> = Append(s, a)
    OBVIOUS
<1> HIDE DEF s
<1>4. Parity(<<a>>, k) = (Parity(s, k) + Bit(a, k)) % 2
    BY <1>1, <1>3, ParityAppend, Zenon
<1>5. Bit(a, k) \in {0, 1}
    BY BitType
<1>6. \A b \in {0, 1} : (0 + b) % 2 = b
    OBVIOUS
<1> QED
    BY <1>2, <1>4, <1>5, <1>6

LEMMA ParityTwo ==
    ASSUME NEW a \in Byte, NEW b \in Byte, NEW k \in 0 .. 7
    PROVE  Parity(<<a, b>>, k) = (Bit(a, k) + Bit(b, k)) % 2
<1>1. <<a>> \in Seq(Byte) /\ <<a, b>> = Append(<<a>>, b)
    OBVIOUS
<1>2. Parity(Append(<<a>>, b), k) = (Parity(<<a>>, k) + Bit(b, k)) % 2
    BY <1>1, ParityAppend, Zenon
<1> QED
    BY <1>1, <1>2, ParityOne, Zenon

\* What is masked twice with a byte is what it was.
LEMMA XorTwice ==
    ASSUME NEW a \in Byte, NEW b \in Byte
    PROVE  Xor(<<a, b>>) \in Byte /\ Xor(<<Xor(<<a, b>>), b>>) = a
<1> DEFINE c == Xor(<<a, b>>)
<1>1. <<a, b>> \in Seq(Byte)
    OBVIOUS
<1>2. c \in Byte /\ \A k \in 0 .. 7 : Bit(c, k) = (Bit(a, k) + Bit(b, k)) % 2
    BY <1>1, XorBits, ParityTwo, Zenon
<1> HIDE DEF c
<1> DEFINE d == Xor(<<c, b>>)
<1>3. <<c, b>> \in Seq(Byte)
    BY <1>2
<1>4. d \in Byte /\ \A k \in 0 .. 7 : Bit(d, k) = (Bit(c, k) + Bit(b, k)) % 2
    BY <1>2, <1>3, XorBits, ParityTwo, Zenon
<1> HIDE DEF d
<1>5. \A k \in 0 .. 7 : Bit(d, k) = Bit(a, k)
    <2> TAKE k \in 0 .. 7
    <2>1. Bit(a, k) \in {0, 1} /\ Bit(b, k) \in {0, 1}
        BY BitType
    <2>2. \A x \in {0, 1}, y \in {0, 1} : (((x + y) % 2) + y) % 2 = x
        OBVIOUS
    <2>3. Bit(d, k) = (((Bit(a, k) + Bit(b, k)) % 2) + Bit(b, k)) % 2
        BY <1>2, <1>4, Zenon
    <2> QED
        BY <2>1, <2>2, <2>3, Zenon
<1>6. d = a
    BY <1>4, <1>5, BitsDiffer
<1> QED
    BY <1>2, <1>6 DEF c, d

LEMMA MaskedType ==
    ASSUME NEW data \in Seq(Byte), NEW key \in Seq(Byte), Len(key) = 4
    PROVE  /\ Masked(data, key) \in Seq(Byte) /\ DOMAIN Masked(data, key) = DOMAIN data
           /\ \A i \in DOMAIN data : 1 + ((i - 1) % 4) \in 1 .. Len(key)
           /\ Masked(data, key) = [i \in DOMAIN data |-> Xor(<<data[i], key[1 + ((i - 1) % 4)]>>)]
<1> DEFINE s == Masked(data, key)
<1>1. s = [i \in DOMAIN data |-> Xor(<<data[i], key[1 + ((i - 1) % 4)]>>)]
    BY DEF Masked
<1>2. DOMAIN data = 1 .. Len(data) /\ Len(data) \in Nat
    OBVIOUS
<1>3. \A i \in Nat \ {0} : 1 + ((i - 1) % 4) \in 1 .. 4
    BY SMT
<1>4. \A i \in DOMAIN data : 1 + ((i - 1) % 4) \in 1 .. Len(key)
    BY <1>2, <1>3
<1> HIDE DEF s
<1>5. \A i \in DOMAIN data : data[i] \in Byte /\ key[1 + ((i - 1) % 4)] \in Byte
    <2>1. \A j \in 1 .. Len(key) : key[j] \in Byte
        BY ElementOfSeq, Zenon
    <2>2. \A i \in DOMAIN data : data[i] \in Byte
        OBVIOUS
    <2> QED
        BY <1>4, <2>1, <2>2, Zenon
<1>6. \A i \in DOMAIN data : s[i] \in Byte
    BY <1>1, <1>5, XorTwice
<1>7. s \in [1 .. Len(data) -> Byte]
    BY <1>1, <1>2, <1>6
<1>8. s \in Seq(Byte)
    BY <1>2, <1>7, SeqDef
<1> QED
    BY <1>1, <1>4, <1>8 DEF s

\* What sendData masks _dispatchBinary unmasks, for every payload and every key:
\* masked twice with a key, bytes are what they were (easywsclient.cpp:257 and
\* :355).
THEOREM MaskedTwice ==
    ASSUME NEW data \in Seq(Byte), NEW key \in Seq(Byte), Len(key) = 4
    PROVE  Masked(Masked(data, key), key) = data
<1> DEFINE s == Masked(data, key)
           t == Masked(s, key)
           place(i) == 1 + ((i - 1) % 4)
<1>1. /\ s \in Seq(Byte) /\ DOMAIN s = DOMAIN data
      /\ \A i \in DOMAIN data : place(i) \in 1 .. Len(key)
      /\ s = [i \in DOMAIN data |-> Xor(<<data[i], key[place(i)]>>)]
    BY MaskedType
<1> HIDE DEF s
<1>2. t = [i \in DOMAIN s |-> Xor(<<s[i], key[place(i)]>>)]
    BY <1>1, MaskedType
<1> HIDE DEF t, place
<1>3. \A i \in DOMAIN data : t[i] = data[i]
    <2> TAKE i \in DOMAIN data
    <2>1. data[i] \in Byte /\ key[place(i)] \in Byte
        <3>1. \A j \in 1 .. Len(key) : key[j] \in Byte
            BY ElementOfSeq, Zenon
        <3>2. data[i] \in Byte
            OBVIOUS
        <3> QED
            BY <1>1, <3>1, <3>2, Zenon
    <2>2. s[i] = Xor(<<data[i], key[place(i)]>>) /\ t[i] = Xor(<<s[i], key[place(i)]>>)
        BY <1>1, <1>2, Zenon
    <2> QED
        BY <2>1, <2>2, XorTwice, Zenon
<1>4. t = [i \in DOMAIN data |-> t[i]] /\ data = [i \in DOMAIN data |-> data[i]]
    BY <1>1, <1>2
<1>5. t = data
    BY <1>3, <1>4
<1> QED
    BY <1>5 DEF s, t

LEMMA CloseIsUnderstood == CloseUnderstood
<1> DEFINE f == CloseFrame
<1>1. f \in Seq(0 .. 255) /\ Len(f) = 6 /\ f[1] = 136 /\ f[2] = 128 /\ f[3] = 0 /\ f[4] = 0 /\ f[5] = 0 /\ f[6] = 0
    BY DEF CloseFrame
<1> HIDE DEF f
<1>2. N0(f) = 0 /\ IsMasked(f)
    BY <1>1, SMT DEF N0, IsMasked
<1>3. header_size(f) = 6 /\ LengthOf(f) = 0
    BY <1>2 DEF header_size, LengthOf
<1>4. KeyOf(f) = <<0, 0, 0, 0>>
    <2> DEFINE s == SubSeq(f, 3, 6)
    <2>1. 2 + 1 = 3 /\ 2 + 4 = 6 /\ 2 + 4 <= Len(f)
        BY <1>1
    <2>2. f \in Seq(Byte)
        BY <1>1 DEF Byte
    <2>3. s \in Seq(Byte) /\ Len(s) = 4 /\ \A k \in 1 .. 4 : s[k] = f[2 + k]
        <3>1. /\ SubSeq(f, 2 + 1, 2 + 4) \in Seq(Byte)
              /\ Len(SubSeq(f, 2 + 1, 2 + 4)) = 4
              /\ \A k \in 1 .. 4 : SubSeq(f, 2 + 1, 2 + 4)[k] = f[2 + k]
            BY <2>1, <2>2, Slice
        <3> QED
            BY <2>1, <3>1, Zenon
    <2> HIDE DEF s
    <2>4. s[1] = 0 /\ s[2] = 0 /\ s[3] = 0 /\ s[4] = 0
        BY <1>1, <2>3
    <2> DEFINE z == <<0, 0, 0, 0>>
    <2>5. z \in Seq(Nat) /\ Len(z) = 4 /\ z[1] = 0 /\ z[2] = 0 /\ z[3] = 0 /\ z[4] = 0
        OBVIOUS
    <2> HIDE DEF z
    <2>6. \A k \in 1 .. 4 : s[k] = z[k]
        BY <2>4, <2>5
    <2>7. s = z
        BY <2>3, <2>5, <2>6, SeqEqual
    <2>8. header_size(f) - 3 = 3
        BY <1>3
    <2> QED
        BY <1>2, <1>3, <2>7, <2>8 DEF KeyOf, s, z
<1>5. (f[1] >= 128) = TRUE /\ f[1] % 16 = 8
    BY <1>1
<1>6. Read(f) = [fin |-> TRUE, opcode |-> 8, N |-> 0, key |-> <<0, 0, 0, 0>>]
    BY <1>3, <1>4, <1>5 DEF Read
<1>7. masking_key \in Seq(Byte) /\ Len(masking_key) = 4
    <2>1. 18 \in Byte /\ 52 \in Byte /\ 86 \in Byte /\ 120 \in Byte
        BY DEF Byte
    <2> QED
        BY <2>1 DEF masking_key
<1>8. <<0>> \in Seq(Byte) /\ <<255, 18>> \in Seq(Byte) /\ <<1, 2, 4, 8, 16, 32>> \in Seq(Byte)
    <2>1. 0 \in Byte /\ 255 \in Byte /\ 18 \in Byte /\ 1 \in Byte /\ 2 \in Byte /\ 4 \in Byte
          /\ 8 \in Byte /\ 16 \in Byte /\ 32 \in Byte
        BY DEF Byte
    <2> QED
        BY <2>1
<1>9. \A data \in {<<0>>, <<255, 18>>, <<1, 2, 4, 8, 16, 32>>} :
          Masked(Masked(data, masking_key), masking_key) = data
    BY <1>7, <1>8, MaskedTwice, ZenonT(60)
<1> QED
    BY <1>1, <1>3, <1>6, <1>9 DEF CloseUnderstood, f

-----------------------------------------------------------------------------
(* The response to the handshake                                             *)

Chars == {"c", "d", "CR", "LF"}

LEMMA CharsJoined ==
    ASSUME NEW a \in Seq(Chars), NEW b \in Seq(Chars)
    PROVE  /\ a \o b \in Seq(Chars) /\ Len(a \o b) = Len(a) + Len(b)
           /\ \A k \in 1 .. Len(a) : (a \o b)[k] = a[k]
           /\ \A k \in 1 .. Len(b) : (a \o b)[Len(a) + k] = b[k]
<1>1. IsJoin(a \o b, a, b, Chars)
    BY JoinedAny, Zenon
<1> QED
    BY <1>1, Zenon DEF IsJoin

\* Is there a line of n characters behind the first `from`?
LineAt(response, from, n) ==
    /\ from + n + 2 <= Len(response)
    /\ \A i \in 1 .. n : response[from + i] = "c"
    /\ response[from + n + 1] = "CR"
    /\ response[from + n + 2] = "LF"

LEMMA LineFacts ==
    ASSUME NEW n \in Nat
    PROVE  /\ Line(n) \in Seq(Chars) /\ Len(Line(n)) = n + 2
           /\ \A i \in 1 .. n : Line(n)[i] = "c"
           /\ Line(n)[n + 1] = "CR" /\ Line(n)[n + 2] = "LF"
<1> DEFINE a == [i \in 1 .. n |-> "c"]
           b == <<"CR", "LF">>
           s == a \o b
<1>1. a \in Seq(Chars) /\ Len(a) = n /\ \A i \in 1 .. n : a[i] = "c"
    <2>1. a \in [1 .. n -> Chars]
        BY DEF Chars
    <2>2. a \in Seq(Chars)
        BY <2>1, SeqDef
    <2>3. DOMAIN a = 1 .. n
        OBVIOUS
    <2>4. \A i \in 1 .. n : a[i] = "c"
        OBVIOUS
    <2> HIDE DEF a
    <2> QED
        BY <2>2, <2>3, <2>4
<1>2. b \in Seq(Chars) /\ Len(b) = 2 /\ b[1] = "CR" /\ b[2] = "LF"
    BY DEF Chars
<1>3. Line(n) = s
    BY DEF Line
<1> HIDE DEF a, b
<1>4. /\ s \in Seq(Chars) /\ Len(s) = Len(a) + Len(b)
      /\ \A k \in 1 .. Len(a) : s[k] = a[k]
      /\ \A k \in 1 .. Len(b) : s[Len(a) + k] = b[k]
    <2>1. a \in Seq(Chars) /\ b \in Seq(Chars)
        BY <1>1, <1>2
    <2> QED
        BY <2>1, CharsJoined, Zenon
<1> HIDE DEF s
<1>5. Len(s) = n + 2 /\ \A i \in 1 .. n : s[i] = "c"
    BY <1>1, <1>2, <1>4
<1>6. s[n + 1] = "CR" /\ s[n + 2] = "LF"
    BY <1>1, <1>2, <1>4
<1> QED
    BY <1>3, <1>4, <1>5, <1>6

\* The lines of a text stay where they are when text is added.
LEMMA LineStays ==
    ASSUME NEW a \in Seq(Chars), NEW b \in Seq(Chars), NEW from \in Nat, NEW n \in Nat,
           LineAt(a, from, n)
    PROVE  LineAt(a \o b, from, n)
<1> DEFINE s == a \o b
<1>1. /\ s \in Seq(Chars) /\ Len(s) = Len(a) + Len(b)
      /\ \A k \in 1 .. Len(a) : s[k] = a[k]
    BY CharsJoined
<1>2. /\ from + n + 2 <= Len(a)
      /\ \A i \in 1 .. n : a[from + i] = "c"
      /\ a[from + n + 1] = "CR"
      /\ a[from + n + 2] = "LF"
    BY DEF LineAt
<1>3. Len(a) \in Nat /\ Len(b) \in Nat
    OBVIOUS
<1> HIDE DEF s
<1>4. from + n + 2 <= Len(s)
    BY <1>1, <1>2, <1>3
<1>5. ASSUME NEW i \in 1 .. n PROVE s[from + i] = "c"
    <2>1. from + i \in 1 .. Len(a)
        BY <1>2, <1>3
    <2>2. a[from + i] = "c"
        BY <1>2
    <2> QED
        BY <1>1, <2>1, <2>2
<1>6. s[from + n + 1] = "CR" /\ s[from + n + 2] = "LF"
    BY <1>1, <1>2, <1>3
<1> QED
    BY <1>4, <1>5, <1>6 DEF LineAt, s

LEMMA LineAdded ==
    ASSUME NEW a \in Seq(Chars), NEW n \in Nat
    PROVE  /\ a \o Line(n) \in Seq(Chars)
           /\ Len(a \o Line(n)) = Len(a) + n + 2
           /\ LineAt(a \o Line(n), Len(a), n)
<1> DEFINE b == Line(n)
           s == a \o b
           m == Len(a)
<1>1. /\ b \in Seq(Chars) /\ Len(b) = n + 2
      /\ \A i \in 1 .. n : b[i] = "c"
      /\ b[n + 1] = "CR" /\ b[n + 2] = "LF"
    BY LineFacts
<1> HIDE DEF b
<1>2. /\ s \in Seq(Chars) /\ Len(s) = m + Len(b)
      /\ \A k \in 1 .. Len(b) : s[m + k] = b[k]
    <2>1. b \in Seq(Chars)
        BY <1>1
    <2> QED
        BY <2>1, CharsJoined, Zenon
<1>3. m \in Nat
    OBVIOUS
<1> HIDE DEF s, m
<1>4. Len(s) = m + n + 2
    BY <1>1, <1>2, <1>3
<1>5. ASSUME NEW i \in 1 .. n PROVE s[m + i] = "c"
    <2>1. i \in 1 .. Len(b) /\ b[i] = "c"
        BY <1>1
    <2> QED
        BY <1>2, <2>1
<1>6. s[m + n + 1] = "CR" /\ s[m + n + 2] = "LF"
    <2>1. n + 1 \in 1 .. Len(b) /\ n + 2 \in 1 .. Len(b)
        BY <1>1
    <2>2. s[m + (n + 1)] = "CR" /\ s[m + (n + 2)] = "LF"
        BY <1>1, <1>2, <2>1
    <2>3. m + (n + 1) = m + n + 1 /\ m + (n + 2) = m + n + 2
        BY <1>3
    <2> QED
        BY <2>2, <2>3
<1>7. LineAt(s, m, n)
    BY <1>3, <1>4, <1>5, <1>6 DEF LineAt
<1> QED
    BY <1>2, <1>4, <1>7 DEF b, s, m

\* A line that leaves room in `line` is read to its end.
LEMMA LineRead ==
    ASSUME NEW r \in Seq(Chars), NEW from \in Nat, NEW n \in Nat,
           LineAt(r, from, n), n + 2 <= LineMax
    PROVE  LineLength(r, from) = n + 2
<1> DEFINE ends == {m \in 2 .. Len(r) - from : LineEnds(r, from, m)}
           L == Len(r)
<1>1. /\ from + n + 2 <= L
      /\ \A i \in 1 .. n : r[from + i] = "c"
      /\ r[from + n + 1] = "CR"
      /\ r[from + n + 2] = "LF"
      /\ L \in Nat
    BY DEF LineAt
<1>2. n + 2 \in ends
    <2>1. n + 2 \in 2 .. Len(r) - from /\ from + (n + 2) - 1 = from + n + 1
        BY <1>1
    <2>2. LineEnds(r, from, n + 2)
        BY <1>1, <2>1 DEF LineEnds
    <2> QED
        BY <2>1, <2>2
<1>3. ASSUME NEW m \in ends, m < n + 2 PROVE FALSE
    <2>1. m \in Nat /\ 2 <= m /\ m - 1 \in 1 .. n /\ (from + m) - 1 = from + (m - 1) /\ LineMax \in Nat
        BY <1>3, LineAssumption
    <2>2. r[from + m - 1] # "CR"
        <3>1. r[from + (m - 1)] = "c"
            BY <1>1, <2>1
        <3> QED
            BY <2>1, <3>1
    <2>3. r[from + m] # "LF"
        <3>1. CASE m <= n
            <4>1. m \in 1 .. n
                BY <2>1, <3>1
            <4> QED
                BY <1>1, <4>1
        <3>2. CASE m = n + 1
            <4>1. from + m = from + n + 1
                BY <3>2
            <4> QED
                BY <1>1, <4>1
        <3> QED
            BY <1>3, <2>1, <3>1, <3>2
    <2>4. m # LineMax
        BY <1>3, <2>1
    <2> QED
        BY <2>2, <2>3, <2>4 DEF LineEnds
<1>4. \A m \in ends : m \in Nat /\ n + 2 <= m
    BY <1>1, <1>3
<1>5. LineLength(r, from) = IF ends = {} THEN 0 ELSE CHOOSE m \in ends : \A k \in ends : m <= k
    BY DEF LineLength
<1> HIDE DEF ends
<1>6. \A k \in ends : n + 2 <= k
    BY <1>4
<1>7. \A m \in ends : (\A k \in ends : m <= k) => m = n + 2
    BY <1>2, <1>4
<1> QED
    BY <1>2, <1>5, <1>6, <1>7

LEMMA LengthBounds ==
    ASSUME NEW r \in Seq(Chars), NEW from \in 0 .. Len(r)
    PROVE  LineLength(r, from) = 0 \/ LineLength(r, from) \in 2 .. Len(r) - from
<1> DEFINE ends == {m \in 2 .. Len(r) - from : LineEnds(r, from, m)}
<1>1. LineLength(r, from) = IF ends = {} THEN 0 ELSE CHOOSE m \in ends : \A k \in ends : m <= k
    BY DEF LineLength
<1>2. ends \in SUBSET Nat
    OBVIOUS
<1>3. ends \subseteq 2 .. Len(r) - from
    OBVIOUS
<1> HIDE DEF ends
<1>4. ends # {} => \E m \in ends : \A k \in ends : m <= k
    BY <1>2, Least
<1> QED
    BY <1>1, <1>3, <1>4

\* Is there an empty line behind the first `from`?
Empty(response, from) == response[from + 1] = "CR" /\ response[from + 2] = "LF"

\* The lines are read one by one, up to an empty one.
ReadsOn(response, f) ==
    \A from \in 0 .. Len(response) :
        LET n == LineLength(response, from)
        IN  f[from] = IF n = 0 THEN 0
                      ELSE IF Empty(response, from) THEN from + n
                      ELSE f[from + n]

LEMMA ConnectsSteps ==
    ASSUME NEW r \in Seq(Chars)
    PROVE  \E f : /\ ReadsOn(r, f)
                  /\ Connects(r) = IF LineLength(r, 0) \in {0, LineMax} THEN 0
                                   ELSE f[LineLength(r, 0)]
<1> DEFINE L == Len(r)
           len(from) == LineLength(r, from)
           Step(f, from) == IF len(from) = 0 THEN 0
                            ELSE IF Empty(r, from) THEN from + len(from)
                            ELSE f[from + len(from)]
           Steps(k, f) == \A from \in L - k .. L : f[from] = Step(f, from)
           Some == {k \in Nat : k <= L => \E f : Steps(k, f)}
           readTo[from \in 0 .. L] ==
               LET n == LineLength(r, from)
               IN  IF n = 0 THEN 0
                   ELSE IF r[from + 1] = "CR" /\ r[from + 2] = "LF" THEN from + n
                   ELSE readTo[from + n]
<1>1. L \in Nat
    OBVIOUS
<1>2. \A from \in 0 .. L : len(from) = 0 \/ len(from) \in 2 .. L - from
    BY LengthBounds
<1>3. Connects(r) = IF len(0) \in {0, LineMax} THEN 0 ELSE readTo[len(0)]
    BY DEF Connects
<1> HIDE DEF L, len, readTo
<1>4. 0 \in Some
    <2> DEFINE f == [from \in {L} |-> IF len(L) = 0 THEN 0 ELSE L + len(L)]
    <2>1. len(L) = 0
        BY <1>1, <1>2
    <2>2. f[L] = 0
        BY <2>1
    <2>3. \A from \in L - 0 .. L : from = L
        BY <1>1
    <2> HIDE DEF f
    <2>4. Steps(0, f)
        BY <2>1, <2>2, <2>3
    <2> HIDE DEF Steps
    <2> QED
        BY <2>4
<1>5. ASSUME NEW k \in Nat, k \in Some PROVE k + 1 \in Some
    <2> SUFFICES ASSUME k + 1 <= L PROVE \E f : Steps(k + 1, f)
        OBVIOUS
    <2>1. PICK f : Steps(k, f)
        <3> HIDE DEF Steps
        <3> QED
            BY <1>1, <1>5
    <2> DEFINE m == L - (k + 1)
    <2>2. m \in Nat /\ L - k = m + 1 /\ m < L
        BY <1>1
    <2>3. \A from \in m + 1 .. L : f[from] = Step(f, from)
        BY <2>1, <2>2
    <2> DEFINE g == [from \in m .. L |-> IF from = m THEN Step(f, m) ELSE f[from]]
    <2> HIDE DEF m, Step
    <2>4. g[m] = Step(f, m) /\ \A from \in m + 1 .. L : g[from] = f[from]
        BY <1>1, <2>2
    <2> HIDE DEF g
    <2>5. ASSUME NEW from \in m .. L PROVE Step(g, from) = Step(f, from)
        <3>1. from \in 0 .. L
            BY <2>2
        <3>2. len(from) = 0 \/ from + len(from) \in m + 1 .. L
            BY <1>1, <1>2, <2>2, <3>1
        <3> QED
            BY <2>4, <3>2 DEF Step
    <2>6. ASSUME NEW from \in m .. L PROVE g[from] = Step(g, from)
        <3>1. CASE from = m
            BY <2>4, <2>5, <3>1
        <3>2. CASE from # m
            <4>1. from \in m + 1 .. L
                BY <1>1, <2>2, <3>2
            <4> QED
                BY <2>3, <2>4, <2>5, <4>1
        <3> QED
            BY <3>1, <3>2
    <2>7. Steps(k + 1, g)
        BY <2>6 DEF m
    <2> HIDE DEF Steps
    <2> QED
        BY <2>7
<1>6. \E f : Steps(L, f)
    <2> HIDE DEF Some
    <2>1. L \in Some
        BY <1>1, <1>4, <1>5, Induction
    <2> HIDE DEF Steps
    <2> QED
        BY <1>1, <2>1 DEF Some
<1>7. PICK f : Steps(L, f)
    BY <1>6
<1> DEFINE h == [from \in 0 .. L |-> f[from]]
<1>8. \A from \in 0 .. L : f[from] = Step(f, from)
    BY <1>1, <1>7
<1>9. \A from \in 0 .. L : h[from] = f[from]
    OBVIOUS
<1>10. h = [from \in 0 .. L |-> h[from]]
    OBVIOUS
<1> HIDE DEF h
<1>11. \A from \in 0 .. L : h[from] = Step(h, from)
    <2> TAKE from \in 0 .. L
    <2>1. len(from) = 0 \/ from + len(from) \in 0 .. L
        BY <1>1, <1>2
    <2> QED
        BY <1>8, <1>9, <2>1
<1>12. h = [from \in 0 .. L |-> Step(h, from)]
    <2> HIDE DEF Step
    <2> QED
        BY <1>10, <1>11
<1>13. readTo = [from \in 0 .. L |-> Step(readTo, from)]
    <2>1. \A F, from : Step(F, from) =
              LET n == LineLength(r, from)
              IN  IF n = 0 THEN 0
                  ELSE IF r[from + 1] = "CR" /\ r[from + 2] = "LF" THEN from + n
                  ELSE F[from + n]
        BY DEF len, Empty
    <2>2. \E F : F = [from \in 0 .. L |->
              LET n == LineLength(r, from)
              IN  IF n = 0 THEN 0
                  ELSE IF r[from + 1] = "CR" /\ r[from + 2] = "LF" THEN from + n
                  ELSE F[from + n]]
        <3> HIDE DEF Step
        <3> QED
            BY <1>12, <2>1
    <2>3. readTo = [from \in 0 .. L |->
              LET n == LineLength(r, from)
              IN  IF n = 0 THEN 0
                  ELSE IF r[from + 1] = "CR" /\ r[from + 2] = "LF" THEN from + n
                  ELSE readTo[from + n]]
        BY <2>2 DEF readTo
    <2> HIDE DEF Step
    <2> QED
        BY <2>1, <2>3
<1>14. ReadsOn(r, readTo)
    <2>1. \A from \in 0 .. L : readTo[from] = Step(readTo, from)
        <3> HIDE DEF Step
        <3> QED
            BY <1>13
    <2> QED
        BY <2>1 DEF ReadsOn, L, len
<1> QED
    BY <1>3, <1>14 DEF len

\* What a response is made of, and where its lines are.
LEMMA ResponseLines ==
    ASSUME NEW s \in Nat, NEW h \in Nat, NEW x \in Nat
    PROVE  /\ Response(s, h, x) \in Seq(Chars)
           /\ Len(Response(s, h, x)) = s + h + x + 11
           /\ LineAt(Response(s, h, x), 0, s)
           /\ LineAt(Response(s, h, x), s + 2, h)
           /\ LineAt(Response(s, h, x), s + h + 4, x)
           /\ LineAt(Response(s, h, x), s + h + x + 6, 0)
<1> DEFINE e == <<>>
           a == e \o Line(s)
           b == a \o Line(h)
           c == b \o Line(x)
           d == c \o Line(0)
           behind == <<"d", "d", "d">>
           r == d \o behind
<1>1. Response(s, h, x) = r
    <2>1. Line(s) \in Seq(Chars)
        BY LineFacts
    <2>2. e \o Line(s) = Line(s)
        BY <2>1
    <2> QED
        BY <2>2 DEF Response
<1>2. e \in Seq(Chars) /\ Len(e) = 0
    OBVIOUS
<1>3. behind \in Seq(Chars) /\ Len(behind) = 3
    BY DEF Chars
<1> HIDE DEF e, behind
<1>4. a \in Seq(Chars) /\ Len(a) = s + 2 /\ LineAt(a, 0, s)
    <2>1. a \in Seq(Chars) /\ Len(a) = Len(e) + s + 2 /\ LineAt(a, Len(e), s)
        BY <1>2, LineAdded
    <2> HIDE DEF a
    <2> QED
        BY <1>2, <2>1
<1> HIDE DEF a
<1>5. b \in Seq(Chars) /\ Len(b) = s + h + 4 /\ LineAt(b, 0, s) /\ LineAt(b, s + 2, h)
    <2>1. b \in Seq(Chars) /\ Len(b) = Len(a) + h + 2 /\ LineAt(b, Len(a), h)
        BY <1>4, LineAdded
    <2>2. LineAt(b, 0, s)
        <3>1. Line(h) \in Seq(Chars) /\ 0 \in Nat
            BY LineFacts
        <3> QED
            BY <1>4, <3>1, LineStays
    <2> HIDE DEF b
    <2> QED
        BY <1>4, <2>1, <2>2
<1> HIDE DEF b
<1>6. /\ c \in Seq(Chars) /\ Len(c) = s + h + x + 6
      /\ LineAt(c, 0, s) /\ LineAt(c, s + 2, h) /\ LineAt(c, s + h + 4, x)
    <2>1. c \in Seq(Chars) /\ Len(c) = Len(b) + x + 2 /\ LineAt(c, Len(b), x)
        BY <1>5, LineAdded
    <2>2. LineAt(c, 0, s) /\ LineAt(c, s + 2, h)
        <3>1. Line(x) \in Seq(Chars) /\ 0 \in Nat /\ s + 2 \in Nat
            BY LineFacts
        <3> QED
            BY <1>5, <3>1, LineStays
    <2> HIDE DEF c
    <2> QED
        BY <1>5, <2>1, <2>2
<1> HIDE DEF c
<1>7. /\ d \in Seq(Chars) /\ Len(d) = s + h + x + 8
      /\ LineAt(d, 0, s) /\ LineAt(d, s + 2, h) /\ LineAt(d, s + h + 4, x)
      /\ LineAt(d, s + h + x + 6, 0)
    <2>1. d \in Seq(Chars) /\ Len(d) = Len(c) + 0 + 2 /\ LineAt(d, Len(c), 0)
        BY <1>6, LineAdded
    <2>2. LineAt(d, 0, s) /\ LineAt(d, s + 2, h) /\ LineAt(d, s + h + 4, x)
        <3>1. Line(0) \in Seq(Chars) /\ 0 \in Nat /\ s + 2 \in Nat /\ s + h + 4 \in Nat
            BY LineFacts
        <3> QED
            BY <1>6, <3>1, LineStays
    <2> HIDE DEF d
    <2> QED
        BY <1>6, <2>1, <2>2
<1> HIDE DEF d
<1>8. r \in Seq(Chars) /\ Len(r) = s + h + x + 11
    <2>1. r \in Seq(Chars) /\ Len(r) = Len(d) + Len(behind)
        BY <1>3, <1>7, CharsJoined
    <2> HIDE DEF r
    <2> QED
        BY <1>3, <1>7, <2>1
<1>9. /\ LineAt(r, 0, s) /\ LineAt(r, s + 2, h) /\ LineAt(r, s + h + 4, x)
      /\ LineAt(r, s + h + x + 6, 0)
    <2>1. 0 \in Nat /\ s + 2 \in Nat /\ s + h + 4 \in Nat /\ s + h + x + 6 \in Nat
        OBVIOUS
    <2> QED
        BY <1>3, <1>7, <2>1, LineStays
<1> QED
    BY <1>1, <1>8, <1>9

LEMMA ResponseRead ==
    ASSUME NEW s \in 1 .. LineMax - 2, NEW h \in 1 .. LineMax - 2, NEW x \in 1 .. LineMax - 2
    PROVE  Connects(Response(s, h, x)) =
               IF s = LineMax - 2 THEN 0 ELSE Len(Response(s, h, x)) - 3
<1> DEFINE r == Response(s, h, x)
<1>1. /\ s \in Nat /\ h \in Nat /\ x \in Nat /\ s > 0 /\ h > 0 /\ x > 0
      /\ s + 2 <= LineMax /\ h + 2 <= LineMax /\ x + 2 <= LineMax
      /\ LineMax \in Nat
    BY LineAssumption
<1>2. /\ r \in Seq(Chars) /\ Len(r) = s + h + x + 11
      /\ LineAt(r, 0, s) /\ LineAt(r, s + 2, h) /\ LineAt(r, s + h + 4, x)
      /\ LineAt(r, s + h + x + 6, 0)
    BY <1>1, ResponseLines
<1> HIDE DEF r
<1> DEFINE p == s + 2
           q == s + h + 4
           t == s + h + x + 6
<1>3. p \in Nat /\ q \in Nat /\ t \in Nat /\ p + (h + 2) = q /\ q + (x + 2) = t
    BY <1>1
<1>4. p \in 0 .. Len(r) /\ q \in 0 .. Len(r) /\ t \in 0 .. Len(r) /\ t + 2 = Len(r) - 3
    BY <1>1, <1>2
<1>5. LineAt(r, p, h) /\ LineAt(r, q, x) /\ LineAt(r, t, 0)
    BY <1>2
<1> HIDE DEF q, t
<1>6. LineLength(r, 0) = s + 2
    <2>1. 0 \in Nat
        OBVIOUS
    <2> QED
        BY <1>1, <1>2, <2>1, LineRead
<1>7. LineLength(r, p) = h + 2
    BY <1>1, <1>2, <1>3, <1>5, LineRead
<1>8. LineLength(r, q) = x + 2
    BY <1>1, <1>2, <1>3, <1>5, LineRead
<1>9. LineLength(r, t) = 2
    <2>1. 0 \in Nat /\ 0 + 2 <= LineMax /\ 0 + 2 = 2
        BY LineAssumption
    <2>2. LineLength(r, t) = 0 + 2
        BY <1>2, <1>3, <1>5, <2>1, LineRead
    <2> QED
        BY <2>1, <2>2
<1>10. ~Empty(r, p) /\ ~Empty(r, q)
    <2>1. r[p + 1] = "c" /\ r[q + 1] = "c"
        <3>1. 1 \in 1 .. h /\ 1 \in 1 .. x
            BY <1>1
        <3> QED
            BY <1>5, <3>1 DEF LineAt
    <2> QED
        BY <2>1 DEF Empty
<1>11. Empty(r, t)
    <2>1. r[t + 0 + 1] = "CR" /\ r[t + 0 + 2] = "LF"
        BY <1>5 DEF LineAt
    <2>2. t + 0 + 1 = t + 1 /\ t + 0 + 2 = t + 2
        BY <1>3
    <2> QED
        BY <2>1, <2>2 DEF Empty
<1>12. PICK f : /\ ReadsOn(r, f)
                /\ Connects(r) = IF LineLength(r, 0) \in {0, LineMax} THEN 0
                                 ELSE f[LineLength(r, 0)]
    BY <1>2, ConnectsSteps
<1>13. \A from \in 0 .. Len(r) :
          f[from] = IF LineLength(r, from) = 0 THEN 0
                    ELSE IF Empty(r, from) THEN from + LineLength(r, from)
                    ELSE f[from + LineLength(r, from)]
    BY <1>12 DEF ReadsOn
<1>14. f[t] = t + 2
    BY <1>4, <1>9, <1>11, <1>13
<1>15. f[q] = f[t]
    <2>1. x + 2 # 0
        BY <1>1
    <2>2. f[q] = f[q + (x + 2)]
        BY <1>4, <1>8, <1>10, <1>13, <2>1
    <2> QED
        BY <1>3, <2>2
<1>16. f[p] = f[q]
    <2>1. h + 2 # 0
        BY <1>1
    <2>2. f[p] = f[p + (h + 2)]
        BY <1>4, <1>7, <1>10, <1>13, <2>1
    <2> QED
        BY <1>3, <2>2
<1>17. CASE s = LineMax - 2
    <2>1. LineLength(r, 0) = LineMax
        BY <1>1, <1>6, <1>17
    <2>2. Connects(r) = 0
        BY <1>12, <2>1
    <2> QED
        BY <1>17, <2>2 DEF r
<1>18. CASE s # LineMax - 2
    <2>1. LineLength(r, 0) = p /\ p # 0 /\ p # LineMax
        BY <1>1, <1>6, <1>18
    <2> HIDE DEF p
    <2>2. Connects(r) = f[p]
        BY <1>12, <2>1
    <2>3. Connects(r) = Len(r) - 3
        BY <1>4, <1>14, <1>15, <1>16, <2>2
    <2> QED
        BY <1>18, <2>3 DEF r
<1> QED
    BY <1>17, <1>18

LEMMA ResponseIsUnderstood == ResponseUnderstood
<1>1. ResponseUnderstood <=>
          \A status \in 1 .. LineMax - 2 : \A header, next \in 1 .. LineMax - 2 :
              Connects(Response(status, header, next)) =
                  IF status = LineMax - 2 THEN 0 ELSE Len(Response(status, header, next)) - 3
    BY Zenon DEF ResponseUnderstood
<1> QED
    BY <1>1, ResponseRead

-----------------------------------------------------------------------------

LEMMA HeadersAreUnderstood ==
    ASSUME NEW op \in DOMAIN opcode, NEW useMask \in BOOLEAN
    PROVE  HeadersUnderstood[op][useMask]
<1>1. opcode[op] \in 0 .. 15
    BY DEF opcode
<1>2. HeadersUnderstood[op][useMask] = TypeUnderstood(opcode[op], useMask)
    BY DEF HeadersUnderstood
<1> QED
    BY <1>1, <1>2, TypeIsUnderstood

\* Both ends of the websocket read what the other one wrote, for every number
\* of frames and messages and every room in `line`: every header on its way, of
\* each of the lengths on either side of the places where its field gets
\* longer, is read by _dispatchBinary (or the server) as sendData (or the
\* server) wrote it and no front of it is taken for a header, a mask taken
\* twice is no mask, and from_url reads the response to its empty line and no
\* further (easywsclient.cpp:257, :355 and :425).
THEOREM WireUnderstoodCorrect == Spec => []WireUnderstood
<1>1. ASSUME NEW w \in Seq(Units), NEW i \in DOMAIN w, w[i].op # "payload"
      PROVE  w[i].op \in DOMAIN opcode
    <2>1. w[i] \in Units
        BY <1>1
    <2>2. w[i].op \in Ops
        BY <2>1 DEF Units
    <2> QED
        BY <1>1, <2>2 DEF Ops, opcode
<1>2. TypeOK => WireUnderstood
    <2> SUFFICES ASSUME TypeOK PROVE WireUnderstood
        OBVIOUS
    <2>1. outWire \in Seq(Units) /\ inWire \in Seq(Units)
        BY DEF TypeOK
    <2>2. TRUE \in BOOLEAN /\ FALSE \in BOOLEAN
        OBVIOUS
    <2>3. \A i \in DOMAIN outWire :
              outWire[i].op # "payload" => HeadersUnderstood[outWire[i].op][TRUE]
        BY <1>1, <2>1, <2>2, HeadersAreUnderstood
    <2>4. \A i \in DOMAIN inWire :
              inWire[i].op # "payload" => HeadersUnderstood[inWire[i].op][FALSE]
        BY <1>1, <2>1, <2>2, HeadersAreUnderstood
    <2> QED
        BY <2>3, <2>4, CloseIsUnderstood, ResponseIsUnderstood, Zenon DEF WireUnderstood
<1>3. IInv => TypeOK
    BY DEF IInv
<1> QED
    BY <1>2, <1>3, Invariant, PTL
=============================================================================
