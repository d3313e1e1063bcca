-------------------------- MODULE DataClientProofs --------------------------
(* The safety of the data client, for any number of offers, candidates,      *)
(* channels and frames and for every interleaving of its threads; that every *)
(* text it is sent can be parsed to an end, and that each message and each   *)
(* command is taken for what it is, whatever its strings and numbers are.    *)
EXTENDS DataClient, CarCommands, BytesProofs

\* Only the connection that the main thread holds is alive and calls back.
OneConnection ==
    /\ \A n \in Conns : life[n] \in Active => n = pc
    /\ \A n \in Conns : recv[n] # "idle" => n = pc
    /\ main \in {"assigned", "read", "gathering"} => pc = cur

\* Its recv thread is between the two commands of a pair, or nobody is.
PairOpen ==
    /\ line = <<>> => seq = 0 /\ \A n \in Conns : recv[n] # "reset"
    /\ line # <<>> =>
        /\ seq = (line[Len(line)].seq + 1) % SeqModulus
        /\ line[Len(line)].cmd = "reset" <=> \E n \in Conns : recv[n] = "reset"

LineInv == TypeOK /\ OneConnection /\ PairOpen /\ FramesPaired

-----------------------------------------------------------------------------
(* Types                                                                     *)

LEMMA ModuloFacts ==
    ASSUME NEW a \in Nat PROVE a % SeqModulus \in 0 .. SeqModulus - 1
BY ModulusAssumption, SMT

LEMMA MessageFacts ==
    ASSUME NEW n \in 0 .. Offers, NEW mid \in 0 .. Offers, NEW kind \in Kinds
    PROVE  /\ Plain(kind) \in Message
           /\ Offer(n) \in Message
           /\ RemoteCandidate(n) \in Message
           /\ Answer(n, mid) \in Message
           /\ LocalCandidate(n, mid) \in Message
<1>1. 0 \in 0 .. Offers
    BY OffersAssumption
<1>2. {"offer", "candidate", "answer"} \subseteq Kinds
    BY DEF Kinds
<1>3. ASSUME NEW k \in Kinds, NEW i \in 0 .. Offers, NEW j \in 0 .. Offers
      PROVE  [type |-> k, n |-> i, mid |-> j] \in Message
    BY DEF Message
<1> QED
    BY <1>1, <1>2, <1>3 DEF Plain, Offer, RemoteCandidate, Answer, LocalCandidate

LEMMA PlainFacts ==
    /\ Plain("hello") \in Message
    /\ Plain("Hello Car_data") \in Message
    /\ Plain("Session_data") \in Message
    /\ Plain("Car_data hello") \in Message
<1>1. 0 \in 0 .. Offers
    BY OffersAssumption
<1>2. {"hello", "Hello Car_data", "Session_data", "Car_data hello"} \subseteq Kinds
    BY DEF Kinds
<1> QED
    BY <1>1, <1>2, MessageFacts

LEMMA TypeInit == Init => TypeOK
<1> SUFFICES ASSUME Init PROVE TypeOK
    OBVIOUS
<1>1. Plain("hello") \in Message
    BY PlainFacts
<1> QED
    BY <1>1, OffersAssumption, ModulusAssumption DEF Init, TypeOK, Conns

\* What the server, the websocket's thread and the queues do.
LEMMA ServerTypes ==
    ASSUME TypeOK, Server PROVE TypeOK'
<1> USE DEF TypeOK, mainVars, conns, base, Delivers
<1>1. CASE ServerWelcomes
    <2>1. Plain("Hello Car_data") \in Message
        BY PlainFacts
    <2>2. toCar' = Append(toCar, Plain("Hello Car_data"))
        BY <1>1, Zenon DEF ServerWelcomes
    <2>3. sent' = sent + 1
        BY <1>1, Zenon DEF ServerWelcomes
    <2>4. ASSUME NEW m \in Message PROVE Append(toCar, m) \in Seq(Message)
        BY AppendProperties
    <2>5. toCar' \in Seq(Message)
        BY <2>1, <2>2, <2>4, Zenon
    <2>6. sent' \in Nat
        BY <2>3
    <2> QED BY <1>1, <2>5, <2>6 DEF ServerWelcomes
<1>2. CASE ControllerOffers
    <2>4. /\ toCar' = Append(toCar, Offer(offered + 1))
          /\ sent' = sent + 1
          /\ offered < Offers /\ offered' = offered + 1
        BY <1>2, Zenon DEF ControllerOffers
    <2>1. offered + 1 \in 0 .. Offers
        BY <2>4, OffersAssumption
    <2>2. Offer(offered + 1) \in Message
        BY <2>1, MessageFacts DEF Kinds
    <2>3. toCar' \in Seq(Message) /\ sent' \in Nat /\ offered' \in 0 .. Offers
        BY <2>1, <2>2, <2>4, AppendProperties
    <2> QED BY <1>2, <2>3 DEF ControllerOffers
<1>3. CASE ControllerAdds
    <2>1. PICK n \in 1 .. offered : Delivers(RemoteCandidate(n))
        BY <1>3 DEF ControllerAdds
    <2>2. n \in 0 .. Offers /\ "candidate" \in Kinds
        BY OffersAssumption DEF Kinds
    <2>3. RemoteCandidate(n) \in Message
        BY <2>2, MessageFacts
    <2>4. toCar' \in Seq(Message) /\ sent' \in Nat
        BY <2>1, <2>3, AppendProperties
    <2> QED BY <1>3, <2>4 DEF ControllerAdds
<1>4. CASE ControllerCalls
    <2>1. Plain("Session_data") \in Message
        BY PlainFacts
    <2> QED BY <1>4, <2>1, SMTT(40) DEF ControllerCalls
<1>5. CASE ServerCloses
    <2>1. PICK k \in 0 .. Len(toCar) : toCar' = SubSeq(toCar, 1, k)
        BY <1>5 DEF ServerCloses
    <2>2. toCar' \in Seq(Message)
        BY <2>1, SubSeqProperties
    <2> QED BY <1>5, <2>2 DEF ServerCloses
<1> QED
    BY <1>1, <1>2, <1>3, <1>4, <1>5 DEF Server
LEMMA LoopTypes ==
    ASSUME TypeOK, LoopDispatches \/ LoopSends PROVE TypeOK'
<1> USE DEF TypeOK, mainVars, conns, base
<1>1. CASE LoopDispatches
    BY <1>1, HeadTailProperties, AppendProperties DEF LoopDispatches
<1>2. CASE LoopSends
    <2>1. Head(outbox) \in Message /\ outbox' \in Seq(Message)
        BY <1>2, HeadTailProperties DEF LoopSends
    <2> QED BY <1>2, <2>1 DEF LoopSends
<1> QED BY <1>1, <1>2

LEMMA TakenTypes ==
    ASSUME TypeOK, NEW kind, Takes(kind)
    PROVE  Head(messages) \in Message /\ messages' \in Seq(Message)
BY HeadTailProperties DEF TypeOK, Takes

LEMMA MainTypes ==
    ASSUME TypeOK, Main PROVE TypeOK'
<1> USE OffersAssumption DEF TypeOK, mainVars, net, conns, base, Conns, Active
<1>1. CASE TakesHello
    <2>1. Plain("Car_data hello") \in Message
        BY PlainFacts
    <2>2. messages' \in Seq(Message)
        BY <1>1, TakenTypes DEF TakesHello
    <2>3. outbox' \in Seq(Message)
        BY <1>1, <2>1, AppendProperties DEF TakesHello
    <2> QED BY <1>1, <2>2, <2>3 DEF TakesHello
<1>2. CASE TakesText
    <2>1. messages' \in Seq(Message)
        BY <1>2, TakenTypes DEF TakesText
    <2> QED BY <1>2, <2>1 DEF TakesText, Takes
<1>3. CASE TakesOffer
    <2>1. Head(messages).n \in 0 .. Offers /\ messages' \in Seq(Message)
        BY <1>3, TakenTypes DEF TakesOffer, Message
    <2>2. main' = "certificate" /\ cur' = Head(messages).n
        BY <1>3 DEF TakesOffer
    <2> QED BY <1>3, <2>1, <2>2 DEF TakesOffer
<1>4. CASE GeneratesCertificate \/ InitializesDTLS \/ InitializesNice
    BY <1>4 DEF GeneratesCertificate, InitializesDTLS, InitializesNice, Builds
<1>5. CASE InitializesSCTP
    BY <1>5 DEF InitializesSCTP
<1>6. CASE InitializeThrows \/ GatherThrows
    BY <1>6 DEF InitializeThrows, GatherThrows, Dies
<1>7. CASE Replaces
    BY <1>7 DEF Replaces
<1>8. CASE ReadsOffer
    BY <1>8 DEF ReadsOffer
<1>9. CASE Gathers
    BY <1>9 DEF Gathers
<1>10. CASE Answers
    <2>1. Mid(cur) \in 0 .. Offers
        BY DEF Mid
    <2>2. Answer(cur, Mid(cur)) \in Message
        BY <2>1, MessageFacts DEF Kinds
    <2>3. outbox' \in Seq(Message)
        BY <1>10, <2>2, AppendProperties DEF Answers
    <2> QED BY <1>10, <2>3 DEF Answers
<1>11. CASE TakesCandidate
    <2>1. Head(messages).n \in 0 .. Offers /\ messages' \in Seq(Message)
        BY <1>11, TakenTypes DEF TakesCandidate, Message
    <2>2. given' \subseteq (0 .. Offers) \X (0 .. Offers)
        BY <1>11, <2>1 DEF TakesCandidate, SetRemoteIceCandidate
    <2> QED BY <1>11, <2>1, <2>2 DEF TakesCandidate, Takes
<1> QED
    BY <1>1, <1>2, <1>3, <1>4, <1>5, <1>6, <1>7, <1>8, <1>9, <1>10, <1>11 DEF Main

LEMMA ThreadTypes ==
    ASSUME TypeOK, NEW n \in Conns, Ice(n) \/ Peer(n) \/ Recv(n) \/ Sender(n)
    PROVE  TypeOK'
<1> USE OffersAssumption DEF TypeOK, mainVars, net, base, Active
<1>1. CASE ReportsCandidate(n)
    <2>1. Mid(n) \in 0 .. Offers /\ n \in 0 .. Offers
        BY DEF Mid, Conns
    <2>2. LocalCandidate(n, Mid(n)) \in Message
        BY <2>1, MessageFacts DEF Kinds
    <2> QED BY <1>1, <2>2, SMTT(40) DEF ReportsCandidate
<1>2. CASE ComesUp(n) \/ IsLost(n)
    BY <1>2 DEF ComesUp, IsLost
<1>3. CASE OpensChannel(n)
    BY <1>3 DEF OpensChannel
<1>7. CASE Commanded(n)
    BY <1>7 DEF Commanded
<1>4. CASE WritesReset(n) \/ WritesSpeed(n)
    <2>1. \E cmd \in {"reset", "speed"} : Writes(cmd)
        BY <1>4 DEF WritesReset, WritesSpeed
    <2>2. seq' \in 0 .. SeqModulus - 1
        <3>1. seq + 1 \in Nat
            BY ModulusAssumption
        <3> QED BY <2>1, <3>1, ModuloFacts DEF Writes
    <2>3. line' \in Seq(Frame)
        BY <2>1 DEF Writes, Frame
    <2> QED BY <1>4, <2>2, <2>3 DEF WritesReset, WritesSpeed
<1>5. CASE SenderEnds(n)
    BY <1>5, SMTT(40) DEF SenderEnds
<1>6. CASE SendThrows(n)
    BY <1>6 DEF SendThrows, Dies, conns
<1> QED
    BY <1>1, <1>2, <1>3, <1>4, <1>5, <1>6, <1>7 DEF Ice, Peer, Recv, Sender

LEMMA TypeStep == ASSUME TypeOK, [Next]_vars PROVE TypeOK'
<1>1. CASE UNCHANGED vars
    BY <1>1 DEF TypeOK, vars, mainVars, net, conns, base
<1> QED
    BY <1>1, ServerTypes, LoopTypes, MainTypes, ThreadTypes DEF Next

\* Every variable keeps its type (the state of testclient.cpp).
THEOREM TypeCorrect == Spec => []TypeOK
BY TypeInit, TypeStep, PTL DEF Spec

-----------------------------------------------------------------------------
(* The messages on their way to the main thread                              *)

stream == messages \o toCar

OfferIn(s, n, i) == \E j \in 1 .. i - 1 : s[j].type = "offer" /\ s[j].n = n

\* What is still to be taken when c offers have been: offers in a row from
\* c + 1 on, and candidates that come after the offer they belong to.
Ordered(s, c) ==
    \A i \in 1 .. Len(s) :
        /\ s[i].type = "offer" =>
            /\ s[i].n > c
            /\ s[i].n = c + 1 \/ OfferIn(s, s[i].n - 1, i)
            /\ \A j \in 1 .. i - 1 : s[j].type = "offer" => s[j].n < s[i].n
        /\ s[i].type = "candidate" => s[i].n \in 1 .. c \/ OfferIn(s, s[i].n, i)

\* Every offer from c + 1 to n is in the stream.
Complete(s, c, n) == \A k \in c + 1 .. n : OfferIn(s, k, Len(s) + 1)

LEMMA OrderedPrefix ==
    ASSUME NEW s \in Seq(Message), NEW c \in Nat, Ordered(s, c), NEW k \in 0 .. Len(s)
    PROVE  Ordered(SubSeq(s, 1, k), c)
<1> DEFINE t == SubSeq(s, 1, k)
<1>1. Len(t) = k /\ \A i \in 1 .. k : t[i] = s[i]
    BY SubSeqProperties
<1>2. Len(s) \in Nat
    BY LenProperties
<1> HIDE DEF t
<1>3. ASSUME NEW i \in 1 .. k, NEW n, OfferIn(s, n, i) PROVE OfferIn(t, n, i)
    <2>1. PICK j \in 1 .. i - 1 : s[j].type = "offer" /\ s[j].n = n
        BY <1>3 DEF OfferIn
    <2>2. t[j] = s[j]
        BY <1>1, <2>1
    <2> QED BY <2>1, <2>2 DEF OfferIn
<1>4. ASSUME NEW i \in 1 .. k
      PROVE  /\ i \in 1 .. Len(s) /\ t[i] = s[i]
             /\ \A j \in 1 .. i - 1 : t[j] = s[j]
    BY <1>1, <1>2
<1>5. Ordered(t, c)
    BY <1>1, <1>3, <1>4 DEF Ordered
<1> QED BY <1>5 DEF t

LEMMA OrderedTail ==
    ASSUME NEW s \in Seq(Message), NEW c \in Nat, Ordered(s, c), s # <<>>,
           Head(s).type # "offer"
    PROVE  Ordered(Tail(s), c)
<1>1. /\ Head(s) = s[1] /\ Len(Tail(s)) = Len(s) - 1 /\ Len(s) \in Nat
      /\ \A i \in 1 .. Len(s) - 1 : Tail(s)[i] = s[i + 1]
    BY HeadTailProperties, LenProperties
<1>2. ASSUME NEW i \in 1 .. Len(s) - 1, NEW n, OfferIn(s, n, i + 1)
      PROVE  OfferIn(Tail(s), n, i)
    <2>1. PICK j \in 1 .. i : s[j].type = "offer" /\ s[j].n = n
        BY <1>1, <1>2 DEF OfferIn
    <2>2. j - 1 \in 1 .. i - 1 /\ Tail(s)[j - 1] = s[j]
        BY <1>1, <2>1
    <2> QED
        BY <2>1, <2>2 DEF OfferIn
<1>3. ASSUME NEW i \in 1 .. Len(s) - 1, NEW j \in 1 .. i - 1
      PROVE  j + 1 \in 1 .. (i + 1) - 1 /\ Tail(s)[j] = s[j + 1]
    BY <1>1
<1>4. ASSUME NEW i \in 1 .. Len(s) - 1 PROVE i + 1 \in 1 .. Len(s)
    BY <1>1
<1> QED
    BY <1>1, <1>2, <1>3, <1>4 DEF Ordered

LEMMA OrderedTaken ==
    ASSUME NEW s \in Seq(Message), NEW c \in Nat, Ordered(s, c), s # <<>>,
           Head(s).type = "offer"
    PROVE  Head(s).n = c + 1 /\ Ordered(Tail(s), c + 1)
<1>1. /\ Head(s) = s[1] /\ Len(Tail(s)) = Len(s) - 1 /\ Len(s) \in Nat \ {0}
      /\ \A i \in 1 .. Len(s) - 1 : Tail(s)[i] = s[i + 1]
    BY HeadTailProperties, LenProperties, EmptySeq
<1>2. Head(s).n = c + 1
    BY <1>1 DEF Ordered, OfferIn
<1>7. \A i \in 1 .. Len(s) : s[i] \in Message
    BY ElementOfSeq
<1>3. \A i \in 1 .. Len(s) : s[i].n \in Nat
    BY <1>7, OffersAssumption DEF Message
<1>4. ASSUME NEW i \in 1 .. Len(s) - 1, NEW n, n # c + 1, OfferIn(s, n, i + 1)
      PROVE  OfferIn(Tail(s), n, i)
    <2>1. PICK j \in 1 .. i : s[j].type = "offer" /\ s[j].n = n
        BY <1>1, <1>4 DEF OfferIn
    <2>2. j - 1 \in 1 .. i - 1 /\ Tail(s)[j - 1] = s[j]
        BY <1>1, <1>2, <1>4, <2>1
    <2> QED
        BY <2>1, <2>2 DEF OfferIn
<1>5. ASSUME NEW i \in 1 .. Len(s) - 1, Tail(s)[i].type = "offer"
      PROVE  /\ Tail(s)[i].n > c + 1
             /\ Tail(s)[i].n = c + 2 \/ OfferIn(Tail(s), Tail(s)[i].n - 1, i)
             /\ \A j \in 1 .. i - 1 : Tail(s)[j].type = "offer" => Tail(s)[j].n < Tail(s)[i].n
    <2>1. i + 1 \in 1 .. Len(s) /\ Tail(s)[i] = s[i + 1] /\ 1 \in 1 .. (i + 1) - 1
        BY <1>1
    <2>2. s[i + 1].n > c + 1
        BY <1>1, <1>2, <1>5, <2>1 DEF Ordered
    <2>3. s[i + 1].n = c + 2 \/ OfferIn(s, s[i + 1].n - 1, i + 1)
        <3>1. s[i + 1].n = c + 1 \/ OfferIn(s, s[i + 1].n - 1, i + 1)
            BY <1>5, <2>1 DEF Ordered
        <3> QED BY <1>3, <2>1, <2>2, <3>1
    <2>4. ASSUME NEW j \in 1 .. i - 1, Tail(s)[j].type = "offer"
          PROVE  Tail(s)[j].n < Tail(s)[i].n
        <3>1. j + 1 \in 1 .. (i + 1) - 1 /\ Tail(s)[j] = s[j + 1]
            BY <1>1
        <3> QED BY <1>5, <2>1, <2>4, <3>1 DEF Ordered
    <2> QED BY <1>3, <1>4, <2>1, <2>2, <2>3, <2>4
<1>6. ASSUME NEW i \in 1 .. Len(s) - 1, Tail(s)[i].type = "candidate"
      PROVE  Tail(s)[i].n \in 1 .. c + 1 \/ OfferIn(Tail(s), Tail(s)[i].n, i)
    <2>1. i + 1 \in 1 .. Len(s) /\ Tail(s)[i] = s[i + 1]
        BY <1>1
    <2>2. s[i + 1].n \in 1 .. c \/ OfferIn(s, s[i + 1].n, i + 1)
        BY <1>6, <2>1 DEF Ordered
    <2> QED BY <1>4, <2>1, <2>2
<1> QED
    BY <1>1, <1>2, <1>5, <1>6 DEF Ordered

LEMMA OrderedAppend ==
    ASSUME NEW s \in Seq(Message), NEW c \in Nat, Ordered(s, c), NEW m \in Message,
           m.type = "offer" =>
            /\ m.n > c
            /\ m.n = c + 1 \/ OfferIn(s, m.n - 1, Len(s) + 1)
            /\ \A j \in 1 .. Len(s) : s[j].type = "offer" => s[j].n < m.n,
           m.type = "candidate" => m.n \in 1 .. c \/ OfferIn(s, m.n, Len(s) + 1)
    PROVE  Ordered(Append(s, m), c)
<1>1. /\ Len(Append(s, m)) = Len(s) + 1 /\ Len(s) \in Nat
      /\ \A i \in 1 .. Len(s) : Append(s, m)[i] = s[i]
      /\ Append(s, m)[Len(s) + 1] = m
    BY AppendProperties, LenProperties
<1>2. ASSUME NEW i \in 1 .. Len(s) + 1, NEW n, OfferIn(s, n, i)
      PROVE  OfferIn(Append(s, m), n, i)
    BY <1>1, <1>2 DEF OfferIn
<1>3. ASSUME NEW i \in 1 .. Len(s) + 1, NEW j \in 1 .. i - 1
      PROVE  j \in 1 .. Len(s) /\ Append(s, m)[j] = s[j]
    BY <1>1
<1> QED
    BY <1>1, <1>2, <1>3 DEF Ordered

LEMMA StreamType == ASSUME TypeOK PROVE stream \in Seq(Message)
BY ConcatProperties DEF TypeOK, stream

\* The websocket's thread moves a message from one queue to the other.
LEMMA StreamMoved == ASSUME TypeOK, LoopDispatches PROVE stream' = stream
<1>1. /\ messages \in Seq(Message) /\ toCar \in Seq(Message) /\ toCar # <<>>
      /\ messages' = Append(messages, Head(toCar)) /\ toCar' = Tail(toCar)
    BY DEF TypeOK, LoopDispatches
<1>2. /\ Head(toCar) \in Message /\ Tail(toCar) \in Seq(Message)
      /\ <<Head(toCar)>> \in Seq(Message)
    BY <1>1, HeadTailProperties
<1>3. messages' = messages \o <<Head(toCar)>>
    BY <1>1, <1>2, AppendIsConcat
<1>4. toCar = <<Head(toCar)>> \o Tail(toCar)
    BY <1>1
<1>5. (messages \o <<Head(toCar)>>) \o Tail(toCar) = messages \o (<<Head(toCar)>> \o Tail(toCar))
    BY <1>1, <1>2, ConcatAssociative
<1> QED
    BY <1>1, <1>3, <1>4, <1>5 DEF stream

\* The main thread takes the first one.
LEMMA StreamTaken ==
    ASSUME TypeOK, NEW kind, Takes(kind), toCar' = toCar
    PROVE  stream # <<>> /\ Head(stream) = Head(messages) /\ stream' = Tail(stream)
<1>1. /\ messages \in Seq(Message) /\ toCar \in Seq(Message) /\ messages # <<>>
      /\ messages' = Tail(messages)
    BY DEF TypeOK, Takes
<1>2. Len(messages) \in Nat \ {0} /\ Len(toCar) \in Nat
    BY <1>1, EmptySeq, LenProperties
<1>3. /\ stream \in Seq(Message) /\ Len(stream) = Len(messages) + Len(toCar)
      /\ \A i \in 1 .. Len(messages) + Len(toCar) :
            stream[i] = IF i <= Len(messages) THEN messages[i] ELSE toCar[i - Len(messages)]
    BY <1>1, ConcatProperties DEF stream
<1>4. stream # <<>>
    BY <1>2, <1>3
<1>5. Head(stream) = Head(messages)
    BY <1>1, <1>2, <1>3, <1>4
<1>6. /\ Tail(messages) \in Seq(Message) /\ Len(Tail(messages)) = Len(messages) - 1
      /\ \A i \in 1 .. Len(messages) - 1 : Tail(messages)[i] = messages[i + 1]
    BY <1>1, HeadTailProperties
<1>7. /\ Tail(stream) \in Seq(Message) /\ Len(Tail(stream)) = Len(stream) - 1
      /\ \A i \in 1 .. Len(stream) - 1 : Tail(stream)[i] = stream[i + 1]
    BY <1>3, <1>4, HeadTailProperties
<1>8. /\ Tail(messages) \o toCar \in Seq(Message)
      /\ Len(Tail(messages) \o toCar) = Len(messages) - 1 + Len(toCar)
      /\ \A i \in 1 .. Len(messages) - 1 + Len(toCar) :
            (Tail(messages) \o toCar)[i] =
                IF i <= Len(messages) - 1 THEN Tail(messages)[i]
                ELSE toCar[i - (Len(messages) - 1)]
    BY <1>1, <1>6, ConcatProperties
<1>9. \A i \in 1 .. Len(messages) - 1 + Len(toCar) :
            (Tail(messages) \o toCar)[i] = Tail(stream)[i]
    BY <1>2, <1>3, <1>6, <1>7, <1>8
<1>10. Tail(messages) \o toCar = Tail(stream)
    BY <1>2, <1>3, <1>7, <1>8, <1>9, SeqEqual
<1> QED
    BY <1>1, <1>4, <1>5, <1>10 DEF stream

\* The server adds one at the end.
LEMMA StreamDelivered ==
    ASSUME TypeOK, NEW m \in Message, Delivers(m), messages' = messages
    PROVE  stream' = Append(stream, m)
<1>1. /\ messages \in Seq(Message) /\ toCar \in Seq(Message)
      /\ toCar' = Append(toCar, m)
    BY DEF TypeOK, Delivers
<1>2. <<m>> \in Seq(Message) /\ messages \o toCar \in Seq(Message)
    BY <1>1, ConcatProperties
<1>3. toCar' = toCar \o <<m>>
    BY <1>1, AppendIsConcat
<1>4. messages \o (toCar \o <<m>>) = (messages \o toCar) \o <<m>>
    BY <1>1, <1>2, ConcatAssociative
<1>5. (messages \o toCar) \o <<m>> = Append(messages \o toCar, m)
    BY <1>2, AppendIsConcat
<1> QED
    BY <1>3, <1>4, <1>5 DEF stream

\* What is lost is lost at its end.
LEMMA StreamCut ==
    ASSUME TypeOK, ServerCloses
    PROVE  \E k \in 0 .. Len(stream) : stream' = SubSeq(stream, 1, k)
<1>1. PICK n \in 0 .. Len(toCar) : toCar' = SubSeq(toCar, 1, n)
    BY DEF ServerCloses
<1>2. /\ messages \in Seq(Message) /\ toCar \in Seq(Message) /\ messages' = messages
    BY DEF TypeOK, ServerCloses
<1>3. Len(messages) \in Nat /\ Len(toCar) \in Nat
    BY <1>2, LenProperties
<1>4. /\ stream \in Seq(Message) /\ Len(stream) = Len(messages) + Len(toCar)
      /\ \A i \in 1 .. Len(messages) + Len(toCar) :
            stream[i] = IF i <= Len(messages) THEN messages[i] ELSE toCar[i - Len(messages)]
    BY <1>2, ConcatProperties DEF stream
<1> DEFINE cut == SubSeq(toCar, 1, n)
           k == Len(messages) + n
<1>5. cut \in Seq(Message) /\ Len(cut) = n /\ \A i \in 1 .. n : cut[i] = toCar[i]
    BY <1>1, <1>2, <1>3, SubSeqProperties
<1>6. k \in 0 .. Len(stream)
    BY <1>1, <1>3, <1>4
<1>7. /\ SubSeq(stream, 1, k) \in Seq(Message) /\ Len(SubSeq(stream, 1, k)) = k
      /\ \A i \in 1 .. k : SubSeq(stream, 1, k)[i] = stream[i]
    BY <1>3, <1>4, <1>6, SubSeqProperties
<1> HIDE DEF cut
<1>8. /\ messages \o cut \in Seq(Message) /\ Len(messages \o cut) = k
      /\ \A i \in 1 .. k : (messages \o cut)[i] =
            IF i <= Len(messages) THEN messages[i] ELSE cut[i - Len(messages)]
    BY <1>2, <1>5, ConcatProperties
<1>9. \A i \in 1 .. k : (messages \o cut)[i] = SubSeq(stream, 1, k)[i]
    BY <1>1, <1>3, <1>4, <1>5, <1>7, <1>8
<1>10. messages \o cut = SubSeq(stream, 1, k)
    BY <1>7, <1>8, <1>9, SeqEqual
<1> QED
    BY <1>1, <1>2, <1>6, <1>10 DEF stream, cut

-----------------------------------------------------------------------------
(* Connections                                                               *)

Building == {"certificate", "dtls", "nice", "sctp", "made"}

\* The first offer gets the first connection.  A second offer gets a second
\* one, but the main thread does not come back from the destructor of the
\* first: `pc` is never replaced by a third, and nothing is freed.
Stuck ==
    /\ main \in Building => cur = pc + 1
    /\ main \notin Building => cur = pc
    /\ main # "assigned" => pc <= 1
    /\ main = "made" => life[cur] = "made"
    /\ main = "assigned" =>
        cur = 1 \/ (cur = 2 /\ life[1] = "stopped" /\ life[2] = "made")
    /\ \A n \in Conns :
        /\ life[n] # "freed"
        /\ life[n] = "stopped" => main = "assigned" /\ cur = 2 /\ n = 1

StreamInv ==
    /\ cur <= offered
    /\ Ordered(stream, cur)
    /\ \A i \in 1 .. Len(stream) : stream[i].type = "offer" => stream[i].n <= offered
    /\ wsOpen => Complete(stream, cur, offered)

ConnectionInv ==
    /\ TypeOK
    /\ OneConnection
    /\ Stuck
    /\ StreamInv
    /\ CandidateFindsItsConnection

\* The steps that leave the main thread and the life of the connections alone.
Quiet ==
    \/ Server \/ LoopDispatches \/ LoopSends
    \/ TakesHello \/ TakesText \/ TakesCandidate
    \/ InitializeThrows \/ GatherThrows
    \/ \E n \in Conns : ReportsCandidate(n) \/ OpensChannel(n) \/ Sender(n)

LEMMA QuietKeeps ==
    ASSUME Quiet \/ UNCHANGED vars
    PROVE  UNCHANGED <<mainVars, life, recv, base>>
<1> USE DEF mainVars, conns, base, net
<1>1. CASE Server
    BY <1>1 DEF Server, ServerWelcomes, ControllerOffers, ControllerAdds,
                ControllerCalls, ServerCloses
<1>2. CASE LoopDispatches \/ LoopSends
    BY <1>2 DEF LoopDispatches, LoopSends
<1>3. CASE TakesHello \/ TakesText \/ TakesCandidate
    BY <1>3 DEF TakesHello, TakesText, TakesCandidate, Takes
<1>4. CASE InitializeThrows \/ GatherThrows
    BY <1>4 DEF InitializeThrows, GatherThrows, Dies
<1>5. ASSUME NEW n \in Conns, ReportsCandidate(n) \/ OpensChannel(n)
      PROVE  UNCHANGED <<mainVars, life, recv, base>>
    BY <1>5 DEF ReportsCandidate, OpensChannel
<1>6. ASSUME NEW n \in Conns, Sender(n)
      PROVE  UNCHANGED <<mainVars, life, recv, base>>
    BY <1>6 DEF Sender, SenderEnds, SendThrows, Dies
<1>7. CASE UNCHANGED vars
    BY <1>7 DEF vars
<1> QED
    BY <1>1, <1>2, <1>3, <1>4, <1>5, <1>6, <1>7 DEF Quiet

\* The others: the main thread with an offer, and the threads of a connection.
OfferStep ==
    \/ TakesOffer
    \/ GeneratesCertificate \/ InitializesDTLS \/ InitializesNice
    \/ InitializesSCTP \/ Replaces \/ ReadsOffer \/ Gathers \/ Answers

ThreadStep(n) ==
    \/ ComesUp(n) \/ IsLost(n) \/ Commanded(n)
    \/ WritesReset(n) \/ WritesSpeed(n)

LEMMA NextCases ==
    ASSUME [Next]_vars
    PROVE  \/ Quiet \/ UNCHANGED vars
           \/ OfferStep
           \/ \E n \in Conns : ThreadStep(n)
BY DEF Next, Quiet, Main, Ice, Peer, Recv, Sender, OfferStep, ThreadStep

LEMMA OneConnectionStep ==
    ASSUME TypeOK, OneConnection, [Next]_vars PROVE OneConnection'
<1> USE DEF OneConnection, TypeOK, Active
<1>1. CASE Quiet \/ UNCHANGED vars
    BY <1>1, QuietKeeps DEF mainVars
<1>2. CASE TakesOffer
    BY <1>2 DEF TakesOffer, Takes, conns
<1>3. CASE GeneratesCertificate \/ InitializesDTLS \/ InitializesNice
    BY <1>3 DEF GeneratesCertificate, InitializesDTLS, InitializesNice, Builds, conns
<1>4. CASE InitializesSCTP
    BY <1>4 DEF InitializesSCTP
<1>5. CASE Replaces
    <2>1. /\ main' = "assigned" /\ pc' = cur /\ cur' = cur /\ recv' = recv
          /\ \A n \in Conns : life'[n] = IF n = pc THEN "stopped" ELSE life[n]
        BY <1>5 DEF Replaces
    <2>2. \A n \in Conns : life'[n] \notin Active
        BY <2>1
    <2>3. \A n \in Conns : recv[n] = "idle"
        BY <1>5 DEF Replaces, Conns
    <2> QED BY <2>1, <2>2, <2>3
<1>6. CASE ReadsOffer
    BY <1>6 DEF ReadsOffer
<1>7. CASE Gathers
    BY <1>7 DEF Gathers
<1>8. CASE Answers
    BY <1>8 DEF Answers, conns
<1>9. ASSUME NEW n \in Conns, ComesUp(n) \/ IsLost(n) PROVE OneConnection'
    BY <1>9 DEF ComesUp, IsLost, mainVars
<1>10. ASSUME NEW n \in Conns, Commanded(n) PROVE OneConnection'
    BY <1>10 DEF Commanded, mainVars
<1>11. ASSUME NEW n \in Conns, WritesReset(n) \/ WritesSpeed(n) PROVE OneConnection'
    BY <1>11 DEF WritesReset, WritesSpeed, mainVars
<1> QED
    BY <1>1, <1>2, <1>3, <1>4, <1>5, <1>6, <1>7, <1>8, <1>9, <1>10, <1>11, NextCases
       DEF OfferStep, ThreadStep

-----------------------------------------------------------------------------
(* The commands on the line                                                  *)

\* A step that writes nothing and is not at the writing leaves the pairs alone.
LEMMA PairsKept ==
    ASSUME TypeOK, PairOpen, FramesPaired, UNCHANGED base,
           \A n \in Conns : recv'[n] = "reset" <=> recv[n] = "reset"
    PROVE  PairOpen' /\ FramesPaired'
BY DEF PairOpen, FramesPaired, base

\* The next frame of a row.
LEMMA Written ==
    ASSUME TypeOK, FramesPaired, NEW cmd \in {"reset", "speed"}, Writes(cmd),
           line = <<>> => cmd = "reset" /\ seq = 0,
           line # <<>> => /\ cmd # line[Len(line)].cmd
                          /\ seq = (line[Len(line)].seq + 1) % SeqModulus
    PROVE  /\ FramesPaired'
           /\ line' # <<>> /\ line'[Len(line')].cmd = cmd
           /\ seq' = (line'[Len(line')].seq + 1) % SeqModulus
<1> DEFINE f == [cmd |-> cmd, seq |-> seq]
<1>1. /\ line \in Seq(Frame) /\ f \in Frame /\ line' = Append(line, f)
      /\ seq' = (seq + 1) % SeqModulus
    BY DEF TypeOK, Frame, Writes
<1>2. f.cmd = cmd /\ f.seq = seq
    OBVIOUS
<1> HIDE DEF f
<1>3. /\ Len(line) \in Nat /\ line' # <<>> /\ line' \in Seq(Frame)
      /\ Len(line') = Len(line) + 1
      /\ \A i \in 1 .. Len(line) : line'[i] = line[i]
      /\ line'[Len(line) + 1] = f
    BY <1>1, AppendProperties, LenProperties
<1>4. DOMAIN line = 1 .. Len(line) /\ DOMAIN line' = 1 .. Len(line) + 1
    BY <1>1, <1>3, LenProperties
<1>5. line = <<>> <=> Len(line) = 0
    BY <1>1, EmptySeq
<1>6. ASSUME NEW i \in DOMAIN line'
      PROVE  IF i = 1 THEN line'[i].cmd = "reset" /\ line'[i].seq = 0
             ELSE /\ line'[i].cmd # line'[i - 1].cmd
                  /\ line'[i].seq = (line'[i - 1].seq + 1) % SeqModulus
    <2>1. CASE i \in DOMAIN line
        <3>1. line'[i] = line[i] /\ (i # 1 => line'[i - 1] = line[i - 1])
            BY <1>3, <1>4, <2>1
        <3> QED BY <2>1, <3>1 DEF FramesPaired
    <2>2. CASE i = Len(line) + 1 /\ i = 1
        BY <1>2, <1>3, <1>5, <2>2
    <2>3. CASE i = Len(line) + 1 /\ i # 1
        <3>1. line # <<>> /\ line'[i] = f /\ line'[i - 1] = line[Len(line)]
            BY <1>3, <1>4, <1>5, <2>3
        <3> QED BY <1>2, <2>3, <3>1
    <2> QED BY <1>3, <1>4, <2>1, <2>2, <2>3
<1> QED
    BY <1>1, <1>2, <1>3, <1>6 DEF FramesPaired

LEMMA PairStep ==
    ASSUME TypeOK, OneConnection, PairOpen, FramesPaired, [Next]_vars
    PROVE  PairOpen' /\ FramesPaired'
<1>1. CASE Quiet \/ UNCHANGED vars
    BY <1>1, QuietKeeps, PairsKept
<1>2. CASE OfferStep
    <2>1. recv' = recv /\ UNCHANGED base
        BY <1>2 DEF OfferStep, TakesOffer, GeneratesCertificate, InitializesDTLS,
            InitializesNice, Builds, InitializesSCTP, Replaces, ReadsOffer, Gathers,
            Answers, conns
    <2> QED BY <2>1, PairsKept
<1>3. ASSUME NEW n \in Conns, ComesUp(n) \/ IsLost(n) PROVE PairOpen' /\ FramesPaired'
    <2>1. recv' = recv /\ UNCHANGED base
        BY <1>3 DEF ComesUp, IsLost
    <2> QED BY <2>1, PairsKept
<1>4. ASSUME NEW n \in Conns, Commanded(n) PROVE PairOpen' /\ FramesPaired'
    <2>1. UNCHANGED base /\ \A m \in Conns : recv'[m] = "reset" <=> recv[m] = "reset"
        BY <1>4 DEF Commanded, TypeOK
    <2> QED BY <2>1, PairsKept
<1>5. ASSUME NEW n \in Conns, WritesReset(n) PROVE PairOpen' /\ FramesPaired'
    <2>1. /\ recv[n] = "told" /\ recv' = [recv EXCEPT ![n] = "reset"] /\ Writes("reset")
          /\ n = pc
        BY <1>5 DEF WritesReset, OneConnection
    <2>2. \A m \in Conns : recv[m] # "reset"
        BY <2>1 DEF OneConnection
    <2>4. /\ line = <<>> => seq = 0
          /\ line # <<>> => /\ "reset" # line[Len(line)].cmd
                            /\ seq = (line[Len(line)].seq + 1) % SeqModulus
        BY <2>2 DEF PairOpen
    <2>5. /\ FramesPaired'
          /\ line' # <<>> /\ line'[Len(line')].cmd = "reset"
          /\ seq' = (line'[Len(line')].seq + 1) % SeqModulus
        BY <2>1, <2>4, Written
    <2>6. recv'[n] = "reset"
        BY <2>1 DEF TypeOK
    <2> QED BY <2>5, <2>6 DEF PairOpen
<1>6. ASSUME NEW n \in Conns, WritesSpeed(n) PROVE PairOpen' /\ FramesPaired'
    <2>1. /\ recv[n] = "reset" /\ recv' = [recv EXCEPT ![n] = "idle"] /\ Writes("speed")
          /\ n = pc
        BY <1>6 DEF WritesSpeed, OneConnection
    <2>2. \A m \in Conns : recv'[m] # "reset"
        BY <2>1 DEF OneConnection, TypeOK
    <2>3. /\ line # <<>> /\ "speed" # line[Len(line)].cmd
          /\ seq = (line[Len(line)].seq + 1) % SeqModulus
        BY <2>1 DEF PairOpen
    <2>4. /\ FramesPaired'
          /\ line' # <<>> /\ line'[Len(line')].cmd = "speed"
          /\ seq' = (line'[Len(line')].seq + 1) % SeqModulus
        BY <2>1, <2>3, Written
    <2> QED BY <2>2, <2>4 DEF PairOpen
<1> QED
    BY <1>1, <1>2, <1>3, <1>4, <1>5, <1>6, NextCases DEF ThreadStep

LEMMA LineInit == Init => OneConnection /\ PairOpen /\ FramesPaired
BY DEF Init, OneConnection, PairOpen, FramesPaired, Active

\* The frames on the serial line are in pairs and in a row, although every
\* connection's receive thread writes them without a lock (onDCRecvStrMsg).
THEOREM LineSafe == Spec => []FramesPaired
<1>1. Init => LineInv
    BY TypeInit, LineInit DEF LineInv
<1>2. LineInv /\ [Next]_vars => LineInv'
    BY TypeStep, OneConnectionStep, PairStep DEF LineInv
<1>3. LineInv => FramesPaired
    BY DEF LineInv
<1> QED
    BY <1>1, <1>2, <1>3, PTL DEF Spec

-----------------------------------------------------------------------------
(* The connection that a candidate is given to                               *)

LEMMA StuckStep ==
    ASSUME TypeOK, OneConnection, Stuck, StreamInv, [Next]_vars PROVE Stuck'
<1> USE OffersAssumption DEF Stuck, TypeOK, Building, Conns
<1>1. CASE Quiet \/ UNCHANGED vars
    BY <1>1, QuietKeeps DEF mainVars
<1>2. CASE TakesOffer
    <2>1. /\ main = "idle" /\ Takes("offer") /\ toCar' = toCar
          /\ main' = "certificate" /\ cur' = Head(messages).n /\ pc' = pc /\ life' = life
        BY <1>2 DEF TakesOffer, Takes, net, conns
    <2>2. stream # <<>> /\ Head(stream) = Head(messages) /\ Head(stream).type = "offer"
        BY <2>1, StreamTaken DEF Takes
    <2>3. cur' = cur + 1
        BY <2>1, <2>2, StreamType, OrderedTaken, SMTT(40) DEF StreamInv
    <2> QED BY <2>1, <2>3
<1>3. CASE GeneratesCertificate \/ InitializesDTLS \/ InitializesNice
    BY <1>3 DEF GeneratesCertificate, InitializesDTLS, InitializesNice, Builds, conns
<1>4. CASE InitializesSCTP
    BY <1>4 DEF InitializesSCTP
<1>5. CASE Replaces
    <2>1. /\ main = "made" /\ main' = "assigned" /\ pc' = cur /\ cur' = cur
          /\ \A n \in Conns : life'[n] = IF n = pc THEN "stopped" ELSE life[n]
        BY <1>5 DEF Replaces
    <2>2. cur = pc + 1 /\ pc \in {0, 1} /\ life[cur] = "made"
        BY <2>1
    <2>3. CASE pc = 0
        BY <2>1, <2>2, <2>3
    <2>4. CASE pc = 1
        <3>1. 1 \in Conns /\ 2 \in Conns
            BY <2>2, <2>4
        <3> QED BY <2>1, <2>2, <2>4, <3>1, SMTT(40)
    <2> QED BY <2>2, <2>3, <2>4
<1>6. CASE ReadsOffer
    <2>1. cur = 1
        <3> SUFFICES ASSUME cur = 2 PROVE FALSE
            BY <1>6 DEF ReadsOffer
        <3>1. 1 \in Conns /\ 2 \in Conns /\ life[1] = "stopped" /\ life[2] = "made"
            BY <1>6 DEF ReadsOffer
        <3>2. 1 \in Replaced /\ SocketOpen(2)
            BY <3>1 DEF Replaced, SocketOpen
        <3> QED BY <1>6, <3>1, <3>2 DEF ReadsOffer, FinishEnds
    <2>2. \A n \in Conns : life[n] # "stopped"
        BY <2>1
    <2>3. \A n \in Conns : life'[n] = IF n = cur THEN "read" ELSE life[n]
        BY <1>6, <2>2 DEF ReadsOffer, Replaced
    <2>4. main' = "read" /\ main = "assigned" /\ cur' = cur /\ pc' = pc
        BY <1>6 DEF ReadsOffer
    <2> QED BY <2>1, <2>2, <2>3, <2>4
<1>7. CASE Gathers
    BY <1>7 DEF Gathers
<1>8. CASE Answers
    BY <1>8 DEF Answers, conns
<1>9. ASSUME NEW n \in Conns, ComesUp(n) \/ IsLost(n) PROVE Stuck'
    <2>1. /\ life[n] \in {"gathering", "up"} /\ life'[n] \in {"up", "lost"}
          /\ \A m \in Conns \ {n} : life'[m] = life[m]
          /\ main' = main /\ cur' = cur /\ pc' = pc
        BY <1>9 DEF ComesUp, IsLost, mainVars
    <2>2. ASSUME NEW m \in Conns
          PROVE  /\ life'[m] = "freed" => life[m] = "freed"
                 /\ life'[m] = "stopped" <=> life[m] = "stopped"
                 /\ life'[m] = "made" <=> life[m] = "made"
        BY <2>1, m = n \/ m \in Conns \ {n}, Zenon
    <2>3. main = "made" => cur \in Conns
        <3>1. main = "made" => cur = pc + 1
            OBVIOUS
        <3> QED BY <3>1
    <2>4. main = "assigned" /\ cur = 2 => 1 \in Conns /\ 2 \in Conns
        OBVIOUS
    <2> QED BY <2>1, <2>2, <2>3, <2>4
<1>10. ASSUME NEW n \in Conns, Commanded(n) \/ WritesReset(n) \/ WritesSpeed(n) PROVE Stuck'
    BY <1>10, ZenonT(60) DEF Commanded, WritesReset, WritesSpeed, mainVars
<1> QED
    BY <1>1, <1>2, <1>3, <1>4, <1>5, <1>6, <1>7, <1>8, <1>9, <1>10, NextCases
       DEF OfferStep, ThreadStep

\* The tail of a stream lacks only its head.
LEMMA TailComplete ==
    ASSUME NEW s \in Seq(Message), s # <<>>, NEW c \in Nat, NEW d \in Nat, NEW n \in Nat,
           Complete(s, c, n), c <= d,
           \A k \in d + 1 .. n : Head(s).type = "offer" => Head(s).n # k
    PROVE  Complete(Tail(s), d, n)
<1>1. /\ Head(s) = s[1] /\ Len(Tail(s)) = Len(s) - 1 /\ Len(s) \in Nat \ {0}
      /\ \A i \in 1 .. Len(s) - 1 : Tail(s)[i] = s[i + 1]
    BY HeadTailProperties, LenProperties, EmptySeq
<1>2. ASSUME NEW k \in d + 1 .. n PROVE OfferIn(Tail(s), k, Len(Tail(s)) + 1)
    <2>1. k \in c + 1 .. n
        OBVIOUS
    <2>2. PICK j \in 1 .. Len(s) : s[j].type = "offer" /\ s[j].n = k
        BY <1>1, <2>1 DEF Complete, OfferIn
    <2>3. j # 1
        BY <1>1, <2>2
    <2>4. j - 1 \in 1 .. (Len(Tail(s)) + 1) - 1 /\ Tail(s)[j - 1] = s[j]
        BY <1>1, <2>3
    <2> QED BY <2>2, <2>4 DEF OfferIn
<1> QED BY <1>2 DEF Complete

LEMMA AppendBounded ==
    ASSUME NEW s \in Seq(Message), NEW m \in Message, NEW n \in Nat,
           \A i \in 1 .. Len(s) : s[i].type = "offer" => s[i].n <= n,
           m.type = "offer" => m.n <= n
    PROVE  \A i \in 1 .. Len(Append(s, m)) :
                Append(s, m)[i].type = "offer" => Append(s, m)[i].n <= n
<1>1. /\ Len(Append(s, m)) = Len(s) + 1 /\ Len(s) \in Nat
      /\ \A i \in 1 .. Len(s) : Append(s, m)[i] = s[i]
      /\ Append(s, m)[Len(s) + 1] = m
    BY AppendProperties, LenProperties
<1> QED BY <1>1

LEMMA AppendComplete ==
    ASSUME NEW s \in Seq(Message), NEW c \in Nat, NEW n \in Nat, NEW m \in Message,
           Complete(s, c, n)
    PROVE  /\ Complete(Append(s, m), c, n)
           /\ m.type = "offer" /\ m.n = n + 1 => Complete(Append(s, m), c, n + 1)
<1>1. /\ Len(Append(s, m)) = Len(s) + 1 /\ Len(s) \in Nat
      /\ \A i \in 1 .. Len(s) : Append(s, m)[i] = s[i]
      /\ Append(s, m)[Len(s) + 1] = m
    BY AppendProperties, LenProperties
<1>2. ASSUME NEW k \in c + 1 .. n PROVE OfferIn(Append(s, m), k, Len(Append(s, m)) + 1)
    <2>1. PICK j \in 1 .. Len(s) : s[j].type = "offer" /\ s[j].n = k
        BY <1>1 DEF Complete, OfferIn
    <2>2. Append(s, m)[j] = s[j] /\ j \in 1 .. (Len(Append(s, m)) + 1) - 1
        BY <1>1
    <2> QED BY <2>1, <2>2 DEF OfferIn
<1>3. ASSUME m.type = "offer", m.n = n + 1
      PROVE  OfferIn(Append(s, m), n + 1, Len(Append(s, m)) + 1)
    <2>1. Len(s) + 1 \in 1 .. (Len(Append(s, m)) + 1) - 1
        BY <1>1
    <2> QED BY <1>1, <1>3, <2>1 DEF OfferIn
<1> QED BY <1>2, <1>3 DEF Complete

\* A message is delivered that is no offer.
LEMMA StreamExtended ==
    ASSUME TypeOK, StreamInv, NEW m \in Message, Delivers(m), messages' = messages,
           cur' = cur, offered' = offered, wsOpen' = wsOpen, m.type # "offer",
           m.type = "candidate" => m.n \in 1 .. offered
    PROVE  StreamInv'
<1> USE DEF StreamInv
<1>1. stream \in Seq(Message) /\ cur \in Nat /\ offered \in Nat /\ wsOpen
    BY StreamType, OffersAssumption DEF TypeOK, Delivers
<1>2. stream' = Append(stream, m)
    BY StreamDelivered
<1>3. m.type = "candidate" => m.n \in 1 .. cur \/ OfferIn(stream, m.n, Len(stream) + 1)
    BY <1>1 DEF Complete
<1>4. Ordered(stream', cur)
    BY <1>1, <1>2, <1>3, OrderedAppend
<1>5. Complete(stream', cur, offered)
    BY <1>1, <1>2, AppendComplete
<1>6. /\ Len(stream') = Len(stream) + 1 /\ Len(stream) \in Nat
      /\ \A i \in 1 .. Len(stream) : stream'[i] = stream[i]
      /\ stream'[Len(stream) + 1] = m
    BY <1>1, <1>2, AppendProperties, LenProperties
<1>7. \A i \in 1 .. Len(stream') : stream'[i].type = "offer" => stream'[i].n <= offered
    BY <1>6
<1> QED BY <1>4, <1>5, <1>7

\* The main thread takes a message that is no offer.
LEMMA StreamShortened ==
    ASSUME TypeOK, StreamInv, NEW kind, Takes(kind), kind # "offer",
           UNCHANGED <<toCar, cur, offered, wsOpen>>
    PROVE  StreamInv'
<1> USE DEF StreamInv
<1>1. stream \in Seq(Message) /\ cur \in Nat /\ offered \in Nat
    BY StreamType, OffersAssumption DEF TypeOK
<1>2. stream # <<>> /\ stream' = Tail(stream) /\ Head(stream).type # "offer"
    BY StreamTaken DEF Takes
<1>3. Ordered(stream', cur)
    BY <1>1, <1>2, OrderedTail
<1>4. wsOpen => Complete(stream', cur, offered)
    BY <1>1, <1>2, TailComplete
<1>5. /\ Len(stream') = Len(stream) - 1
      /\ \A i \in 1 .. Len(stream) - 1 : stream'[i] = stream[i + 1]
      /\ Len(stream) \in Nat
    BY <1>1, <1>2, HeadTailProperties, LenProperties
<1>6. \A i \in 1 .. Len(stream') : stream'[i].type = "offer" => stream'[i].n <= offered
    BY <1>5
<1> QED BY <1>3, <1>4, <1>6

LEMMA StreamStep ==
    ASSUME TypeOK, StreamInv, [Next]_vars PROVE StreamInv'
<1> USE DEF mainVars, conns, base
<1>0. stream \in Seq(Message) /\ cur \in Nat /\ offered \in Nat
    BY StreamType, OffersAssumption DEF TypeOK
<1>1. ASSUME stream' = stream, cur' = cur, offered' = offered, wsOpen' = wsOpen
      PROVE  StreamInv'
    BY <1>1 DEF StreamInv
<1>2. CASE ServerWelcomes
    <2>1. Plain("Hello Car_data") \in Message /\ Plain("Hello Car_data").type = "Hello Car_data"
        BY PlainFacts DEF Plain
    <2>2. /\ Delivers(Plain("Hello Car_data"))
          /\ UNCHANGED <<messages, cur, offered, wsOpen>>
        BY <1>2 DEF ServerWelcomes
    <2> QED BY <2>1, <2>2, StreamExtended
<1>3. CASE ControllerAdds
    <2>1. PICK n \in 1 .. offered : Delivers(RemoteCandidate(n))
        BY <1>3 DEF ControllerAdds
    <2>2. n \in 0 .. Offers /\ "candidate" \in Kinds
        BY OffersAssumption DEF Kinds, TypeOK
    <2>3. /\ RemoteCandidate(n) \in Message
          /\ RemoteCandidate(n).type = "candidate" /\ RemoteCandidate(n).n = n
        BY <2>2, MessageFacts DEF RemoteCandidate
    <2>4. UNCHANGED <<messages, cur, offered, wsOpen>>
        BY <1>3 DEF ControllerAdds
    <2> QED BY <2>1, <2>3, <2>4, StreamExtended
<1>4. CASE ControllerCalls
    <2>1. Plain("Session_data") \in Message /\ Plain("Session_data").type = "Session_data"
        BY PlainFacts DEF Plain
    <2>2. /\ Delivers(Plain("Session_data"))
          /\ UNCHANGED <<messages, cur, offered, wsOpen>>
        BY <1>4 DEF ControllerCalls
    <2> QED BY <2>1, <2>2, StreamExtended
<1>5. CASE ControllerOffers
    <2> DEFINE m == Offer(offered + 1)
    <2>1. /\ offered < Offers /\ offered' = offered + 1 /\ Delivers(m)
          /\ messages' = messages /\ cur' = cur /\ wsOpen' = wsOpen
        BY <1>5 DEF ControllerOffers
    <2>2. offered + 1 \in 0 .. Offers /\ "offer" \in Kinds
        BY <1>0, <2>1, OffersAssumption DEF Kinds
    <2>3. m \in Message /\ m.type = "offer" /\ m.n = offered + 1
        BY <2>2, MessageFacts DEF Offer
    <2>4. wsOpen /\ stream' = Append(stream, m)
        BY <2>1, <2>3, StreamDelivered DEF Delivers
    <2> HIDE DEF m
    <2>5. /\ cur <= offered /\ Ordered(stream, cur) /\ Complete(stream, cur, offered)
          /\ \A i \in 1 .. Len(stream) : stream[i].type = "offer" => stream[i].n <= offered
        BY <2>4 DEF StreamInv
    <2>6. m.n = cur + 1 \/ OfferIn(stream, m.n - 1, Len(stream) + 1)
        <3>1. CASE cur = offered
            BY <2>3, <3>1
        <3>2. CASE cur < offered
            <4>1. offered \in cur + 1 .. offered /\ m.n - 1 = offered
                BY <1>0, <2>3, <3>2
            <4> QED BY <2>5, <4>1 DEF Complete
        <3> QED BY <1>0, <2>5, <3>1, <3>2
    <2>7. \A j \in 1 .. Len(stream) : stream[j].type = "offer" => stream[j].n < m.n
        <3>1. ASSUME NEW j \in 1 .. Len(stream) PROVE stream[j].n \in Nat
            <4>1. stream[j] \in Message
                BY <1>0, ElementOfSeq
            <4> QED BY <4>1, OffersAssumption DEF Message
        <3> QED BY <1>0, <2>3, <2>5, <3>1
    <2>8. Ordered(stream', cur)
        <3>1. m.n > cur /\ m.type # "candidate"
            BY <1>0, <2>3, <2>5
        <3>2. Ordered(Append(stream, m), cur)
            BY <1>0, <2>3, <2>5, <2>6, <2>7, <3>1, OrderedAppend
        <3> QED BY <2>4, <3>2
    <2>9. Complete(stream', cur, offered + 1)
        BY <1>0, <2>3, <2>4, <2>5, AppendComplete
    <2>10. \A i \in 1 .. Len(stream') : stream'[i].type = "offer" => stream'[i].n <= offered + 1
        <3>1. \A i \in 1 .. Len(stream) : stream[i].type = "offer" => stream[i].n <= offered + 1
            <4>1. ASSUME NEW i \in 1 .. Len(stream) PROVE stream[i].n \in Nat
                <5>1. stream[i] \in Message
                    BY <1>0, ElementOfSeq
                <5> QED BY <5>1, OffersAssumption DEF Message
            <4> QED BY <1>0, <2>5, <4>1
        <3> QED BY <1>0, <2>3, <2>4, <3>1, AppendBounded
    <2> QED BY <1>0, <2>1, <2>5, <2>8, <2>9, <2>10 DEF StreamInv
<1>6. CASE ServerCloses
    <2>1. wsOpen' = FALSE /\ cur' = cur /\ offered' = offered
        BY <1>6 DEF ServerCloses
    <2>2. PICK k \in 0 .. Len(stream) : stream' = SubSeq(stream, 1, k)
        BY <1>6, StreamCut
    <2>3. Ordered(stream', cur)
        BY <1>0, <2>2, OrderedPrefix DEF StreamInv
    <2>4. Len(SubSeq(stream, 1, k)) = k /\ \A i \in 1 .. k : SubSeq(stream, 1, k)[i] = stream[i]
        BY <1>0, SubSeqProperties
    <2>5. \A i \in 1 .. Len(stream') : stream'[i].type = "offer" => stream'[i].n <= offered
        BY <2>2, <2>4 DEF StreamInv
    <2> QED BY <2>1, <2>3, <2>5 DEF StreamInv
<1>7. CASE LoopDispatches
    <2>1. UNCHANGED <<cur, offered, wsOpen>>
        BY <1>7 DEF LoopDispatches
    <2> QED BY <1>1, <1>7, <2>1, StreamMoved
<1>8. CASE TakesHello \/ TakesText \/ TakesCandidate
    <2>1. UNCHANGED <<toCar, cur, offered, wsOpen>>
        BY <1>8 DEF TakesHello, TakesText, TakesCandidate, net
    <2>2. \E kind \in {"hello", "Hello Car_data", "Session_data", "candidate"} : Takes(kind)
        BY <1>8 DEF TakesHello, TakesText, TakesCandidate
    <2> QED BY <2>1, <2>2, StreamShortened
<1>9. CASE TakesOffer
    <2>1. /\ Takes("offer") /\ toCar' = toCar /\ cur' = Head(messages).n
          /\ offered' = offered /\ wsOpen' = wsOpen
        BY <1>9 DEF TakesOffer, net
    <2>2. /\ stream # <<>> /\ Head(stream) = Head(messages) /\ stream' = Tail(stream)
          /\ Head(stream).type = "offer"
        BY <2>1, StreamTaken DEF Takes
    <2>3. Head(stream).n = cur + 1 /\ Ordered(stream', cur + 1)
        BY <1>0, <2>2, OrderedTaken DEF StreamInv
    <2>4. wsOpen => Complete(stream', cur + 1, offered)
        BY <1>0, <2>2, <2>3, TailComplete DEF StreamInv
    <2>5. /\ Len(stream') = Len(stream) - 1 /\ Head(stream) = stream[1]
          /\ \A i \in 1 .. Len(stream) - 1 : stream'[i] = stream[i + 1]
          /\ Len(stream) \in Nat \ {0}
        BY <1>0, <2>2, HeadTailProperties, LenProperties, EmptySeq
    <2>6. \A i \in 1 .. Len(stream') : stream'[i].type = "offer" => stream'[i].n <= offered
        BY <2>5 DEF StreamInv
    <2>7. cur + 1 <= offered
        BY <2>2, <2>3, <2>5 DEF StreamInv
    <2> QED BY <2>1, <2>2, <2>3, <2>4, <2>6, <2>7 DEF StreamInv
<1>10. CASE LoopSends \/ InitializeThrows \/ GatherThrows
    <2>1. UNCHANGED <<messages, toCar, cur, offered, wsOpen>>
        BY <1>10 DEF LoopSends, InitializeThrows, GatherThrows, Dies, net
    <2> QED BY <1>1, <2>1 DEF stream
<1>11. ASSUME NEW n \in Conns, Ice(n) \/ Peer(n) \/ Recv(n) \/ Sender(n) PROVE StreamInv'
    <2>1. UNCHANGED <<messages, toCar, cur, offered, wsOpen>>
        BY <1>11 DEF Ice, Peer, Recv, Sender, ReportsCandidate, ComesUp, IsLost, OpensChannel,
            Commanded, WritesReset, WritesSpeed, SenderEnds, SendThrows, Dies, net
    <2> QED BY <1>1, <2>1 DEF stream
<1>12. CASE GeneratesCertificate \/ InitializesDTLS \/ InitializesNice \/ InitializesSCTP
    <2>1. UNCHANGED <<messages, toCar, cur, offered, wsOpen>>
        BY <1>12 DEF GeneratesCertificate, InitializesDTLS, InitializesNice, Builds,
            InitializesSCTP, net
    <2> QED BY <1>1, <2>1 DEF stream
<1>13. CASE Replaces \/ ReadsOffer \/ Gathers \/ Answers
    <2>1. UNCHANGED <<messages, toCar, cur, offered, wsOpen>>
        BY <1>13 DEF Replaces, ReadsOffer, Gathers, Answers, net
    <2> QED BY <1>1, <2>1 DEF stream
<1>14. CASE UNCHANGED vars
    BY <1>1, <1>14 DEF vars, net, stream
<1> QED
    BY <1>2, <1>3, <1>4, <1>5, <1>6, <1>7, <1>8, <1>9, <1>10, <1>11, <1>12, <1>13, <1>14
       DEF Next, Server, Main

LEMMA CandidateStep ==
    ASSUME TypeOK, Stuck, StreamInv, CandidateFindsItsConnection, [Next]_vars
    PROVE  CandidateFindsItsConnection'
<1>1. CASE TakesCandidate
    <2> DEFINE n == Head(messages).n
    <2>1. /\ Takes("candidate") /\ main = "idle" /\ toCar' = toCar
          /\ given' = given \cup {<<pc, n>>} \/ given' = given
          /\ ended' = IF pc = 0 THEN "pointer" ELSE "no"
        BY <1>1 DEF TakesCandidate, Takes, net, SetRemoteIceCandidate
    <2>2. /\ stream \in Seq(Message) /\ stream # <<>> /\ Head(stream) = Head(messages)
          /\ Head(stream).type = "candidate"
        BY <2>1, StreamTaken, StreamType DEF Takes
    <2>3. Head(stream) = stream[1] /\ 1 \in 1 .. Len(stream)
        BY <2>2, HeadTailProperties, LenProperties, EmptySeq
    <2>4. n \in 1 .. cur
        BY <2>2, <2>3 DEF StreamInv, Ordered, OfferIn
    <2>5. pc = cur /\ pc <= 1
        BY <2>1 DEF Stuck, Building
    <2>6. n = pc
        BY <2>4, <2>5 DEF TypeOK
    <2> QED BY <2>1, <2>6 DEF CandidateFindsItsConnection
<1>2. ASSUME given' = given PROVE CandidateFindsItsConnection'
    BY <1>2 DEF CandidateFindsItsConnection
<1>3. ASSUME ~TakesCandidate PROVE given' = given
    BY <1>3 DEF Next, Server, Main, Ice, Peer, Recv, Sender, vars, conns,
        ServerWelcomes, ControllerOffers, ControllerAdds, ControllerCalls, ServerCloses,
        LoopDispatches, LoopSends, TakesHello, TakesText, TakesOffer, GeneratesCertificate,
        InitializesDTLS, InitializesNice, Builds, InitializesSCTP, InitializeThrows, Dies,
        Replaces, ReadsOffer, Gathers, GatherThrows, Answers, ReportsCandidate, ComesUp,
        IsLost, OpensChannel, Commanded, WritesReset, WritesSpeed, SenderEnds, SendThrows
<1> QED BY <1>1, <1>2, <1>3

LEMMA StreamInit == Init => StreamInv
<1> SUFFICES ASSUME Init PROVE StreamInv
    OBVIOUS
<1> DEFINE m == Plain("hello")
<1>1. /\ messages = <<>> /\ toCar = <<m>> /\ cur = 0 /\ offered = 0
    BY DEF Init
<1>2. m \in Message /\ m.type = "hello"
    BY PlainFacts DEF Plain
<1> HIDE DEF m
<1>3. stream = <<m>>
    BY <1>1, <1>2 DEF stream
<1>4. Len(stream) = 1 /\ stream[1] = m
    BY <1>3
<1>5. Ordered(stream, 0)
    BY <1>2, <1>4 DEF Ordered
<1>6. Complete(stream, 0, 0)
    BY DEF Complete
<1> QED BY <1>1, <1>2, <1>4, <1>5, <1>6 DEF StreamInv

LEMMA ConnectionInit == Init => ConnectionInv
<1>1. Init => OneConnection /\ Stuck /\ CandidateFindsItsConnection
    BY DEF Init, OneConnection, Stuck, CandidateFindsItsConnection, Active, Building
<1> QED
    BY <1>1, TypeInit, StreamInit DEF ConnectionInv

LEMMA ConnectionStep == ConnectionInv /\ [Next]_vars => ConnectionInv'
BY TypeStep, OneConnectionStep, StuckStep, StreamStep, CandidateStep DEF ConnectionInv

\* The main thread gives a controller's candidates to the connection that
\* answers this controller, and only when there is one: what the websocket has
\* not delivered is in the order of the offers, and the main thread takes no
\* message after a second offer.
THEOREM CandidatesSafe == Spec => []CandidateFindsItsConnection
<1>1. ConnectionInv => CandidateFindsItsConnection
    BY DEF ConnectionInv
<1> QED
    BY <1>1, ConnectionInit, ConnectionStep, PTL DEF Spec

\* No send_loop uses a connection that has been freed, for the reason that
\* ~SCTPWrapper of a replaced connection does not return.
THEOREM PointersSafe == Spec => []PointerAlive
<1>1. ConnectionInv => PointerAlive
    BY DEF ConnectionInv, Stuck, PointerAlive
<1> QED
    BY <1>1, ConnectionInit, ConnectionStep, PTL DEF Spec

-----------------------------------------------------------------------------
(* The wheels' speeds                                                        *)

\* Two quotients of numbers are in the proportion of the numbers, to less than
\* the larger one.
LEMMA Proportion ==
    ASSUME NEW K \in Nat, NEW M \in Nat \ {0}, NEW F \in Nat,
           NEW a \in 0 .. F, NEW b \in 0 .. F,
           NEW q \in Nat, NEW r \in 0 .. M - 1, M * q + r = K * a,
           NEW s \in Nat, NEW t \in 0 .. M - 1, M * s + t = K * b
    PROVE  q * b - s * a <= F
<1>1. (M * q) * b = (K * a) * b - r * b /\ (M * s) * a = (K * b) * a - t * a
    <2>1. M * q = K * a - r /\ M * s = K * b - t
        OBVIOUS
    <2>2. \A u \in Int, y \in Int, g \in Int : (u - y) * g = u * g - y * g
        BY SMT
    <2> QED
        BY <2>1, <2>2
<1>2. M * (q * b - s * a) = t * a - r * b
    <2>1. (M * q) * b = M * (q * b) /\ (M * s) * a = M * (s * a) /\ (K * a) * b = (K * b) * a
        BY SMT
    <2>2. M * (q * b - s * a) = M * (q * b) - M * (s * a)
        BY SMT
    <2> QED
        BY <1>1, <2>1, <2>2
<1>3. t * a <= M * F /\ 0 <= r * b
    BY SMT
<1>4. M * (q * b - s * a) <= M * F
    BY <1>2, <1>3
<1> DEFINE d == q * b - s * a
<1>5. d \in Int
    OBVIOUS
<1> HIDE DEF d
<1>6. \A u \in Int : M * u <= M * F => u <= F
    BY SMT
<1> QED
    BY <1>4, <1>5, <1>6 DEF d

LEMMA DivisionFacts ==
    ASSUME NEW u \in Nat, NEW y \in Nat \ {0}
    PROVE  /\ u \div y \in Nat
           /\ u % y \in 0 .. y - 1
           /\ y * (u \div y) + (u % y) = u
BY SMT

LEMMA QuotientBound ==
    ASSUME NEW M \in Nat \ {0}, NEW u \in Nat, u <= 32 * M
    PROVE  u \div M <= 32
<1>1. M * (u \div M) <= u /\ u \div M \in Nat
    BY DivisionFacts
<1>2. \A q \in Nat : M * q <= 32 * M => q <= 32
    BY SMT
<1> QED
    BY <1>1, <1>2

\* What a wheel is given, of the size of its speed.
SizeAt(K, M, u) == (K * Magnitude(u)) \div M

LEMMA QuotientSize ==
    ASSUME NEW K \in Nat \ {0}, NEW M \in Nat \ {0}, NEW u \in Int
    PROVE  /\ u >= 0 => Quotient(u * K, M) = SizeAt(K, M, u)
           /\ u < 0 => Quotient(u * K, M) = -SizeAt(K, M, u)
           /\ SizeAt(K, M, u) \in Nat
           /\ Magnitude(u) \in Nat
<1> DEFINE m == K * Magnitude(u)
<1>1. m \in Nat /\ Magnitude(u) \in Nat
    BY SMT DEF Magnitude
<1>2. m \div M \in Nat
    BY <1>1, DivisionFacts
<1>3. CASE u >= 0
    <2>1. u * K = m /\ ~(u * K < 0)
        BY <1>3, SMT DEF Magnitude
    <2>2. Quotient(u * K, M) = m \div M
        BY <2>1, Zenon DEF Quotient
    <2> QED
        BY <1>1, <1>2, <1>3, <2>2 DEF SizeAt
<1>4. CASE u < 0
    <2>1. -(u * K) = m /\ u * K < 0
        BY <1>4, SMT DEF Magnitude
    <2>2. Quotient(u * K, M) = -(m \div M)
        BY <2>1, Zenon DEF Quotient
    <2> QED
        BY <1>1, <1>2, <1>4, <2>2 DEF SizeAt
<1> QED
    BY <1>3, <1>4

\* The two wheels, scaled in the same way.
LEMMA Scaled ==
    ASSUME NEW K \in Nat \ {0}, NEW M \in Nat \ {0}, NEW u \in Int, NEW y \in Int,
           K * Larger(Magnitude(u), Magnitude(y)) <= 32 * M
    PROVE  CurveKept(<<u, y>>, <<Quotient(u * K, M), Quotient(y * K, M)>>)
<1> DEFINE F == Larger(Magnitude(u), Magnitude(y))
           a == Magnitude(u)
           b == Magnitude(y)
           q == SizeAt(K, M, u)
           s == SizeAt(K, M, y)
           v == Quotient(u * K, M)
           w == Quotient(y * K, M)
<1>1. /\ a \in Nat /\ b \in Nat /\ q \in Nat /\ s \in Nat
      /\ u >= 0 => v = q
      /\ u < 0 => v = -q
      /\ y >= 0 => w = s
      /\ y < 0 => w = -s
    BY QuotientSize
<1>2. F \in Nat /\ a \in 0 .. F /\ b \in 0 .. F
    BY <1>1 DEF Larger
<1>3. u >= 0 => a = u
    BY DEF Magnitude
<1>4. u < 0 => a = -u
    BY DEF Magnitude
<1>5. y >= 0 => b = y
    BY DEF Magnitude
<1>6. y < 0 => b = -y
    BY DEF Magnitude
<1>7. q <= 32 /\ s <= 32
    <2>1. K * a \in Nat /\ K * b \in Nat /\ K * a <= K * F /\ K * b <= K * F
        BY <1>2, SMT
    <2>2. K * F <= 32 * M
        OBVIOUS
    <2>3. K * a <= 32 * M /\ K * b <= 32 * M
        BY <1>2, <2>1, <2>2, SMT
    <2> QED
        BY <2>1, <2>3, QuotientBound DEF SizeAt
<1>8. q * b - s * a <= F /\ s * a - q * b <= F
    <2> DEFINE r == (K * a) % M
               t == (K * b) % M
    <2>1. K * a \in Nat /\ K * b \in Nat
        BY <1>2, SMT
    <2>2. r \in 0 .. M - 1 /\ t \in 0 .. M - 1 /\ M * q + r = K * a /\ M * s + t = K * b
        BY <2>1, DivisionFacts DEF SizeAt
    <2> HIDE DEF F, a, b, q, s, r, t
    <2> QED
        BY <1>1, <1>2, <2>2, Proportion
<1> HIDE DEF F, a, b, q, s, v, w
<1>9. Magnitude(v) <= 32 /\ Magnitude(w) <= 32
    BY <1>1, <1>7 DEF Magnitude
<1>10. v * u >= 0 /\ w * y >= 0
    <2>1. \A m \in Nat, n \in Nat : m * n >= 0 /\ (-m) * (-n) = m * n
        BY SMT
    <2> QED
        BY <1>1, <1>3, <1>4, <1>5, <1>6, <2>1, SMT
<1>11. Magnitude(v * y - w * u) <= F
    <2>1. \A m \in Nat, n \in Nat : m * (-n) = -(m * n) /\ (-m) * n = -(m * n) /\ (-m) * (-n) = m * n
        BY SMT
    <2>2. q * b \in Nat /\ s * a \in Nat
        BY <1>1, SMT
    <2>3. CASE u >= 0 /\ y >= 0
        BY <1>1, <1>2, <1>3, <1>5, <1>8, <2>2, <2>3 DEF Magnitude
    <2>4. CASE u >= 0 /\ y < 0
        <3>1. v * y = -(q * b) /\ w * u = -(s * a)
            BY <1>1, <1>3, <1>6, <2>1, <2>4
        <3> QED
            BY <1>2, <1>8, <2>2, <3>1 DEF Magnitude
    <2>5. CASE u < 0 /\ y >= 0
        <3>1. v * y = -(q * b) /\ w * u = -(s * a)
            BY <1>1, <1>4, <1>5, <2>1, <2>5
        <3> QED
            BY <1>2, <1>8, <2>2, <3>1 DEF Magnitude
    <2>6. CASE u < 0 /\ y < 0
        <3>1. v * y = q * b /\ w * u = s * a
            BY <1>1, <1>4, <1>6, <2>1, <2>6
        <3> QED
            BY <1>2, <1>8, <2>2, <3>1 DEF Magnitude
    <2> QED
        BY <2>3, <2>4, <2>5, <2>6
<1> QED
    <2> DEFINE p == <<u, y>>
               g == <<v, w>>
    <2>1. p[1] = u /\ p[2] = y /\ g[1] = v /\ g[2] = w
        OBVIOUS
    <2>2. \A i \in 1 .. 2 : i = 1 \/ i = 2
        OBVIOUS
    <2> HIDE DEF p, g
    <2>3. CurveKept(p, g)
        BY <1>9, <1>10, <1>11, <2>1, <2>2 DEF CurveKept, MAXIMUM_ENCODING, F
    <2> QED
        BY <2>3 DEF p, g, v, w

-----------------------------------------------------------------------------
(* Frames                                                                    *)

Complement(n) == n % 65536
FromWord(m) == IF m < 32768 THEN m ELSE m - 65536

\* Two's complement.
LEMMA ComplementFacts ==
    ASSUME NEW n \in Int, -32 <= n, n <= 32
    PROVE  Complement(n) \in WordNumbers /\ FromWord(Complement(n)) = n
<1>1. CASE n >= 0
    <2>1. n % 65536 = n
        BY <1>1
    <2> QED
        BY <1>1, <2>1 DEF Complement, FromWord, WordNumbers
<1>2. CASE n < 0
    <2>1. n % 65536 = n + 65536
        BY <1>2
    <2> QED
        BY <1>2, <2>1 DEF Complement, FromWord, WordNumbers
<1> QED
    BY <1>1, <1>2

\* A short that is written is the short that is read.
LEMMA ShortBytes ==
    ASSUME NEW n \in Int, -32 <= n, n <= 32
    PROVE  \E h \in Byte, l \in Byte : Short(n) = <<h, l>> /\ FromShort(<<h, l>>) = n
<1>1. Complement(n) \in WordNumbers /\ FromWord(Complement(n)) = n
    BY ComplementFacts
<1>2. Short(n) = BigEndian(Complement(n), 2)
    BY DEF Short, Complement
<1>3. PICK m \in WordNumbers : m = Complement(n)
    BY <1>1
<1>4. Short(n) = <<High(m), Low(m)>> /\ High(m) \in Byte /\ Low(m) \in Byte
    BY <1>2, <1>3, BytesOfWord, WordParts
<1>5. Number(<<High(m), Low(m)>>) = m
    BY <1>4, WordOfBytes, WordParts
<1>6. \A data : FromShort(data) = FromWord(Number(data))
    BY DEF FromShort, FromWord
<1>7. FromShort(<<High(m), Low(m)>>) = n
    BY <1>1, <1>3, <1>5, <1>6
<1> QED
    BY <1>4, <1>7

\* A frame is well formed, and its payload is found behind its head.
LEMMA FramedBytes ==
    ASSUME NEW payload \in Seq(Byte), NEW length \in Byte, Len(payload) = length,
           NEW number \in Byte
    PROVE  /\ WellFramed(Framed(length, number, payload))
           /\ Framed(length, number, payload) \in Seq(Byte)
           /\ Len(Framed(length, number, payload)) = 4 + length + 1
           /\ \A i \in 1 .. length : Framed(length, number, payload)[4 + i] = payload[i]
<1> DEFINE head == <<85, 170, length, number>>
           data == head \o payload
           f == Framed(length, number, payload)
<1>1. 85 \in Byte /\ 170 \in Byte
    BY DEF Byte
<1>2. /\ head \in Seq(Byte) /\ Len(head) = 4
      /\ head[1] = 85 /\ head[2] = 170 /\ head[3] = length
    BY <1>1
<1> HIDE DEF head, data, f
<1>3. length \in Nat
    BY DEF Byte
<1>4. /\ data \in Seq(Byte) /\ Len(data) = 4 + length
      /\ data[1] = 85 /\ data[2] = 170 /\ data[3] = length
      /\ \A i \in 1 .. length : data[4 + i] = payload[i]
    <2>1. /\ data \in Seq(Byte) /\ Len(data) = Len(head) + Len(payload)
          /\ \A i \in 1 .. Len(head) + Len(payload) :
                data[i] = IF i <= Len(head) THEN head[i] ELSE payload[i - Len(head)]
        <3>1. head \in Seq(Byte) /\ payload \in Seq(Byte)
            BY <1>2
        <3>2. data = head \o payload
            BY DEF data
        <3> QED
            BY <3>1, <3>2, ConcatProperties, Zenon
    <2>2. 1 \in 1 .. 4 + length /\ 2 \in 1 .. 4 + length /\ 3 \in 1 .. 4 + length
        BY <1>3
    <2>3. ASSUME NEW i \in 1 .. length PROVE data[4 + i] = payload[i]
        <3>1. 4 + i \in 1 .. 4 + length /\ ~(4 + i <= 4) /\ (4 + i) - 4 = i
            BY <1>3
        <3> QED
            BY <1>2, <2>1, <3>1
    <2> QED
        BY <1>2, <2>1, <2>2, <2>3
<1>5. f = Append(data, Xor(data))
    BY DEF Framed, head, data, f
<1>6. Xor(data) \in Byte
    BY <1>4, XorBits
<1>7. /\ f \in Seq(Byte) /\ Len(f) = 4 + length + 1
      /\ \A i \in 1 .. 4 + length : f[i] = data[i]
    BY <1>3, <1>4, <1>5, <1>6
<1>8. f[1] = 85 /\ f[2] = 170 /\ f[3] = length
    BY <1>3, <1>4, <1>7
<1>9. \A i \in 1 .. length : f[4 + i] = payload[i]
    BY <1>3, <1>4, <1>7
<1>10. SubSeq(f, 1, 2) = <<85, 170>>
    <2>1. 1 \in 1 .. Len(f) /\ 1 + 1 <= Len(f) /\ 1 + 1 = 2
        BY <1>3, <1>7
    <2>2. SubSeq(f, 1, 1 + 1) = <<f[1], f[1 + 1]>>
        BY <1>7, <2>1, PairOf, Zenon
    <2> QED
        BY <1>8, <2>1, <2>2, ZenonT(60)
<1>11. Xor(f) = 0
    BY <1>4, <1>5, XorAppended
<1>12. \A i \in DOMAIN f : f[i] \in Byte
    BY <1>7
<1>13. WellFramed(f)
    BY <1>7, <1>8, <1>10, <1>11, <1>12 DEF WellFramed
<1> QED
    BY <1>7, <1>9, <1>13 DEF f

-----------------------------------------------------------------------------
(* Commands                                                                  *)

\* The wheels' speeds that are sent keep to the curve, whatever was asked for.
LEMMA WheelsKept ==
    ASSUME NEW u \in Int, NEW y \in Int
    PROVE  CurveKept(<<u, y>>, Wheels(u, y))
<1> DEFINE F == Larger(Magnitude(u), Magnitude(y))
<1>1. F \in Nat
    BY DEF Larger, Magnitude
<1>2. Wheels(u, y) = <<Saturated(u, F), Saturated(y, F)>>
    BY DEF Wheels
<1>3. Units \in Nat \ {0} /\ 1 \in Nat \ {0} /\ 32 \in Nat \ {0}
    BY UnitsAssumption
<1>4. CASE F <= 32 * Units
    <2>1. Saturated(u, F) = Quotient(u, Units) /\ Saturated(y, F) = Quotient(y, Units)
        BY <1>4 DEF Saturated, MAXIMUM_ENCODING
    <2>2. u * 1 = u /\ y * 1 = y /\ 1 * F = F
        BY <1>1
    <2>3. 1 * F <= 32 * Units
        BY <1>4, <2>2
    <2>4. CurveKept(<<u, y>>, <<Quotient(u * 1, Units), Quotient(y * 1, Units)>>)
        BY <1>3, <2>3, Scaled
    <2> QED
        BY <1>2, <2>1, <2>2, <2>4
<1>5. CASE ~(F <= 32 * Units)
    <2>1. F \in Nat \ {0}
        BY <1>1, <1>3, <1>5
    <2>2. Saturated(u, F) = Quotient(u * 32, F) /\ Saturated(y, F) = Quotient(y * 32, F)
        BY <1>5 DEF Saturated, MAXIMUM_ENCODING
    <2>3. 32 * F <= 32 * F
        BY <1>1
    <2>4. CurveKept(<<u, y>>, <<Quotient(u * 32, F), Quotient(y * 32, F)>>)
        BY <1>3, <2>1, <2>3, Scaled
    <2> QED
        BY <1>2, <2>2, <2>4
<1> QED
    BY <1>4, <1>5

LEMMA WheelsType ==
    ASSUME NEW u \in Int, NEW y \in Int
    PROVE  \E v \in Int, w \in Int :
               /\ Wheels(u, y) = <<v, w>>
               /\ -32 <= v /\ v <= 32 /\ -32 <= w /\ w <= 32
<1> DEFINE F == Larger(Magnitude(u), Magnitude(y))
           v == Saturated(u, F)
           w == Saturated(y, F)
<1>1. F \in Nat
    BY DEF Larger, Magnitude
<1>2. Wheels(u, y) = <<v, w>>
    BY DEF Wheels
<1>3. \A g \in Int, m \in Nat \ {0} : Quotient(g, m) \in Int
    BY SMT DEF Quotient
<1>4. Units \in Nat \ {0}
    BY UnitsAssumption
<1>5. u * 32 \in Int /\ y * 32 \in Int
    OBVIOUS
<1> HIDE DEF F
<1>6. v \in Int /\ w \in Int
    <2>1. F <= 32 * Units \/ F \in Nat \ {0}
        BY <1>1, <1>4
    <2> QED
        BY <1>3, <1>4, <1>5, <2>1 DEF Saturated, MAXIMUM_ENCODING
<1> HIDE DEF v, w
<1>7. Magnitude(v) <= 32 /\ Magnitude(w) <= 32
    <2> DEFINE g == <<v, w>>
    <2>1. g[1] = v /\ g[2] = w /\ 1 \in 1 .. 2 /\ 2 \in 1 .. 2
        OBVIOUS
    <2> HIDE DEF g
    <2>2. CurveKept(<<u, y>>, g)
        BY <1>2, WheelsKept DEF g
    <2> QED
        BY <2>1, <2>2 DEF CurveKept, MAXIMUM_ENCODING
<1>8. -32 <= v /\ v <= 32 /\ -32 <= w /\ w <= 32
    BY <1>6, <1>7 DEF Magnitude
<1> QED
    BY <1>2, <1>6, <1>8

\* Where the bytes of the two speeds are in a command.
LEMMA SpeedPayload ==
    ASSUME NEW a \in Seq(Byte), NEW b \in Seq(Byte), NEW c \in Seq(Byte), NEW d \in Seq(Byte),
           Len(a) = 1, Len(b) = 2, Len(c) = 2, Len(d) = 4
    PROVE  \E payload \in Seq(Byte) :
               /\ payload = a \o b \o c \o d /\ Len(payload) = 9
               /\ payload[2] = b[1] /\ payload[3] = b[2]
               /\ payload[4] = c[1] /\ payload[5] = c[2]
<1> DEFINE p == a \o b
           q == p \o c
           r == q \o d
<1>1. /\ p \in Seq(Byte) /\ Len(p) = Len(a) + Len(b)
      /\ \A k \in 1 .. Len(b) : p[Len(a) + k] = b[k]
    BY Joining, Zenon
<1>2. Len(p) = 3 /\ p[2] = b[1] /\ p[3] = b[2]
    <2> HIDE DEF p
    <2> QED
        BY <1>1
<1> HIDE DEF p
<1>3. /\ q \in Seq(Byte) /\ Len(q) = Len(p) + Len(c)
      /\ \A k \in 1 .. Len(p) : q[k] = p[k]
      /\ \A k \in 1 .. Len(c) : q[Len(p) + k] = c[k]
    BY <1>1, Joining, Zenon
<1>4. Len(q) = 5 /\ q[2] = b[1] /\ q[3] = b[2] /\ q[4] = c[1] /\ q[5] = c[2]
    <2> HIDE DEF q
    <2> QED
        BY <1>2, <1>3
<1> HIDE DEF q
<1>5. /\ r \in Seq(Byte) /\ Len(r) = Len(q) + Len(d)
      /\ \A k \in 1 .. Len(q) : r[k] = q[k]
    BY <1>3, Joining, Zenon
<1>6. Len(r) = 9 /\ r[2] = b[1] /\ r[3] = b[2] /\ r[4] = c[1] /\ r[5] = c[2]
    <2> HIDE DEF r
    <2> QED
        BY <1>4, <1>5
<1>7. r = a \o b \o c \o d
    BY DEF p, q, r
<1> HIDE DEF r
<1> QED
    BY <1>5, <1>6, <1>7

\* The base reads the speeds that were sent.
LEMMA SpeedCommand ==
    ASSUME NEW number \in Byte, NEW u \in Int, NEW y \in Int
    PROVE  /\ SpeedCmd(number, u, y) \in Seq(Byte)
           /\ WellFramed(SpeedCmd(number, u, y))
           /\ SpeedsOf(SpeedCmd(number, u, y)) = Wheels(u, y)
<1>1. PICK v \in Int, w \in Int :
          /\ Wheels(u, y) = <<v, w>>
          /\ -32 <= v /\ v <= 32 /\ -32 <= w /\ w <= 32
    BY WheelsType
<1>2. PICK h \in Byte, l \in Byte : Short(v) = <<h, l>> /\ FromShort(<<h, l>>) = v
    BY <1>1, ShortBytes
<1>3. PICK i \in Byte, j \in Byte : Short(w) = <<i, j>> /\ FromShort(<<i, j>>) = w
    BY <1>1, ShortBytes
<1> DEFINE a == <<1>>
           b == <<h, l>>
           c == <<i, j>>
           d == <<0, 0, 0, 0>>
<1>4. /\ a \in Seq(Byte) /\ b \in Seq(Byte) /\ c \in Seq(Byte) /\ d \in Seq(Byte)
      /\ Len(a) = 1 /\ Len(b) = 2 /\ Len(c) = 2 /\ Len(d) = 4
      /\ b[1] = h /\ b[2] = l /\ c[1] = i /\ c[2] = j
    <2>1. 0 \in Byte /\ 1 \in Byte
        BY DEF Byte
    <2> QED
        BY <2>1
<1>5. SpeedCmd(number, u, y) = Framed(9, number, a \o b \o c \o d)
    BY <1>1, <1>2, <1>3 DEF SpeedCmd
<1> HIDE DEF a, b, c, d
<1>51. PICK payload \in Seq(Byte) :
          /\ payload = a \o b \o c \o d /\ Len(payload) = 9
          /\ payload[2] = b[1] /\ payload[3] = b[2]
          /\ payload[4] = c[1] /\ payload[5] = c[2]
    BY <1>4, SpeedPayload, ZenonT(60)
<1> DEFINE f == Framed(9, number, payload)
<1>52. SpeedCmd(number, u, y) = f
    BY <1>5, <1>51, Zenon
<1>53. payload[2] = h /\ payload[3] = l /\ payload[4] = i /\ payload[5] = j
    BY <1>4, <1>51, Zenon
<1>6. 9 \in Byte
    BY DEF Byte
<1>7. WellFramed(f) /\ f \in Seq(Byte) /\ Len(f) = 4 + 9 + 1 /\ \A k \in 1 .. 9 : f[4 + k] = payload[k]
    <2>1. \A n \in Byte : Len(payload) = n =>
              /\ WellFramed(Framed(n, number, payload))
              /\ Framed(n, number, payload) \in Seq(Byte)
              /\ Len(Framed(n, number, payload)) = 4 + n + 1
              /\ \A k \in 1 .. n : Framed(n, number, payload)[4 + k] = payload[k]
        BY FramedBytes, Zenon
    <2> QED
        BY <1>51, <1>6, <2>1, Zenon
<1> HIDE DEF f
<1>8. Len(f) = 14
    BY <1>7
<1>9. f[6] = h /\ f[7] = l /\ f[8] = i /\ f[9] = j
    <2>1. /\ f[4 + 2] = payload[2] /\ f[4 + 3] = payload[3]
          /\ f[4 + 4] = payload[4] /\ f[4 + 5] = payload[5]
        BY <1>7
    <2> QED
        BY <1>53, <2>1
<1>10. SubSeq(f, 6, 7) = <<h, l>> /\ SubSeq(f, 8, 9) = <<i, j>>
    <2>1. SubSeq(f, 6, 6 + 1) = <<f[6], f[6 + 1]>> /\ SubSeq(f, 8, 8 + 1) = <<f[8], f[8 + 1]>>
        <3>1. 6 \in 1 .. Len(f) /\ 6 + 1 <= Len(f) /\ 8 \in 1 .. Len(f) /\ 8 + 1 <= Len(f)
            BY <1>8
        <3> QED
            BY <1>7, <3>1, PairOf, Zenon
    <2> QED
        BY <1>9, <2>1
<1>11. SpeedsOf(f) = <<v, w>>
    BY <1>2, <1>3, <1>10 DEF SpeedsOf
<1> QED
    BY <1>1, <1>52, <1>7, <1>11

LEMMA ResetCommand ==
    ASSUME NEW number \in Byte
    PROVE  ResetCmd(number) \in Seq(Byte) /\ WellFramed(ResetCmd(number))
<1>1. 5 \in Byte /\ 0 \in Byte /\ 2 \in Byte
    BY DEF Byte
<1>2. <<5, 0>> \in Seq(Byte) /\ Len(<<5, 0>>) = 2
    BY <1>1
<1> QED
    BY <1>1, <1>2, FramedBytes DEF ResetCmd

-----------------------------------------------------------------------------
(* The serial line                                                           *)

\* A line of 8 bits that works on nothing carries bytes as they are.
LEMMA CarriedAsIs ==
    ASSUME NEW data \in Seq(Byte), NEW settings,
           settings.size = 8, "OPOST" \notin settings.flags
    PROVE  Carried(data, settings) = data
<1> DEFINE L == Len(data)
           bytes(b) == IF b = 10 /\ "OPOST" \in settings.flags THEN <<13, 10>>
                       ELSE <<b % 2 ^ settings.size>>
           upTo[k \in 0 .. L] == IF k = 0 THEN <<>> ELSE upTo[k - 1] \o bytes(data[k])
           g == [k \in 0 .. L |-> SubSeq(data, 1, k)]
<1>1. L \in Nat /\ \A k \in 1 .. L : data[k] \in Byte
    OBVIOUS
<1>2. ASSUME NEW b \in Byte PROVE bytes(b) = <<b>>
    <2>1. 2 ^ 8 = 256
        BY SMT
    <2>2. b % 2 ^ settings.size = b
        BY <2>1, SMT DEF Byte
    <2> QED
        BY <2>2
<1>3. Carried(data, settings) = upTo[L]
    BY DEF Carried
<1> HIDE DEF bytes
<1>4. \A k \in 1 .. L : bytes(data[k]) = <<data[k]>>
    BY <1>1, <1>2
<1>5. g = [k \in 0 .. L |-> IF k = 0 THEN <<>> ELSE g[k - 1] \o bytes(data[k])]
    <2>1. SubSeq(data, 1, 0) = <<>>
        OBVIOUS
    <2>2. ASSUME NEW k \in 1 .. L PROVE g[k] = g[k - 1] \o bytes(data[k])
        <3>1. g[k] = SubSeq(data, 1, k) /\ g[k - 1] = SubSeq(data, 1, k - 1)
            BY <1>1
        <3> HIDE DEF g
        <3> QED
            BY <1>4, <3>1, Grown
    <2>3. g[0] = <<>>
        BY <1>1, <2>1
    <2>4. g = [k \in 0 .. L |-> g[k]]
        BY SMTT(40)
    <2> HIDE DEF g, bytes
    <2> QED
        BY <1>1, <2>2, <2>3, <2>4
<1>6. upTo = [k \in 0 .. L |-> IF k = 0 THEN <<>> ELSE upTo[k - 1] \o bytes(data[k])]
    <2> HIDE DEF g
    <2>1. \E f : f = [k \in 0 .. L |-> IF k = 0 THEN <<>> ELSE f[k - 1] \o bytes(data[k])]
        BY <1>5
    <2> QED
        BY <2>1, Zenon
<1> HIDE DEF upTo
<1>7. upTo[0] = <<>> /\ \A k \in 1 .. L : upTo[k] = upTo[k - 1] \o <<data[k]>>
    BY <1>1, <1>4, <1>6
<1>8. \A k \in Nat : k <= L => upTo[k] = SubSeq(data, 1, k)
    <2> DEFINE S == {k \in Nat : k <= L => upTo[k] = SubSeq(data, 1, k)}
    <2>1. 0 \in S
        <3>1. SubSeq(data, 1, 0) = <<>>
            OBVIOUS
        <3> QED
            BY <1>7, <3>1
    <2>2. ASSUME NEW k \in Nat, k \in S PROVE k + 1 \in S
        <3> SUFFICES ASSUME k + 1 <= L PROVE upTo[k + 1] = SubSeq(data, 1, k + 1)
            OBVIOUS
        <3>1. k + 1 \in 1 .. L /\ k <= L /\ (k + 1) - 1 = k
            BY <1>1
        <3>2. upTo[k] = SubSeq(data, 1, k)
            BY <2>2, <3>1
        <3>3. upTo[k + 1] = upTo[k] \o <<data[k + 1]>>
            BY <1>7, <3>1
        <3>4. SubSeq(data, 1, k) \o <<data[k + 1]>> = SubSeq(data, 1, k + 1)
            BY <3>1, Grown
        <3> QED
            BY <3>2, <3>3, <3>4
    <2>3. \A k \in Nat : k \in S
        <3> HIDE DEF S
        <3> QED
            BY <2>1, <2>2, Induction
    <2> QED
        BY <2>3
<1>9. upTo[L] = SubSeq(data, 1, L)
    BY <1>1, <1>8
<1>10. SubSeq(data, 1, L) = data
    OBVIOUS
<1> QED
    BY <1>3, <1>9, <1>10

\* Open takes off every flag that works on the bytes, whatever flags were set.
LEMMA OpenedRaw ==
    ASSUME NEW old \in SUBSET Flags
    PROVE  SerialOpen(old, 115200, 8, "NO", 1)
              = [speed |-> 115200, size |-> 8, parity |-> "NO", stop |-> 1,
                 flags |-> {"CREAD", "CLOCAL"}]
<1>1. (old \cup {"CREAD", "CLOCAL"})
        \ {"ICANON", "ECHO", "ECHOE", "ISIG", "INPCK", "IXON", "IXOFF",
           "IXANY", "IGNPAR", "ICRNL", "OPOST"} = {"CREAD", "CLOCAL"}
    BY DEF Flags
<1>2. 8 \in 5 .. 8 /\ 115200 \in {9600, 19200, 38400, 57600, 115200} /\ "NO" \notin {"EVEN", "ODD"}
    OBVIOUS
<1>3. 1 # 2
    OBVIOUS
<1> QED
    BY <1>1, <1>2, <1>3, SMT DEF SerialOpen

LEMMA CommandsKept ==
    ASSUME NEW number \in Byte, NEW u \in Int, NEW y \in Int, NEW old \in SUBSET Flags
    PROVE  /\ Carried(ResetCmd(number), SerialOpen(old, 115200, 8, "NO", 1)) = ResetCmd(number)
           /\ Carried(SpeedCmd(number, u, y), SerialOpen(old, 115200, 8, "NO", 1))
                 = SpeedCmd(number, u, y)
<1> DEFINE settings == SerialOpen(old, 115200, 8, "NO", 1)
<1>1. settings = [speed |-> 115200, size |-> 8, parity |-> "NO", stop |-> 1,
                  flags |-> {"CREAD", "CLOCAL"}]
    BY OpenedRaw
<1>2. settings.size = 8 /\ settings.flags = {"CREAD", "CLOCAL"}
    <2> HIDE DEF settings
    <2> QED
        BY <1>1, SMT
<1>3. "OPOST" \notin settings.flags
    <2> HIDE DEF settings
    <2> QED
        BY <1>2
<1> HIDE DEF settings
<1>4. ResetCmd(number) \in Seq(Byte) /\ SpeedCmd(number, u, y) \in Seq(Byte)
    BY ResetCommand, SpeedCommand
<1>5. /\ Carried(ResetCmd(number), settings) = ResetCmd(number)
      /\ Carried(SpeedCmd(number, u, y), settings) = SpeedCmd(number, u, y)
    BY <1>2, <1>3, <1>4, CarriedAsIs
<1> QED
    BY <1>5 DEF settings

LEMMA LineIsKept == LineKept
<1> DEFINE Opened(old) == SerialOpen(old, 115200, 8, "NO", 1)
           raw == [speed |-> 115200, size |-> 8, parity |-> "NO", stop |-> 1,
                   flags |-> {"CREAD", "CLOCAL"}]
           numbers == {10, 255}
           frames(number) == {ResetCmd(number), SpeedCmd(number, 20, -20)}
<1>1. 20 \in Int /\ -20 \in Int /\ numbers \subseteq Byte
    BY SMT DEF Byte
<1>2. \A old \in {{}, Flags} \cup {{flag} : flag \in Flags} : old \in SUBSET Flags
    OBVIOUS
<1>3. \A old \in SUBSET Flags : Opened(old) = raw
    BY OpenedRaw
<1>4. \A old \in SUBSET Flags, number \in Byte :
          /\ Carried(ResetCmd(number), Opened(old)) = ResetCmd(number)
          /\ Carried(SpeedCmd(number, 20, -20), Opened(old)) = SpeedCmd(number, 20, -20)
    BY <1>1, CommandsKept, SMT
<1>5. LineKept <=> \A old \in {{}, Flags} \cup {{flag} : flag \in Flags} :
                       /\ Opened(old) = raw
                       /\ \A number \in numbers : \A f \in frames(number) :
                              Carried(f, Opened(old)) = f
    BY SMT DEF LineKept
<1>6. \A old \in SUBSET Flags, number \in Byte : \A f \in frames(number) :
          Carried(f, Opened(old)) = f
    <2> HIDE DEF Opened
    <2> QED
        BY <1>4, SMT
<1> HIDE DEF Opened, raw, numbers, frames
<1> QED
    BY <1>1, <1>2, <1>3, <1>5, <1>6, SMT

LEMMA CommandIsMeant ==
    ASSUME NEW number \in Byte
    PROVE  CommandMeant("reset", number) /\ CommandMeant("speed", number)
<1>1. CommandMeant("reset", number)
    BY ResetCommand DEF CommandMeant
<1>2. ASSUME NEW p \in Inputs
      PROVE  /\ WellFramed(SpeedCmd(number, p[1], p[2]))
             /\ CurveKept(p, SpeedsOf(SpeedCmd(number, p[1], p[2])))
    <2> DEFINE u == p[1]
               y == p[2]
    <2>1. p \in Int \X Int
        BY SpeedsAssumption DEF Inputs
    <2>2. u \in Int /\ y \in Int /\ p = <<u, y>>
        BY <2>1
    <2>3. WellFramed(SpeedCmd(number, u, y)) /\ SpeedsOf(SpeedCmd(number, u, y)) = Wheels(u, y)
        BY <2>2, SpeedCommand
    <2>4. CurveKept(<<u, y>>, Wheels(u, y))
        BY <2>2, WheelsKept
    <2> QED
        BY <2>2, <2>3, <2>4, Zenon
<1>3. "speed" # "reset"
    OBVIOUS
<1>4. CommandMeant("speed", number)
    BY <1>2, <1>3, Zenon DEF CommandMeant
<1> QED
    BY <1>1, <1>4

-----------------------------------------------------------------------------

\* What the robot reads is what the program meant: with the sequence numbers
\* of a uint8_t, every reset and every speed command, for every two speeds of
\* the wheels and every number of units in a pulse, has the length and the
\* check byte of its bytes, carries speeds within the maximum, in the direction
\* and the proportion that were asked for, and passes the line that serial::Open
\* has set up as it is, whatever flags the line had before (autolabor.cpp:74,
\* CreateSpeedCmd; serial.cpp:14, Open).
THEOREM CommandsMeantCorrect ==
    ASSUME SeqModulus <= 256 PROVE Spec => []CommandsMeant
<1>1. 0 .. SeqModulus - 1 \subseteq Byte
    BY ModulusAssumption, SMT DEF Byte
<1>2. ResetMeant /\ SpeedMeant
    BY <1>1, CommandIsMeant, Zenon DEF ResetMeant, SpeedMeant
<1>3. CommandsMeant
    BY <1>2, LineIsKept, Zenon DEF CommandsMeant
<1> QED
    BY <1>3, PTL

-----------------------------------------------------------------------------
(* Integers of the messages                                                  *)

\* The last digit of a number, and the ones before it.
LEMMA DecimalSteps ==
    /\ \A n \in Nat : Decimal(n) \in Seq(Digits)
    /\ \A n \in 0 .. 9 : Decimal(n) = <<48 + n>>
    /\ \A n \in Nat : n >= 10 => Decimal(n) = Decimal(n \div 10) \o <<48 + (n % 10)>>
<1> DEFINE Rest(n) == <<48 + (n % 10)>>
           digits[m \in Nat] == (IF m < 10 THEN <<>> ELSE digits[m \div 10]) \o <<48 + (m % 10)>>
           V == Seq(Digits)
           leaves == 0 .. 9
           start == [m \in leaves |-> <<>> \o Rest(m)]
           pred == [m \in Nat \ leaves |-> m \div 10]
           step == [m \in Nat \ leaves |-> [v \in V |-> v \o Rest(m)]]
           rank == [m \in Nat |-> m]
<1>1. \A m \in Nat : Rest(m) \in V /\ Len(Rest(m)) = 1
    <2> TAKE m \in Nat
    <2>1. 48 + (m % 10) \in Digits
        BY SMT DEF Digits
    <2> QED
        BY <2>1
<1>2. leaves \in SUBSET Nat
    OBVIOUS
<1>3. \A m \in Nat : m \notin leaves <=> m >= 10
    OBVIOUS
<1>4. \A m \in Nat \ leaves : m \div 10 \in Nat /\ m \div 10 < m
    BY <1>3
<1>5. pred \in [Nat \ leaves -> Nat] /\ rank \in [Nat -> Nat]
    BY <1>4
<1>6. \A q \in Nat \ leaves : rank[pred[q]] < rank[q]
    BY <1>4
<1> HIDE DEF Rest
<1>7. start \in [leaves -> V]
    <2>1. \A m \in leaves : <<>> \o Rest(m) \in V
        BY <1>1
    <2> HIDE DEF V, leaves
    <2> QED
        BY <2>1
<1>8. step \in [Nat \ leaves -> [V -> V]]
    <2>1. \A m \in Nat \ leaves : [v \in V |-> v \o Rest(m)] \in [V -> V]
        BY <1>1
    <2> HIDE DEF V, leaves
    <2> QED
        BY <2>1
<1>9. PICK f : Recurs(V, leaves, start, pred, step, Nat, f)
    <2> HIDE DEF V, leaves, start, pred, step, rank
    <2> QED
        BY <1>2, <1>5, <1>6, <1>7, <1>8, Recursion
<1>10. /\ f \in [Nat -> V]
       /\ \A m \in Nat : f[m] = IF m \in leaves THEN start[m] ELSE step[m][f[pred[m]]]
    <2> HIDE DEF V, leaves, start, pred, step
    <2> QED
        BY <1>9 DEF Recurs
<1>11. \A m \in Nat : f[m] = (IF m < 10 THEN <<>> ELSE f[m \div 10]) \o Rest(m)
    <2> TAKE m \in Nat
    <2>1. CASE m \in leaves
        <3>1. f[m] = start[m] /\ start[m] = <<>> \o Rest(m)
            BY <1>10, <2>1
        <3>2. m < 10
            BY <2>1
        <3> QED
            BY <3>1, <3>2, Zenon
    <2>2. CASE m \notin leaves
        <3>1. m \in Nat \ leaves /\ ~(m < 10) /\ m \div 10 \in Nat
            BY <1>4, <2>2
        <3>2. f[m] = step[m][f[pred[m]]]
            BY <1>10, <3>1
        <3>3. pred[m] = m \div 10
            BY <3>1
        <3>4. f[m \div 10] \in V
            BY <1>10, <3>1
        <3>5. step[m][f[m \div 10]] = f[m \div 10] \o Rest(m)
            <4> HIDE DEF V, leaves
            <4> QED
                BY <3>1, <3>4, SMTT(40)
        <3> QED
            BY <3>1, <3>2, <3>3, <3>5, Zenon
    <2> QED
        BY <2>1, <2>2
<1>12. f = [m \in Nat |-> (IF m < 10 THEN <<>> ELSE f[m \div 10]) \o Rest(m)]
    <2> HIDE DEF V
    <2> QED
        BY <1>10, <1>11, Zenon
<1>13. digits = [m \in Nat |-> (IF m < 10 THEN <<>> ELSE digits[m \div 10]) \o Rest(m)]
    <2>1. \E g : g = [m \in Nat |-> (IF m < 10 THEN <<>> ELSE g[m \div 10]) \o Rest(m)]
        BY <1>12
    <2> QED
        BY <2>1, Zenon DEF Rest
<1>14. \A n \in Nat : Decimal(n) = digits[n]
    BY DEF Decimal
<1> HIDE DEF digits
<1>15. \A m \in Nat : digits[m] = (IF m < 10 THEN <<>> ELSE digits[m \div 10]) \o Rest(m)
    BY <1>13, Zenon
<1>16. \A m \in Nat : m < 10 => digits[m] = Rest(m)
    BY <1>1, <1>15
<1>17. \A m \in Nat : m >= 10 => digits[m] = digits[m \div 10] \o Rest(m)
    <2> TAKE m \in Nat
    <2> HAVE m >= 10
    <2>1. ~(m < 10)
        OBVIOUS
    <2> QED
        BY <1>15, <2>1, Zenon
<1>18. \A m \in Nat : digits[m] \in V
    <2> DEFINE S == {n \in Nat : \A m \in Nat : m < n => digits[m] \in V}
    <2>1. 0 \in S
        OBVIOUS
    <2>2. ASSUME NEW n \in Nat, n \in S PROVE n + 1 \in S
        <3>1. digits[n] \in V
            <4>1. CASE n < 10
                BY <1>1, <1>16, <4>1
            <4>2. CASE n >= 10
                <5>1. n \div 10 \in Nat /\ n \div 10 < n
                    BY <4>2
                <5>2. digits[n \div 10] \in V
                    BY <2>2, <5>1
                <5>3. digits[n] = digits[n \div 10] \o Rest(n)
                    BY <1>17, <4>2, Zenon
                <5> DEFINE a == digits[n \div 10]
                <5>4. a \in V /\ Rest(n) \in V
                    BY <1>1, <5>2
                <5> HIDE DEF a
                <5>5. a \o Rest(n) \in V
                    BY <5>4
                <5> QED
                    BY <5>3, <5>5 DEF a
            <4> QED
                BY <4>1, <4>2
        <3>2. \A m \in Nat : m < n + 1 => m < n \/ m = n
            OBVIOUS
        <3> QED
            BY <2>2, <3>1, <3>2
    <2> HIDE DEF S
    <2>3. \A n \in Nat : n \in S
        BY <2>1, <2>2, Induction
    <2> TAKE m \in Nat
    <2>4. m + 1 \in S /\ m < m + 1
        BY <2>3
    <2> QED
        BY <2>4 DEF S
<1>19. \A n \in 0 .. 9 : Rest(n) = <<48 + n>>
    BY DEF Rest
<1>20. \A n \in 0 .. 9 : n \in Nat /\ n < 10
    OBVIOUS
<1>21. \A n \in 0 .. 9 : Decimal(n) = <<48 + n>>
    BY <1>14, <1>16, <1>19, <1>20, Zenon
<1>22. \A n \in Nat : n >= 10 => Decimal(n) = Decimal(n \div 10) \o Rest(n)
    <2> TAKE n \in Nat
    <2> HAVE n >= 10
    <2>1. n \div 10 \in Nat
        OBVIOUS
    <2> QED
        BY <1>14, <1>17, <2>1, Zenon
<1>23. \A n \in Nat : Decimal(n) \in Seq(Digits)
    BY <1>14, <1>18, Zenon
<1> QED
    BY <1>21, <1>22, <1>23, Zenon DEF Rest

\* There is a digit, and no other character.
LEMMA DecimalType ==
    ASSUME NEW m \in Nat
    PROVE  Decimal(m) \in Seq(Digits) /\ Len(Decimal(m)) \in Nat \ {0}
<1>1. Decimal(m) \in Seq(Digits)
    BY DecimalSteps
<1>2. CASE m < 10
    <2>1. m \in 0 .. 9
        BY <1>2
    <2>2. Decimal(m) = <<48 + m>>
        BY <2>1, DecimalSteps, Zenon
    <2> QED
        BY <1>1, <2>2
<1>3. CASE m >= 10
    <2> DEFINE a == Decimal(m \div 10)
               b == <<48 + (m % 10)>>
    <2>1. m \div 10 \in Nat /\ 48 + (m % 10) \in Digits
        BY SMT DEF Digits
    <2>2. a \in Seq(Digits) /\ b \in Seq(Digits) /\ Len(b) = 1
        BY <2>1, DecimalSteps
    <2>3. Decimal(m) = a \o b
        BY <1>3, DecimalSteps
    <2> HIDE DEF a, b
    <2>4. Len(a \o b) = Len(a) + 1
        <3>1. IsJoin(a \o b, a, b, Digits)
            BY <2>2, JoinedAny, Zenon
        <3> QED
            BY <2>2, <3>1 DEF IsJoin
    <2> QED
        BY <1>1, <2>2, <2>3, <2>4
<1> QED
    BY <1>2, <1>3

\* Dividing before comparing is comparing.
LEMMA TenthsCompare ==
    ASSUME NEW m \in Nat, NEW limit \in Nat
    PROVE  /\ \/ m \div 10 < limit \div 10
              \/ m \div 10 = limit \div 10 /\ m % 10 <= limit % 10
              <=> m <= limit
           /\ m \div 10 < limit \div 10 => m <= limit
           /\ m <= limit => m \div 10 <= limit \div 10
           /\ m >= 10 => (m \div 10) \div 10 < m \div 10
           /\ m < 10 => m \div 10 = 0 /\ m % 10 = m
           /\ 10 * (m \div 10) + (m % 10) = m
           /\ m \div 10 \in Nat /\ m % 10 \in 0 .. 9
<1> DEFINE v == m \div 10
           d == m % 10
           q == limit \div 10
           r == limit % 10
<1>1. v \in Nat /\ d \in 0 .. 9 /\ m = 10 * v + d /\ v \div 10 \in Nat /\ 10 * (v \div 10) <= v
    OBVIOUS
<1>2. q \in Nat /\ r \in 0 .. 9 /\ limit = 10 * q + r
    OBVIOUS
<1> DEFINE w == v \div 10
<1>3. w \in Nat /\ 10 * w <= v
    BY <1>1
<1> HIDE DEF v, d, q, r, w
<1>4. (v < q \/ (v = q /\ d <= r)) <=> m <= limit
    BY <1>1, <1>2
<1>5. v < q => m <= limit
    BY <1>1, <1>2
<1>6. m <= limit => v <= q
    BY <1>1, <1>2
<1>7. m >= 10 => w < v
    BY <1>1, <1>3
<1>8. m < 10 => v = 0 /\ d = m
    BY <1>1
<1> QED
    BY <1>1, <1>4, <1>5, <1>6, <1>7, <1>8 DEF v, d, q, r, w

\* decodeNumber's loop over the digits behind the sign.
Decodes(number, first, limit, fit, val) ==
    /\ fit \in [0 .. Len(number) -> BOOLEAN]
    /\ val \in [0 .. Len(number) -> Nat]
    /\ fit[first - 1] /\ val[first - 1] = 0
    /\ \A k \in first .. Len(number) :
          /\ fit[k] <=> /\ fit[k - 1]
                        /\ number[k] \in Digits
                        /\ Fits(val[k - 1], k = Len(number), number[k] - 48, limit)
          /\ val[k] = (10 * val[k - 1] + number[k] - 48) % (2 * MaxLargest + 2)

\* It has read these digits from `first` on.
Digited(number, first, digits) ==
    /\ first - 1 + Len(digits) <= Len(number)
    /\ \A i \in 1 .. Len(digits) : number[first - 1 + i] = digits[i]

\* The last digit of m is at k, and the ones before it have been read.
LastDigit(number, limit, fit, val, m, k) ==
    /\ number[k] = 48 + (m % 10)
    /\ val[k - 1] \in Nat
    /\ fit[k - 1] => val[k - 1] = m \div 10
    /\ m \div 10 <= limit \div 10 => fit[k - 1]

DecodedAt(number, limit, fit, val, m, k) ==
    /\ k < Len(number) => (fit[k] <=> m \div 10 < limit \div 10)
    /\ k = Len(number) => (fit[k] <=> m <= limit)
    /\ fit[k] => val[k] = m

\* One more digit is taken while the integer is within the limit.
LEMMA DigitDecoded ==
    ASSUME NEW number, NEW first \in Nat, NEW limit \in Nat, NEW fit, NEW val,
           limit < 2 * MaxLargest + 2, Len(number) \in Nat,
           Decodes(number, first, limit, fit, val),
           NEW m \in Nat, NEW k \in first .. Len(number),
           LastDigit(number, limit, fit, val, m, k)
    PROVE  DecodedAt(number, limit, fit, val, m, k)
<1> DEFINE v == m \div 10
           d == m % 10
           q == limit \div 10
           last == k = Len(number)
<1>1. /\ fit[k] <=> /\ fit[k - 1]
                    /\ number[k] \in Digits
                    /\ Fits(val[k - 1], k = Len(number), number[k] - 48, limit)
      /\ val[k] = (10 * val[k - 1] + number[k] - 48) % (2 * MaxLargest + 2)
    BY DEF Decodes
<1>10. /\ number[k] = 48 + d /\ val[k - 1] \in Nat
       /\ fit[k - 1] => val[k - 1] = v
       /\ v <= q => fit[k - 1]
    BY DEF LastDigit
<1>2. /\ v < q \/ (v = q /\ d <= limit % 10) <=> m <= limit
      /\ v < q => m <= limit
      /\ m <= limit => v <= q
      /\ 10 * v + d = m
      /\ v \in Nat /\ d \in 0 .. 9
    BY TenthsCompare
<1>3. q \in Nat
    OBVIOUS
<1>4. number[k] \in Digits /\ number[k] - 48 = d
    BY <1>2, <1>10 DEF Digits
<1>5. fit[k] <=> /\ fit[k - 1]
                 /\ v < q \/ (v = q /\ last /\ d <= limit % 10)
    BY <1>1, <1>4, <1>10, Zenon DEF Fits
<1>6. last => (fit[k] <=> m <= limit)
    BY <1>2, <1>3, <1>5, <1>10
<1>7. ~last => (fit[k] <=> v < q)
    BY <1>2, <1>3, <1>5, <1>10
<1>8. ASSUME fit[k] PROVE val[k] = m
    <2>1. fit[k - 1] /\ m <= limit
        BY <1>2, <1>5, <1>8
    <2>2. val[k] = (10 * v + d) % (2 * MaxLargest + 2)
        <3>1. 10 * val[k - 1] + number[k] - 48 = 10 * v + d
            BY <1>2, <1>4, <1>10, <2>1
        <3> QED
            BY <1>1, <3>1
    <2>3. m \in 0 .. (2 * MaxLargest + 2) - 1
        BY <2>1, WidthAssumption
    <2>4. \A W \in Nat : \A a \in 0 .. W - 1 : (a % W) = a
        OBVIOUS
    <2>5. 2 * MaxLargest + 2 \in Nat
        BY WidthAssumption
    <2> QED
        BY <1>2, <2>2, <2>3, <2>4, <2>5
<1>9. k < Len(number) => ~last
    OBVIOUS
<1> QED
    BY <1>6, <1>7, <1>8, <1>9, Zenon DEF DecodedAt

Decoded(number, first, limit, fit, val, m) ==
    DecodedAt(number, limit, fit, val, m, first - 1 + Len(Decimal(m)))

\* All the digits of an integer.
LEMMA DecimalDecoded ==
    ASSUME NEW number, NEW first \in Nat \ {0}, NEW limit \in Nat, NEW fit, NEW val,
           limit < 2 * MaxLargest + 2, Len(number) \in Nat,
           Decodes(number, first, limit, fit, val)
    PROVE  \A m \in Nat : Digited(number, first, Decimal(m))
                             => Decoded(number, first, limit, fit, val, m)
<1> DEFINE Ok(m) == Digited(number, first, Decimal(m))
                        => Decoded(number, first, limit, fit, val, m)
           S == {n \in Nat : \A m \in Nat : m < n => Ok(m)}
           L == Len(number)
<1>1. 0 \in S
    OBVIOUS
<1>2. fit[first - 1] /\ val[first - 1] = 0
    BY DEF Decodes
<1>3. ASSUME NEW m \in Nat, \A a \in Nat : a < m => Ok(a), Digited(number, first, Decimal(m))
      PROVE  Decoded(number, first, limit, fit, val, m)
    <2> DEFINE D == Len(Decimal(m))
               k == first - 1 + D
               v == m \div 10
               q == limit \div 10
    <2>1. Decimal(m) \in Seq(Digits) /\ D \in Nat \ {0}
        BY DecimalType
    <2>2. k \in first .. L /\ \A i \in 1 .. D : number[first - 1 + i] = Decimal(m)[i]
        BY <1>3, <2>1 DEF Digited
    <2>3. v \in Nat /\ (m >= 10 => v \div 10 < v) /\ (m < 10 => v = 0 /\ m % 10 = m)
        BY TenthsCompare
    <2>4. q \in Nat
        OBVIOUS
    <2>5. /\ number[k] = 48 + (m % 10)
          /\ val[k - 1] \in Nat
          /\ fit[k - 1] => val[k - 1] = v
          /\ v <= q => fit[k - 1]
        <3>1. CASE m < 10
            <4>1. m \in 0 .. 9
                BY <3>1
            <4>2. Decimal(m) = <<48 + m>>
                BY <4>1, DecimalSteps, Zenon
            <4>3. D = 1 /\ Decimal(m)[1] = 48 + m
                BY <4>2
            <4>4. k = first
                BY <4>3
            <4>5. number[k] = 48 + m
                BY <2>2, <4>3, <4>4
            <4> HIDE DEF D, k
            <4> QED
                BY <1>2, <2>3, <3>1, <4>4, <4>5
        <3>2. CASE m >= 10
            <4> DEFINE a == Decimal(v)
                       b == <<48 + (m % 10)>>
            <4>1. v < m
                BY <3>2
            <4>2. a \in Seq(Digits) /\ b \in Seq(Digits) /\ Len(b) = 1 /\ b[1] = 48 + (m % 10)
                <5>1. 48 + (m % 10) \in Digits
                    BY SMT DEF Digits
                <5> QED
                    BY <2>3, <5>1, DecimalType
            <4>3. Decimal(m) = a \o b
                BY <3>2, DecimalSteps
            <4> HIDE DEF a, b
            <4>4. IsJoin(Decimal(m), a, b, Digits)
                BY <4>2, <4>3, JoinedAny, Zenon
            <4>5. /\ D = Len(a) + 1
                  /\ \A i \in 1 .. Len(a) : Decimal(m)[i] = a[i]
                  /\ Decimal(m)[D] = 48 + (m % 10)
                BY <4>2, <4>4 DEF IsJoin
            <4> HIDE DEF D
            <4>6. Len(a) \in Nat /\ k - 1 = first - 1 + Len(a) /\ k - 1 < L
                BY <2>2, <4>2, <4>5
            <4>7. number[k] = 48 + (m % 10)
                <5>1. D \in 1 .. D /\ first - 1 + D = k
                    BY <2>1
                <5> QED
                    BY <2>2, <4>5, <5>1
            <4>8. Digited(number, first, a)
                <5>1. first - 1 + Len(a) <= Len(number)
                    BY <4>6
                <5>2. \A i \in 1 .. Len(a) : number[first - 1 + i] = a[i]
                    BY <2>2, <4>5, <4>6
                <5> QED
                    BY <5>1, <5>2 DEF Digited
            <4>9. Decoded(number, first, limit, fit, val, v)
                BY <1>3, <2>3, <4>1, <4>8 DEF a
            <4>10. /\ fit[k - 1] <=> v \div 10 < q
                   /\ fit[k - 1] => val[k - 1] = v
                <5>1. first - 1 + Len(Decimal(v)) = k - 1
                    BY <4>6 DEF a
                <5>2. k - 1 < Len(number)
                    BY <4>6
                <5> HIDE DEF k
                <5> QED
                    BY <4>9, <5>1, <5>2, Zenon DEF Decoded, DecodedAt
            <4>11. v <= q => fit[k - 1]
                <5> DEFINE w == v \div 10
                <5>1. w < v /\ w \in Nat
                    BY <2>3, <3>2
                <5> HIDE DEF w, q, v, k
                <5>2. v <= q => w < q
                    BY <2>3, <2>4, <5>1
                <5> QED
                    BY <4>10, <5>2 DEF w
            <4>12. val[k - 1] \in Nat
                <5>1. k - 1 \in 0 .. L
                    BY <2>2, <4>6
                <5> QED
                    BY <5>1 DEF Decodes
            <4> QED
                BY <4>7, <4>10, <4>11, <4>12
        <3> QED
            BY <3>1, <3>2
    <2>6. DecodedAt(number, limit, fit, val, m, k)
        <3>1. first \in Nat
            OBVIOUS
        <3>2. LastDigit(number, limit, fit, val, m, k)
            BY <2>5, Zenon DEF LastDigit
        <3> HIDE DEF k, D
        <3> QED
            BY <2>2, <3>1, <3>2, DigitDecoded, Zenon
    <2> QED
        BY <2>6 DEF Decoded
<1>4. ASSUME NEW n \in Nat, n \in S PROVE n + 1 \in S
    <2>1. \A a \in Nat : a < n => Ok(a)
        BY <1>4
    <2>2. Ok(n)
        BY <1>3, <2>1
    <2> HIDE DEF Ok
    <2>3. \A a \in Nat : a < n + 1 => a < n \/ a = n
        OBVIOUS
    <2>4. \A a \in Nat : a < n + 1 => Ok(a)
        BY <2>1, <2>2, <2>3, Zenon
    <2> QED
        BY <2>4
<1>5. \A n \in Nat : n \in S
    <2> HIDE DEF S
    <2> QED
        BY <1>1, <1>4, Induction
<1> HIDE DEF Ok
<1>6. ASSUME NEW m \in Nat PROVE Ok(m)
    <2>1. m + 1 \in Nat /\ m < m + 1
        OBVIOUS
    <2>2. m + 1 \in S
        BY <1>5, <2>1, Zenon
    <2> QED
        BY <2>1, <2>2, Zenon
<1> QED
    BY <1>6, Zenon DEF Ok

First(number) == IF number[1] = Minus THEN 2 ELSE 1
LimitOf(number) == IF number[1] = Minus THEN MaxLargest + 1 ELSE 2 * MaxLargest + 1

\* What decodeNumber answers at the end of the loop.
AnswerTo(number, fits, n) ==
    IF ~fits THEN Double(number)
    ELSE IF number[1] = Minus THEN Int64(-n)
    ELSE IF n <= MaxInt THEN Int64(n)
    ELSE UInt64(n)

DecodesTo(number, fit, val) ==
    /\ Decodes(number, First(number), LimitOf(number), fit, val)
    /\ DecodedInteger(number) = AnswerTo(number, fit[Len(number)], val[Len(number)])

\* The loop of decodeNumber has an answer for every text.
LEMMA DecodeSteps ==
    ASSUME NEW number \in Seq(Byte), Len(number) >= 2 \/ (Len(number) = 1 /\ number[1] # Minus)
    PROVE  \E fit, val : DecodesTo(number, fit, val)
<1> DEFINE L == Len(number)
           W == 2 * MaxLargest + 2
           first == First(number)
           limit == LimitOf(number)
           upTo[k \in 0 .. Len(number)] ==
               IF k < first THEN [fits |-> TRUE, n |-> 0]
               ELSE [fits |-> /\ upTo[k - 1].fits
                              /\ number[k] \in Digits
                              /\ Fits(upTo[k - 1].n, k = Len(number), number[k] - 48, limit),
                     n |-> (10 * upTo[k - 1].n + number[k] - 48) % (2 * MaxLargest + 2)]
           zero == [fits |-> TRUE, n |-> 0]
           Next1(k, v) == [fits |-> /\ v.fits
                                    /\ number[k] \in Digits
                                    /\ Fits(v.n, k = Len(number), number[k] - 48, limit),
                           n |-> (10 * v.n + number[k] - 48) % (2 * MaxLargest + 2)]
           V == [fits : BOOLEAN, n : Nat]
           D == 0 .. L
           leaves == 0 .. first - 1
           start == [k \in leaves |-> zero]
           pred == [k \in D \ leaves |-> k - 1]
           step == [k \in D \ leaves |-> [v \in V |-> Next1(k, v)]]
           rank == [k \in D |-> k]
<1>1. L \in Nat /\ first \in {1, 2} /\ first <= L /\ \A k \in 1 .. L : number[k] \in Int
    <2>1. L \in Nat /\ L >= 1
        OBVIOUS
    <2>2. first \in {1, 2} /\ first <= L
        BY <2>1 DEF First
    <2>3. \A k \in 1 .. L : number[k] \in Byte
        OBVIOUS
    <2>4. Byte \subseteq Int
        BY DEF Byte
    <2> QED
        BY <2>1, <2>2, <2>3, <2>4
<1>2. W \in Nat \ {0} /\ \A q \in Int : q % W \in Nat
    <2>1. MaxLargest \in Nat
        BY WidthAssumption
    <2>2. W \in Nat \ {0}
        BY <2>1
    <2> HIDE DEF W
    <2> QED
        BY <2>2
<1>3. DecodedInteger(number) = AnswerTo(number, upTo[L].fits, upTo[L].n)
    BY Zenon DEF DecodedInteger, AnswerTo, First, LimitOf
<1> HIDE DEF first, limit
<1>4. leaves \in SUBSET D /\ zero \in V
    BY <1>1
<1>5. \A k \in D : k \notin leaves <=> k \in first .. L
    BY <1>1
<1>6. \A k \in first .. L : k - 1 \in D /\ k \in 1 .. L
    BY <1>1
<1>7. ASSUME NEW k \in first .. L, NEW v \in V PROVE Next1(k, v) \in V
    <2>1. v.n \in Nat /\ number[k] \in Int
        BY <1>1, <1>6
    <2>2. (10 * v.n + number[k] - 48) \in Int
        BY <2>1
    <2>3. (10 * v.n + number[k] - 48) % (2 * MaxLargest + 2) \in Nat
        BY <1>2, <2>2
    <2> QED
        BY <2>3, Zenon
<1> HIDE DEF Next1, V, zero
<1>8. start \in [leaves -> V]
    BY <1>4
<1>9. pred \in [D \ leaves -> D] /\ rank \in [D -> Nat] /\ \A q \in D \ leaves : rank[pred[q]] < rank[q]
    BY <1>1, <1>5, <1>6
<1>10. step \in [D \ leaves -> [V -> V]]
    BY <1>5, <1>7
<1>11. PICK f : Recurs(V, leaves, start, pred, step, D, f)
    <2> HIDE DEF leaves, start, pred, step, rank, D
    <2> QED
        BY <1>4, <1>8, <1>9, <1>10, Recursion
<1>12. /\ f \in [D -> V]
       /\ \A k \in D : f[k] = IF k \in leaves THEN start[k] ELSE step[k][f[pred[k]]]
    <2> HIDE DEF leaves, start, pred, step, D
    <2> QED
        BY <1>11 DEF Recurs
<1>13. ASSUME NEW k \in D PROVE f[k] = IF k < first THEN zero ELSE Next1(k, f[k - 1])
    <2>1. CASE k \in leaves
        <3>1. f[k] = start[k] /\ start[k] = zero
            BY <1>12, <2>1
        <3>2. k < first
            BY <1>1, <2>1
        <3> QED
            BY <3>1, <3>2, Zenon
    <2>2. CASE k \notin leaves
        <3>1. k \in D \ leaves /\ ~(k < first) /\ k - 1 \in D
            BY <1>1, <1>5, <1>6, <2>2
        <3>2. f[k] = step[k][f[pred[k]]] /\ pred[k] = k - 1
            BY <1>12, <3>1
        <3>3. f[k - 1] \in V
            BY <1>12, <3>1
        <3> HIDE DEF leaves, D
        <3>4. step[k][f[k - 1]] = Next1(k, f[k - 1])
            BY <3>1, <3>3
        <3> QED
            BY <3>1, <3>2, <3>4, Zenon
    <2> QED
        BY <2>1, <2>2
<1>14. f = [k \in 0 .. Len(number) |-> IF k < first THEN zero ELSE Next1(k, f[k - 1])]
    BY <1>12, <1>13, Zenon
<1>15. upTo = [k \in 0 .. Len(number) |-> IF k < first THEN zero ELSE Next1(k, upTo[k - 1])]
    <2>1. \E g : g = [k \in 0 .. Len(number) |-> IF k < first THEN zero ELSE Next1(k, g[k - 1])]
        BY <1>14
    <2> QED
        BY <2>1, Zenon DEF Next1, zero
<1> HIDE DEF upTo
<1>16. \A k \in D : upTo[k] = IF k < first THEN zero ELSE Next1(k, upTo[k - 1])
    BY <1>15, Zenon
<1>17. \A k \in D : upTo[k] \in V
    <2> DEFINE S == {k \in Nat : k \in D => upTo[k] \in V}
    <2>1. 0 \in S
        <3>1. 0 \in D /\ 0 < first
            BY <1>1
        <3> QED
            BY <1>4, <1>16, <3>1
    <2>2. ASSUME NEW k \in Nat, k \in S PROVE k + 1 \in S
        <3> SUFFICES ASSUME k + 1 \in D PROVE upTo[k + 1] \in V
            OBVIOUS
        <3>1. k \in D /\ (k + 1) - 1 = k
            BY <1>1
        <3>2. upTo[k] \in V
            BY <2>2, <3>1
        <3>3. CASE k + 1 < first
            BY <1>4, <1>16, <3>3
        <3>4. CASE ~(k + 1 < first)
            <4>1. k + 1 \in first .. L
                BY <1>1, <3>4
            <4>2. upTo[k + 1] = Next1(k + 1, upTo[k])
                BY <1>16, <3>1, <3>4, Zenon
            <4> QED
                BY <1>7, <3>2, <4>1, <4>2, Zenon
        <3> QED
            BY <3>3, <3>4
    <2> HIDE DEF S
    <2>3. \A k \in Nat : k \in S
        BY <2>1, <2>2, Induction
    <2>4. \A k \in D : k \in Nat
        OBVIOUS
    <2> QED
        BY <2>3, <2>4 DEF S
<1> DEFINE fit == [k \in D |-> upTo[k].fits]
           val == [k \in D |-> upTo[k].n]
<1>18. /\ fit \in [D -> BOOLEAN] /\ val \in [D -> Nat]
       /\ \A k \in D : fit[k] = upTo[k].fits /\ val[k] = upTo[k].n
    <2>1. \A v \in V : v.fits \in BOOLEAN /\ v.n \in Nat
        BY DEF V
    <2> HIDE DEF D
    <2> QED
        BY <1>17, <2>1
<1> HIDE DEF fit, val
<1>19. fit[first - 1] /\ val[first - 1] = 0
    <2>1. first - 1 \in D /\ first - 1 < first
        BY <1>1
    <2>2. upTo[first - 1] = zero
        BY <1>16, <2>1, Zenon
    <2>3. zero.fits = TRUE /\ zero.n = 0
        BY DEF zero
    <2> QED
        BY <1>18, <2>1, <2>2, <2>3, Zenon
<1>20. ASSUME NEW k \in first .. L
       PROVE  /\ fit[k] <=> /\ fit[k - 1]
                            /\ number[k] \in Digits
                            /\ Fits(val[k - 1], k = Len(number), number[k] - 48, limit)
              /\ val[k] = (10 * val[k - 1] + number[k] - 48) % (2 * MaxLargest + 2)
    <2>1. k \in D /\ k - 1 \in D /\ ~(k < first)
        BY <1>1, <1>6
    <2>2. upTo[k] = Next1(k, upTo[k - 1])
        BY <1>16, <2>1, Zenon
    <2> DEFINE v == upTo[k - 1]
    <2>3. v.fits = fit[k - 1] /\ v.n = val[k - 1] /\ upTo[k].fits = fit[k] /\ upTo[k].n = val[k]
        BY <1>18, <2>1, Zenon
    <2>4. /\ Next1(k, v).fits = (v.fits /\ number[k] \in Digits
                                        /\ Fits(v.n, k = Len(number), number[k] - 48, limit))
          /\ Next1(k, v).n = (10 * v.n + number[k] - 48) % (2 * MaxLargest + 2)
        BY Zenon DEF Next1
    <2> HIDE DEF v
    <2>5. /\ fit[k] = (v.fits /\ number[k] \in Digits
                              /\ Fits(v.n, k = Len(number), number[k] - 48, limit))
          /\ val[k] = (10 * v.n + number[k] - 48) % (2 * MaxLargest + 2)
        BY <2>2, <2>3, <2>4, Zenon DEF v
    <2> QED
        BY <2>3, <2>5, Zenon
<1>21. Decodes(number, first, limit, fit, val)
    BY <1>18, <1>19, <1>20, Zenon DEF Decodes
<1>22. DecodesTo(number, fit, val)
    <2>1. L \in D
        BY <1>1
    <2>2. fit[L] = upTo[L].fits /\ val[L] = upTo[L].n
        BY <1>18, <2>1
    <2> QED
        BY <1>3, <1>21, <2>2, Zenon DEF DecodesTo, first, limit
<1> QED
    BY <1>22

\* How an integer is written: its digits, behind the sign if there is one.
IsSigned(number, n, digits) ==
    /\ number \in Seq(Byte)
    /\ number[1] = Minus <=> n < 0
    /\ Len(number) = First(number) - 1 + Len(digits)
    /\ \A i \in 1 .. Len(digits) : number[First(number) - 1 + i] = digits[i]
    /\ First(number) \in {1, 2}

LEMMA SignedIs ==
    ASSUME NEW n \in Int
    PROVE  IsSigned(SignedDecimal(n), n, Decimal(IF n < 0 THEN -n ELSE n))
<1> DEFINE m == IF n < 0 THEN -n ELSE n
           digits == Decimal(m)
           number == SignedDecimal(n)
           first == First(number)
           L == Len(number)
<1>1. m \in Nat /\ (n < 0 => m = -n /\ m > 0) /\ (n >= 0 => m = n)
    OBVIOUS
<1>2. digits \in Seq(Digits) /\ Len(digits) \in Nat \ {0}
    BY <1>1, DecimalType
<1>3. Digits \subseteq Byte /\ 45 \in Byte /\ 45 \notin Digits
    BY SMT DEF Digits, Byte
<1>4. digits \in Seq(Byte) /\ digits[1] \in Digits
    BY <1>2, <1>3
<1> HIDE DEF m, digits
<1>5. /\ number \in Seq(Byte)
      /\ (number[1] = Minus <=> n < 0)
      /\ L = first - 1 + Len(digits)
      /\ \A i \in 1 .. Len(digits) : number[first - 1 + i] = digits[i]
      /\ first \in {1, 2}
    <2>1. CASE n < 0
        <3> DEFINE s == <<45>>
        <3>1. number = s \o digits
            BY <1>1, <2>1 DEF SignedDecimal, Minus, digits, m
        <3>2. s \in Seq(Byte) /\ Len(s) = 1 /\ s[1] = 45
            BY <1>3
        <3> HIDE DEF s, number
        <3>3. IsJoin(number, s, digits, Byte)
            BY <1>4, <3>1, <3>2, JoinedAny, Zenon
        <3>4. /\ number \in Seq(Byte) /\ Len(number) = 1 + Len(digits)
              /\ \A i \in 1 .. Len(digits) : number[1 + i] = digits[i]
            BY <3>2, <3>3 DEF IsJoin
        <3>5. number[1] = 45
            <4>1. \A k \in 1 .. Len(s) : number[k] = s[k]
                BY <3>3, Zenon DEF IsJoin
            <4> QED
                BY <3>2, <4>1
        <3>6. first = 2
            BY <3>5 DEF First, Minus
        <3> HIDE DEF first
        <3> QED
            BY <2>1, <3>4, <3>5, <3>6 DEF Minus
    <2>2. CASE ~(n < 0)
        <3>1. number = digits
            BY <1>1, <2>2 DEF SignedDecimal, digits, m
        <3> HIDE DEF number
        <3>2. number[1] # Minus
            BY <1>3, <1>4, <3>1 DEF Minus
        <3>3. first = 1
            BY <3>2, Zenon DEF First
        <3> HIDE DEF first
        <3> QED
            BY <1>2, <1>4, <2>2, <3>1, <3>2, <3>3
    <2> QED
        BY <2>1, <2>2
<1> HIDE DEF number, first, L
<1> QED
    BY <1>5, Zenon DEF IsSigned, number, first, L, digits, m

\* An integer is read as itself, or as a double when there is no integer for
\* it, for integers of every size and limits of every width: it is never
\* wrapped around, although decodeNumber multiplies before it knows
\* (jsoncpp.cpp:702, Reader::decodeNumber; :3742, valueToString).
LEMMA IntegerExact ==
    ASSUME NEW n \in Int
    PROVE  DecodedInteger(SignedDecimal(n)) =
               IF n > 2 * MaxLargest + 1 \/ n < -(MaxLargest + 1) THEN Double(SignedDecimal(n))
               ELSE IF n <= MaxInt THEN Int64(n)
               ELSE UInt64(n)
<1> DEFINE m == IF n < 0 THEN -n ELSE n
           digits == Decimal(m)
           number == SignedDecimal(n)
           first == First(number)
           limit == LimitOf(number)
           L == Len(number)
<1>1. m \in Nat /\ (n < 0 => m = -n /\ m > 0) /\ (n >= 0 => m = n)
    OBVIOUS
<1>2. digits \in Seq(Digits) /\ Len(digits) \in Nat \ {0}
    BY <1>1, DecimalType
<1> HIDE DEF m, digits
<1>5. /\ number \in Seq(Byte)
      /\ (number[1] = Minus <=> n < 0)
      /\ L = first - 1 + Len(digits)
      /\ \A i \in 1 .. Len(digits) : number[first - 1 + i] = digits[i]
      /\ first \in {1, 2}
    <2>1. IsSigned(number, n, digits)
        BY SignedIs DEF digits, m
    <2> HIDE DEF number
    <2> QED
        BY <2>1, Zenon DEF IsSigned
<1> HIDE DEF number
<1>6. L \in Nat /\ (L >= 2 \/ (L = 1 /\ number[1] # Minus))
    <2>1. number[1] = Minus => first = 2
        BY Zenon DEF First
    <2> HIDE DEF first
    <2> QED
        BY <1>2, <1>5, <2>1
<1>7. PICK fit, val : DecodesTo(number, fit, val)
    BY <1>5, <1>6, DecodeSteps, Zenon
<1>8. limit = (IF n < 0 THEN MaxLargest + 1 ELSE 2 * MaxLargest + 1)
    BY <1>5, Zenon DEF LimitOf
<1>9. limit \in Nat /\ limit < 2 * MaxLargest + 2
    <2> HIDE DEF limit
    <2> QED
        BY <1>8, WidthAssumption
<1>10. Digited(number, first, Decimal(m))
    <2>1. L <= L
        BY <1>6
    <2> HIDE DEF first, L
    <2>2. first - 1 + Len(digits) <= L
        BY <1>5, <2>1, Zenon
    <2> QED
        BY <1>5, <2>2, Zenon DEF Digited, digits, L
<1>11. DecodedAt(number, limit, fit, val, m, L)
    <2>1. Decodes(number, first, limit, fit, val)
        BY <1>7, Zenon DEF DecodesTo
    <2> HIDE DEF first, limit
    <2>2. first \in Nat \ {0} /\ Len(number) \in Nat
        BY <1>5, <1>6
    <2>3. Decoded(number, first, limit, fit, val, m)
        BY <1>1, <1>9, <1>10, <2>1, <2>2, DecimalDecoded, Zenon
    <2> QED
        BY <1>5, <2>3, Zenon DEF Decoded, digits
<1>12. /\ fit[L] <=> m <= limit
       /\ fit[L] => val[L] = m
    BY <1>11, Zenon DEF DecodedAt
<1>13. DecodedInteger(number) = AnswerTo(number, fit[L], val[L])
    BY <1>7, Zenon DEF DecodesTo
<1> HIDE DEF L, limit
<1>14. CASE n < 0
    <2>1. m <= limit <=> ~(n > 2 * MaxLargest + 1 \/ n < -(MaxLargest + 1))
        BY <1>1, <1>8, <1>14, WidthAssumption
    <2>2. n <= MaxInt
        BY <1>14, WidthAssumption
    <2>3. fit[L] => -val[L] = n
        BY <1>1, <1>12, <1>14
    <2>4. DecodedInteger(number) = IF ~fit[L] THEN Double(number) ELSE Int64(-val[L])
        BY <1>5, <1>13, <1>14, Zenon DEF AnswerTo
    <2>5. fit[L] => Int64(-val[L]) = Int64(n)
        BY <2>3, Zenon
    <2> QED
        BY <1>12, <2>1, <2>2, <2>4, <2>5, Zenon DEF number
<1>15. CASE ~(n < 0)
    <2>1. m <= limit <=> ~(n > 2 * MaxLargest + 1 \/ n < -(MaxLargest + 1))
        BY <1>1, <1>8, <1>15, WidthAssumption
    <2>2. fit[L] => val[L] = n
        BY <1>1, <1>12, <1>15
    <2>3. DecodedInteger(number) = IF ~fit[L] THEN Double(number)
                                   ELSE IF val[L] <= MaxInt THEN Int64(val[L])
                                   ELSE UInt64(val[L])
        BY <1>5, <1>13, <1>15, Zenon DEF AnswerTo
    <2> QED
        BY <1>12, <2>1, <2>2, <2>3, Zenon DEF number
<1> QED
    BY <1>14, <1>15

\* Every integer, however large, that is written in a message is read as the
\* integer itself, or as a double when neither an Int64 nor a UInt64 holds it:
\* whatever the widths of the integers are, the digits never wrap it around
\* (jsoncpp.cpp:711, decodeNumber; jsoncpp.cpp:143, uintToString).
THEOREM IntegersExactCorrect == IntegersExact
BY IntegerExact, NumeralsAssumption, Zenon DEF IntegersExact

-----------------------------------------------------------------------------
(* Strings of the messages                                                   *)

\* The letters behind a backslash.
LEMMA EscapesAre ==
    /\ DOMAIN Escapes = {34, 92, 47, 98, 102, 110, 114, 116}
    /\ Escapes[34] = 34 /\ Escapes[92] = 92 /\ Escapes[47] = 47 /\ Escapes[98] = 8
    /\ Escapes[102] = 12 /\ Escapes[110] = 10 /\ Escapes[114] = 13 /\ Escapes[116] = 9
BY SMT DEF Escapes, QuoteMark, Backslash, Slash, LF, CR, TAB

\* What a character is written as.
AsItIs(c, e) == e = <<c>> /\ c \notin {34, 92}

ByLetter(c, e) ==
    /\ Len(e) = 2 /\ e[1] = 92
    /\ e[2] \in DOMAIN Escapes /\ Escapes[e[2]] = c

InHex(c, e) ==
    /\ c < 32 /\ Len(e) = 6 /\ e[1] = 92 /\ e[2] = 117 /\ e[3] = 48 /\ e[4] = 48
    /\ e[5] \in Byte \ {34, 92} /\ e[6] \in Byte \ {34, 92}
    /\ HexDigit(e[5]) = c \div 16 /\ HexDigit(e[6]) = c % 16

\* A digit is read as it was written.
LEMMA HexRead ==
    ASSUME NEW n \in 0 .. 15
    PROVE  Hex(n) \in Byte \ {34, 92} /\ HexDigit(Hex(n)) = n
<1>1. CASE n < 10
    <2>1. Hex(n) = 48 + n /\ Hex(n) \in Digits
        BY <1>1, SMT DEF Hex, Digits
    <2> QED
        BY <2>1, SMT DEF HexDigit, Digits, Byte
<1>2. CASE ~(n < 10)
    <2>1. Hex(n) = 55 + n
        BY <1>2, SMT DEF Hex
    <2> QED
        BY <1>2, <2>1, SMT DEF HexDigit, Digits, Byte
<1> QED
    BY <1>1, <1>2

\* Every byte is written in one of the three forms.
LEMMA EscapedForms ==
    ASSUME NEW c \in Byte
    PROVE  /\ Escaped(c) \in Seq(Byte) /\ Len(Escaped(c)) \in {1, 2, 6}
           /\ AsItIs(c, Escaped(c)) \/ ByLetter(c, Escaped(c)) \/ InHex(c, Escaped(c))
<1> DEFINE e == Escaped(c)
           names == DOMAIN Escapes \ {Slash}
           known == \E q \in names : Escapes[q] = c
<1>1. names = {34, 92, 98, 102, 110, 114, 116} /\ names \subseteq Byte /\ 92 \in Byte
    BY EscapesAre, SMT DEF Slash, Byte
<1> HIDE DEF names
<1>2. CASE known
    <2> DEFINE q == CHOOSE q \in names : Escapes[q] = c
    <2>1. q \in names /\ Escapes[q] = c
        BY <1>2
    <2>2. e = <<92, q>>
        BY <1>2, Zenon DEF Escaped, names, Backslash
    <2>3. q \in DOMAIN Escapes
        BY <2>1 DEF names
    <2> HIDE DEF q, e
    <2>4. e \in Seq(Byte) /\ Len(e) = 2 /\ e[1] = 92 /\ e[2] = q
        BY <1>1, <2>1, <2>2
    <2>5. ByLetter(c, e)
        BY <2>1, <2>3, <2>4 DEF ByLetter
    <2> QED
        BY <2>4, <2>5 DEF e
<1>3. CASE ~known /\ c < 32
    <2> DEFINE h == Hex(c \div 16)
               l == Hex(c % 16)
    <2>1. c \div 16 \in 0 .. 15 /\ c % 16 \in 0 .. 15
        BY SMT DEF Byte
    <2>2. /\ h \in Byte \ {34, 92} /\ HexDigit(h) = c \div 16
          /\ l \in Byte \ {34, 92} /\ HexDigit(l) = c % 16
        BY <2>1, HexRead
    <2>3. e = <<92, 117, 48, 48, h, l>>
        BY <1>3, Zenon DEF Escaped, names, Backslash
    <2>4. 92 \in Byte /\ 117 \in Byte /\ 48 \in Byte
        BY SMT DEF Byte
    <2> HIDE DEF h, l, e
    <2>5. /\ e \in Seq(Byte) /\ Len(e) = 6 /\ e[1] = 92 /\ e[2] = 117 /\ e[3] = 48 /\ e[4] = 48
          /\ e[5] = h /\ e[6] = l
        BY <2>2, <2>3, <2>4
    <2>6. InHex(c, e)
        BY <1>3, <2>2, <2>5 DEF InHex
    <2> QED
        BY <2>5, <2>6 DEF e
<1>4. CASE ~known /\ ~(c < 32)
    <2>1. e = <<c>>
        BY <1>4, Zenon DEF Escaped, names
    <2>2. c \notin {34, 92}
        BY <1>1, <1>4, EscapesAre
    <2> HIDE DEF e
    <2>3. e \in Seq(Byte) /\ Len(e) = 1
        BY <2>1
    <2> QED
        BY <2>1, <2>2, <2>3 DEF AsItIs, e
<1> QED
    BY <1>2, <1>3, <1>4

\* The parts are joined one after another, and J begins with each of the fronts.
JoinsTo(parts, up) ==
    /\ up \in [0 .. Len(parts) -> Seq(Byte)]
    /\ up[0] = <<>>
    /\ \A k \in 1 .. Len(parts) : up[k] = up[k - 1] \o parts[k]
    /\ Joined(parts) = up[Len(parts)]

\* The parts can be joined.
LEMMA JoinedSteps ==
    ASSUME NEW parts \in Seq(Seq(Byte)) PROVE \E up : JoinsTo(parts, up)
<1> DEFINE L == Len(parts)
           upTo[k \in 0 .. Len(parts)] == IF k = 0 THEN <<>> ELSE upTo[k - 1] \o parts[k]
           V == Seq(Byte)
           D == 0 .. L
           leaves == {0}
           start == [k \in leaves |-> <<>>]
           pred == [k \in D \ leaves |-> k - 1]
           step == [k \in D \ leaves |-> [v \in V |-> v \o parts[k]]]
           rank == [k \in D |-> k]
<1>1. L \in Nat /\ \A k \in 1 .. L : parts[k] \in V
    OBVIOUS
<1>2. Joined(parts) = upTo[L]
    BY Zenon DEF Joined
<1>3. leaves \in SUBSET D /\ \A k \in D : k \notin leaves <=> k \in 1 .. L
    BY <1>1
<1>4. \A k \in 1 .. L : k - 1 \in D
    BY <1>1
<1>5. start \in [leaves -> V]
    OBVIOUS
<1>6. pred \in [D \ leaves -> D] /\ rank \in [D -> Nat] /\ \A q \in D \ leaves : rank[pred[q]] < rank[q]
    BY <1>1, <1>3, <1>4
<1>7. \A k \in 1 .. L : \A v \in V : v \o parts[k] \in V
    BY <1>1
<1>8. step \in [D \ leaves -> [V -> V]]
    <2> HIDE DEF V, D, leaves
    <2> QED
        BY <1>3, <1>7
<1>9. PICK f : Recurs(V, leaves, start, pred, step, D, f)
    <2> HIDE DEF leaves, start, pred, step, rank, D, V
    <2> QED
        BY <1>3, <1>5, <1>6, <1>8, Recursion
<1>10. /\ f \in [D -> V]
       /\ \A k \in D : f[k] = IF k \in leaves THEN start[k] ELSE step[k][f[pred[k]]]
    <2> HIDE DEF leaves, start, pred, step, D, V
    <2> QED
        BY <1>9 DEF Recurs
<1>11. ASSUME NEW k \in D PROVE f[k] = IF k = 0 THEN <<>> ELSE f[k - 1] \o parts[k]
    <2>1. CASE k \in leaves
        BY <1>10, <2>1
    <2>2. CASE k \notin leaves
        <3>1. k \in D \ leaves /\ k # 0 /\ k - 1 \in D
            BY <1>3, <1>4, <2>2
        <3>2. f[k] = step[k][f[pred[k]]] /\ pred[k] = k - 1
            BY <1>10, <3>1
        <3>3. f[k - 1] \in V
            BY <1>10, <3>1
        <3> HIDE DEF leaves, D, V
        <3>4. step[k][f[k - 1]] = f[k - 1] \o parts[k]
            BY <3>1, <3>3
        <3> QED
            BY <3>1, <3>2, <3>4, Zenon
    <2> QED
        BY <2>1, <2>2
<1>12. f = [k \in 0 .. Len(parts) |-> IF k = 0 THEN <<>> ELSE f[k - 1] \o parts[k]]
    <2> HIDE DEF V
    <2> QED
        BY <1>10, <1>11, Zenon
<1>13. upTo = [k \in 0 .. Len(parts) |-> IF k = 0 THEN <<>> ELSE upTo[k - 1] \o parts[k]]
    <2>1. \E g : g = [k \in 0 .. Len(parts) |-> IF k = 0 THEN <<>> ELSE g[k - 1] \o parts[k]]
        BY <1>12
    <2> QED
        BY <2>1, Zenon
<1> HIDE DEF upTo
<1>14. upTo[0] = <<>> /\ \A k \in 1 .. L : upTo[k] = upTo[k - 1] \o parts[k]
    <2>1. 0 \in D /\ \A k \in 1 .. L : k \in D /\ k # 0
        BY <1>1
    <2> QED
        BY <1>13, <2>1, Zenon
<1>15. \A k \in D : upTo[k] \in V
    <2> DEFINE S == {k \in Nat : k \in D => upTo[k] \in V}
    <2>1. 0 \in S
        <3>1. <<>> \in V
            OBVIOUS
        <3> HIDE DEF V
        <3> QED
            BY <1>14, <3>1
    <2>2. ASSUME NEW k \in Nat, k \in S PROVE k + 1 \in S
        <3>1. ASSUME k + 1 \in D PROVE upTo[k + 1] \in V
            <4>1. k \in D /\ (k + 1) - 1 = k /\ k + 1 \in 1 .. L
                BY <1>1, <3>1
            <4>2. upTo[k] \in V
                BY <2>2, <4>1
            <4>3. upTo[k + 1] = upTo[k] \o parts[k + 1]
                BY <1>14, <4>1
            <4> HIDE DEF V
            <4> QED
                BY <1>7, <4>1, <4>2, <4>3, Zenon
        <3> QED
            BY <3>1
    <2> HIDE DEF S
    <2>3. \A k \in Nat : k \in S
        BY <2>1, <2>2, Induction
    <2>4. \A k \in D : k \in Nat
        OBVIOUS
    <2> QED
        BY <2>3, <2>4 DEF S
<1>16. upTo \in [D -> V]
    <2> HIDE DEF V
    <2> QED
        BY <1>13, <1>15
<1>17. JoinsTo(parts, upTo)
    BY <1>2, <1>14, <1>16, Zenon DEF JoinsTo
<1> QED
    BY <1>17

\* Where the parts are in the whole: part k begins behind place[k - 1].
Placed(J, parts, place) ==
    /\ place \in [0 .. Len(parts) -> Nat]
    /\ place[0] = 0 /\ place[Len(parts)] = Len(J)
    /\ \A k \in 1 .. Len(parts) :
          /\ place[k] = place[k - 1] + Len(parts[k])
          /\ place[k] <= Len(J)
          /\ \A i \in 1 .. Len(parts[k]) : J[place[k - 1] + i] = parts[k][i]

\* Every part is in the whole, each behind the one before.
LEMMA JoinedPlaces ==
    ASSUME NEW parts \in Seq(Seq(Byte))
    PROVE  /\ Joined(parts) \in Seq(Byte)
           /\ \E place : Placed(Joined(parts), parts, place)
<1> DEFINE J == Joined(parts)
           L == Len(parts)
<1>1. PICK up : JoinsTo(parts, up)
    BY JoinedSteps
<1> DEFINE place == [k \in 0 .. L |-> Len(up[k])]
<1>2. L \in Nat /\ \A k \in 1 .. L : parts[k] \in Seq(Byte)
    OBVIOUS
<1>3. /\ \A k \in 0 .. L : up[k] \in Seq(Byte)
      /\ up[0] = <<>>
      /\ \A k \in 1 .. L : up[k] = up[k - 1] \o parts[k]
      /\ J = up[L]
    BY <1>1 DEF JoinsTo
<1>4. \A k \in 1 .. L : IsJoin(up[k], up[k - 1], parts[k], Byte)
    <2> TAKE k \in 1 .. L
    <2>1. k - 1 \in 0 .. L
        BY <1>2
    <2>2. up[k - 1] \in Seq(Byte) /\ parts[k] \in Seq(Byte) /\ up[k] = up[k - 1] \o parts[k]
        BY <1>2, <1>3, <2>1, Zenon
    <2> QED
        BY <2>2, JoinedAny, Zenon
<1>5. \A k \in 0 .. L : place[k] = Len(up[k]) /\ place[k] \in Nat
    BY <1>3
<1>6. place \in [0 .. L -> Nat] /\ place[0] = 0 /\ place[L] = Len(J)
    <2>1. 0 \in 0 .. L /\ L \in 0 .. L
        BY <1>2
    <2> QED
        BY <1>3, <1>5, <2>1
<1> HIDE DEF place, J
<1>7. \A k \in 1 .. L : /\ place[k] = place[k - 1] + Len(parts[k])
                        /\ \A i \in 1 .. place[k - 1] : up[k][i] = up[k - 1][i]
                        /\ \A i \in 1 .. Len(parts[k]) : up[k][place[k - 1] + i] = parts[k][i]
    <2> TAKE k \in 1 .. L
    <2>1. k \in 0 .. L /\ k - 1 \in 0 .. L
        BY <1>2
    <2>2. place[k] = Len(up[k]) /\ place[k - 1] = Len(up[k - 1])
        BY <1>5, <2>1, Zenon
    <2> QED
        BY <1>4, <2>2, Zenon DEF IsJoin
<1>8. \A k \in 0 .. L : place[k] <= Len(J) /\ \A i \in 1 .. place[k] : J[i] = up[k][i]
    <2> DEFINE Front(k) == place[k] <= Len(J) /\ \A i \in 1 .. place[k] : J[i] = up[k][i]
               S == {d \in Nat : d <= L => Front(L - d)}
    <2>1. 0 \in S
        <3>1. L - 0 = L /\ place[L] \in Nat /\ Len(J) \in Nat
            BY <1>2, <1>6
        <3> QED
            BY <1>3, <1>6, <3>1
    <2>2. ASSUME NEW d \in Nat, d \in S PROVE d + 1 \in S
        <3>1. ASSUME d + 1 <= L PROVE Front(L - (d + 1))
            <4> DEFINE k == L - d
            <4>1. k \in 1 .. L /\ k - 1 = L - (d + 1) /\ k - 1 \in 0 .. L /\ k \in 0 .. L
                BY <1>2, <3>1
            <4>2. Front(k)
                BY <2>2, <3>1, <1>2
            <4> HIDE DEF k
            <4>3. place[k] \in Nat /\ place[k - 1] \in Nat /\ Len(parts[k]) \in Nat
                BY <1>2, <1>5, <4>1
            <4>4. Len(J) \in Nat
                <5>1. L \in 0 .. L
                    BY <1>2
                <5> QED
                    BY <1>5, <1>6, <5>1
            <4>5. place[k - 1] <= place[k]
                BY <1>7, <4>1, <4>3
            <4>6. place[k - 1] <= Len(J)
                BY <4>2, <4>3, <4>4, <4>5
            <4>7. \A i \in 1 .. place[k - 1] : i \in 1 .. place[k]
                BY <4>3, <4>5
            <4>8. \A i \in 1 .. place[k - 1] : J[i] = up[k - 1][i]
                BY <1>7, <4>1, <4>2, <4>7, Zenon
            <4>9. Front(k - 1)
                BY <4>6, <4>8
            <4> HIDE DEF Front
            <4> QED
                BY <4>1, <4>9
        <3> HIDE DEF Front
        <3>2. d + 1 \in Nat
            OBVIOUS
        <3> QED
            BY <3>1, <3>2
    <2> HIDE DEF S
    <2>3. \A d \in Nat : d \in S
        BY <2>1, <2>2, Induction
    <2> TAKE k \in 0 .. L
    <2>4. L - k \in Nat /\ L - k <= L /\ L - (L - k) = k
        BY <1>2
    <2> DEFINE d == L - k
    <2>5. d \in S
        BY <2>3, <2>4
    <2>6. Front(L - d)
        BY <2>4, <2>5 DEF S
    <2> QED
        BY <2>4, <2>6
<1>9. ASSUME NEW k \in 1 .. L
      PROVE  /\ place[k] <= Len(J)
             /\ \A i \in 1 .. Len(parts[k]) : J[place[k - 1] + i] = parts[k][i]
    <2>1. k \in 0 .. L /\ k - 1 \in 0 .. L
        BY <1>2
    <2>2. place[k] <= Len(J)
        BY <1>8, <2>1
    <2>3. place[k - 1] \in Nat /\ Len(parts[k]) \in Nat /\ place[k] = place[k - 1] + Len(parts[k])
        BY <1>2, <1>5, <1>7, <2>1
    <2>4. \A i \in 1 .. Len(parts[k]) : place[k - 1] + i \in 1 .. place[k]
        BY <2>3
    <2>5. \A i \in 1 .. Len(parts[k]) : J[place[k - 1] + i] = up[k][place[k - 1] + i]
        BY <1>8, <2>1, <2>4, Zenon
    <2>6. \A i \in 1 .. Len(parts[k]) : up[k][place[k - 1] + i] = parts[k][i]
        BY <1>7
    <2>7. \A i \in 1 .. Len(parts[k]) : J[place[k - 1] + i] = parts[k][i]
        BY <2>5, <2>6, Zenon
    <2> QED
        BY <2>2, <2>7
<1>10. Placed(J, parts, place)
    BY <1>6, <1>7, <1>9, Zenon DEF Placed
<1>11. J \in Seq(Byte)
    <2>1. L \in 0 .. L
        BY <1>2
    <2> QED
        BY <1>3, <2>1
<1> QED
    BY <1>10, <1>11 DEF J

\* What is no digit has a value, too.
LEMMA HexDigitType == \A c : HexDigit(c) \in Int
<1> TAKE c
<1>1. CASE c \in Digits
    <2>1. HexDigit(c) = c - 48
        BY <1>1, SMT DEF HexDigit, Digits
    <2> QED
        BY <1>1, <2>1 DEF Digits
<1>2. CASE c \notin Digits /\ c \in 97 .. 102
    <2>1. HexDigit(c) = c - 87
        BY <1>2, SMT DEF HexDigit
    <2> QED
        BY <1>2, <2>1
<1>3. CASE c \notin Digits /\ c \notin 97 .. 102 /\ c \in 65 .. 70
    <2>1. HexDigit(c) = c - 55
        BY <1>3, SMT DEF HexDigit
    <2> QED
        BY <1>3, <2>1
<1>4. CASE c \notin Digits /\ c \notin 97 .. 102 /\ c \notin 65 .. 70
    <2>1. HexDigit(c) = -1
        BY <1>4, SMT DEF HexDigit
    <2> QED
        BY <2>1
<1> QED
    BY <1>1, <1>2, <1>3, <1>4

\* What is behind \u: an error, or a code point and a place to go on from.
LEMMA PointType ==
    ASSUME NEW s \in Seq(Byte), NEW i \in Nat \ {0}
    PROVE  /\ CodePoint(s, i)[1] \in Int
           /\ CodePoint(s, i)[1] >= 0 => CodePoint(s, i)[2] \in i + 1 .. Len(s) + 1
           /\ UTF8(CodePoint(s, i)[1]) \in Seq(Int)
<1>1. \A k \in Nat : Unicode(s, k) \in Int /\ (Unicode(s, k) >= 0 => k + 3 <= Len(s))
    <2> TAKE k \in Nat
    <2>1. /\ HexDigit(s[k]) \in Int /\ HexDigit(s[k + 1]) \in Int
          /\ HexDigit(s[k + 2]) \in Int /\ HexDigit(s[k + 3]) \in Int
        BY HexDigitType
    <2> QED
        BY <2>1, SMT DEF Unicode
<1> DEFINE high == Unicode(s, i)
           low == IF /\ Len(s) >= i + 9 /\ s[i + 4] = Backslash /\ s[i + 5] = 117
                    THEN Unicode(s, i + 6) ELSE -1
<1>2. CodePoint(s, i) =
        IF high \notin 55296 .. 56319 THEN <<high, i + 4>>
        ELSE IF low < 0 THEN <<-1, i>>
        ELSE <<65536 + 1024 * (high % 1024) + (low % 1024), i + 10>>
    BY SMT DEF CodePoint
<1>3. high \in Int /\ (high >= 0 => i + 3 <= Len(s))
    BY <1>1
<1>4. low \in Int /\ (low >= 0 => i + 9 <= Len(s))
    BY <1>1
<1> HIDE DEF high, low
<1>5. \A n \in Int : (n % 1024) \in Int
    BY SMT
<1>6. CodePoint(s, i)[1] \in Int
    <2>1. (high % 1024) \in Int /\ (low % 1024) \in Int
        BY <1>3, <1>4, <1>5
    <2> QED
        BY <1>2, <1>3, <2>1
<1>7. CodePoint(s, i)[1] >= 0 => CodePoint(s, i)[2] \in i + 1 .. Len(s) + 1
    <2>1. Len(s) \in Nat
        OBVIOUS
    <2> QED
        BY <1>2, <1>3, <1>4, <2>1
<1> DEFINE p == CodePoint(s, i)[1]
<1>8. UTF8(p) \in Seq(Int)
    <2> HIDE DEF p
    <2>1. p \in Int
        BY <1>6 DEF p
    <2> QED
        BY <2>1, SMT DEF UTF8
<1> QED
    BY <1>6, <1>7, <1>8

\* decodeString at a character: what it stands for, and where the next one is.
Stops(s, i) ==
    \/ i > Len(s)
    \/ /\ s[i] = Backslash
       /\ \/ i = Len(s)
          \/ s[i + 1] \notin DOMAIN Escapes /\ (s[i + 1] # 117 \/ CodePoint(s, i + 2)[1] < 0)

Stands(s, i) ==
    IF s[i] # Backslash THEN <<s[i]>>
    ELSE IF s[i + 1] \in DOMAIN Escapes THEN <<Escapes[s[i + 1]]>>
    ELSE UTF8(CodePoint(s, i + 2)[1])

Onwards(s, i) ==
    IF s[i] # Backslash THEN i + 1
    ELSE IF s[i + 1] \in DOMAIN Escapes THEN i + 2
    ELSE CodePoint(s, i + 2)[2]

Read(ok, bytes) == [ok |-> ok, of |-> bytes]

Stopped(s, i) == IF i > Len(s) THEN Read(TRUE, <<>>) ELSE Read(FALSE, <<>>)

\* decodeString's loop, from the end.
DecodesFrom(s, from) ==
    /\ from \in [1 .. Len(s) + 1 -> [ok : BOOLEAN, of : Seq(Int)]]
    /\ \A i \in 1 .. Len(s) + 1 :
          /\ Stops(s, i) => from[i] = Stopped(s, i)
          /\ ~Stops(s, i) => from[i] = Read(from[Onwards(s, i)].ok,
                                            Stands(s, i) \o from[Onwards(s, i)].of)
    /\ DecodedString(s) = from[1]

\* Where decodeString does not stop it goes on behind the character.
LEMMA GoesOn ==
    ASSUME NEW s \in Seq(Byte), NEW i \in 1 .. Len(s) + 1, ~Stops(s, i)
    PROVE  Stands(s, i) \in Seq(Int) /\ Onwards(s, i) \in i + 1 .. Len(s) + 1
<1>1. i \in 1 .. Len(s) /\ Len(s) \in Nat
    BY DEF Stops
<1>2. s[i] \in Byte /\ s[i] \in Int
    <2>1. s[i] \in Byte
        BY <1>1
    <2>2. Byte \subseteq Int
        BY DEF Byte
    <2> QED
        BY <2>1, <2>2
<1>3. CASE s[i] # Backslash
    BY <1>1, <1>2, <1>3 DEF Stands, Onwards
<1>4. CASE s[i] = Backslash /\ s[i + 1] \in DOMAIN Escapes
    <2>1. i + 1 \in 1 .. Len(s)
        BY <1>1, <1>4 DEF Stops
    <2>2. Escapes[s[i + 1]] \in Int
        BY <1>4, EscapesAre
    <2>3. Stands(s, i) = <<Escapes[s[i + 1]]>> /\ Onwards(s, i) = i + 2
        BY <1>4, Zenon DEF Stands, Onwards
    <2> QED
        BY <1>1, <2>1, <2>2, <2>3
<1>5. CASE s[i] = Backslash /\ s[i + 1] \notin DOMAIN Escapes
    <2> DEFINE p == CodePoint(s, i + 2)
    <2>1. i + 2 \in Nat \ {0}
        OBVIOUS
    <2>2. /\ p[1] \in Int
          /\ p[1] >= 0 => p[2] \in (i + 2) + 1 .. Len(s) + 1
          /\ UTF8(p[1]) \in Seq(Int)
        BY <2>1, PointType, Zenon
    <2>3. ~(p[1] < 0)
        BY <1>5 DEF Stops
    <2>4. Stands(s, i) = UTF8(p[1]) /\ Onwards(s, i) = p[2]
        BY <1>5, Zenon DEF Stands, Onwards
    <2> HIDE DEF p
    <2>5. p[2] \in i + 1 .. Len(s) + 1
        BY <1>1, <2>2, <2>3
    <2> QED
        BY <2>2, <2>4, <2>5
<1> QED
    BY <1>3, <1>4, <1>5

\* The loop of decodeString has an answer for every text.
LEMMA DecodedSteps ==
    ASSUME NEW s \in Seq(Byte) PROVE \E from : DecodesFrom(s, from)
<1> DEFINE Followed(bytes, rest) == [ok |-> rest.ok, of |-> bytes \o rest.of]
           Bad == [ok |-> FALSE, of |-> <<>>]
           from[i \in 1 .. Len(s) + 1] ==
               IF i > Len(s) THEN [ok |-> TRUE, of |-> <<>>]
               ELSE IF s[i] # Backslash THEN Followed(<<s[i]>>, from[i + 1])
               ELSE IF i = Len(s) THEN Bad
               ELSE IF s[i + 1] \in DOMAIN Escapes
                      THEN Followed(<<Escapes[s[i + 1]]>>, from[i + 2])
               ELSE IF s[i + 1] # 117 \/ CodePoint(s, i + 2)[1] < 0 THEN Bad
               ELSE Followed(UTF8(CodePoint(s, i + 2)[1]), from[CodePoint(s, i + 2)[2]])
           Body(g, i) == IF Stops(s, i) THEN Stopped(s, i)
                         ELSE Followed(Stands(s, i), g[Onwards(s, i)])
           V == [ok : BOOLEAN, of : Seq(Int)]
           D == 1 .. Len(s) + 1
           leaves == {i \in D : Stops(s, i)}
           start == [i \in leaves |-> Stopped(s, i)]
           pred == [i \in D \ leaves |-> Onwards(s, i)]
           step == [i \in D \ leaves |-> [v \in V |-> Followed(Stands(s, i), v)]]
           rank == [i \in D |-> Len(s) + 1 - i]
<1>1. DecodedString(s) = from[1]
    BY Zenon DEF DecodedString
<1>2. ASSUME NEW g, NEW i \in D
      PROVE  Body(g, i) =
               IF i > Len(s) THEN [ok |-> TRUE, of |-> <<>>]
               ELSE IF s[i] # Backslash THEN Followed(<<s[i]>>, g[i + 1])
               ELSE IF i = Len(s) THEN Bad
               ELSE IF s[i + 1] \in DOMAIN Escapes
                      THEN Followed(<<Escapes[s[i + 1]]>>, g[i + 2])
               ELSE IF s[i + 1] # 117 \/ CodePoint(s, i + 2)[1] < 0 THEN Bad
               ELSE Followed(UTF8(CodePoint(s, i + 2)[1]), g[CodePoint(s, i + 2)[2]])
    <2>1. CASE i > Len(s)
        BY <2>1, Zenon DEF Stops, Stopped, Read
    <2>2. CASE ~(i > Len(s)) /\ s[i] # Backslash
        BY <2>2, Zenon DEF Stops, Stands, Onwards
    <2>3. CASE ~(i > Len(s)) /\ s[i] = Backslash /\ i = Len(s)
        BY <2>3, Zenon DEF Stops, Stopped, Read
    <2>4. CASE ~(i > Len(s)) /\ s[i] = Backslash /\ i # Len(s) /\ s[i + 1] \in DOMAIN Escapes
        BY <2>4, Zenon DEF Stops, Stands, Onwards
    <2>5. CASE /\ ~(i > Len(s)) /\ s[i] = Backslash /\ i # Len(s)
               /\ s[i + 1] \notin DOMAIN Escapes
               /\ s[i + 1] # 117 \/ CodePoint(s, i + 2)[1] < 0
        BY <2>5, Zenon DEF Stops, Stopped, Read
    <2>6. CASE /\ ~(i > Len(s)) /\ s[i] = Backslash /\ i # Len(s)
               /\ s[i + 1] \notin DOMAIN Escapes
               /\ ~(s[i + 1] # 117 \/ CodePoint(s, i + 2)[1] < 0)
        BY <2>6, Zenon DEF Stops, Stands, Onwards
    <2> QED
        BY <2>1, <2>2, <2>3, <2>4, <2>5, <2>6, Zenon
<1>3. leaves \in SUBSET D /\ Len(s) \in Nat
    OBVIOUS
<1>4. \A i \in D \ leaves : Stands(s, i) \in Seq(Int) /\ Onwards(s, i) \in i + 1 .. Len(s) + 1
    <2>1. \A i \in D \ leaves : i \in D /\ ~Stops(s, i)
        OBVIOUS
    <2> HIDE DEF leaves
    <2> QED
        BY <2>1, GoesOn, Zenon
<1>5. \A i \in D : Stopped(s, i) \in V
    <2>1. <<>> \in Seq(Int)
        OBVIOUS
    <2> QED
        BY <2>1, Zenon DEF Read, Stopped
<1>6. start \in [leaves -> V]
    <2> HIDE DEF V, D
    <2> QED
        BY <1>5
<1>7. \A i \in D \ leaves : Onwards(s, i) \in D /\ Len(s) + 1 - Onwards(s, i) < Len(s) + 1 - i
    <2> HIDE DEF leaves
    <2> QED
        BY <1>3, <1>4
<1>8. /\ pred \in [D \ leaves -> D] /\ rank \in [D -> Nat]
      /\ \A i \in D \ leaves : rank[pred[i]] < rank[i]
    <2>1. rank \in [D -> Nat]
        BY <1>3
    <2> HIDE DEF leaves
    <2> QED
        BY <1>7, <2>1
<1>9. \A i \in D \ leaves : \A v \in V : Followed(Stands(s, i), v) \in V
    <2> TAKE i \in D \ leaves
    <2> TAKE v \in V
    <2>1. v.ok \in BOOLEAN /\ v.of \in Seq(Int)
        BY Zenon
    <2>2. Stands(s, i) \in Seq(Int)
        BY <1>4, Zenon
    <2>3. Stands(s, i) \o v.of \in Seq(Int)
        BY <2>1, <2>2
    <2> QED
        BY <2>1, <2>3, Zenon
<1>10. step \in [D \ leaves -> [V -> V]]
    <2> HIDE DEF V, D, leaves, Followed
    <2> QED
        BY <1>9
<1>11. PICK f : Recurs(V, leaves, start, pred, step, D, f)
    <2> HIDE DEF leaves, start, pred, step, rank, D, V
    <2> QED
        BY <1>3, <1>6, <1>8, <1>10, Recursion
<1>12. /\ f \in [D -> V]
       /\ \A i \in D : f[i] = IF i \in leaves THEN start[i] ELSE step[i][f[pred[i]]]
    <2> HIDE DEF leaves, start, pred, step, D, V
    <2> QED
        BY <1>11 DEF Recurs
<1>13. ASSUME NEW i \in D PROVE f[i] = Body(f, i)
    <2>1. CASE i \in leaves
        <3>1. start[i] = Stopped(s, i)
            <4> HIDE DEF leaves
            <4> QED
                BY <2>1, Zenon
        <3>2. Stops(s, i)
            BY <2>1
        <3>3. f[i] = start[i]
            BY <1>12, <2>1, Zenon
        <3> QED
            BY <3>1, <3>2, <3>3, Zenon
    <2>2. CASE i \notin leaves
        <3>1. i \in D \ leaves /\ ~Stops(s, i)
            BY <2>2
        <3> HIDE DEF leaves
        <3>2. pred[i] = Onwards(s, i) /\ Onwards(s, i) \in D
            BY <1>7, <3>1, Zenon
        <3>3. f[Onwards(s, i)] \in V
            <4> HIDE DEF D, V
            <4> QED
                BY <1>12, <3>2
        <3>4. f[i] = step[i][f[Onwards(s, i)]]
            BY <1>12, <2>2, <3>2, Zenon
        <3>5. step[i][f[Onwards(s, i)]] = Followed(Stands(s, i), f[Onwards(s, i)])
            <4> HIDE DEF D, V, Followed
            <4> QED
                BY <3>1, <3>3, Zenon
        <3> QED
            BY <3>1, <3>4, <3>5, Zenon
    <2> QED
        BY <2>1, <2>2
<1> DEFINE F(g) == [i \in 1 .. Len(s) + 1 |->
               IF i > Len(s) THEN [ok |-> TRUE, of |-> <<>>]
               ELSE IF s[i] # Backslash THEN Followed(<<s[i]>>, g[i + 1])
               ELSE IF i = Len(s) THEN Bad
               ELSE IF s[i + 1] \in DOMAIN Escapes
                      THEN Followed(<<Escapes[s[i + 1]]>>, g[i + 2])
               ELSE IF s[i + 1] # 117 \/ CodePoint(s, i + 2)[1] < 0 THEN Bad
               ELSE Followed(UTF8(CodePoint(s, i + 2)[1]), g[CodePoint(s, i + 2)[2]])]
<1>14. ASSUME NEW g PROVE F(g) = [i \in D |-> Body(g, i)]
    <2> HIDE DEF Body, Followed, Bad
    <2> QED
        BY <1>2
<1>15. f = [i \in D |-> Body(f, i)]
    <2> HIDE DEF V, Body
    <2> QED
        BY <1>12, <1>13
<1>16. from = [i \in D |-> Body(from, i)]
    <2>1. f = F(f)
        <3> HIDE DEF F, Body
        <3> QED
            BY <1>14, <1>15
    <2>2. \E g : g = F(g)
        BY <2>1, Zenon
    <2>3. from = F(from)
        <3> HIDE DEF Followed, Bad
        <3> QED
            BY <2>2, Zenon
    <2> HIDE DEF F, Body, from
    <2> QED
        BY <1>14, <2>3
<1> HIDE DEF from
<1>17. \A i \in D : from[i] = Body(from, i)
    <2> HIDE DEF Body
    <2> QED
        BY <1>16, Zenon
<1>18. \A i \in D : from[i] \in V
    <2> DEFINE S == {n \in Nat : \A i \in D : rank[i] < n => from[i] \in V}
    <2>1. 0 \in S
        BY <1>3
    <2>2. ASSUME NEW n \in Nat, n \in S PROVE n + 1 \in S
        <3>1. ASSUME NEW i \in D, rank[i] = n PROVE from[i] \in V
            <4>1. CASE Stops(s, i)
                BY <1>5, <1>17, <4>1, Zenon
            <4>2. CASE ~Stops(s, i)
                <5>1. i \in D \ leaves
                    BY <4>2
                <5>2. Onwards(s, i) \in D /\ rank[Onwards(s, i)] < n
                    <6> HIDE DEF leaves
                    <6> QED
                        BY <1>7, <3>1, <5>1
                <5> HIDE DEF D, rank, leaves
                <5>3. from[Onwards(s, i)] \in V
                    BY <2>2, <5>2, Zenon
                <5>4. from[i] = Followed(Stands(s, i), from[Onwards(s, i)])
                    BY <1>17, <4>2, Zenon
                <5> QED
                    BY <1>9, <5>1, <5>3, <5>4, Zenon
            <4> QED
                BY <4>1, <4>2
        <3>2. \A i \in D : rank[i] < n + 1 => rank[i] < n \/ rank[i] = n
            <4>1. \A i \in D : rank[i] \in Nat
                BY <1>8
            <4> HIDE DEF rank
            <4> QED
                BY <4>1
        <3> HIDE DEF V, D, rank
        <3> QED
            BY <2>2, <3>1, <3>2
    <2> HIDE DEF S
    <2>3. \A n \in Nat : n \in S
        BY <2>1, <2>2, Induction
    <2> TAKE i \in D
    <2>4. rank[i] \in Nat /\ rank[i] < rank[i] + 1 /\ rank[i] + 1 \in Nat
        BY <1>8
    <2>5. rank[i] + 1 \in S
        BY <2>3, <2>4
    <2> QED
        BY <2>4, <2>5, Zenon DEF S
<1>19. from \in [D -> V]
    <2> HIDE DEF V, D, Body
    <2> QED
        BY <1>16, <1>18
<1>20. \A i \in D :
          /\ Stops(s, i) => from[i] = Stopped(s, i)
          /\ ~Stops(s, i) => from[i] = Read(from[Onwards(s, i)].ok,
                                            Stands(s, i) \o from[Onwards(s, i)].of)
    BY <1>17, Zenon DEF Read
<1> QED
    BY <1>1, <1>19, <1>20, Zenon DEF DecodesFrom

\* What s is written as, between the quotes.
Parts(s) == [k \in DOMAIN s |-> Escaped(s[k])]

\* Every part is what its character is written as.
LEMMA PartsAre ==
    ASSUME NEW s \in Seq(Byte)
    PROVE  /\ Parts(s) \in Seq(Seq(Byte)) /\ Len(Parts(s)) = Len(s)
           /\ \A k \in 1 .. Len(s) : Parts(s)[k] = Escaped(s[k]) /\ s[k] \in Byte
<1>1. \A k \in 1 .. Len(s) : s[k] \in Byte /\ Escaped(s[k]) \in Seq(Byte)
    <2>1. \A k \in 1 .. Len(s) : s[k] \in Byte
        OBVIOUS
    <2> QED
        BY <2>1, EscapedForms
<1>2. DOMAIN s = 1 .. Len(s) /\ Len(s) \in Nat
    OBVIOUS
<1>3. Parts(s) = [k \in 1 .. Len(s) |-> Escaped(s[k])]
    BY <1>2 DEF Parts
<1> QED
    BY <1>1, <1>2, <1>3

\* The part e of character c is in t behind place i.
Spelt(t, i, e) == i + Len(e) <= Len(t) /\ \A n \in 1 .. Len(e) : t[i + n] = e[n]

\* The character c is read from its part behind place i.
ReadsCharacter(t, from, c, i) ==
    Spelt(t, i, Escaped(c)) =>
        from[i + 1] = Read(from[i + Len(Escaped(c)) + 1].ok,
                           <<c>> \o from[i + Len(Escaped(c)) + 1].of)

\* It is, in each of the three forms.
LEMMA CharacterRead ==
    ASSUME NEW t \in Seq(Byte), NEW from, DecodesFrom(t, from),
           NEW c \in Byte, NEW i \in Nat
    PROVE  ReadsCharacter(t, from, c, i)
<1> SUFFICES ASSUME Spelt(t, i, Escaped(c))
             PROVE  from[i + 1] = Read(from[i + Len(Escaped(c)) + 1].ok,
                                       <<c>> \o from[i + Len(Escaped(c)) + 1].of)
    BY Zenon DEF ReadsCharacter
<1> DEFINE e == Escaped(c)
           j == i + 1
<1>1. /\ e \in Seq(Byte) /\ Len(e) \in {1, 2, 6}
      /\ AsItIs(c, e) \/ ByLetter(c, e) \/ InHex(c, e)
    BY EscapedForms, Zenon
<1>2. i + Len(e) <= Len(t) /\ \A n \in 1 .. Len(e) : t[i + n] = e[n]
    BY Zenon DEF Spelt
<1>3. Len(t) \in Nat /\ \A k \in 1 .. Len(t) : t[k] \in Byte
    OBVIOUS
<1> HIDE DEF e
<1>4. j \in 1 .. Len(t) /\ j \in 1 .. Len(t) + 1 /\ ~(j > Len(t))
    <2>1. Len(e) \in Nat /\ Len(e) >= 1
        <3>1. Len(e) = 1 \/ Len(e) = 2 \/ Len(e) = 6
            BY <1>1, Zenon
        <3>2. \A n : n = 1 \/ n = 2 \/ n = 6 => n \in Nat /\ n >= 1
            OBVIOUS
        <3> QED
            BY <3>1, <3>2, Zenon
    <2>2. i + Len(e) <= Len(t)
        BY <1>2
    <2> QED
        BY <1>3, <2>1, <2>2
<1>5. /\ from \in [1 .. Len(t) + 1 -> [ok : BOOLEAN, of : Seq(Int)]]
      /\ ~Stops(t, j) => from[j] = Read(from[Onwards(t, j)].ok,
                                        Stands(t, j) \o from[Onwards(t, j)].of)
    BY <1>4, Zenon DEF DecodesFrom
<1>6. SUFFICES ~Stops(t, j) /\ Onwards(t, j) = i + Len(e) + 1 /\ Stands(t, j) = <<c>>
    BY <1>5, Zenon DEF e
<1>7. CASE AsItIs(c, e)
    <2>1. Len(e) = 1 /\ t[j] = c /\ c # 92
        BY <1>1, <1>2, <1>7 DEF AsItIs
    <2>2. ~Stops(t, j)
        BY <1>4, <2>1, Zenon DEF Stops, Backslash
    <2>3. Stands(t, j) = <<c>> /\ Onwards(t, j) = j + 1
        BY <2>1, Zenon DEF Stands, Onwards, Backslash
    <2> QED
        BY <2>1, <2>2, <2>3
<1>8. CASE ByLetter(c, e)
    <2>1. Len(e) = 2 /\ e[1] = 92 /\ e[2] \in DOMAIN Escapes /\ Escapes[e[2]] = c
        BY <1>8, Zenon DEF ByLetter
    <2>2. t[j] = 92 /\ t[j + 1] = e[2] /\ j # Len(t)
        BY <1>2, <1>3, <2>1
    <2>3. ~Stops(t, j)
        BY <1>4, <2>1, <2>2, Zenon DEF Stops, Backslash
    <2>4. Stands(t, j) = <<c>> /\ Onwards(t, j) = j + 2
        BY <2>1, <2>2, Zenon DEF Stands, Onwards, Backslash
    <2> QED
        BY <2>1, <2>3, <2>4
<1>9. CASE InHex(c, e)
    <2>1. /\ c < 32 /\ Len(e) = 6 /\ e[1] = 92 /\ e[2] = 117 /\ e[3] = 48 /\ e[4] = 48
          /\ HexDigit(e[5]) = c \div 16 /\ HexDigit(e[6]) = c % 16
        BY <1>9, Zenon DEF InHex
    <2>2. /\ t[j] = 92 /\ t[j + 1] = 117 /\ j + 5 <= Len(t) /\ j # Len(t)
          /\ t[j + 2] = 48 /\ t[j + 3] = 48 /\ t[j + 4] = e[5] /\ t[j + 5] = e[6]
        BY <1>2, <1>3, <2>1
    <2>3. 117 \notin DOMAIN Escapes
        BY EscapesAre
    <2>4. HexDigit(48) = 0
        BY SMT DEF HexDigit, Digits
    <2> DEFINE h == HexDigit(e[5])
               l == HexDigit(e[6])
    <2>5. h \in 0 .. 15 /\ l \in 0 .. 15 /\ 16 * h + l = c /\ c \in 0 .. 31
        <3>1. c \in Nat
            BY SMT DEF Byte
        <3>2. c \div 16 \in 0 .. 15 /\ c % 16 \in 0 .. 15 /\ 16 * (c \div 16) + (c % 16) = c
            BY <2>1, <3>1
        <3> QED
            BY <2>1, <3>1, <3>2
    <2> DEFINE p == j + 2
    <2>6. /\ HexDigit(t[p]) = 0 /\ HexDigit(t[p + 1]) = 0 /\ HexDigit(t[p + 2]) = h
          /\ HexDigit(t[p + 3]) = l /\ p + 3 <= Len(t) /\ p \in Nat
        <3>1. p + 1 = j + 3 /\ p + 2 = j + 4 /\ p + 3 = j + 5 /\ p \in Nat
            OBVIOUS
        <3> QED
            BY <2>2, <2>4, <3>1, Zenon
    <2> HIDE DEF h, l, p
    <2>7. Unicode(t, p) = c
        <3>1. \A k \in 0 .. 3 : HexDigit(t[p + k]) >= 0
            <4>1. \A k \in 0 .. 3 : k = 0 \/ k = 1 \/ k = 2 \/ k = 3
                OBVIOUS
            <4>2. p + 0 = p
                BY <2>6
            <4>3. \A n \in {0, 1, 2, 3} : HexDigit(t[p + n]) >= 0
                <5>1. HexDigit(t[p + 0]) >= 0
                    BY <2>6, <4>2
                <5>2. HexDigit(t[p + 1]) >= 0 /\ HexDigit(t[p + 2]) >= 0 /\ HexDigit(t[p + 3]) >= 0
                    BY <2>5, <2>6
                <5> QED
                    BY <5>1, <5>2, Zenon
            <4> QED
                BY <4>1, <4>3, SMT
        <3>2. ~(p + 3 > Len(t) \/ \E k \in 0 .. 3 : HexDigit(t[p + k]) < 0)
            BY <1>3, <2>6, <3>1, HexDigitType
        <3>3. Unicode(t, p) = 4096 * 0 + 256 * 0 + 16 * h + l
            BY <2>6, <3>2, SMT DEF Unicode
        <3> QED
            BY <2>5, <3>3
    <2>8. CodePoint(t, p) = <<c, p + 4>>
        <3> DEFINE low == IF /\ Len(t) >= p + 9 /\ t[p + 4] = Backslash /\ t[p + 5] = 117
                            THEN Unicode(t, p + 6) ELSE -1
                   pair == IF low < 0 THEN <<-1, p>>
                           ELSE <<65536 + 1024 * (Unicode(t, p) % 1024) + (low % 1024), p + 10>>
        <3>1. CodePoint(t, p) = IF Unicode(t, p) \notin 55296 .. 56319
                                  THEN <<Unicode(t, p), p + 4>> ELSE pair
            BY SMT DEF CodePoint
        <3> HIDE DEF pair
        <3> QED
            BY <2>5, <2>7, <3>1, SMT
    <2>9. UTF8(c) = <<c>>
        BY <2>5, SMT DEF UTF8
    <2>10. CodePoint(t, p)[1] = c /\ CodePoint(t, p)[2] = p + 4 /\ ~(c < 0)
        BY <2>5, <2>8
    <2>11. ~Stops(t, j)
        BY <1>4, <2>2, <2>10, Zenon DEF Stops, Backslash, p
    <2>12. Stands(t, j) = <<c>> /\ Onwards(t, j) = p + 4
        BY <2>2, <2>3, <2>9, <2>10, Zenon DEF Stands, Onwards, Backslash, p
    <2> QED
        BY <2>1, <2>11, <2>12 DEF p
<1> QED
    BY <1>1, <1>7, <1>8, <1>9

\* All the characters between the quotes.
LEMMA TextRead ==
    ASSUME NEW s \in Seq(Byte)
    PROVE  DecodedString(Joined(Parts(s))) = Read(TRUE, s)
<1> DEFINE parts == Parts(s)
           t == Joined(parts)
           L == Len(s)
<1>1. /\ parts \in Seq(Seq(Byte)) /\ Len(parts) = L
      /\ \A k \in 1 .. L : parts[k] = Escaped(s[k]) /\ s[k] \in Byte
    BY PartsAre, Zenon
<1>2. L \in Nat
    OBVIOUS
<1> HIDE DEF parts
<1>3. t \in Seq(Byte) /\ \E place : Placed(t, parts, place)
    BY <1>1, JoinedPlaces, Zenon
<1> HIDE DEF t
<1>4. PICK place : Placed(t, parts, place)
    BY <1>3
<1>5. PICK from : DecodesFrom(t, from)
    BY <1>3, DecodedSteps
<1>6. /\ place \in [0 .. L -> Nat] /\ place[0] = 0 /\ place[L] = Len(t)
      /\ \A k \in 1 .. L : /\ place[k] = place[k - 1] + Len(parts[k])
                           /\ place[k] <= Len(t)
                           /\ \A i \in 1 .. Len(parts[k]) : t[place[k - 1] + i] = parts[k][i]
    BY <1>1, <1>4, Zenon DEF Placed
<1>7. \A c \in Byte : \A i \in Nat : ReadsCharacter(t, from, c, i)
    BY <1>3, <1>5, CharacterRead
<1> DEFINE Ok(k) == from[place[k] + 1] = Read(TRUE, SubSeq(s, k + 1, L))
           S == {d \in Nat : d <= L => Ok(L - d)}
<1>8. 0 \in S
    <2>1. Stops(t, Len(t) + 1) /\ Len(t) + 1 > Len(t) /\ Len(t) + 1 \in 1 .. Len(t) + 1
        BY <1>3 DEF Stops
    <2>2. from[Len(t) + 1] = Read(TRUE, <<>>)
        BY <1>5, <2>1, Zenon DEF DecodesFrom, Stopped
    <2>3. SubSeq(s, L + 1, L) = <<>>
        BY <1>2
    <2>4. L - 0 = L
        BY <1>2
    <2> QED
        BY <1>6, <2>2, <2>3, <2>4
<1>9. ASSUME NEW d \in Nat, d \in S PROVE d + 1 \in S
    <2>1. ASSUME d + 1 <= L PROVE Ok(L - (d + 1))
        <3> DEFINE k == L - d
        <3>1. k \in 1 .. L /\ k - 1 = L - (d + 1) /\ k - 1 \in 0 .. L /\ (k - 1) + 1 = k
            BY <1>2, <2>1
        <3>2. Ok(k)
            <4> HIDE DEF Ok
            <4> QED
                BY <1>2, <1>9, <2>1
        <3> HIDE DEF k
        <3>3. /\ place[k - 1] \in Nat /\ parts[k] = Escaped(s[k]) /\ s[k] \in Byte
              /\ place[k] = place[k - 1] + Len(parts[k])
            BY <1>1, <1>6, <3>1
        <3>4. Spelt(t, place[k - 1], Escaped(s[k]))
            BY <1>6, <3>1, <3>3, Zenon DEF Spelt
        <3> DEFINE next == from[place[k - 1] + Len(Escaped(s[k])) + 1]
        <3>5. from[place[k - 1] + 1] = Read(next.ok, <<s[k]>> \o next.of)
            BY <1>7, <3>3, <3>4, Zenon DEF ReadsCharacter
        <3>6. next = Read(TRUE, SubSeq(s, k + 1, L))
            BY <3>2, <3>3, Zenon
        <3> HIDE DEF next
        <3>7. next.ok = TRUE /\ next.of = SubSeq(s, k + 1, L)
            BY <3>6, Zenon DEF Read
        <3>8. SubSeq(s, k, L) = <<s[k]>> \o SubSeq(s, k + 1, L)
            <4>1. L \in k .. Len(s)
                BY <1>2, <3>1
            <4> QED
                BY <3>1, <4>1, SubSeqRecursiveFirst, Zenon
        <3>9. from[place[k - 1] + 1] = Read(TRUE, SubSeq(s, k, L))
            BY <3>5, <3>7, <3>8, Zenon
        <3>10. Ok(k - 1)
            BY <3>1, <3>9, Zenon
        <3> QED
            BY <3>1, <3>10, Zenon
    <2> HIDE DEF Ok
    <2>2. d + 1 \in Nat
        OBVIOUS
    <2> QED
        BY <2>1, <2>2
<1> HIDE DEF S
<1>10. \A d \in Nat : d \in S
    BY <1>8, <1>9, Induction
<1>11. Ok(0)
    <2>1. L \in S /\ L <= L /\ L - L = 0
        BY <1>2, <1>10
    <2> HIDE DEF Ok
    <2>2. Ok(L - L)
        BY <2>1 DEF S
    <2> QED
        BY <2>1, <2>2, Zenon
<1>12. SubSeq(s, 1, L) = s
    OBVIOUS
<1>13. from[1] = Read(TRUE, s)
    <2>1. 0 + 1 = 1
        OBVIOUS
    <2> QED
        BY <1>6, <1>11, <1>12, <2>1, Zenon
<1> QED
    BY <1>5, <1>13, Zenon DEF DecodesFrom, t, parts

\* readString's loop, from the end.
EndsFrom(t, from) ==
    /\ from \in [1 .. Len(t) + 3 -> Nat]
    /\ \A j \in 1 .. Len(t) :
          /\ t[j] = 34 => from[j] = j + 1
          /\ t[j] = 92 => from[j] = from[j + 2]
          /\ t[j] \notin {34, 92} => from[j] = from[j + 1]
    /\ \A j \in Len(t) + 1 .. Len(t) + 3 : from[j] = 0
    /\ \A j \in 1 .. Len(t) + 3 : StringEnd(t, j) = from[j]

\* The loop of readString has an answer for every text.
LEMMA EndSteps ==
    ASSUME NEW t \in Seq(Byte) PROVE \E from : EndsFrom(t, from)
<1> DEFINE from[j \in 1 .. Len(t) + 3] ==
               IF j > Len(t) THEN 0
               ELSE IF t[j] = QuoteMark THEN j + 1
               ELSE IF t[j] = Backslash THEN from[j + 2]
               ELSE from[j + 1]
           D == 1 .. Len(t) + 3
           leaves == {j \in D : j > Len(t) \/ t[j] = 34}
           start == [j \in leaves |-> IF j > Len(t) THEN 0 ELSE j + 1]
           pred == [j \in D \ leaves |-> IF t[j] = 92 THEN j + 2 ELSE j + 1]
           step == [j \in D \ leaves |-> [v \in Nat |-> v]]
           rank == [j \in D |-> Len(t) + 3 - j]
           Body(g, j) == IF j > Len(t) THEN 0
                         ELSE IF t[j] = QuoteMark THEN j + 1
                         ELSE IF t[j] = Backslash THEN g[j + 2]
                         ELSE g[j + 1]
<1>1. \A j \in D : StringEnd(t, j) = from[j]
    BY Zenon DEF StringEnd
<1>2. Len(t) \in Nat /\ leaves \in SUBSET D
    OBVIOUS
<1>3. \A j \in D : j \in Nat /\ Len(t) + 3 - j \in Nat
    BY <1>2
<1>4. \A j \in D \ leaves : j \in 1 .. Len(t) /\ t[j] # 34
    BY <1>2
<1>5. start \in [leaves -> Nat]
    BY <1>2
<1>6. \A j \in D \ leaves : pred[j] \in D /\ rank[pred[j]] < rank[j]
    BY <1>2, <1>4
<1>7. pred \in [D \ leaves -> D] /\ rank \in [D -> Nat]
    <2>1. \A j \in D \ leaves : pred[j] = IF t[j] = 92 THEN j + 2 ELSE j + 1
        OBVIOUS
    <2>2. pred = [j \in D \ leaves |-> pred[j]]
        OBVIOUS
    <2>3. rank \in [D -> Nat]
        BY <1>3
    <2> HIDE DEF pred, leaves
    <2> QED
        BY <1>6, <2>2, <2>3
<1>8. step \in [D \ leaves -> [Nat -> Nat]]
    <2> HIDE DEF leaves
    <2> QED
        OBVIOUS
<1>9. PICK f : Recurs(Nat, leaves, start, pred, step, D, f)
    <2> HIDE DEF leaves, start, pred, step, rank, D
    <2> QED
        BY <1>2, <1>5, <1>6, <1>7, <1>8, Recursion
<1>10. /\ f \in [D -> Nat]
       /\ \A j \in D : f[j] = IF j \in leaves THEN start[j] ELSE step[j][f[pred[j]]]
    <2> HIDE DEF leaves, start, pred, step, D
    <2> QED
        BY <1>9 DEF Recurs
<1>11. ASSUME NEW j \in D PROVE f[j] = Body(f, j)
    <2>1. CASE j \in leaves
        <3>1. f[j] = start[j] /\ start[j] = IF j > Len(t) THEN 0 ELSE j + 1
            BY <1>10, <2>1
        <3>2. j > Len(t) \/ t[j] = 34
            BY <2>1
        <3> QED
            BY <3>1, <3>2, Zenon DEF QuoteMark
    <2>2. CASE j \notin leaves
        <3>1. j \in D \ leaves /\ ~(j > Len(t)) /\ t[j] # 34
            BY <2>2
        <3>2. pred[j] = IF t[j] = 92 THEN j + 2 ELSE j + 1
            <4> HIDE DEF leaves
            <4> QED
                BY <3>1, Zenon
        <3>3. f[pred[j]] \in Nat
            <4> HIDE DEF leaves, pred
            <4> QED
                BY <1>6, <1>10, <3>1
        <3>4. f[j] = f[pred[j]]
            <4>1. f[j] = step[j][f[pred[j]]]
                BY <1>10, <2>2, Zenon
            <4>2. step[j][f[pred[j]]] = f[pred[j]]
                <5> HIDE DEF leaves, pred, D
                <5> QED
                    BY <3>1, <3>3, Zenon
            <4> QED
                BY <4>1, <4>2, Zenon
        <3> HIDE DEF pred
        <3> QED
            BY <3>1, <3>2, <3>4, Zenon DEF QuoteMark, Backslash
    <2> QED
        BY <2>1, <2>2
<1>12. from = [j \in D |-> Body(from, j)]
    <2>1. f = [j \in D |-> Body(f, j)]
        <3> HIDE DEF Body
        <3> QED
            BY <1>10, <1>11
    <2>2. \E g : g = [j \in 1 .. Len(t) + 3 |-> IF j > Len(t) THEN 0
                                                ELSE IF t[j] = QuoteMark THEN j + 1
                                                ELSE IF t[j] = Backslash THEN g[j + 2]
                                                ELSE g[j + 1]]
        BY <2>1
    <2> QED
        BY <2>2, Zenon
<1> HIDE DEF from
<1>13. \A j \in D : from[j] = Body(from, j)
    <2> HIDE DEF Body
    <2> QED
        BY <1>12, Zenon
<1>14. \A j \in D : from[j] \in Nat
    <2> DEFINE S == {n \in Nat : \A j \in D : Len(t) + 3 - j < n => from[j] \in Nat}
    <2>1. 0 \in S
        BY <1>3
    <2>2. ASSUME NEW n \in Nat, n \in S PROVE n + 1 \in S
        <3>1. ASSUME NEW j \in D, Len(t) + 3 - j = n PROVE from[j] \in Nat
            <4>1. CASE j > Len(t) \/ t[j] = QuoteMark
                BY <1>13, <4>1
            <4>2. CASE ~(j > Len(t)) /\ t[j] # QuoteMark
                <5>1. /\ j + 2 \in D /\ Len(t) + 3 - (j + 2) < n
                      /\ j + 1 \in D /\ Len(t) + 3 - (j + 1) < n
                    BY <1>2, <3>1, <4>2
                <5>2. from[j + 2] \in Nat /\ from[j + 1] \in Nat
                    BY <2>2, <5>1
                <5>3. from[j] = from[j + 2] \/ from[j] = from[j + 1]
                    BY <1>13, <4>2
                <5> QED
                    BY <5>2, <5>3
            <4> QED
                BY <4>1, <4>2
        <3>2. \A j \in D : Len(t) + 3 - j < n + 1 => Len(t) + 3 - j < n \/ Len(t) + 3 - j = n
            BY <1>3
        <3> HIDE DEF D
        <3> QED
            BY <2>2, <3>1, <3>2
    <2> HIDE DEF S
    <2>3. \A n \in Nat : n \in S
        BY <2>1, <2>2, Induction
    <2> TAKE j \in D
    <2>4. Len(t) + 3 - j < (Len(t) + 3 - j) + 1 /\ (Len(t) + 3 - j) + 1 \in Nat
        BY <1>3
    <2>5. (Len(t) + 3 - j) + 1 \in S
        BY <2>3, <2>4
    <2> QED
        BY <2>4, <2>5, Zenon DEF S
<1>15. from \in [D -> Nat]
    <2> HIDE DEF D, Body
    <2> QED
        BY <1>12, <1>14
<1>16. ASSUME NEW j \in 1 .. Len(t)
       PROVE  /\ t[j] = 34 => from[j] = j + 1
              /\ t[j] = 92 => from[j] = from[j + 2]
              /\ t[j] \notin {34, 92} => from[j] = from[j + 1]
    <2>1. j \in D /\ ~(j > Len(t)) /\ 34 # 92
        BY <1>2
    <2>2. from[j] = Body(from, j)
        BY <1>13, <2>1
    <2> QED
        BY <2>1, <2>2 DEF QuoteMark, Backslash
<1>17. ASSUME NEW j \in Len(t) + 1 .. Len(t) + 3 PROVE from[j] = 0
    <2>1. j \in D /\ j > Len(t)
        BY <1>2
    <2> QED
        BY <1>13, <2>1
<1> QED
    BY <1>1, <1>15, <1>16, <1>17, Zenon DEF EndsFrom

\* Behind the part of a character readString goes on as behind the part.
LEMMA CharacterPassed ==
    ASSUME NEW t \in Seq(Byte), NEW from, EndsFrom(t, from),
           NEW c \in Byte, NEW i \in Nat
    PROVE  Spelt(t, i, Escaped(c)) => from[i + 1] = from[i + Len(Escaped(c)) + 1]
<1> SUFFICES ASSUME Spelt(t, i, Escaped(c))
             PROVE  from[i + 1] = from[i + Len(Escaped(c)) + 1]
    OBVIOUS
<1> DEFINE e == Escaped(c)
           j == i + 1
<1>1. AsItIs(c, e) \/ ByLetter(c, e) \/ InHex(c, e)
    BY EscapedForms, Zenon
<1>2. i + Len(e) <= Len(t) /\ \A n \in 1 .. Len(e) : t[i + n] = e[n]
    BY Zenon DEF Spelt
<1>3. Len(t) \in Nat
    OBVIOUS
<1>4. \A k \in 1 .. Len(t) : /\ t[k] = 92 => from[k] = from[k + 2]
                             /\ t[k] \notin {34, 92} => from[k] = from[k + 1]
    BY Zenon DEF EndsFrom
<1> HIDE DEF e
<1>5. CASE AsItIs(c, e)
    <2>1. e = <<c>> /\ c \notin {34, 92}
        BY <1>5, Zenon DEF AsItIs
    <2>2. Len(e) = 1 /\ e[1] = c
        BY <2>1
    <2>3. t[j] = c /\ j \in 1 .. Len(t)
        BY <1>2, <1>3, <2>2
    <2>4. from[j] = from[j + 1]
        BY <1>4, <2>1, <2>3, Zenon
    <2> QED
        BY <2>2, <2>4 DEF e
<1>6. CASE ByLetter(c, e)
    <2>1. Len(e) = 2 /\ e[1] = 92
        BY <1>6, Zenon DEF ByLetter
    <2>2. t[j] = 92 /\ j \in 1 .. Len(t)
        BY <1>2, <1>3, <2>1
    <2>3. from[j] = from[j + 2]
        BY <1>4, <2>2, Zenon
    <2> QED
        BY <2>1, <2>3 DEF e
<1>7. CASE InHex(c, e)
    <2>1. /\ Len(e) = 6 /\ e[1] = 92 /\ e[3] = 48 /\ e[4] = 48
          /\ e[5] \notin {34, 92} /\ e[6] \notin {34, 92}
        BY <1>7, Zenon DEF InHex
    <2>2. /\ t[j] = 92 /\ t[j + 2] = 48 /\ t[j + 3] = 48 /\ t[j + 4] = e[5] /\ t[j + 5] = e[6]
          /\ j \in 1 .. Len(t) /\ j + 2 \in 1 .. Len(t) /\ j + 3 \in 1 .. Len(t)
          /\ j + 4 \in 1 .. Len(t) /\ j + 5 \in 1 .. Len(t)
        BY <1>2, <1>3, <2>1, SMTT(40)
    <2>3. 48 \notin {34, 92}
        OBVIOUS
    <2>4. /\ from[j] = from[j + 2] /\ from[j + 2] = from[(j + 2) + 1]
          /\ from[j + 3] = from[(j + 3) + 1] /\ from[j + 4] = from[(j + 4) + 1]
          /\ from[j + 5] = from[(j + 5) + 1]
        BY <1>4, <2>1, <2>2, <2>3, ZenonT(60)
    <2>5. /\ (j + 2) + 1 = j + 3 /\ (j + 3) + 1 = j + 4 /\ (j + 4) + 1 = j + 5
          /\ (j + 5) + 1 = i + 6 + 1
        OBVIOUS
    <2>6. from[j] = from[i + 6 + 1]
        BY <2>4, <2>5, Zenon
    <2> QED
        BY <2>1, <2>6 DEF e
<1> QED
    BY <1>1, <1>5, <1>6, <1>7

\* Behind i is what s is written as, and the quote behind it.
Within(t, i, J) ==
    /\ i + Len(J) + 1 <= Len(t)
    /\ \A n \in 1 .. Len(J) : t[i + n] = J[n]
    /\ t[i + Len(J) + 1] = 34

\* The quote behind what s is written as is the one that ends the string: none
\* of the characters ends it before.
LEMMA EndFound ==
    ASSUME NEW t \in Seq(Byte), NEW i \in Nat, NEW s \in Seq(Byte),
           Within(t, i, Joined(Parts(s)))
    PROVE  StringEnd(t, i + 1) = i + Len(Joined(Parts(s))) + 2
<1> DEFINE parts == Parts(s)
           J == Joined(parts)
           L == Len(s)
           goal == i + Len(J) + 2
<1>1. /\ parts \in Seq(Seq(Byte)) /\ Len(parts) = L
      /\ \A k \in 1 .. L : parts[k] = Escaped(s[k]) /\ s[k] \in Byte
    BY PartsAre, Zenon
<1>2. L \in Nat /\ Len(t) \in Nat
    OBVIOUS
<1>3. J \in Seq(Byte) /\ \E place : Placed(J, parts, place)
    BY <1>1, JoinedPlaces, Zenon
<1>4. i + Len(J) + 1 <= Len(t) /\ t[i + Len(J) + 1] = 34 /\ \A n \in 1 .. Len(J) : t[i + n] = J[n]
    BY Zenon DEF Within
<1> HIDE DEF J, parts
<1>5. PICK place : Placed(J, parts, place)
    BY <1>3
<1>6. PICK from : EndsFrom(t, from)
    BY EndSteps
<1>7. /\ place \in [0 .. L -> Nat] /\ place[0] = 0 /\ place[L] = Len(J)
      /\ \A k \in 1 .. L : /\ place[k] = place[k - 1] + Len(parts[k])
                           /\ place[k] <= Len(J)
                           /\ \A n \in 1 .. Len(parts[k]) : J[place[k - 1] + n] = parts[k][n]
    BY <1>1, <1>5, Zenon DEF Placed
<1>8. \A c \in Byte : \A k \in Nat :
         Spelt(t, k, Escaped(c)) => from[k + 1] = from[k + Len(Escaped(c)) + 1]
    BY <1>6, CharacterPassed
<1>9. Len(J) \in Nat
    BY <1>3
<1> DEFINE Ok(k) == from[i + place[k] + 1] = goal
           S == {d \in Nat : d <= L => Ok(L - d)}
<1>10. 0 \in S
    <2> DEFINE j == i + Len(J) + 1
    <2>1. j \in 1 .. Len(t) /\ t[j] = 34 /\ j + 1 = goal
        BY <1>2, <1>4, <1>9
    <2> HIDE DEF j
    <2>2. from[j] = j + 1
        BY <1>6, <2>1, Zenon DEF EndsFrom
    <2>3. L - 0 = L /\ i + place[L] + 1 = j
        BY <1>2, <1>7 DEF j
    <2> QED
        BY <2>1, <2>2, <2>3
<1>11. ASSUME NEW d \in Nat, d \in S PROVE d + 1 \in S
    <2>1. ASSUME d + 1 <= L PROVE Ok(L - (d + 1))
        <3> DEFINE k == L - d
        <3>1. k \in 1 .. L /\ k - 1 = L - (d + 1) /\ k - 1 \in 0 .. L
            BY <1>2, <2>1
        <3>2. Ok(k)
            <4> HIDE DEF Ok
            <4> QED
                BY <1>2, <1>11, <2>1
        <3> HIDE DEF k, goal
        <3> DEFINE p == place[k - 1]
                   e == Escaped(s[k])
        <3>3. p \in Nat /\ parts[k] = e /\ s[k] \in Byte /\ place[k] = p + Len(e) /\ place[k] <= Len(J)
            BY <1>1, <1>7, <3>1
        <3>4. e \in Seq(Byte)
            BY <3>3, EscapedForms, Zenon
        <3>5. \A n \in 1 .. Len(e) : J[p + n] = e[n]
            BY <1>7, <3>1, <3>3, Zenon
        <3> HIDE DEF p, e
        <3>6. Len(e) \in Nat /\ i + p \in Nat
            BY <3>3, <3>4
        <3>7. (i + p) + Len(e) <= Len(t)
            BY <1>2, <1>4, <1>9, <3>3, <3>6
        <3>8. \A n \in 1 .. Len(e) : t[(i + p) + n] = e[n]
            <4> TAKE n \in 1 .. Len(e)
            <4>1. p + n \in 1 .. Len(J) /\ (i + p) + n = i + (p + n)
                BY <1>9, <3>3, <3>6
            <4>2. t[i + (p + n)] = J[p + n]
                BY <1>4, <4>1, Zenon
            <4> QED
                BY <3>5, <4>1, <4>2, Zenon
        <3>9. Spelt(t, i + p, e)
            BY <3>7, <3>8, Zenon DEF Spelt
        <3>10. from[(i + p) + 1] = from[(i + p) + Len(e) + 1]
            BY <1>8, <3>3, <3>6, <3>9, Zenon DEF e
        <3>11. (i + p) + Len(e) + 1 = i + place[k] + 1
            BY <3>3, <3>6
        <3>12. Ok(k - 1)
            BY <3>2, <3>10, <3>11, Zenon DEF p
        <3> QED
            BY <3>1, <3>12, Zenon
    <2> HIDE DEF Ok
    <2>2. d + 1 \in Nat
        OBVIOUS
    <2> QED
        BY <2>1, <2>2
<1> HIDE DEF S
<1>12. \A d \in Nat : d \in S
    BY <1>10, <1>11, Induction
<1>13. Ok(0)
    <2>1. L \in S /\ L <= L /\ L - L = 0
        BY <1>2, <1>12
    <2> HIDE DEF Ok
    <2>2. Ok(L - L)
        BY <2>1 DEF S
    <2> QED
        BY <2>1, <2>2, Zenon
<1>14. i + place[0] + 1 = i + 1 /\ i + 1 \in 1 .. Len(t) + 3
    BY <1>2, <1>4, <1>7, <1>9
<1>15. StringEnd(t, i + 1) = from[i + 1]
    BY <1>6, <1>14, Zenon DEF EndsFrom
<1>16. from[i + 1] = goal
    BY <1>13, <1>14, Zenon
<1> QED
    BY <1>15, <1>16 DEF J, parts

\* No blank is skipped where there is none.
LEMMA NothingSkipped ==
    ASSUME NEW t \in Seq(Byte), NEW i \in 1 .. Len(t), NEW bytes, t[i] \notin bytes
    PROVE  After(t, i, bytes) = i
<1> DEFINE IsEnd(j) == /\ Char(t, j) \notin bytes
                       /\ \A k \in i .. j - 1 : Char(t, k) \in bytes
<1>1. After(t, i, bytes) = CHOOSE j \in i .. Len(t) + 2 : IsEnd(j)
    BY Zenon DEF After
<1>2. i \in i .. Len(t) + 2 /\ Char(t, i) = t[i]
    BY DEF Char
<1>3. \A k \in i .. i - 1 : FALSE
    OBVIOUS
<1>4. IsEnd(i)
    BY <1>2, <1>3
<1>5. ASSUME NEW j \in i .. Len(t) + 2, IsEnd(j) PROVE j = i
    <2>1. j > i => i \in i .. j - 1
        OBVIOUS
    <2>2. ~(j > i)
        BY <1>2, <1>5, <2>1
    <2> QED
        BY <2>2
<1> HIDE DEF IsEnd
<1> QED
    BY <1>1, <1>2, <1>4, <1>5

\* What is written for a string is read as one token, and stands for the string.
StringBack(t, i, s) ==
    LET token == TokenAt(t, i)
    IN  /\ token = Token("string", i, i + Len(Quoted(s)))
        /\ DecodedString(SubSeq(t, token.start + 1, token.stop - 2)) = Read(TRUE, s)

\* Bytes between quotes or brackets.
Enclosed(l, J, r) == <<l>> \o J \o <<r>>

IsEnclosed(Q, l, J, r) ==
    /\ Len(Q) = Len(J) + 2 /\ Len(J) \in Nat
    /\ Q[1] = l /\ Q[Len(J) + 2] = r
    /\ \A n \in 1 .. Len(J) : Q[n + 1] = J[n]

LEMMA EnclosedAre ==
    ASSUME NEW l \in Byte, NEW r \in Byte, NEW J \in Seq(Byte)
    PROVE  Enclosed(l, J, r) \in Seq(Byte) /\ IsEnclosed(Enclosed(l, J, r), l, J, r)
<1> DEFINE q == <<l>>
           p == <<r>>
           a == q \o J
           Q == a \o p
<1>1. /\ q \in Seq(Byte) /\ Len(q) = 1 /\ q[1] = l
      /\ p \in Seq(Byte) /\ Len(p) = 1 /\ p[1] = r
    OBVIOUS
<1> HIDE DEF q, p
<1>2. a \in Seq(Byte) /\ IsJoin(a, q, J, Byte)
    BY <1>1, JoinedAny
<1> HIDE DEF a
<1>3. Q \in Seq(Byte) /\ IsJoin(Q, a, p, Byte)
    BY <1>1, <1>2, JoinedAny
<1>4. Enclosed(l, J, r) = Q
    BY Zenon DEF Enclosed, Q, a, q, p
<1> HIDE DEF Q
<1>5. Len(J) \in Nat /\ Len(a) = Len(J) + 1 /\ Len(Q) = Len(J) + 2
    BY <1>1, <1>2, <1>3 DEF IsJoin
<1>6. 1 \in 1 .. Len(a) /\ 1 \in 1 .. Len(q) /\ 1 \in 1 .. Len(p) /\ Len(a) + 1 = Len(J) + 2
    BY <1>1, <1>5
<1>7. a[1] = l
    BY <1>1, <1>2, <1>6, Zenon DEF IsJoin
<1>8. Q[1] = l
    BY <1>3, <1>6, <1>7, Zenon DEF IsJoin
<1>9. Q[Len(a) + 1] = r
    BY <1>1, <1>3, <1>6, Zenon DEF IsJoin
<1>10. \A n \in 1 .. Len(J) : Q[n + 1] = J[n]
    <2> TAKE n \in 1 .. Len(J)
    <2>1. n + 1 \in 1 .. Len(a) /\ Len(q) + n = n + 1
        BY <1>1, <1>5
    <2>2. a[Len(q) + n] = J[n]
        BY <1>2, Zenon DEF IsJoin
    <2>3. Q[n + 1] = a[n + 1]
        BY <1>3, <2>1, Zenon DEF IsJoin
    <2> QED
        BY <2>1, <2>2, <2>3, Zenon
<1>11. Q[Len(J) + 2] = r
    BY <1>6, <1>9, Zenon
<1>12. IsEnclosed(Q, l, J, r)
    BY <1>5, <1>8, <1>10, <1>11, Zenon DEF IsEnclosed
<1> QED
    BY <1>3, <1>4, <1>12

LEMMA QuotedIs ==
    ASSUME NEW s \in Seq(Byte)
    PROVE  /\ Quoted(s) = Enclosed(QuoteMark, Joined(Parts(s)), QuoteMark) /\ Joined(Parts(s)) \in Seq(Byte)
           /\ Quoted(s) \in Seq(Byte) /\ Len(Quoted(s)) \in Nat /\ Len(Quoted(s)) >= 2
<1>1. Parts(s) \in Seq(Seq(Byte))
    BY PartsAre, Zenon
<1>2. Joined(Parts(s)) \in Seq(Byte)
    BY <1>1, JoinedPlaces, Zenon
<1>3. QuoteMark \in Byte
    BY SMT DEF QuoteMark, Byte
<1> DEFINE J == Joined(Parts(s))
<1>4. Quoted(s) = Enclosed(QuoteMark, J, QuoteMark)
    BY Zenon DEF Quoted, Enclosed, Parts
<1> HIDE DEF J
<1> DEFINE Q == Enclosed(QuoteMark, J, QuoteMark)
<1>5. Q \in Seq(Byte) /\ Len(Q) = Len(J) + 2 /\ Len(J) \in Nat
    BY <1>2, <1>3, EnclosedAre DEF J, IsEnclosed
<1> HIDE DEF Q
<1>6. Len(Q) \in Nat /\ Len(Q) >= 2
    BY <1>5
<1> QED
    BY <1>2, <1>4, <1>5, <1>6, Zenon DEF J, Q

\* Wherever it is in a text, and whatever is behind it.
LEMMA StringSpelt ==
    ASSUME NEW t \in Seq(Byte), NEW place \in Nat, NEW s \in Seq(Byte), Spelt(t, place, Quoted(s))
    PROVE  StringBack(t, place + 1, s)
<1> DEFINE J == Joined(Parts(s))
           Q == Enclosed(QuoteMark, J, QuoteMark)
           i == place + 1
<1>1. Quoted(s) = Q /\ J \in Seq(Byte)
    BY QuotedIs
<1>2. /\ Len(Q) = Len(J) + 2 /\ Len(J) \in Nat
      /\ Q[1] = 34 /\ Q[Len(J) + 2] = 34
      /\ \A n \in 1 .. Len(J) : Q[n + 1] = J[n]
    <2>1. QuoteMark \in Byte
        BY SMT DEF QuoteMark, Byte
    <2>2. J \in Seq(Byte)
        BY <1>1
    <2>3. /\ Len(Q) = Len(J) + 2 /\ Len(J) \in Nat
          /\ Q[1] = QuoteMark /\ Q[Len(J) + 2] = QuoteMark
          /\ \A n \in 1 .. Len(J) : Q[n + 1] = J[n]
        <3> HIDE DEF J
        <3>1. IsEnclosed(Q, QuoteMark, J, QuoteMark)
            BY <2>1, <2>2, EnclosedAre
        <3> HIDE DEF Q
        <3> QED
            BY <3>1, Zenon DEF IsEnclosed
    <2>4. QuoteMark = 34
        BY DEF QuoteMark
    <2> HIDE DEF Q
    <2> QED
        BY <2>3, <2>4
<1> HIDE DEF J, Q
<1>10. place + Len(Q) <= Len(t) /\ \A n \in 1 .. Len(Q) : t[place + n] = Q[n]
    BY <1>1, Zenon DEF Spelt
<1>14. Len(t) \in Nat
    OBVIOUS
<1>18. /\ i \in Nat /\ i \in 1 .. Len(t) /\ t[i] = 34
       /\ t[i + Len(J) + 1] = 34 /\ i + Len(J) + 1 <= Len(t)
    <2>1. 1 \in 1 .. Len(Q) /\ Len(J) + 2 \in 1 .. Len(Q)
        BY <1>2
    <2>2. t[place + 1] = 34 /\ t[place + (Len(J) + 2)] = 34
        BY <1>2, <1>10, <2>1, Zenon
    <2>3. i + Len(J) + 1 = place + (Len(J) + 2)
        BY <1>2
    <2> QED
        BY <1>2, <1>10, <1>14, <2>2, <2>3
<1>19. \A n \in 1 .. Len(J) : t[i + n] = J[n]
    <2> TAKE n \in 1 .. Len(J)
    <2>1. n + 1 \in 1 .. Len(Q) /\ place + (n + 1) = i + n
        BY <1>2
    <2> QED
        BY <1>2, <1>10, <2>1, ZenonT(60)
<1>15. i + Len(J) + 2 # 0 /\ i + Len(J) + 2 = i + Len(Q) /\ i + Len(Q) - 2 = i + Len(J)
    BY <1>2
<1> HIDE DEF i
<1>20. Within(t, i, J)
    BY <1>18, <1>19, Zenon DEF Within
<1>21. StringEnd(t, i + 1) = i + Len(J) + 2
    BY <1>18, <1>20, EndFound, Zenon DEF J
<1>22. After(t, i, Blanks) = i
    <2>1. 34 \notin Blanks
        BY SMT DEF Blanks, Space, TAB, CR, LF
    <2> QED
        BY <1>18, <2>1, NothingSkipped, Zenon
<1>23. TokenAt(t, i) = Token("string", i, i + Len(Q))
    <2>1. Char(t, i) = 34
        BY <1>18 DEF Char
    <2>2. 34 \notin DOMAIN Punctuation
        BY SMT DEF Punctuation, OpenBrace, CloseBrace, Open, Close, Comma, Colon
    <2>4. TokenFrom(t, i) = TokenIf("string", i, StringEnd(t, i + 1), Len(t) + 1)
        <3>1. /\ 34 = QuoteMark /\ 34 # Slash /\ 34 \notin Digits \cup {Minus}
              /\ 34 \notin DOMAIN Words /\ 34 # 0
            BY SMT DEF QuoteMark, Slash, Digits, Minus, Words
        <3> QED
            BY <2>1, <2>2, <3>1, SMT DEF TokenFrom
    <2> QED
        BY <1>15, <1>21, <1>22, <2>4, Zenon DEF TokenAt, TokenIf
<1>24. SubSeq(t, i + 1, i + Len(Q) - 2) = J
    <2>1. i + Len(Q) - 2 = i + Len(J)
        BY <1>14, <1>15, <1>18
    <2> DEFINE u == SubSeq(t, i + 1, i + Len(J))
    <2>2. u \in Seq(Byte) /\ Len(u) = Len(J) /\ \A n \in 1 .. Len(J) : u[n] = t[i + n]
        BY <1>14, <1>18
    <2> HIDE DEF u
    <2>3. u = J
        BY <1>1, <1>14, <1>19, <2>2
    <2> QED
        BY <2>1, <2>3 DEF u
<1>25. DecodedString(J) = Read(TRUE, s)
    BY TextRead, Zenon DEF J
<1>26. StringBack(t, i, s)
    <2>1. TokenAt(t, i) = Token("string", i, i + Len(Quoted(s)))
        BY <1>1, <1>23, Zenon
    <2> DEFINE token == TokenAt(t, i)
    <2>2. token = Token("string", i, i + Len(Q))
        BY <1>23
    <2> HIDE DEF token
    <2>3. token.start = i /\ token.stop = i + Len(Q)
        BY <2>2, SMT DEF Token
    <2> DEFINE start == token.start
               stop == token.stop
    <2>4. SubSeq(t, start + 1, stop - 2) = J
        <3>1. start = i /\ stop = i + Len(Q)
            BY <2>3
        <3> HIDE DEF start, stop
        <3>2. start + 1 = i + 1 /\ stop - 2 = i + Len(Q) - 2
            BY <1>14, <1>15, <1>18, <3>1
        <3> QED
            BY <1>24, <3>2, Zenon
    <2>5. DecodedString(SubSeq(t, token.start + 1, token.stop - 2)) = Read(TRUE, s)
        BY <1>25, <2>4, Zenon
    <2> QED
        BY <2>1, <2>5, Zenon DEF StringBack, token
<1> QED
    BY <1>26 DEF i

\* A text with what s is written as in it.
Around(before, s, rest) == before \o Quoted(s) \o rest

\* Every string, of whatever bytes and length, comes back from a message as it
\* was: what valueToQuotedStringN writes for it is read as one string token,
\* wherever it is in a text and whatever is behind it, and decodeString makes
\* the same bytes of what is between the quotes (jsoncpp.cpp:3823; jsoncpp.cpp:610,
\* readString; jsoncpp.cpp:776, decodeString).
THEOREM StringReadCorrect ==
    \A before, s, rest \in Seq(Byte) :
        StringBack(Around(before, s, rest), Len(before) + 1, s)
<1> TAKE before, s, rest \in Seq(Byte)
<1> DEFINE Q == Quoted(s)
           b == before \o Q
           t == b \o rest
<1>1. Q \in Seq(Byte)
    BY QuotedIs
<1> HIDE DEF Q
<1>2. b \in Seq(Byte) /\ IsJoin(b, before, Q, Byte)
    BY <1>1, JoinedAny
<1> HIDE DEF b
<1>3. t \in Seq(Byte) /\ IsJoin(t, b, rest, Byte)
    BY <1>2, JoinedAny
<1> HIDE DEF t
<1>4. Len(Q) \in Nat /\ Len(before) \in Nat /\ Len(rest) \in Nat
    BY <1>1
<1>5. Len(b) = Len(before) + Len(Q) /\ Len(t) = Len(b) + Len(rest)
    BY <1>2, <1>3, Zenon DEF IsJoin
<1>6. Len(before) + Len(Q) <= Len(t)
    BY <1>4, <1>5
<1>7. \A n \in 1 .. Len(Q) : t[Len(before) + n] = Q[n]
    <2> TAKE n \in 1 .. Len(Q)
    <2>1. n \in Nat /\ Len(before) + n \in 1 .. Len(b)
        BY <1>4, <1>5
    <2>2. b[Len(before) + n] = Q[n]
        BY <1>2, Zenon DEF IsJoin
    <2>3. t[Len(before) + n] = b[Len(before) + n]
        BY <1>3, <2>1, Zenon DEF IsJoin
    <2> QED
        BY <2>2, <2>3
<1>8. Spelt(t, Len(before), Quoted(s))
    BY <1>6, <1>7, Zenon DEF Spelt, Q
<1>9. t = Around(before, s, rest)
    BY DEF Around, t, b, Q
<1> QED
    BY <1>3, <1>4, <1>8, <1>9, StringSpelt

-----------------------------------------------------------------------------
(* Tokens                                                                    *)

\* At the end of a text there is a 0, and no other character.
LEMMA CharType ==
    ASSUME NEW t \in Seq(Byte), NEW i \in Nat \ {0}
    PROVE  /\ Char(t, i) \in Byte
           /\ Char(t, i) # 0 => i <= Len(t)
           /\ i <= Len(t) => Char(t, i) = t[i]
<1>1. 0 \in Byte
    BY SMT DEF Byte
<1>2. CASE i <= Len(t)
    BY <1>2 DEF Char
<1>3. CASE ~(i <= Len(t))
    BY <1>1, <1>3, Zenon DEF Char
<1> QED
    BY <1>2, <1>3

\* j is the first place from i on that holds none of these.
Skipped(t, i, bytes, j) ==
    /\ j \in i .. Len(t) + 1
    /\ Char(t, j) \notin bytes
    /\ \A k \in i .. j - 1 : Char(t, k) \in bytes

\* There is one, since behind the text is none.
LEMMA AfterFound ==
    ASSUME NEW t \in Seq(Byte), NEW i \in 1 .. Len(t) + 1, NEW bytes, 0 \notin bytes
    PROVE  Skipped(t, i, bytes, After(t, i, bytes))
<1> DEFINE L == Len(t)
           S == {j \in i .. L + 1 : Char(t, j) \notin bytes}
           IsEnd(j) == /\ Char(t, j) \notin bytes
                       /\ \A k \in i .. j - 1 : Char(t, k) \in bytes
<1>1. L \in Nat /\ i \in Nat
    OBVIOUS
<1>2. L + 1 \in S
    <2>1. Char(t, L + 1) = 0
        BY <1>1 DEF Char
    <2> QED
        BY <1>1, <2>1
<1>3. S \in SUBSET Nat
    BY <1>1
<1> HIDE DEF S
<1>4. PICK m \in S : \A n \in S : m <= n
    BY <1>2, <1>3, Least
<1>5. m \in i .. L + 1 /\ Char(t, m) \notin bytes
    BY DEF S
<1>6. \A k \in i .. m - 1 : Char(t, k) \in bytes
    <2> TAKE k \in i .. m - 1
    <2>1. k \in i .. L + 1 /\ ~(m <= k)
        BY <1>1, <1>5
    <2> QED
        BY <1>4, <2>1 DEF S
<1>7. After(t, i, bytes) = CHOOSE j \in i .. L + 2 : IsEnd(j)
    BY Zenon DEF After
<1>8. m \in i .. L + 2 /\ IsEnd(m)
    BY <1>1, <1>5, <1>6
<1>9. \A j \in i .. L + 2 : IsEnd(j) => j \in i .. L + 1
    <2> TAKE j \in i .. L + 2
    <2> HAVE IsEnd(j)
    <2>1. j = L + 2 => L + 1 \in i .. j - 1
        BY <1>1
    <2>2. Char(t, L + 1) \notin bytes
        BY <1>2 DEF S
    <2>3. j # L + 2
        BY <2>1, <2>2
    <2> QED
        BY <1>1, <2>3
<1>10. \E j \in i .. L + 2 : IsEnd(j)
    BY <1>8
<1> HIDE DEF IsEnd
<1> DEFINE e == After(t, i, bytes)
<1>11. e \in i .. L + 2 /\ IsEnd(e)
    BY <1>7, <1>10, Zenon
<1> HIDE DEF e
<1>12. e \in i .. L + 1
    BY <1>9, <1>11, Zenon
<1>13. Skipped(t, i, bytes, e)
    BY <1>11, <1>12, Zenon DEF Skipped, IsEnd
<1> QED
    BY <1>13 DEF e

\* The ends of numbers.
LEMMA NumberEnds ==
    ASSUME NEW t \in Seq(Byte), NEW i \in 1 .. Len(t) + 1
    PROVE  NumberEnd(t, i) \in i .. Len(t) + 1
<1>1. 0 \notin Digits
    BY SMT DEF Digits
<1>2. \A j \in 1 .. Len(t) + 1 : After(t, j, Digits) \in j .. Len(t) + 1
    BY <1>1, AfterFound DEF Skipped
<1>3. \A j \in 1 .. Len(t) + 1 : Char(t, j) # 0 => j + 1 \in 1 .. Len(t) + 1
    <2> TAKE j \in 1 .. Len(t) + 1
    <2>1. j \in Nat \ {0}
        OBVIOUS
    <2> QED
        BY <2>1, CharType
<1>4. \A j \in 1 .. Len(t) + 1 : FractionEnd(t, j) \in j .. Len(t) + 1
    <2> TAKE j \in 1 .. Len(t) + 1
    <2>1. CASE Char(t, j) = Dot
        <3>1. j + 1 \in 1 .. Len(t) + 1
            BY <1>3, <2>1, SMT DEF Dot
        <3>2. After(t, j + 1, Digits) \in (j + 1) .. Len(t) + 1
            BY <1>2, <3>1
        <3>3. FractionEnd(t, j) = After(t, j + 1, Digits)
            BY <2>1, Zenon DEF FractionEnd
        <3> QED
            BY <3>2, <3>3
    <2>2. CASE Char(t, j) # Dot
        BY <2>2 DEF FractionEnd
    <2> QED
        BY <2>1, <2>2
<1>5. \A j \in 1 .. Len(t) + 1 : ExponentEnd(t, j) \in j .. Len(t) + 1
    <2> TAKE j \in 1 .. Len(t) + 1
    <2>1. CASE Char(t, j) \in {69, 101}
        <3> DEFINE k == IF Char(t, j + 1) \in {Plus, Minus} THEN j + 2 ELSE j + 1
        <3>1. j + 1 \in 1 .. Len(t) + 1
            BY <1>3, <2>1
        <3>2. Char(t, j + 1) \in {Plus, Minus} => (j + 1) + 1 \in 1 .. Len(t) + 1
            BY <1>3, <3>1, SMT DEF Plus, Minus
        <3>3. k \in j .. Len(t) + 1 /\ k \in 1 .. Len(t) + 1
            BY <3>1, <3>2
        <3>4. ExponentEnd(t, j) = After(t, k, Digits)
            BY <2>1, Zenon DEF ExponentEnd
        <3> HIDE DEF k
        <3>5. After(t, k, Digits) \in k .. Len(t) + 1
            BY <1>2, <3>3
        <3> QED
            BY <3>3, <3>4, <3>5
    <2>2. CASE Char(t, j) \notin {69, 101}
        BY <2>2 DEF ExponentEnd
    <2> QED
        BY <2>1, <2>2
<1> DEFINE a == After(t, i, Digits)
           b == FractionEnd(t, a)
<1>6. a \in i .. Len(t) + 1 /\ a \in 1 .. Len(t) + 1
    BY <1>2
<1> HIDE DEF a
<1>7. b \in a .. Len(t) + 1 /\ b \in 1 .. Len(t) + 1
    BY <1>4, <1>6
<1> HIDE DEF b
<1>8. ExponentEnd(t, b) \in b .. Len(t) + 1
    BY <1>5, <1>7
<1>9. NumberEnd(t, i) = ExponentEnd(t, b)
    BY Zenon DEF NumberEnd, a, b
<1> QED
    BY <1>6, <1>7, <1>8, <1>9

\* The end of a string is behind its beginning.
LEMMA StringEnds ==
    ASSUME NEW t \in Seq(Byte), NEW i \in 1 .. Len(t) + 1
    PROVE  StringEnd(t, i) = 0 \/ StringEnd(t, i) \in i .. Len(t) + 1
<1>1. PICK from : EndsFrom(t, from)
    BY EndSteps
<1> DEFINE L == Len(t)
           Ok(j) == from[j] = 0 \/ from[j] \in j .. L + 1
           S == {d \in Nat : \A j \in 1 .. L + 3 : L + 3 - j < d => Ok(j)}
<1>2. L \in Nat
    OBVIOUS
<1>3. /\ \A j \in 1 .. L : /\ t[j] = 34 => from[j] = j + 1
                           /\ t[j] = 92 => from[j] = from[j + 2]
                           /\ t[j] \notin {34, 92} => from[j] = from[j + 1]
      /\ \A j \in L + 1 .. L + 3 : from[j] = 0
      /\ \A j \in 1 .. L + 3 : StringEnd(t, j) = from[j]
    BY <1>1, Zenon DEF EndsFrom
<1>4. 0 \in S
    BY <1>2
<1>5. ASSUME NEW d \in Nat, d \in S PROVE d + 1 \in S
    <2>1. ASSUME NEW j \in 1 .. L + 3, L + 3 - j < d + 1 PROVE Ok(j)
        <3>1. \A k \in 1 .. L + 3 : k > j => Ok(k)
            BY <1>2, <1>5, <2>1
        <3> HIDE DEF S
        <3>2. CASE j > L
            BY <1>2, <1>3, <3>2
        <3>3. CASE j <= L /\ t[j] = 34
            BY <1>2, <1>3, <3>3
        <3>4. CASE j <= L /\ t[j] = 92
            <4>1. j + 2 \in 1 .. L + 3 /\ j + 2 > j /\ j \in 1 .. L
                BY <1>2, <3>4
            <4>2. Ok(j + 2) /\ from[j] = from[j + 2]
                BY <1>3, <3>1, <3>4, <4>1
            <4> QED
                BY <1>2, <4>1, <4>2
        <3>5. CASE j <= L /\ t[j] \notin {34, 92}
            <4>1. j + 1 \in 1 .. L + 3 /\ j + 1 > j /\ j \in 1 .. L
                BY <1>2, <3>5
            <4>2. Ok(j + 1) /\ from[j] = from[j + 1]
                BY <1>3, <3>1, <3>5, <4>1
            <4> QED
                BY <1>2, <4>1, <4>2
        <3> QED
            BY <1>2, <3>2, <3>3, <3>4, <3>5
    <2> HIDE DEF Ok
    <2>2. d + 1 \in Nat
        OBVIOUS
    <2> QED
        BY <2>1, <2>2
<1> HIDE DEF S
<1>6. \A d \in Nat : d \in S
    BY <1>4, <1>5, Induction
<1>7. Ok(i)
    <2>1. L + 4 \in S /\ i \in 1 .. L + 3 /\ L + 3 - i < L + 4
        BY <1>2, <1>6
    <2> HIDE DEF Ok
    <2> QED
        BY <2>1 DEF S
<1>8. i \in 1 .. L + 3
    BY <1>2
<1> QED
    BY <1>3, <1>7, <1>8, Zenon

\* So is the end of a comment.
LEMMA CommentEnds ==
    ASSUME NEW t \in Seq(Byte), NEW i \in 1 .. Len(t) + 1
    PROVE  CommentEnd(t, i) = 0 \/ CommentEnd(t, i) \in i .. Len(t) + 1
<1> DEFINE L == Len(t)
           places == {j \in i + 1 .. L :
                         IF Char(t, i) = Star
                           THEN Char(t, j) = Star /\ Char(t, j + 1) = Slash
                           ELSE Char(t, j) \in {LF, CR}}
           first == CHOOSE j \in places : \A k \in places : j <= k
           e == IF Char(t, i) \notin {Star, Slash} THEN 0
                ELSE IF places = {} THEN (IF Char(t, i) = Slash THEN L + 1 ELSE 0)
                ELSE IF \/ Char(t, i) = Star
                        \/ Char(t, first) = CR /\ Char(t, first + 1) = LF
                       THEN first + 2
                ELSE first + 1
<1>1. CommentEnd(t, i) = e
    BY Zenon DEF CommentEnd
<1>2. L \in Nat /\ i \in Nat
    OBVIOUS
<1>3. ASSUME places # {}
      PROVE  /\ first \in i + 1 .. L
             /\ Char(t, i) = Star => Char(t, first + 1) = Slash
    <2>1. places \in SUBSET Nat
        BY <1>2
    <2>2. \E j \in places : \A k \in places : j <= k
        <3> HIDE DEF places
        <3> QED
            BY <1>3, <2>1, Least
    <2>3. first \in places
        <3> HIDE DEF places
        <3> QED
            BY <2>2, Zenon
    <2> HIDE DEF first
    <2> QED
        BY <2>3
<1> HIDE DEF places, first
<1>4. ASSUME NEW j \in Nat \ {0}, Char(t, j) \in {Slash, LF} PROVE j + 1 \in 1 .. L + 1
    <2>1. Char(t, j) # 0
        BY <1>4, SMT DEF Slash, LF
    <2> QED
        BY <2>1, CharType
<1>5. ASSUME places # {}, \/ Char(t, i) = Star
                          \/ Char(t, first) = CR /\ Char(t, first + 1) = LF
      PROVE  first + 2 \in i .. L + 1
    <2>1. Char(t, first + 1) \in {Slash, LF} /\ first + 1 \in Nat \ {0} /\ first \in i + 1 .. L
        BY <1>2, <1>3, <1>5
    <2> DEFINE j == first + 1
    <2>2. j + 1 \in 1 .. L + 1
        <3> HIDE DEF j
        <3> QED
            BY <1>4, <2>1 DEF j
    <2> QED
        BY <1>2, <2>1, <2>2
<1>6. places # {} => first + 1 \in i .. L + 1
    BY <1>2, <1>3
<1>7. e = 0 \/ e \in i .. L + 1
    <2>1. L + 1 \in i .. L + 1
        BY <1>2
    <2> QED
        BY <1>5, <1>6, <2>1, Zenon
<1> HIDE DEF e
<1> QED
    BY <1>1, <1>7, Zenon

\* The characters that tokens begin with.
LEMMA Beginnings ==
    /\ DOMAIN Punctuation = {123, 125, 91, 93, 44, 58}
    /\ DOMAIN Words = {116, 102, 110}
    /\ \A c : /\ c \in DOMAIN Punctuation => c \notin Digits \cup {Minus}
              /\ c \in Digits \cup {Minus} => c \notin DOMAIN Words \cup {QuoteMark, Slash, 0}
    /\ QuoteMark = 34 /\ Slash = 47
<1>1. DOMAIN Punctuation = {123, 125, 91, 93, 44, 58}
    BY SMT DEF Punctuation, OpenBrace, CloseBrace, Open, Close, Comma, Colon
<1>2. DOMAIN Words = {116, 102, 110}
    BY SMT DEF Words
<1>3. ASSUME NEW c, c \in {123, 125, 91, 93, 44, 58} PROVE c \notin Digits \cup {Minus}
    BY <1>3, SMT DEF Digits, Minus
<1>4. ASSUME NEW c, c \in Digits \cup {Minus}
      PROVE  c \notin {116, 102, 110} \cup {QuoteMark, Slash, 0}
    BY <1>4, SMT DEF Digits, Minus, QuoteMark, Slash
<1>5. QuoteMark = 34 /\ Slash = 47
    BY DEF QuoteMark, Slash
<1> QED
    BY <1>1, <1>2, <1>3, <1>4, <1>5

\* What readToken makes of each of them.
LEMMA TokenBegins ==
    ASSUME NEW t, NEW s
    PROVE  LET c == Char(t, s)
           IN  /\ c \in DOMAIN Punctuation => TokenFrom(t, s) = Token(Punctuation[c], s, s + 1)
               /\ c = QuoteMark => TokenFrom(t, s) = TokenIf("string", s, StringEnd(t, s + 1), Len(t) + 1)
               /\ c = Slash =>
                     TokenFrom(t, s) =
                        TokenIf("comment", s, CommentEnd(t, s + 1),
                                IF Char(t, s + 1) = Star \/ s = Len(t) THEN Len(t) + 1 ELSE s + 2)
               /\ c \in Digits \cup {Minus} => TokenFrom(t, s) = Token("number", s, NumberEnd(t, s + 1))
               /\ c \in DOMAIN Words => TokenFrom(t, s) = TokenIf("word", s, WordEnd(t, s), s + 1)
               /\ c = 0 => TokenFrom(t, s) = Token("end", s, IF s > Len(t) THEN Len(t) + 1 ELSE s + 1)
               /\ c \notin DOMAIN Punctuation \cup DOMAIN Words \cup Digits \cup {Minus, QuoteMark, Slash, 0}
                     => TokenFrom(t, s) = Token("error", s, s + 1)
<1> DEFINE c == Char(t, s)
           P == DOMAIN Punctuation
           W == DOMAIN Words
           N == Digits \cup {Minus}
           p == Token(Punctuation[c], s, s + 1)
           q == TokenIf("string", s, StringEnd(t, s + 1), Len(t) + 1)
           r == TokenIf("comment", s, CommentEnd(t, s + 1),
                        IF Char(t, s + 1) = Star \/ s = Len(t) THEN Len(t) + 1 ELSE s + 2)
           n == Token("number", s, NumberEnd(t, s + 1))
           w == TokenIf("word", s, WordEnd(t, s), s + 1)
           e == Token("end", s, IF s > Len(t) THEN Len(t) + 1 ELSE s + 1)
           o == Token("error", s, s + 1)
<1>1. TokenFrom(t, s) =
        CASE c \in P -> p [] c = QuoteMark -> q [] c = Slash -> r [] c \in N -> n
          [] c \in W -> w [] c = 0 -> e [] OTHER -> o
    BY Zenon DEF TokenFrom
<1>2. /\ P = {123, 125, 91, 93, 44, 58} /\ W = {116, 102, 110}
      /\ c \in P => c \notin N
      /\ c \in N => c \notin W \cup {QuoteMark, Slash, 0}
      /\ QuoteMark = 34 /\ Slash = 47
    BY Beginnings, Zenon
<1>3. c \in Digits \/ c = Minus <=> c \in N
    OBVIOUS
<1> HIDE DEF c, P, W, N, p, q, r, n, w, e, o
<1>4. /\ c \in P => TokenFrom(t, s) = p
      /\ c = QuoteMark => TokenFrom(t, s) = q
      /\ c = Slash => TokenFrom(t, s) = r
      /\ c \in N => TokenFrom(t, s) = n
      /\ c \in W => TokenFrom(t, s) = w
      /\ c = 0 => TokenFrom(t, s) = e
      /\ c \notin P \cup W \cup Digits \cup {Minus, QuoteMark, Slash, 0} => TokenFrom(t, s) = o
    BY <1>1, <1>2, <1>3, SMT
<1> QED
    BY <1>4, Zenon DEF c, P, W, N, p, q, r, n, w, e, o

\* A token ends behind its beginning, and in the text.
Onward(t, i, token) ==
    /\ token.stop \in i .. Len(t) + 1
    /\ token.type # "end" => token.stop \in i + 1 .. Len(t) + 1

\* Every token but the end takes at least one character.
LEMMA TokenOnward ==
    ASSUME NEW t \in Seq(Byte), NEW i \in 1 .. Len(t) + 1
    PROVE  Onward(t, i, TokenAt(t, i))
<1> DEFINE L == Len(t)
           s == After(t, i, Blanks)
           c == Char(t, s)
<1>1. L \in Nat /\ i \in Nat
    OBVIOUS
<1>2. s \in i .. L + 1
    <2>1. 0 \notin Blanks
        BY SMT DEF Blanks, Space, TAB, CR, LF
    <2> QED
        BY <2>1, AfterFound DEF Skipped
<1>3. TokenAt(t, i) = TokenFrom(t, s)
    BY Zenon DEF TokenAt
<1> HIDE DEF s
<1>4. s \in Nat \ {0} /\ s \in 1 .. L + 1
    BY <1>1, <1>2
<1>5. c # 0 => s + 1 \in i + 1 .. L + 1 /\ s + 1 \in 1 .. L + 1
    <2>1. c # 0 => s <= L
        BY <1>4, CharType
    <2> QED
        BY <1>1, <1>2, <2>1
<1>6. \A kind, stop : stop \in i + 1 .. L + 1 => Onward(t, i, Token(kind, s, stop))
    BY <1>1, SMT DEF Onward, Token
<1>7. \A kind, stop, other : /\ stop = 0 \/ stop \in s + 1 .. L + 1
                             /\ other \in i + 1 .. L + 1
                             => Onward(t, i, TokenIf(kind, s, stop, other))
    <2> TAKE kind, stop, other
    <2> HAVE /\ stop = 0 \/ stop \in s + 1 .. L + 1
             /\ other \in i + 1 .. L + 1
    <2>1. CASE stop = 0
        BY <1>6, <2>1, Zenon DEF TokenIf
    <2>2. CASE stop # 0
        <3>1. stop \in i + 1 .. L + 1
            BY <1>1, <1>2, <2>2
        <3> QED
            BY <1>6, <2>2, <3>1, Zenon DEF TokenIf
    <2> QED
        BY <2>1, <2>2
<1> DEFINE k == TokenFrom(t, s)
<1>8. CASE c \in DOMAIN Punctuation
    <2>1. k = Token(Punctuation[c], s, s + 1)
        BY <1>8, TokenBegins, Zenon
    <2>2. c # 0
        BY <1>8, Beginnings
    <2> QED
        BY <1>3, <1>5, <1>6, <2>1, <2>2, Zenon
<1>9. CASE c = QuoteMark
    <2>1. k = TokenIf("string", s, StringEnd(t, s + 1), L + 1)
        BY <1>9, TokenBegins, Zenon
    <2>2. c # 0
        BY <1>9, SMT DEF QuoteMark
    <2>3. s + 1 \in 1 .. L + 1 /\ L + 1 \in i + 1 .. L + 1
        BY <1>1, <1>5, <2>2
    <2>4. StringEnd(t, s + 1) = 0 \/ StringEnd(t, s + 1) \in s + 1 .. L + 1
        BY <2>3, StringEnds
    <2> QED
        BY <1>3, <1>7, <2>1, <2>3, <2>4, Zenon
<1>10. CASE c = Slash
    <2> DEFINE other == IF Char(t, s + 1) = Star \/ s = L THEN L + 1 ELSE s + 2
    <2>1. k = TokenIf("comment", s, CommentEnd(t, s + 1), other)
        BY <1>10, TokenBegins, Zenon
    <2>2. c # 0
        BY <1>10, SMT DEF Slash
    <2>3. s + 1 \in 1 .. L + 1 /\ other \in i + 1 .. L + 1
        BY <1>1, <1>4, <1>5, <2>2
    <2>4. CommentEnd(t, s + 1) = 0 \/ CommentEnd(t, s + 1) \in s + 1 .. L + 1
        BY <2>3, CommentEnds
    <2> HIDE DEF other
    <2> QED
        BY <1>3, <1>7, <2>1, <2>3, <2>4, Zenon
<1>11. CASE c \in Digits \cup {Minus}
    <2>1. k = Token("number", s, NumberEnd(t, s + 1))
        BY <1>11, TokenBegins, Zenon
    <2>2. c # 0
        BY <1>11, Beginnings
    <2>3. s + 1 \in 1 .. L + 1
        BY <1>5, <2>2
    <2>4. NumberEnd(t, s + 1) \in (s + 1) .. L + 1
        BY <2>3, NumberEnds
    <2>5. NumberEnd(t, s + 1) \in i + 1 .. L + 1
        BY <1>1, <1>2, <2>4
    <2> QED
        BY <1>3, <1>6, <2>1, <2>5, Zenon
<1>12. CASE c \in DOMAIN Words
    <2>1. k = TokenIf("word", s, WordEnd(t, s), s + 1)
        BY <1>12, TokenBegins, Zenon
    <2>2. c # 0
        BY <1>12, Beginnings
    <2>3. s + 1 \in i + 1 .. L + 1 /\ s <= L
        BY <1>4, <1>5, <2>2, CharType
    <2>4. WordEnd(t, s) = 0 \/ WordEnd(t, s) \in s + 1 .. L + 1
        <3> DEFINE word == Words[t[s]]
        <3>1. c = t[s]
            BY <1>4, <2>3, CharType
        <3>2. word \in {TrueWord, FalseWord, NullWord}
            BY <1>12, <3>1, SMT DEF Words
        <3>3. Len(word) \in {4, 5}
            <4>1. Len(TrueWord) = 4 /\ Len(FalseWord) = 5 /\ Len(NullWord) = 4
                BY DEF TrueWord, FalseWord, NullWord
            <4> HIDE DEF word
            <4> QED
                BY <3>2, <4>1
        <3>4. WordEnd(t, s) = IF s + Len(word) <= L + 1 /\ SubSeq(t, s, s + Len(word) - 1) = word
                                THEN s + Len(word) ELSE 0
            BY Zenon DEF WordEnd
        <3> HIDE DEF word
        <3>5. CASE s + Len(word) <= L + 1 /\ SubSeq(t, s, s + Len(word) - 1) = word
            <4>1. WordEnd(t, s) = s + Len(word)
                BY <3>4, <3>5, Zenon
            <4> QED
                BY <1>1, <1>4, <3>3, <3>5, <4>1
        <3>6. CASE ~(s + Len(word) <= L + 1 /\ SubSeq(t, s, s + Len(word) - 1) = word)
            BY <3>4, <3>6, Zenon
        <3> QED
            BY <3>5, <3>6
    <2> QED
        BY <1>3, <1>7, <2>1, <2>3, <2>4, Zenon
<1>13. CASE c = 0
    <2> DEFINE stop == IF s > L THEN L + 1 ELSE s + 1
    <2>1. k = Token("end", s, stop)
        BY <1>13, TokenBegins, Zenon
    <2>2. stop \in i .. L + 1
        BY <1>1, <1>2
    <2> HIDE DEF stop
    <2>3. Onward(t, i, Token("end", s, stop))
        BY <2>2, SMT DEF Onward, Token
    <2> QED
        BY <1>3, <2>1, <2>3, Zenon
<1>14. CASE c \notin DOMAIN Punctuation \cup DOMAIN Words \cup Digits \cup {Minus, QuoteMark, Slash, 0}
    <2>1. k = Token("error", s, s + 1)
        BY <1>14, TokenBegins, Zenon
    <2> QED
        BY <1>3, <1>5, <1>6, <1>14, <2>1, Zenon
<1> QED
    BY <1>8, <1>9, <1>10, <1>11, <1>12, <1>13, <1>14, Zenon

\* skipCommentTokens takes what readToken reads, unless that is a comment: then
\* it goes on behind it.
NextIs(t, i) ==
    NextToken(t, i) = IF TokenAt(t, i).type = "comment" THEN NextToken(t, TokenAt(t, i).stop)
                      ELSE TokenAt(t, i)

LEMMA NextSteps ==
    ASSUME NEW t \in Seq(Byte)
    PROVE  \A i \in 1 .. Len(t) + 1 : NextIs(t, i)
<1> DEFINE L == Len(t)
           D == 1 .. L + 2
           token(j) == TokenAt(t, j)
           Body(f, j) == IF token(j).type = "comment" THEN f[token(j).stop] ELSE token(j)
           V == {token(j) : j \in D}
           leaves == {j \in D : token(j).type # "comment"}
           start == [j \in leaves |-> token(j)]
           pred == [j \in D \ leaves |-> token(j).stop]
           step == [j \in D \ leaves |-> [v \in V |-> v]]
           rank == [j \in D |-> L + 2 - j]
           from[j \in D] == Body(from, j)
<1>1. L \in Nat /\ leaves \in SUBSET D /\ rank \in [D -> Nat]
    OBVIOUS
<1>2. token(L + 2).type = "end"
    <2> DEFINE j == L + 2
               e == After(t, j, Blanks)
               IsEnd(k) == /\ Char(t, k) \notin Blanks
                           /\ \A m \in j .. k - 1 : Char(t, m) \in Blanks
    <2>1. Char(t, j) = 0
        BY <1>1 DEF Char
    <2>2. e = CHOOSE k \in j .. L + 2 : IsEnd(k)
        BY Zenon DEF After
    <2>3. j \in j .. L + 2 /\ IsEnd(j)
        <3>1. 0 \notin Blanks
            BY SMT DEF Blanks, Space, TAB, CR, LF
        <3>2. \A m \in j .. j - 1 : FALSE
            BY <1>1
        <3> QED
            BY <1>1, <2>1, <3>1, <3>2
    <2> HIDE DEF IsEnd
    <2>4. e \in j .. L + 2
        BY <2>2, <2>3, Zenon
    <2>5. e = L + 2
        BY <1>1, <2>4
    <2> HIDE DEF e
    <2>6. Char(t, e) = 0
        BY <2>1, <2>5
    <2>7. TokenFrom(t, e) = Token("end", e, IF e > Len(t) THEN Len(t) + 1 ELSE e + 1)
        BY <2>6, TokenBegins, Zenon
    <2>8. token(j) = TokenFrom(t, e)
        BY Zenon DEF TokenAt, e
    <2> QED
        BY <2>7, <2>8, SMT DEF Token
<1>3. \A j \in D \ leaves : j \in 1 .. L + 1 /\ token(j).stop \in j + 1 .. L + 1
    <2> TAKE j \in D \ leaves
    <2>1. token(j).type = "comment"
        OBVIOUS
    <2>2. j # L + 2
        BY <1>2, <2>1
    <2>3. j \in 1 .. L + 1
        BY <1>1, <2>2
    <2>4. Onward(t, j, TokenAt(t, j))
        BY <2>3, TokenOnward
    <2> QED
        BY <2>1, <2>3, <2>4 DEF Onward
<1>4. pred \in [D \ leaves -> D]
    <2>1. \A j \in D \ leaves : token(j).stop \in D
        BY <1>1, <1>3
    <2> HIDE DEF token, leaves, D
    <2> QED
        BY <2>1
<1>5. \A j \in D \ leaves : rank[pred[j]] < rank[j]
    <2> TAKE j \in D \ leaves
    <2> DEFINE p == token(j).stop
    <2>1. p \in j + 1 .. L + 1 /\ j \in 1 .. L + 1
        BY <1>3
    <2>2. pred[j] = p
        OBVIOUS
    <2> HIDE DEF p, pred, token, leaves
    <2>3. p \in D /\ j \in D
        BY <1>1, <2>1
    <2>4. rank[p] = L + 2 - p /\ rank[j] = L + 2 - j
        BY <2>3
    <2> HIDE DEF rank
    <2> QED
        BY <1>1, <2>1, <2>2, <2>4
<1>6. start \in [leaves -> V]
    <2>1. \A j \in leaves : token(j) \in V
        BY Zenon
    <2> HIDE DEF V, leaves, token
    <2> QED
        BY <2>1
<1>7. step \in [D \ leaves -> [V -> V]]
    <2> HIDE DEF V, leaves
    <2> QED
        OBVIOUS
<1>8. PICK f : Recurs(V, leaves, start, pred, step, D, f)
    <2> HIDE DEF V, leaves, start, pred, step, D, rank
    <2> QED
        BY <1>1, <1>4, <1>5, <1>6, <1>7, Recursion
<1>9. /\ f \in [D -> V]
      /\ \A j \in D : f[j] = IF j \in leaves THEN start[j] ELSE step[j][f[pred[j]]]
    <2> HIDE DEF V, leaves, start, pred, step, D
    <2> QED
        BY <1>8, Zenon DEF Recurs
<1>10. \A j \in D : f[j] = Body(f, j)
    <2> TAKE j \in D
    <2>1. CASE j \in leaves
        <3>1. f[j] = start[j] /\ start[j] = token(j) /\ token(j).type # "comment"
            BY <1>9, <2>1
        <3> QED
            BY <3>1, Zenon
    <2>2. CASE j \notin leaves
        <3>1. j \in D \ leaves /\ token(j).type = "comment"
            BY <2>2
        <3>2. f[j] = step[j][f[pred[j]]] /\ pred[j] = token(j).stop
            BY <1>9, <3>1
        <3>3. pred[j] \in D
            <4> HIDE DEF pred, D, leaves
            <4> QED
                BY <1>4, <3>1
        <3> DEFINE v == f[pred[j]]
        <3>4. v \in V
            <4> HIDE DEF pred, D, V
            <4> QED
                BY <1>9, <3>3
        <3> HIDE DEF v
        <3>5. step[j][v] = v
            <4> HIDE DEF V, leaves, D, token
            <4> QED
                BY <3>1, <3>4
        <3> QED
            BY <3>1, <3>2, <3>5, Zenon DEF v
    <2> QED
        BY <2>1, <2>2
<1>11. f = [j \in D |-> Body(f, j)]
    <2> HIDE DEF V, D, Body
    <2> QED
        BY <1>9, <1>10, Zenon
<1>12. from = [j \in D |-> Body(from, j)]
    <2>1. \E g : g = [j \in D |-> Body(g, j)]
        BY <1>11, Zenon
    <2> HIDE DEF Body, D
    <2> QED
        BY <2>1, Zenon
<1>13. \A j \in D : from[j] = Body(from, j)
    <2> HIDE DEF from, Body, D
    <2> QED
        BY <1>12, Zenon
<1>14. \A i : NextToken(t, i) = from[i]
    BY Zenon DEF NextToken
<1> HIDE DEF from
<1> TAKE i \in 1 .. Len(t) + 1
<1>15. i \in D
    BY <1>1
<1> QED
    BY <1>13, <1>14, <1>15, Zenon DEF NextIs

\* It goes on, too.
LEMMA NextOnward ==
    ASSUME NEW t \in Seq(Byte), NEW i \in 1 .. Len(t) + 1
    PROVE  /\ Onward(t, i, NextToken(t, i))
           /\ NextToken(t, i).stop \in TokenAt(t, i).stop .. Len(t) + 1
<1> DEFINE L == Len(t)
           Goes(j) == /\ Onward(t, j, NextToken(t, j))
                      /\ NextToken(t, j).stop \in TokenAt(t, j).stop .. Len(t) + 1
           S == {d \in Nat : \A j \in 1 .. L + 1 : L + 1 - j < d => Goes(j)}
<1>1. L \in Nat
    OBVIOUS
<1>2. 0 \in S
    BY <1>1
<1>3. ASSUME NEW d \in Nat, d \in S PROVE d + 1 \in S
    <2>1. ASSUME NEW j \in 1 .. L + 1, L + 1 - j < d + 1 PROVE Goes(j)
        <3> DEFINE token == TokenAt(t, j)
        <3>1. Onward(t, j, token) /\ NextIs(t, j)
            BY NextSteps, TokenOnward
        <3>2. CASE token.type = "comment"
            <4> DEFINE k == token.stop
            <4>1. NextToken(t, j) = NextToken(t, k)
                BY <3>1, <3>2, Zenon DEF NextIs
            <4>2. k \in j + 1 .. L + 1
                BY <3>1, <3>2, SMT DEF Onward
            <4> HIDE DEF k
            <4>3. k \in 1 .. L + 1 /\ L + 1 - k < d
                BY <1>1, <2>1, <4>2
            <4>4. Goes(k)
                <5> HIDE DEF Goes
                <5> QED
                    BY <1>3, <4>3
            <4> DEFINE next == NextToken(t, k)
                       stop == next.stop
            <4>5. stop \in k .. L + 1
                BY <4>4 DEF Onward
            <4> HIDE DEF stop
            <4>6. stop \in j .. L + 1 /\ stop \in j + 1 .. L + 1
                BY <1>1, <2>1, <4>2, <4>5
            <4>7. Onward(t, j, next)
                BY <4>6, Zenon DEF Onward, stop
            <4> QED
                BY <4>1, <4>5, <4>7, Zenon DEF k, stop
        <3>3. CASE token.type # "comment"
            <4>1. NextToken(t, j) = token
                BY <3>1, <3>3, Zenon DEF NextIs
            <4> DEFINE stop == token.stop
            <4>2. stop \in j .. L + 1
                BY <3>1, Zenon DEF Onward
            <4> HIDE DEF stop
            <4>3. stop \in stop .. L + 1
                BY <1>1, <2>1, <4>2
            <4> QED
                BY <3>1, <4>1, <4>3, Zenon DEF stop
        <3> QED
            BY <3>2, <3>3
    <2> HIDE DEF Goes
    <2>2. d + 1 \in Nat
        OBVIOUS
    <2> QED
        BY <2>1, <2>2
<1> HIDE DEF S
<1>4. \A d \in Nat : d \in S
    BY <1>2, <1>3, Induction
<1>5. L + 1 \in S /\ L + 1 - i < L + 1 /\ L + 1 \in Nat
    BY <1>1, <1>4
<1> HIDE DEF Goes
<1>6. Goes(i)
    BY <1>5 DEF S
<1> QED
    BY <1>6, Zenon DEF Goes

-----------------------------------------------------------------------------
(* The functions of the parser                                               *)

\* A part that was read well ends behind its beginning, in the text.
Reaches(t, i, part) == part.end = "ok" => part.at \in i + 1 .. Len(t) + 1

LEMMA ThenIs ==
    /\ \A v, a : Good(v, a).end = "ok" /\ Good(v, a).of = v /\ Good(v, a).at = a
    /\ Failed.end # "ok" /\ TooDeep.end # "ok"
    /\ \A part, made : /\ part.end = "ok" => Then(part, made) = made
                       /\ part.end # "ok" => Then(part, made) = part
<1>1. \A v, a : Good(v, a).end = "ok" /\ Good(v, a).of = v /\ Good(v, a).at = a
    BY DEF Good
<1>2. Failed.end # "ok" /\ TooDeep.end # "ok"
    BY DEF Failed, TooDeep
<1>3. \A part, made : /\ part.end = "ok" => Then(part, made) = made
                      /\ part.end # "ok" => Then(part, made) = part
    BY Zenon DEF Then
<1> QED
    BY <1>1, <1>2, <1>3, Zenon

LEMMA PartsReach ==
    ASSUME NEW t, NEW i
    PROVE  /\ \A v : \A a \in i + 1 .. Len(t) + 1 : Reaches(t, i, Good(v, a))
           /\ Reaches(t, i, Failed) /\ Reaches(t, i, TooDeep)
           /\ \A part, made : (part.end = "ok" => Reaches(t, i, made))
                                => Reaches(t, i, Then(part, made))
<1>1. ASSUME NEW v, NEW a \in i + 1 .. Len(t) + 1 PROVE Reaches(t, i, Good(v, a))
    BY SMT DEF Reaches, Good
<1>2. Reaches(t, i, Failed) /\ Reaches(t, i, TooDeep)
    BY ThenIs, Zenon DEF Reaches
<1>3. ASSUME NEW part, NEW made, part.end = "ok" => Reaches(t, i, made)
      PROVE  Reaches(t, i, Then(part, made))
    <2>1. CASE part.end = "ok"
        BY <1>3, <2>1, ThenIs, Zenon
    <2>2. CASE part.end # "ok"
        BY <2>2, ThenIs, Zenon DEF Reaches
    <2> QED
        BY <2>1, <2>2
<1> QED
    BY <1>1, <1>2, <1>3, Zenon

\* A call that begins at a.
IsCall(t, a, call) == call \in Calls(t) /\ call.at = a

LEMMA CallsAre ==
    ASSUME NEW t, NEW a \in 1 .. Len(t) + 1, NEW d \in 0 .. StackLimit
    PROVE  /\ IsCall(t, a, ValueAt(a, d)) /\ IsCall(t, a, ElementsAt(a, d))
           /\ \A n \in BOOLEAN : IsCall(t, a, MembersAt(a, d, n))
<1>1. IsCall(t, a, ValueAt(a, d)) /\ IsCall(t, a, ElementsAt(a, d))
    BY SMT DEF ValueAt, ElementsAt, Calls, IsCall
<1>2. ASSUME NEW n \in BOOLEAN PROVE IsCall(t, a, MembersAt(a, d, n))
    BY SMT DEF MembersAt, Calls, IsCall
<1> QED
    BY <1>1, <1>2

\* The functions are called for values that are deeper by one.
LEMMA DepthNext ==
    ASSUME NEW d \in 0 .. StackLimit, ~(d >= StackLimit) PROVE d + 1 \in 0 .. StackLimit
<1> QED
    BY StackLimitAssumption

\* Two of these functions read the same for a call, and it goes on.
Agree(t, f, g, other) == f[other] = g[other] /\ Reaches(t, other.at, f[other])

\* For every call that begins behind i they do.
Beyond(t, f, g, i) == \A other \in Calls(t) : other.at > i => Agree(t, f, g, other)

\* So they read the same in a call at i.
Same(t, i, p, q) == p = q /\ Reaches(t, i, p)

LEMMA SameIs ==
    ASSUME NEW t, NEW i, NEW p, NEW q, NEW r, p = r, q = r, Reaches(t, i, r)
    PROVE  Same(t, i, p, q)
<1> QED
    BY Zenon DEF Same

\* The value of a scalar ends with its token.
LEMMA ScalarReaches ==
    ASSUME NEW t, NEW i, NEW token, Onward(t, i, token)
    PROVE  Reaches(t, i, Scalar(t, token))
<1> DEFINE r == Scalar(t, token)
<1>1. ASSUME r.end = "ok" PROVE token.type \in {"word", "number", "string"} /\ r.at = token.stop
    <2> DEFINE token_ == SubSeq(t, token.start, token.stop - 1)
               decoded == DecodedString(SubSeq(t, token.start + 1, token.stop - 2))
               word == CASE token_ = TrueWord -> Bool(TRUE)
                         [] token_ = FalseWord -> Bool(FALSE)
                         [] OTHER -> Null
               number == DecodedInteger(token_)
               w == Good(word, token.stop)
               n == IF Kind(number) = "real" /\ ~DoubleReads(token_) THEN Failed
                    ELSE Good(number, token.stop)
               s == IF decoded.ok THEN Good(Text(decoded.of), token.stop) ELSE Failed
    <2>1. r = CASE token.type = "word" -> w [] token.type = "number" -> n
                [] token.type = "string" -> s [] OTHER -> Failed
        BY Zenon DEF Scalar
    <2> HIDE DEF word, number, decoded, token_
    <2>11. \A v : Good(v, token.stop).at = token.stop
        BY ThenIs, Zenon
    <2>12. Failed.end # "ok"
        BY ThenIs, Zenon
    <2>2. w.at = token.stop
        BY <2>11, Zenon
    <2>3. n.end = "ok" => n.at = token.stop
        BY <2>11, <2>12, Zenon
    <2>4. s.end = "ok" => s.at = token.stop
        <3> DEFINE read == Good(Text(decoded.of), token.stop)
        <3>1. read.at = token.stop
            BY <2>11, Zenon
        <3> HIDE DEF read
        <3>2. CASE decoded.ok
            BY <3>1, <3>2, SMT DEF read
        <3>3. CASE ~decoded.ok
            <4>1. s = Failed
                BY <3>3, SMT
            <4> QED
                BY <4>1, <2>12, Zenon
        <3> QED
            BY <3>2, <3>3, Zenon
    <2> HIDE DEF w, n, s, r
    <2> DEFINE F == Failed
    <2> HIDE DEF F
    <2>6. r = CASE token.type = "word" -> w [] token.type = "number" -> n
                [] token.type = "string" -> s [] OTHER -> F
        BY <2>1 DEF F
    <2>7. F.end # "ok"
        BY <2>12 DEF F
    <2> QED
        BY <1>1, <2>2, <2>3, <2>4, <2>6, <2>7, SMT
<1> HIDE DEF r
<1>2. token.type \in {"word", "number", "string"} => token.type # "end"
    OBVIOUS
<1>3. Reaches(t, i, r)
    BY <1>1, <1>2, Zenon DEF Reaches, Onward
<1> QED
    BY <1>3 DEF r

LEMMA ValueSame ==
    ASSUME NEW t, Len(t) \in Nat, NEW i \in 1 .. Len(t) + 1, NEW f, NEW g, Beyond(t, f, g, i),
           NEW token, NEW next, NEW depth \in 0 .. StackLimit,
           Onward(t, i, token),
           next.type = "]" => next.stop \in i + 1 .. Len(t) + 1
    PROVE  Same(t, i, ValueFrom(t, f, token, next, depth), ValueFrom(t, g, token, next, depth))
<1> DEFINE e == ElementsAt(token.stop, depth + 1)
           m == MembersAt(token.stop, depth + 1, FALSE)
           Value(h) ==
               IF depth >= StackLimit THEN TooDeep
               ELSE IF token.type = "[" /\ next.type = "]" THEN Good(Array(<<>>), next.stop)
               ELSE IF token.type = "[" THEN Then(h[e], Good(Array(h[e].of), h[e].at))
               ELSE IF token.type = "{" THEN Then(h[m], Good(ObjectOf(h[m].of), h[m].at))
               ELSE Scalar(t, token)
<1>1. ValueFrom(t, f, token, next, depth) = Value(f) /\ ValueFrom(t, g, token, next, depth) = Value(g)
    BY Zenon DEF ValueFrom
<1>2. CASE depth >= StackLimit
    BY <1>1, <1>2, PartsReach, Zenon DEF Same
<1>3. CASE ~(depth >= StackLimit) /\ token.type = "[" /\ next.type = "]"
    <2>1. Reaches(t, i, Good(Array(<<>>), next.stop))
        BY <1>3, PartsReach, Zenon
    <2> QED
        BY <1>1, <1>3, <2>1, Zenon DEF Same
<1>4. ASSUME token.type \in {"[", "{"}, ~(depth >= StackLimit)
      PROVE  /\ \A v : f[e].end = "ok" => Reaches(t, i, Good(v, f[e].at))
             /\ \A v : f[m].end = "ok" => Reaches(t, i, Good(v, f[m].at))
             /\ f[e] = g[e] /\ f[m] = g[m]
    <2>1. token.type # "end"
        BY <1>4
    <2>2. token.stop \in i + 1 .. Len(t) + 1
        BY <2>1, Zenon DEF Onward
    <2> DEFINE stop == token.stop
               d == depth + 1
    <2>3. d \in 0 .. StackLimit
        BY <1>4, DepthNext
    <2>4. stop \in i + 1 .. Len(t) + 1
        BY <2>2
    <2> HIDE DEF stop, d
    <2>5. stop \in 1 .. Len(t) + 1 /\ stop > i
        BY <2>4
    <2>6. IsCall(t, stop, ElementsAt(stop, d)) /\ IsCall(t, stop, MembersAt(stop, d, FALSE))
        BY <2>3, <2>5, CallsAre
    <2>9. e = ElementsAt(stop, d) /\ m = MembersAt(stop, d, FALSE)
        BY DEF stop, d
    <2> HIDE DEF e, m
    <2>10. e \in Calls(t) /\ e.at = stop /\ m \in Calls(t) /\ m.at = stop
        BY <2>6, <2>9, Zenon DEF IsCall
    <2>7. Agree(t, f, g, e) /\ Agree(t, f, g, m)
        BY <2>5, <2>10, Zenon DEF Beyond
    <2>8. \A a \in stop + 1 .. Len(t) + 1 : a \in i + 1 .. Len(t) + 1
        BY <2>4, <2>5
    <2> QED
        BY <2>10, <2>7, <2>8, PartsReach, Zenon DEF Agree, Reaches
<1> HIDE DEF e, m
<1>5. CASE ~(depth >= StackLimit) /\ token.type = "[" /\ next.type # "]"
    <2>1. token.type \in {"[", "{"}
        BY <1>5
    <2>2. Value(f) = Then(f[e], Good(Array(f[e].of), f[e].at)) /\ Value(g) = Value(f)
        BY <1>4, <1>5, <2>1, Zenon
    <2>3. Reaches(t, i, Then(f[e], Good(Array(f[e].of), f[e].at)))
        BY <1>4, <1>5, <2>1, PartsReach, Zenon
    <2> HIDE DEF Value
    <2> QED
        BY <1>1, <2>2, <2>3, SameIs, Zenon
<1>6. CASE ~(depth >= StackLimit) /\ token.type = "{"
    <2>1. token.type \in {"[", "{"} /\ token.type # "["
        BY <1>6
    <2>2. Value(f) = Then(f[m], Good(ObjectOf(f[m].of), f[m].at)) /\ Value(g) = Value(f)
        BY <1>4, <1>6, <2>1, Zenon
    <2>3. Reaches(t, i, Then(f[m], Good(ObjectOf(f[m].of), f[m].at)))
        BY <1>4, <1>6, <2>1, PartsReach, Zenon
    <2> HIDE DEF Value
    <2> QED
        BY <1>1, <2>2, <2>3, SameIs, Zenon
<1>7. CASE ~(depth >= StackLimit) /\ token.type # "[" /\ token.type # "{"
    <2>1. Value(f) = Scalar(t, token) /\ Value(g) = Scalar(t, token)
        BY <1>7, Zenon
    <2>2. Reaches(t, i, Scalar(t, token))
        BY ScalarReaches
    <2> HIDE DEF Value
    <2> QED
        BY <1>1, <2>1, <2>2, SameIs, Zenon
<1> QED
    BY <1>2, <1>3, <1>5, <1>6, <1>7, Zenon

LEMMA BehindSame ==
    ASSUME NEW t \in Seq(Byte), NEW i \in 1 .. Len(t) + 1, NEW f, NEW g, Beyond(t, f, g, i),
           NEW name, NEW value, NEW depth \in 0 .. StackLimit,
           value.at \in i + 1 .. Len(t) + 1
    PROVE  Same(t, i, MembersBehind(t, f, name, value, depth), MembersBehind(t, g, name, value, depth))
<1> DEFINE v == value.at
           first == TokenAt(t, v)
           last == NextToken(t, v)
           named == name # <<>>
           m == MembersAt(last.stop, depth, named)
           member == << <<name, value.of>> >>
           Behind(h) ==
               IF first.type \notin {"}", ",", "comment"} THEN Failed
               ELSE IF last.type = "}" THEN Good(member, last.stop)
               ELSE Then(h[m], Good(member \o h[m].of, h[m].at))
<1>1. MembersBehind(t, f, name, value, depth) = Behind(f)
      /\ MembersBehind(t, g, name, value, depth) = Behind(g)
    BY Zenon DEF MembersBehind
<1>2. v \in i + 1 .. Len(t) + 1 /\ Len(t) \in Nat
    OBVIOUS
<1> HIDE DEF v
<1>3. v \in 1 .. Len(t) + 1 /\ v > i
    BY <1>2
<1>4. Onward(t, v, first) /\ Onward(t, v, last) /\ last.stop \in first.stop .. Len(t) + 1
    BY <1>3, TokenOnward, NextOnward
<1> HIDE DEF first, last
<1> DEFINE stop == last.stop
<1>5. last.type = "}" => stop \in i + 1 .. Len(t) + 1
    <2>1. ASSUME last.type = "}" PROVE stop \in v + 1 .. Len(t) + 1
        <3>1. last.type # "end"
            BY <2>1
        <3> QED
            BY <1>4, <3>1, Zenon DEF Onward
    <2> HIDE DEF stop
    <2>2. ASSUME stop \in v + 1 .. Len(t) + 1 PROVE stop \in i + 1 .. Len(t) + 1
        BY <1>2, <2>2
    <2> QED
        BY <2>1, <2>2, Zenon
<1>6. ASSUME first.type \in {"}", ",", "comment"}
      PROVE  /\ f[m].end = "ok" => f[m].at \in i + 1 .. Len(t) + 1
             /\ f[m] = g[m]
    <2>1. first.type # "end"
        BY <1>6
    <2> DEFINE a == first.stop
    <2>2. a \in v + 1 .. Len(t) + 1
        BY <1>4, <2>1, Zenon DEF Onward
    <2>3. stop \in a .. Len(t) + 1
        BY <1>4
    <2> HIDE DEF a, stop
    <2>4. stop \in 1 .. Len(t) + 1 /\ stop > i
        BY <1>2, <1>3, <2>2, <2>3
    <2>5. named \in BOOLEAN
        OBVIOUS
    <2>6. m \in Calls(t) /\ m.at = stop
        <3>1. IsCall(t, stop, MembersAt(stop, depth, named))
            <4> HIDE DEF named
            <4> QED
                BY <2>4, <2>5, CallsAre
        <3>2. m = MembersAt(stop, depth, named)
            BY DEF stop
        <3> HIDE DEF m
        <3> QED
            BY <3>1, <3>2, Zenon DEF IsCall
    <2> HIDE DEF m
    <2>7. Agree(t, f, g, m)
        BY <2>4, <2>6, Zenon DEF Beyond
    <2>8. \A b \in stop + 1 .. Len(t) + 1 : b \in i + 1 .. Len(t) + 1
        BY <2>4
    <2> QED
        BY <2>6, <2>7, <2>8, Zenon DEF Agree, Reaches
<1> HIDE DEF m, member
<1>7. CASE first.type \notin {"}", ",", "comment"}
    BY <1>1, <1>7, PartsReach, Zenon DEF Same
<1>8. CASE first.type \in {"}", ",", "comment"} /\ last.type = "}"
    <2>1. Behind(f) = Good(member, last.stop) /\ Behind(g) = Good(member, last.stop)
        BY <1>8, Zenon
    <2> QED
        BY <1>1, <1>5, <1>8, <2>1, PartsReach, Zenon DEF Same
<1>9. CASE first.type \in {"}", ",", "comment"} /\ last.type # "}"
    <2>1. Behind(f) = Then(f[m], Good(member \o f[m].of, f[m].at)) /\ Behind(g) = Behind(f)
        BY <1>6, <1>9, Zenon
    <2>2. f[m].end = "ok" => Reaches(t, i, Good(member \o f[m].of, f[m].at))
        BY <1>6, <1>9, PartsReach, Zenon
    <2>3. Reaches(t, i, Then(f[m], Good(member \o f[m].of, f[m].at)))
        BY <2>2, PartsReach, Zenon
    <2> HIDE DEF Behind
    <2> QED
        BY <1>1, <2>1, <2>3, SameIs, Zenon
<1> QED
    BY <1>7, <1>8, <1>9, Zenon

LEMMA MembersSame ==
    ASSUME NEW t \in Seq(Byte), NEW i \in 1 .. Len(t) + 1, NEW f, NEW g, Beyond(t, f, g, i),
           NEW depth \in 0 .. StackLimit, NEW named
    PROVE  Same(t, i, ReadsMembers(t, f, i, depth, named), ReadsMembers(t, g, i, depth, named))
<1> DEFINE token == NextToken(t, i)
           name == IF token.type = "string" THEN Scalar(t, token) ELSE Failed
           colon == TokenAt(t, token.stop)
           v == ValueAt(colon.stop, depth)
           OneMember(h) ==
               IF name.end # "ok" \/ colon.type # ":" THEN Failed
               ELSE Then(h[v], MembersBehind(t, h, Of(name.of), h[v], depth))
           Members(h) == IF token.type = "}" /\ ~named THEN Good(<<>>, token.stop) ELSE OneMember(h)
<1>1. ReadsMembers(t, f, i, depth, named) = Members(f) /\ ReadsMembers(t, g, i, depth, named) = Members(g)
    BY Zenon DEF ReadsMembers, MemberFrom
<1>2. Onward(t, i, token)
    BY NextOnward
<1>3. Len(t) \in Nat
    OBVIOUS
<1> HIDE DEF token
<1> DEFINE stop == token.stop
<1>4. stop \in i .. Len(t) + 1 /\ (token.type # "end" => stop \in i + 1 .. Len(t) + 1)
    BY <1>2, Zenon DEF Onward
<1>5. colon = TokenAt(t, stop)
    OBVIOUS
<1> HIDE DEF stop, colon, name
<1>6. CASE token.type = "}" /\ ~named
    <2>1. token.type # "end"
        BY <1>6
    <2>2. Members(f) = Good(<<>>, stop) /\ Members(g) = Good(<<>>, stop)
        BY <1>6, Zenon DEF stop
    <2>3. Reaches(t, i, Good(<<>>, stop))
        BY <1>4, <2>1, PartsReach, Zenon
    <2> HIDE DEF Members
    <2> QED
        BY <1>1, <2>2, <2>3, SameIs, Zenon
<1>7. CASE ~(token.type = "}" /\ ~named) /\ (name.end # "ok" \/ colon.type # ":")
    <2>1. Members(f) = Failed /\ Members(g) = Failed
        BY <1>7, Zenon
    <2>2. Reaches(t, i, Failed)
        BY PartsReach, Zenon
    <2> HIDE DEF Members
    <2> QED
        BY <1>1, <2>1, <2>2, SameIs, Zenon
<1>8. CASE ~(token.type = "}" /\ ~named) /\ name.end = "ok" /\ colon.type = ":"
    <2>1. colon.type # "end"
        BY <1>8
    <2>2. stop \in 1 .. Len(t) + 1
        BY <1>3, <1>4
    <2>3. Onward(t, stop, colon)
        BY <1>5, <2>2, TokenOnward
    <2> DEFINE c == colon.stop
    <2>4. c \in stop + 1 .. Len(t) + 1
        BY <2>1, <2>3, Zenon DEF Onward
    <2> HIDE DEF c
    <2>5. c \in 1 .. Len(t) + 1 /\ c > i
        BY <1>3, <1>4, <2>4
    <2>6. FALSE \in BOOLEAN
        OBVIOUS
    <2>7. v \in Calls(t) /\ v.at = c
        <3>1. IsCall(t, c, ValueAt(c, depth))
            BY <2>5, CallsAre
        <3>2. v = ValueAt(c, depth)
            BY DEF c
        <3> HIDE DEF v
        <3> QED
            BY <3>1, <3>2, Zenon DEF IsCall
    <2> HIDE DEF v
    <2>8. Agree(t, f, g, v)
        BY <2>5, <2>7, Zenon DEF Beyond
    <2>9. f[v].end = "ok" => f[v].at \in i + 1 .. Len(t) + 1
        <3>1. \A a \in c + 1 .. Len(t) + 1 : a \in i + 1 .. Len(t) + 1
            BY <2>5
        <3> QED
            BY <2>7, <2>8, <3>1, Zenon DEF Agree, Reaches
    <2> DEFINE behind(h) == MembersBehind(t, h, Of(name.of), h[v], depth)
    <2>10. f[v] = g[v]
        BY <2>8, Zenon DEF Agree
    <2>11. f[v].end = "ok" => Same(t, i, behind(f), behind(g))
        BY <2>9, <2>10, BehindSame
    <2>12. Members(f) = Then(f[v], behind(f)) /\ Members(g) = Then(f[v], behind(g))
        BY <1>8, <2>10, Zenon
    <2> HIDE DEF behind, Members, OneMember
    <2>13. CASE f[v].end = "ok"
        <3>1. Members(f) = behind(f) /\ Members(g) = behind(g)
            BY <2>12, <2>13, ThenIs, Zenon
        <3> QED
            BY <1>1, <2>11, <2>13, <3>1, Zenon
    <2>14. CASE f[v].end # "ok"
        <3>1. Members(f) = f[v] /\ Members(g) = f[v]
            BY <2>12, <2>14, ThenIs, Zenon
        <3> QED
            BY <1>1, <2>14, <3>1, Zenon DEF Same, Reaches
    <2> QED
        BY <2>13, <2>14
<1> QED
    BY <1>6, <1>7, <1>8, Zenon

LEMMA ElementsSame ==
    ASSUME NEW t \in Seq(Byte), NEW i \in 1 .. Len(t) + 1, NEW f, NEW g, Beyond(t, f, g, i),
           NEW depth \in 0 .. StackLimit, Agree(t, f, g, ValueAt(i, depth))
    PROVE  Same(t, i, ReadsElements(t, f, i, depth), ReadsElements(t, g, i, depth))
<1> DEFINE v == ValueAt(i, depth)
           Behind(h, value) ==
               LET token == NextToken(t, value.at)
                   rest == h[ElementsAt(token.stop, depth)]
               IN  IF token.type = "]" THEN Good(<<value.of>>, token.stop)
                   ELSE IF token.type = ","
                          THEN Then(rest, Good(<<value.of>> \o rest.of, rest.at))
                   ELSE Failed
<1>1. \A h : ReadsElements(t, h, i, depth) = Then(h[v], Behind(h, h[v]))
    BY Zenon DEF ReadsElements
<1>2. v.at = i /\ Len(t) \in Nat
    BY DEF ValueAt
<1>3. f[v] = g[v] /\ Reaches(t, i, f[v])
    BY <1>2, Zenon DEF Agree
<1> HIDE DEF v, Behind
<1> DEFINE value == f[v]
<1>10. /\ ReadsElements(t, f, i, depth) = Then(value, Behind(f, value))
       /\ ReadsElements(t, g, i, depth) = Then(value, Behind(g, value))
    BY <1>1, <1>3, Zenon
<1>4. CASE value.end # "ok"
    <2>1. ReadsElements(t, f, i, depth) = value /\ ReadsElements(t, g, i, depth) = value
        <3> HIDE DEF value
        <3> QED
            BY <1>10, <1>4, ThenIs, Zenon
    <2> QED
        BY <1>3, <2>1, Zenon DEF Same
<1>5. CASE value.end = "ok"
    <2> DEFINE a == value.at
               token == NextToken(t, a)
               stop == token.stop
               e == ElementsAt(stop, depth)
    <2>1. a \in i + 1 .. Len(t) + 1
        BY <1>3, <1>5, Zenon DEF Reaches
    <2>2. ReadsElements(t, f, i, depth) = Behind(f, value) /\ ReadsElements(t, g, i, depth) = Behind(g, value)
        <3> HIDE DEF value
        <3> QED
            BY <1>10, <1>5, ThenIs, Zenon
    <2>3. \A h : Behind(h, value) =
                   IF token.type = "]" THEN Good(<<value.of>>, stop)
                   ELSE IF token.type = ","
                          THEN Then(h[e], Good(<<value.of>> \o h[e].of, h[e].at))
                   ELSE Failed
        BY Zenon DEF Behind
    <2> HIDE DEF value, a
    <2>4. Onward(t, a, token)
        <3>1. a \in 1 .. Len(t) + 1
            BY <1>2, <2>1
        <3> QED
            BY <3>1, NextOnward
    <2> HIDE DEF token
    <2>5. ASSUME token.type \in {"]", ","} PROVE stop \in a + 1 .. Len(t) + 1
        <3>1. token.type # "end"
            BY <2>5
        <3> QED
            BY <2>4, <3>1, Zenon DEF Onward
    <2> HIDE DEF stop
    <2>6. ASSUME token.type \in {"]", ","}
          PROVE  stop \in i + 1 .. Len(t) + 1 /\ stop > i /\ stop \in 1 .. Len(t) + 1
        <3>1. stop \in a + 1 .. Len(t) + 1
            BY <2>5, <2>6, Zenon
        <3> QED
            BY <1>2, <2>1, <3>1
    <2>7. CASE token.type = "]"
        <3>1. stop \in i + 1 .. Len(t) + 1
            BY <2>6, <2>7
        <3>2. Behind(f, value) = Good(<<value.of>>, stop) /\ Behind(g, value) = Behind(f, value)
            BY <2>3, <2>7, Zenon
        <3> QED
            BY <2>2, <3>1, <3>2, PartsReach, Zenon DEF Same
    <2>8. CASE token.type = ","
        <3>1. stop \in 1 .. Len(t) + 1 /\ stop > i /\ token.type # "]"
            BY <2>6, <2>8
        <3>2. FALSE \in BOOLEAN
            OBVIOUS
        <3>3. e \in Calls(t) /\ e.at = stop
            BY <3>1, CallsAre DEF IsCall
        <3> HIDE DEF e
        <3>4. Agree(t, f, g, e)
            BY <3>1, <3>3, Zenon DEF Beyond
        <3>5. \A b \in stop + 1 .. Len(t) + 1 : b \in i + 1 .. Len(t) + 1
            BY <3>1
        <3>6. f[e].end = "ok" => f[e].at \in i + 1 .. Len(t) + 1
            BY <3>3, <3>4, <3>5, Zenon DEF Agree, Reaches
        <3>7. f[e] = g[e]
            BY <3>4, Zenon DEF Agree
        <3>8. Behind(f, value) = Then(f[e], Good(<<value.of>> \o f[e].of, f[e].at))
              /\ Behind(g, value) = Behind(f, value)
            BY <2>3, <2>8, <3>1, <3>7, Zenon
        <3>9. Reaches(t, i, Then(f[e], Good(<<value.of>> \o f[e].of, f[e].at)))
            BY <3>6, PartsReach, Zenon
        <3> QED
            BY <2>2, <3>8, <3>9, Zenon DEF Same
    <2>9. CASE token.type \notin {"]", ","}
        <3>1. token.type # "]" /\ token.type # ","
            BY <2>9
        <3>2. Behind(f, value) = Failed /\ Behind(g, value) = Failed
            BY <2>3, <3>1, Zenon
        <3> QED
            BY <2>2, <3>2, PartsReach, Zenon DEF Same
    <2> QED
        BY <2>7, <2>8, <2>9
<1> QED
    BY <1>4, <1>5, Zenon

\* A call calls the functions behind its beginning, or for the value that it
\* begins with.
Rank(t, call) == 2 * (Len(t) + 1 - call.at) + (IF call.what = "elements" THEN 1 ELSE 0)

LEMMA SameAs ==
    ASSUME NEW t, NEW i, NEW p, NEW q, NEW a, NEW b, p = a, q = b, Same(t, i, a, b)
    PROVE  Same(t, i, p, q)
<1> QED
    OBVIOUS

\* What it reads depends on what calls of a lower rank read.
LEMMA ReadsSame ==
    ASSUME NEW t \in Seq(Byte), NEW call \in Calls(t), NEW f, NEW g,
           \A other \in Calls(t) : Rank(t, other) < Rank(t, call) => Agree(t, f, g, other)
    PROVE  Same(t, call.at, Reads(t, f, call), Reads(t, g, call))
<1> DEFINE i == call.at
           depth == call.depth
           v == ValueAt(i, depth)
<1>1. /\ i \in 1 .. Len(t) + 1 /\ depth \in 0 .. StackLimit
      /\ call.what \in {"value", "elements", "members"} /\ Len(t) \in Nat
    BY SMT DEF Calls
<1>2. \A other \in Calls(t) : other.at \in 1 .. Len(t) + 1
    BY SMT DEF Calls
<1>3. Beyond(t, f, g, i)
    <2> SUFFICES ASSUME NEW other \in Calls(t), other.at > i PROVE Agree(t, f, g, other)
        BY Zenon DEF Beyond
    <2> DEFINE a == other.at
               p == IF other.what = "elements" THEN 1 ELSE 0
               q == IF call.what = "elements" THEN 1 ELSE 0
    <2>1. a \in 1 .. Len(t) + 1 /\ a > i /\ p \in 0 .. 1 /\ q \in 0 .. 1
        BY <1>2
    <2>2. Rank(t, other) = 2 * (Len(t) + 1 - a) + p /\ Rank(t, call) = 2 * (Len(t) + 1 - i) + q
        BY Zenon DEF Rank
    <2> HIDE DEF a, i, p, q
    <2>3. Rank(t, other) < Rank(t, call)
        BY <1>1, <2>1, <2>2
    <2> QED
        BY <2>3, Zenon
<1>4. CASE call.what = "value"
    <2> DEFINE token == NextToken(t, i)
               stop == token.stop
               next == TokenAt(t, stop)
    <2>1. Onward(t, i, token)
        BY <1>1, NextOnward
    <2>2. stop \in i .. Len(t) + 1
        BY <2>1, Zenon DEF Onward
    <2>3. \A h : Reads(t, h, call) = ValueFrom(t, h, token, next, depth)
        <3> TAKE h
        <3>1. Reads(t, h, call) = ReadsValue(t, h, i, depth)
            BY <1>4, SMT DEF Reads
        <3> QED
            BY <3>1, Zenon DEF ReadsValue
    <2> HIDE DEF token, stop
    <2>4. stop \in 1 .. Len(t) + 1
        BY <1>1, <2>2
    <2>5. Onward(t, stop, next)
        BY <2>4, TokenOnward
    <2> HIDE DEF next
    <2>6. ASSUME next.type = "]" PROVE next.stop \in i + 1 .. Len(t) + 1
        <3> DEFINE e == next.stop
        <3>1. next.type # "end"
            BY <2>6
        <3>2. e \in stop + 1 .. Len(t) + 1
            BY <2>5, <3>1, Zenon DEF Onward
        <3> HIDE DEF e
        <3>3. e \in i + 1 .. Len(t) + 1
            BY <1>1, <2>2, <3>2
        <3> QED
            BY <3>3 DEF e
    <2>7. Same(t, i, ValueFrom(t, f, token, next, depth), ValueFrom(t, g, token, next, depth))
        <3> HIDE DEF i, depth
        <3> QED
            BY <1>1, <1>3, <2>1, <2>6, ValueSame
    <2> QED
        BY <2>3, <2>7, SameAs
<1>5. CASE call.what = "elements"
    <2>1. v \in Calls(t) /\ v.at = i /\ v.what = "value"
        <3>1. IsCall(t, i, v)
            <4> HIDE DEF i, depth
            <4> QED
                BY <1>1, CallsAre
        <3>2. v.what = "value"
            BY DEF ValueAt
        <3> QED
            BY <3>1, <3>2, Zenon DEF IsCall
    <2>2. Rank(t, v) < Rank(t, call)
        <3>1. Rank(t, v) = 2 * (Len(t) + 1 - i) + (IF "value" = "elements" THEN 1 ELSE 0)
            BY <2>1, Zenon DEF Rank
        <3>2. Rank(t, call) = 2 * (Len(t) + 1 - i) + 1
            BY <1>5, Zenon DEF Rank
        <3> HIDE DEF i
        <3> QED
            BY <1>1, <3>1, <3>2
    <2>3. Agree(t, f, g, v)
        <3> HIDE DEF v
        <3> QED
            BY <2>1, <2>2, Zenon
    <2>4. \A h : Reads(t, h, call) = ReadsElements(t, h, i, depth)
        BY <1>5, SMT DEF Reads
    <2>5. Same(t, i, ReadsElements(t, f, i, depth), ReadsElements(t, g, i, depth))
        <3> HIDE DEF i, depth
        <3> QED
            BY <1>1, <1>3, <2>3, ElementsSame
    <2> QED
        BY <2>4, <2>5, SameAs
<1>6. CASE call.what = "members"
    <2> DEFINE named == call.named
    <2>1. \A h : Reads(t, h, call) = ReadsMembers(t, h, i, depth, named)
        BY <1>6, SMT DEF Reads
    <2>2. Same(t, i, ReadsMembers(t, f, i, depth, named), ReadsMembers(t, g, i, depth, named))
        <3> HIDE DEF i, depth, named
        <3> QED
            BY <1>1, <1>3, MembersSame
    <2> QED
        BY <2>1, <2>2, SameAs
<1> QED
    BY <1>1, <1>4, <1>5, <1>6

\* So there are functions that call each other like this, for every text; parse
\* begins with a value.
Parser(t, reads) ==
    /\ \A call \in Calls(t) : reads[call] = Reads(t, reads, call)
    /\ Parse(t) = reads[ValueAt(1, 0)]

LEMMA ParseSteps ==
    ASSUME NEW t \in Seq(Byte) PROVE \E reads : Parser(t, reads)
<1> DEFINE C == Calls(t)
           D(n) == {call \in C : Rank(t, call) < n}
           Body(f, call) == Reads(t, f, call)
           Solves(n, f) == /\ f = [call \in D(n) |-> Body(f, call)]
                           /\ \A call \in D(n) : Reaches(t, call.at, f[call])
           S == {n \in Nat : \E f : Solves(n, f)}
           last == 2 * Len(t) + 2
           reads[call \in C] == Body(reads, call)
<1>1. \A call \in C : Rank(t, call) \in Nat /\ Rank(t, call) < last
    <2> TAKE call \in C
    <2> DEFINE a == call.at
               p == IF call.what = "elements" THEN 1 ELSE 0
    <2>1. a \in 1 .. Len(t) + 1 /\ p \in 0 .. 1 /\ Len(t) \in Nat
        BY SMT DEF Calls
    <2>2. Rank(t, call) = 2 * (Len(t) + 1 - a) + p
        BY Zenon DEF Rank
    <2> HIDE DEF a, p
    <2> QED
        BY <2>1, <2>2
<1> HIDE DEF C, Body
<1>2. 0 \in S
    <2>1. \A call \in C : ~(Rank(t, call) < 0)
        BY <1>1
    <2> DEFINE none == [call \in D(0) |-> 0]
    <2>2. none = [call \in D(0) |-> Body(none, call)]
        BY <2>1
    <2>3. \A call \in D(0) : FALSE
        BY <2>1
    <2> HIDE DEF none, D
    <2>4. Solves(0, none)
        BY <2>2, <2>3, Zenon
    <2> HIDE DEF Solves
    <2> QED
        BY <2>4
<1>3. ASSUME NEW n \in Nat, n \in S PROVE n + 1 \in S
    <2>1. PICK f : Solves(n, f)
        <3> HIDE DEF Solves
        <3> QED
            BY <1>3
    <2> DEFINE low == D(n)
               all == D(n + 1)
               g == [call \in all |-> IF call \in low THEN f[call] ELSE Body(f, call)]
    <2>2. f = [call \in low |-> Body(f, call)] /\ \A call \in low : Reaches(t, call.at, f[call])
        BY <2>1, Zenon
    <2>3. \A call \in C : /\ call \in low <=> Rank(t, call) < n
                          /\ call \in all <=> Rank(t, call) < n + 1
        OBVIOUS
    <2>4. low \subseteq C /\ all \subseteq C
        OBVIOUS
    <2> HIDE DEF D, low, all, Solves
    <2>5. \A call \in low : f[call] = Body(f, call)
        BY <2>2, Zenon
    <2>6. low \subseteq all
        BY <1>1, <2>3, <2>4
    <2>7. \A call \in all : g[call] = Body(f, call)
        BY <2>5
    <2>8. \A call \in low : g[call] = f[call]
        BY <2>6
    <2> HIDE DEF g
    <2>9. ASSUME NEW call \in all PROVE Same(t, call.at, Body(f, call), Body(g, call))
        <3>1. ASSUME NEW other \in C, Rank(t, other) < Rank(t, call) PROVE Agree(t, f, g, other)
            <4>1. other \in low
                <5> DEFINE a == Rank(t, other)
                           b == Rank(t, call)
                <5>1. a \in Nat /\ b \in Nat /\ a < b /\ b < n + 1
                    BY <1>1, <2>3, <2>4, <3>1
                <5> HIDE DEF a, b
                <5>2. a < n
                    BY <5>1
                <5> QED
                    BY <2>3, <5>2 DEF a
            <4> QED
                BY <2>2, <2>8, <4>1, Zenon DEF Agree
        <3>2. call \in C
            BY <2>4
        <3> QED
            BY <3>1, <3>2, ReadsSame DEF C, Body
    <2>10. \A call \in all : g[call] = Body(g, call) /\ Reaches(t, call.at, g[call])
        BY <2>7, <2>9, Zenon DEF Same
    <2>11. g = [call \in all |-> Body(g, call)]
        <3>1. g = [call \in all |-> g[call]]
            BY DEF g
        <3> QED
            BY <2>10, <3>1, Zenon
    <2>12. Solves(n + 1, g)
        BY <2>10, <2>11, Zenon DEF Solves, all
    <2>13. n + 1 \in Nat
        OBVIOUS
    <2> QED
        BY <2>12, <2>13
<1> HIDE DEF S
<1>4. \A n \in Nat : n \in S
    BY <1>2, <1>3, Induction
<1>5. last \in S
    BY <1>4
<1>6. PICK f : Solves(last, f)
    <2> HIDE DEF Solves, last
    <2> QED
        BY <1>5 DEF S
<1>7. D(last) = C
    BY <1>1
<1>8. f = [call \in C |-> Body(f, call)]
    <2> HIDE DEF D
    <2> QED
        BY <1>6, <1>7, Zenon
<1>9. reads = [call \in C |-> Body(reads, call)]
    <2>1. \E g : g = [call \in C |-> Body(g, call)]
        BY <1>8, Zenon
    <2> QED
        BY <2>1, Zenon
<1>10. Parse(t) = reads[ValueAt(1, 0)]
    BY Zenon DEF Parse, C, Body
<1> HIDE DEF reads
<1>11. \A call \in C : reads[call] = Body(reads, call)
    BY <1>9, Zenon
<1>12. Parser(t, reads)
    BY <1>10, <1>11, Zenon DEF Parser, C, Body
<1> QED
    BY <1>12

-----------------------------------------------------------------------------
(* What is written is read                                                   *)

LEMMA PunctuationIs ==
    /\ Punctuation[123] = "{" /\ Punctuation[125] = "}"
    /\ Punctuation[44] = "," /\ Punctuation[58] = ":"
<1> QED
    BY SMT DEF Punctuation, OpenBrace, CloseBrace, Open, Close, Comma, Colon

LEMMA TokenIs ==
    ASSUME NEW token, NEW kind, NEW a, NEW b, token = Token(kind, a, b)
    PROVE  token.type = kind /\ token.start = a /\ token.stop = b
<1> QED
    BY SMT DEF Token

LEMMA GoodIs ==
    ASSUME NEW part, NEW v, NEW a, part = Good(v, a)
    PROVE  part.end = "ok" /\ part.of = v /\ part.at = a
<1> QED
    BY SMT DEF Good

LEMMA ReadIs ==
    ASSUME NEW decoded, NEW s, decoded = Read(TRUE, s) PROVE decoded.ok /\ decoded.of = s
<1>1. decoded.ok
    BY Zenon DEF Read
<1>2. decoded.of = s
    BY SMT DEF Read
<1> QED
    BY <1>1, <1>2

LEMMA Shallow ==
    ASSUME NEW d \in Nat, d < StackLimit PROVE ~(d >= StackLimit) /\ d \in 0 .. StackLimit /\ d + 1 \in 0 .. StackLimit
<1> QED
    BY StackLimitAssumption

\* What is no comment is the next token.
LEMMA NextIsThis ==
    ASSUME NEW t \in Seq(Byte), NEW i \in 1 .. Len(t) + 1, TokenAt(t, i).type # "comment"
    PROVE  NextToken(t, i) = TokenAt(t, i)
<1>1. NextIs(t, i)
    BY NextSteps
<1> QED
    BY <1>1, Zenon DEF NextIs

\* A bracket, a comma or a colon is a token.
PunctAt(t, i, kind) ==
    /\ TokenAt(t, i).type = kind /\ TokenAt(t, i).stop = i + 1
    /\ NextToken(t, i).type = kind /\ NextToken(t, i).stop = i + 1

LEMMA PunctIs ==
    ASSUME NEW t \in Seq(Byte), NEW i \in 1 .. Len(t), NEW kind, kind # "comment",
           t[i] \in {123, 125, 44, 58}, Punctuation[t[i]] = kind
    PROVE  PunctAt(t, i, kind)
<1>1. t[i] \notin Blanks /\ t[i] \in {123, 125, 91, 93, 44, 58}
    BY SMT DEF Blanks, Space, TAB, CR, LF
<1>2. t[i] \in DOMAIN Punctuation
    BY <1>1, Beginnings
<1>3. After(t, i, Blanks) = i
    BY <1>1, NothingSkipped
<1>4. Char(t, i) = t[i]
    BY DEF Char
<1>5. TokenFrom(t, i) = Token(Punctuation[t[i]], i, i + 1)
    <2>1. Char(t, i) \in DOMAIN Punctuation
        BY <1>2, <1>4, Zenon
    <2>2. TokenFrom(t, i) = Token(Punctuation[Char(t, i)], i, i + 1)
        BY <2>1, TokenBegins
    <2> QED
        BY <1>4, <2>2, Zenon
<1>6. TokenAt(t, i) = Token(kind, i, i + 1)
    BY <1>3, <1>5, Zenon DEF TokenAt
<1> DEFINE token == TokenAt(t, i)
           behind == i + 1
<1>7. token.type = kind /\ token.stop = behind
    <2> HIDE DEF token, behind
    <2> QED
        BY <1>6, TokenIs DEF token, behind
<1>8. NextToken(t, i) = token
    BY <1>7, NextIsThis
<1> QED
    BY <1>7, <1>8, Zenon DEF PunctAt

LEMMA PunctRead ==
    ASSUME NEW t \in Seq(Byte), NEW i \in 1 .. Len(t)
    PROVE  /\ t[i] = 123 => PunctAt(t, i, "{")
           /\ t[i] = 125 => PunctAt(t, i, "}")
           /\ t[i] = 44 => PunctAt(t, i, ",")
           /\ t[i] = 58 => PunctAt(t, i, ":")
<1>1. ASSUME t[i] = 123 PROVE PunctAt(t, i, "{")
    <2>1. Punctuation[t[i]] = "{"
        BY <1>1, PunctuationIs, ZenonT(60)
    <2> QED
        BY <1>1, <2>1, PunctIs
<1>2. ASSUME t[i] = 125 PROVE PunctAt(t, i, "}")
    <2>1. Punctuation[t[i]] = "}"
        BY <1>2, PunctuationIs, ZenonT(60)
    <2> QED
        BY <1>2, <2>1, PunctIs
<1>3. ASSUME t[i] = 44 PROVE PunctAt(t, i, ",")
    <2>1. Punctuation[t[i]] = ","
        BY <1>3, PunctuationIs, ZenonT(60)
    <2> QED
        BY <1>3, <2>1, PunctIs
<1>4. ASSUME t[i] = 58 PROVE PunctAt(t, i, ":")
    <2>1. Punctuation[t[i]] = ":"
        BY <1>4, PunctuationIs, ZenonT(60)
    <2> QED
        BY <1>4, <2>1, PunctIs
<1> QED
    BY <1>1, <1>2, <1>3, <1>4

\* What the calls of the parser read.
LEMMA ValueCalled ==
    ASSUME NEW t \in Seq(Byte), NEW reads, Parser(t, reads),
           NEW i \in 1 .. Len(t) + 1, NEW depth \in 0 .. StackLimit
    PROVE  reads[ValueAt(i, depth)] = ReadsValue(t, reads, i, depth)
<1> DEFINE call == ValueAt(i, depth)
<1>1. IsCall(t, i, call)
    BY CallsAre
<1>2. reads[call] = Reads(t, reads, call)
    BY <1>1, Zenon DEF IsCall, Parser
<1>3. call.what = "value" /\ call.at = i /\ call.depth = depth
    BY DEF ValueAt
<1> HIDE DEF call
<1>4. Reads(t, reads, call) = ReadsValue(t, reads, i, depth)
    BY <1>3, SMT DEF Reads
<1> QED
    BY <1>2, <1>4 DEF call

LEMMA MembersCalled ==
    ASSUME NEW t \in Seq(Byte), NEW reads, Parser(t, reads),
           NEW i \in 1 .. Len(t) + 1, NEW depth \in 0 .. StackLimit, NEW named \in BOOLEAN
    PROVE  reads[MembersAt(i, depth, named)] = ReadsMembers(t, reads, i, depth, named)
<1> DEFINE call == MembersAt(i, depth, named)
<1>1. IsCall(t, i, call)
    BY CallsAre
<1>2. reads[call] = Reads(t, reads, call)
    BY <1>1, Zenon DEF IsCall, Parser
<1>3. call.what = "members" /\ call.at = i /\ call.depth = depth
    BY DEF MembersAt
<1>4. call.named = named
    BY Zenon DEF MembersAt
<1> HIDE DEF call
<1> DEFINE n == call.named
<1>5. Reads(t, reads, call) = ReadsMembers(t, reads, i, depth, n)
    BY <1>3, SMT DEF Reads
<1> QED
    BY <1>2, <1>4, <1>5, Zenon DEF call

\* A value that is no array and no object.
LEMMA ScalarCalled ==
    ASSUME NEW t \in Seq(Byte), NEW reads, Parser(t, reads),
           NEW i \in 1 .. Len(t) + 1, NEW depth \in 0 .. StackLimit, depth < StackLimit,
           NEW kind \in {"string", "number", "error"}, NEW start, NEW stop,
           TokenAt(t, i) = Token(kind, start, stop)
    PROVE  reads[ValueAt(i, depth)] = Scalar(t, Token(kind, start, stop))
<1> DEFINE token == Token(kind, start, stop)
           next == TokenAt(t, token.stop)
<1>1. token.type = kind
    BY TokenIs
<1>2. NextToken(t, i) = token
    <2>1. TokenAt(t, i).type # "comment"
        BY <1>1
    <2> QED
        BY <2>1, NextIsThis
<1> HIDE DEF token
<1>3. reads[ValueAt(i, depth)] = ValueFrom(t, reads, token, next, depth)
    <2>1. reads[ValueAt(i, depth)] = ReadsValue(t, reads, i, depth)
        BY ValueCalled
    <2> QED
        BY <1>2, <2>1, Zenon DEF ReadsValue
<1>4. ~(depth >= StackLimit) /\ token.type # "[" /\ token.type # "{"
    <2>1. ~(depth >= StackLimit)
        BY Shallow
    <2>2. kind # "[" /\ kind # "{"
        OBVIOUS
    <2> QED
        BY <1>1, <2>1, <2>2, Zenon
<1>5. ValueFrom(t, reads, token, next, depth) = Scalar(t, token)
    BY <1>4, Zenon DEF ValueFrom
<1> QED
    BY <1>3, <1>5, Zenon DEF token

\* What the call for the members that begin here reads, whatever stood before.
MembersGood(reads, at, depth, pairs, stop) ==
    \A n \in BOOLEAN : reads[MembersAt(at, depth, n)] = Good(pairs, stop)

LEMMA ObjectCalled ==
    ASSUME NEW t \in Seq(Byte), NEW reads, Parser(t, reads),
           NEW i \in 1 .. Len(t), t[i] = 123, NEW depth \in 0 .. StackLimit, depth < StackLimit,
           NEW pairs, NEW stop, MembersGood(reads, i + 1, depth + 1, pairs, stop)
    PROVE  reads[ValueAt(i, depth)] = Good(ObjectOf(pairs), stop)
<1> DEFINE token == NextToken(t, i)
           next == TokenAt(t, token.stop)
           m == reads[MembersAt(token.stop, depth + 1, FALSE)]
<1>1. PunctAt(t, i, "{")
    BY PunctRead, Zenon
<1>2. token.type = "{" /\ token.stop = i + 1
    BY <1>1, Zenon DEF PunctAt
<1>3. reads[ValueAt(i, depth)] = ValueFrom(t, reads, token, next, depth)
    <2>1. i \in 1 .. Len(t) + 1
        OBVIOUS
    <2>2. reads[ValueAt(i, depth)] = ReadsValue(t, reads, i, depth)
        BY <2>1, ValueCalled
    <2> QED
        BY <2>2, Zenon DEF ReadsValue
<1> HIDE DEF token
<1>4. ~(depth >= StackLimit) /\ token.type # "["
    <2>1. ~(depth >= StackLimit)
        BY Shallow
    <2>2. "{" # "["
        OBVIOUS
    <2> QED
        BY <1>2, <2>1, <2>2, Zenon
<1>5. ValueFrom(t, reads, token, next, depth) = Then(m, Good(ObjectOf(m.of), m.at))
    BY <1>2, <1>4, Zenon DEF ValueFrom
<1>6. m = Good(pairs, stop)
    BY <1>2, Zenon DEF MembersGood
<1> HIDE DEF m
<1>7. m.end = "ok" /\ m.of = pairs /\ m.at = stop
    BY <1>6, GoodIs
<1> QED
    BY <1>3, <1>5, <1>7, ThenIs, Zenon

\* A string token is read as the string.
LEMMA StringScalar ==
    ASSUME NEW t, NEW i, NEW s, StringBack(t, i, s)
    PROVE  Scalar(t, TokenAt(t, i)) = Good(Text(s), i + Len(Quoted(s)))
<1> DEFINE token == TokenAt(t, i)
           stop == i + Len(Quoted(s))
           decoded == DecodedString(SubSeq(t, token.start + 1, token.stop - 2))
<1>1. token = Token("string", i, stop) /\ decoded = Read(TRUE, s)
    BY Zenon DEF StringBack
<1>2. token.type = "string" /\ token.stop = stop
    <2> HIDE DEF token, stop
    <2> QED
        BY <1>1, TokenIs
<1>3. decoded.ok /\ decoded.of = s
    <2> HIDE DEF decoded
    <2> QED
        BY <1>1, ReadIs
<1> HIDE DEF token, stop, decoded
<1> DEFINE r == IF decoded.ok THEN Good(Text(decoded.of), token.stop) ELSE Failed
<1>4. Scalar(t, token) = r
    <2> HIDE DEF r
    <2>1. Scalar(t, token) =
            CASE token.type = "word" ->
                    Good(CASE SubSeq(t, token.start, token.stop - 1) = TrueWord -> Bool(TRUE)
                           [] SubSeq(t, token.start, token.stop - 1) = FalseWord -> Bool(FALSE)
                           [] OTHER -> Null, token.stop)
              [] token.type = "number" ->
                    IF Kind(DecodedInteger(SubSeq(t, token.start, token.stop - 1))) = "real"
                       /\ ~DoubleReads(SubSeq(t, token.start, token.stop - 1)) THEN Failed
                    ELSE Good(DecodedInteger(SubSeq(t, token.start, token.stop - 1)), token.stop)
              [] token.type = "string" -> r
              [] OTHER -> Failed
        BY Zenon DEF Scalar, r, decoded
    <2> QED
        BY <1>2, <2>1
<1>5. r = Good(Text(s), stop)
    BY <1>2, <1>3, Zenon
<1> HIDE DEF r
<1>6. Scalar(t, token) = Good(Text(s), stop)
    BY <1>4, <1>5, Zenon
<1> QED
    BY <1>6, Zenon DEF token, stop

\* The text e stands behind the place i, and one of these characters behind it.
StandsIn(t, i, e, behind) == Spelt(t, i, e) /\ Char(t, i + Len(e) + 1) \in behind

\* Wherever e stands with one of these characters behind it, it is read as v by
\* a parser that may go d calls deeper.
IsRead(e, v, d, behind) ==
    \A t \in Seq(Byte) : \A reads : Parser(t, reads) =>
        \A i \in Nat, depth \in Nat :
            depth + d <= StackLimit /\ StandsIn(t, i, e, behind) =>
                reads[ValueAt(i + 1, depth)] = Good(v, i + Len(e) + 1)

LEMMA Reading ==
    ASSUME NEW t \in Seq(Byte), NEW reads, Parser(t, reads), NEW i \in Nat, NEW depth \in Nat,
           NEW e, NEW v, NEW d, NEW behind, IsRead(e, v, d, behind),
           depth + d <= StackLimit, StandsIn(t, i, e, behind)
    PROVE  reads[ValueAt(i + 1, depth)] = Good(v, i + Len(e) + 1)
<1> QED
    BY Zenon DEF IsRead

LEMMA StringIsRead ==
    ASSUME NEW s \in Seq(Byte) PROVE IsRead(Quoted(s), Text(s), 1, Byte)
<1> SUFFICES ASSUME NEW t \in Seq(Byte), NEW reads, Parser(t, reads), NEW i \in Nat, NEW depth \in Nat,
                    depth + 1 <= StackLimit, StandsIn(t, i, Quoted(s), Byte)
             PROVE  reads[ValueAt(i + 1, depth)] = Good(Text(s), i + Len(Quoted(s)) + 1)
    BY ZenonT(60) DEF IsRead
<1> DEFINE Q == Quoted(s)
           stop == (i + 1) + Len(Q)
<1>1. Len(Q) \in Nat
    BY QuotedIs
<1>2. Spelt(t, i, Q)
    BY Zenon DEF StandsIn
<1>3. StringBack(t, i + 1, s)
    BY <1>2, StringSpelt
<1>4. TokenAt(t, i + 1) = Token("string", i + 1, stop)
    BY <1>3, Zenon DEF StringBack
<1>5. Scalar(t, TokenAt(t, i + 1)) = Good(Text(s), stop)
    BY <1>3, StringScalar
<1>6. i + 1 \in 1 .. Len(t) + 1 /\ depth \in 0 .. StackLimit /\ depth < StackLimit
    <2>1. i + Len(Q) <= Len(t)
        BY <1>2, Zenon DEF Spelt
    <2> HIDE DEF Q
    <2> QED
        BY <1>1, <2>1, StackLimitAssumption
<1>7. stop = i + Len(Q) + 1
    <2> HIDE DEF Q
    <2> QED
        BY <1>1
<1> HIDE DEF stop, Q
<1>8. reads[ValueAt(i + 1, depth)] = Scalar(t, Token("string", i + 1, stop))
    BY <1>4, <1>6, ScalarCalled
<1> QED
    BY <1>4, <1>5, <1>7, <1>8, Zenon DEF Q

\* A member with this name and this text stands behind the place a, and at c is
\* what follows it.
MemberIn(t, a, s, e, c) ==
    /\ Spelt(t, a, Quoted(s))
    /\ t[a + Len(Quoted(s)) + 1] = 58
    /\ Spelt(t, a + Len(Quoted(s)) + 1, e)
    /\ c = a + Len(Quoted(s)) + Len(e) + 2
    /\ c \in 1 .. Len(t) /\ t[c] \in {44, 125}

\* What the call for the members reads behind it.
RestAt(reads, c, d, s) == reads[MembersAt(c + 1, d, s # <<>>)]

LEMMA MemberRead ==
    ASSUME NEW t \in Seq(Byte), NEW reads, Parser(t, reads),
           NEW a \in Nat, NEW d \in Nat, NEW extra \in Nat \ {0}, d + extra <= StackLimit,
           NEW s \in Seq(Byte), NEW e \in Seq(Byte), NEW v, NEW c, MemberIn(t, a, s, e, c),
           IsRead(e, v, extra, {44, 125}), NEW n \in BOOLEAN
    PROVE  /\ t[c] = 125 => reads[MembersAt(a + 1, d, n)] = Good(<< <<s, v>> >>, c + 1)
           /\ t[c] = 44 => reads[MembersAt(a + 1, d, n)] =
                              Then(RestAt(reads, c, d, s),
                                   Good(<< <<s, v>> >> \o RestAt(reads, c, d, s).of,
                                        RestAt(reads, c, d, s).at))
<1> DEFINE Q == Quoted(s)
           first == a + 1
           colon == a + Len(Q) + 1
           token == TokenAt(t, first)
           name == Scalar(t, token)
           value == reads[ValueAt(colon + 1, d)]
           last == NextToken(t, c)
           rest == RestAt(reads, c, d, s)
           one == << <<s, v>> >>
           behind == IF last.type = "}" THEN Good(one, last.stop)
                     ELSE Then(rest, Good(one \o rest.of, rest.at))
<1>1. /\ Q \in Seq(Byte) /\ Len(Q) \in Nat /\ Len(e) \in Nat /\ Len(t) \in Nat /\ StackLimit \in Nat
      /\ Len(Q) >= 2
    <2>1. Q \in Seq(Byte) /\ Len(Q) \in Nat /\ Len(Q) >= 2
        BY QuotedIs
    <2> QED
        BY <2>1, StackLimitAssumption
<1>2. /\ Spelt(t, a, Q) /\ t[colon] = 58 /\ Spelt(t, colon, e)
      /\ c = a + Len(Q) + Len(e) + 2
      /\ c \in 1 .. Len(t) /\ t[c] \in {44, 125}
    BY Zenon DEF MemberIn
<1> HIDE DEF Q
<1>3. /\ first \in 1 .. Len(t) + 1 /\ colon \in 1 .. Len(t) /\ c = colon + Len(e) + 1
      /\ first + Len(Q) = colon
    BY <1>1, <1>2
<1>4. d \in 0 .. StackLimit /\ d < StackLimit
    BY <1>1
<1>5. StringBack(t, first, s)
    BY <1>2, StringSpelt DEF Q
<1>6. token = Token("string", first, colon)
    <2>1. token = Token("string", first, first + Len(Q))
        BY <1>5, Zenon DEF StringBack, Q
    <2> HIDE DEF token, first, colon
    <2> QED
        BY <1>3, <2>1, Zenon
<1>7. name = Good(Text(s), colon)
    <2>1. name = Good(Text(s), first + Len(Q))
        BY <1>5, StringScalar DEF Q
    <2> HIDE DEF name, first, colon
    <2> QED
        BY <1>3, <2>1, Zenon
<1>8. token.type = "string" /\ token.stop = colon
    <2> HIDE DEF token, first, colon
    <2> QED
        BY <1>6, TokenIs
<1>9. NextToken(t, first) = token
    <2>1. TokenAt(t, first).type # "comment"
        BY <1>8
    <2> HIDE DEF first
    <2> QED
        BY <1>3, <2>1, NextIsThis
<1>10. PunctAt(t, colon, ":")
    <2> HIDE DEF colon
    <2> QED
        BY <1>2, <1>3, PunctRead
<1>11. value = Good(v, c)
    <2>1. Char(t, colon + Len(e) + 1) \in {44, 125}
        <3>1. Char(t, c) = t[c]
            BY <1>2 DEF Char
        <3> HIDE DEF colon
        <3> QED
            BY <1>2, <1>3, <3>1, Zenon
    <2>2. StandsIn(t, colon, e, {44, 125})
        BY <1>2, <2>1, Zenon DEF StandsIn
    <2>3. colon \in Nat
        BY <1>3
    <2> HIDE DEF colon
    <2>4. value = Good(v, colon + Len(e) + 1)
        BY <2>2, <2>3, Reading DEF value
    <2> QED
        BY <1>3, <2>4, Zenon
<1> HIDE DEF value
<1>12. value.end = "ok" /\ value.of = v /\ value.at = c
    BY <1>11, GoodIs
<1> HIDE DEF name
<1>13. name.end = "ok" /\ name.of = Text(s) /\ name.at = colon
    <2> HIDE DEF colon
    <2> QED
        BY <1>7, GoodIs
<1>14. Of(name.of) = s
    BY <1>13 DEF Of, Text
<1>15. reads[MembersAt(first, d, n)] = MemberFrom(t, reads, name, TokenAt(t, colon), d)
    <2>1. reads[MembersAt(first, d, n)] = ReadsMembers(t, reads, first, d, n)
        <3> HIDE DEF first
        <3> QED
            BY <1>3, <1>4, MembersCalled
    <2>2. token.type # "}"
        BY <1>8
    <2> DEFINE m == MemberFrom(t, reads, IF token.type = "string" THEN Scalar(t, token) ELSE Failed,
                               TokenAt(t, token.stop), d)
    <2>3. ReadsMembers(t, reads, first, d, n) =
            IF token.type = "}" /\ ~n THEN Good(<<>>, token.stop) ELSE m
        <3> HIDE DEF token, first
        <3> QED
            BY <1>9, Zenon DEF ReadsMembers
    <2>4. ReadsMembers(t, reads, first, d, n) = m
        <3> HIDE DEF m, token, first
        <3> QED
            BY <2>2, <2>3, Zenon
    <2>5. m = MemberFrom(t, reads, name, TokenAt(t, colon), d)
        <3> HIDE DEF token, colon, first
        <3> QED
            BY <1>8, Zenon DEF name
    <2> HIDE DEF m, first, token
    <2> QED
        BY <2>1, <2>4, <2>5, Zenon
<1>16. MemberFrom(t, reads, name, TokenAt(t, colon), d) = Then(value, MembersBehind(t, reads, s, value, d))
    <2> DEFINE k == TokenAt(t, colon)
    <2>1. k.type = ":" /\ k.stop = colon + 1
        BY <1>10, Zenon DEF PunctAt
    <2> HIDE DEF k, colon
    <2> DEFINE w == reads[ValueAt(k.stop, d)]
               b == MembersBehind(t, reads, Of(name.of), w, d)
    <2>2. MemberFrom(t, reads, name, k, d) = IF name.end # "ok" \/ k.type # ":" THEN Failed ELSE Then(w, b)
        BY Zenon DEF MemberFrom
    <2>3. w = value
        BY <2>1, Zenon DEF value
    <2>4. b = MembersBehind(t, reads, s, value, d)
        <3> HIDE DEF w
        <3> QED
            BY <1>14, <2>3, Zenon
    <2> HIDE DEF w, b
    <2>5. MemberFrom(t, reads, name, k, d) = Then(w, b)
        BY <1>13, <2>1, <2>2, Zenon
    <2>6. MemberFrom(t, reads, name, k, d) = Then(value, MembersBehind(t, reads, s, value, d))
        BY <2>3, <2>4, <2>5, Zenon
    <2> QED
        BY <2>6 DEF k
<1>17. Then(value, MembersBehind(t, reads, s, value, d)) = MembersBehind(t, reads, s, value, d)
    BY <1>12, ThenIs, Zenon
<1>18. ASSUME NEW kind \in {"}", ","}, PunctAt(t, c, kind)
       PROVE  MembersBehind(t, reads, s, value, d) =
                IF kind = "}" THEN Good(one, c + 1) ELSE Then(rest, Good(one \o rest.of, rest.at))
    <2> DEFINE before == TokenAt(t, c)
               stop == c + 1
               r == reads[MembersAt(last.stop, d, s # <<>>)]
    <2>1. before.type = kind /\ last.type = kind /\ last.stop = stop
        BY <1>18, Zenon DEF PunctAt
    <2>2. before.type \in {"}", ",", "comment"}
        BY <2>1
    <2> HIDE DEF one, last, before, stop
    <2>3. r = rest
        BY <2>1, Zenon DEF RestAt, stop
    <2>4. MembersBehind(t, reads, s, value, d) =
            IF before.type \notin {"}", ",", "comment"} THEN Failed
            ELSE IF last.type = "}" THEN Good(one, last.stop)
            ELSE Then(r, Good(one \o r.of, r.at))
        <3>1. value.at = c /\ value.of = v
            BY <1>12
        <3> QED
            BY <3>1, Zenon DEF MembersBehind, one, before, last
    <2> HIDE DEF r, rest
    <2>5. MembersBehind(t, reads, s, value, d) =
            IF last.type = "}" THEN Good(one, last.stop)
            ELSE Then(r, Good(one \o r.of, r.at))
        BY <2>2, <2>4, Zenon
    <2>6. MembersBehind(t, reads, s, value, d) =
            IF kind = "}" THEN Good(one, stop) ELSE Then(rest, Good(one \o rest.of, rest.at))
        BY <2>1, <2>3, <2>5, Zenon
    <2> QED
        BY <2>6 DEF stop
<1>19. reads[MembersAt(first, d, n)] = MembersBehind(t, reads, s, value, d)
    BY <1>15, <1>16, <1>17, Zenon
<1> HIDE DEF rest, one, first
<1>20. ASSUME t[c] = 125 PROVE reads[MembersAt(first, d, n)] = Good(one, c + 1)
    <2>1. PunctAt(t, c, "}")
        BY <1>2, <1>20, PunctRead
    <2>2. "}" \in {"}", ","}
        OBVIOUS
    <2> QED
        BY <1>18, <1>19, <2>1, <2>2, Zenon
<1>21. ASSUME t[c] = 44
       PROVE  reads[MembersAt(first, d, n)] = Then(rest, Good(one \o rest.of, rest.at))
    <2>1. PunctAt(t, c, ",")
        BY <1>2, <1>21, PunctRead
    <2>2. "," \in {"}", ","} /\ "," # "}"
        OBVIOUS
    <2> QED
        BY <1>18, <1>19, <2>1, <2>2, Zenon
<1> QED
    BY <1>20, <1>21, Zenon DEF rest, one, first

\* The text of a member with what separates it from the one before.
MemberText(comma, Q, e) == comma \o Q \o <<Colon>> \o e

IsMemberText(u, comma, Q, e) ==
    /\ Len(u) = Len(comma) + Len(Q) + Len(e) + 1
    /\ \A n \in 1 .. Len(comma) : u[n] = comma[n]
    /\ \A n \in 1 .. Len(Q) : u[Len(comma) + n] = Q[n]
    /\ u[Len(comma) + Len(Q) + 1] = 58
    /\ \A n \in 1 .. Len(e) : u[Len(comma) + Len(Q) + 1 + n] = e[n]

LEMMA MemberTextIs ==
    ASSUME NEW comma \in Seq(Byte), NEW Q \in Seq(Byte), NEW e \in Seq(Byte)
    PROVE  /\ MemberText(comma, Q, e) \in Seq(Byte)
           /\ IsMemberText(MemberText(comma, Q, e), comma, Q, e)
<1> DEFINE c == <<Colon>>
           a == comma \o Q
           b == a \o c
           u == b \o e
<1>1. c \in Seq(Byte) /\ Len(c) = 1 /\ c[1] = 58
    BY SMT DEF Colon, Byte
<1> HIDE DEF c
<1>2. a \in Seq(Byte) /\ IsJoin(a, comma, Q, Byte)
    BY JoinedAny
<1> HIDE DEF a
<1>3. b \in Seq(Byte) /\ IsJoin(b, a, c, Byte)
    BY <1>1, <1>2, JoinedAny
<1> HIDE DEF b
<1>4. u \in Seq(Byte) /\ IsJoin(u, b, e, Byte)
    BY <1>3, JoinedAny
<1> HIDE DEF u
<1> DEFINE p == Len(comma)
           q == Len(Q)
           m == Len(e)
<1>5. p \in Nat /\ q \in Nat /\ m \in Nat
    OBVIOUS
<1>6. Len(a) = p + q /\ Len(b) = p + q + 1 /\ Len(u) = p + q + m + 1
    BY <1>1, <1>2, <1>3, <1>4, <1>5 DEF IsJoin
<1>7. \A n \in 1 .. p + q : u[n] = a[n]
    <2> TAKE n \in 1 .. p + q
    <2>1. n \in 1 .. Len(a) /\ n \in 1 .. Len(b)
        BY <1>5, <1>6
    <2> QED
        BY <1>3, <1>4, <2>1, Zenon DEF IsJoin
<1>8. \A n \in 1 .. p : u[n] = comma[n]
    <2> TAKE n \in 1 .. p
    <2>1. n \in 1 .. p + q
        BY <1>5
    <2> QED
        BY <1>2, <1>7, <2>1, Zenon DEF IsJoin
<1>9. \A n \in 1 .. q : u[p + n] = Q[n]
    <2> TAKE n \in 1 .. q
    <2>1. p + n \in 1 .. p + q
        BY <1>5
    <2> QED
        BY <1>2, <1>7, <2>1, Zenon DEF IsJoin
<1>10. u[p + q + 1] = 58
    <2>1. 1 \in 1 .. Len(c) /\ p + q + 1 \in 1 .. Len(b)
        BY <1>1, <1>5, <1>6
    <2>2. b[p + q + 1] = c[1]
        BY <1>3, <1>6, <2>1, Zenon DEF IsJoin
    <2>3. u[p + q + 1] = b[p + q + 1]
        BY <1>4, <2>1, Zenon DEF IsJoin
    <2> QED
        BY <1>1, <2>2, <2>3
<1>11. \A n \in 1 .. m : u[p + q + 1 + n] = e[n]
    BY <1>4, <1>6, Zenon DEF IsJoin
<1>12. IsMemberText(u, comma, Q, e)
    BY <1>6, <1>8, <1>9, <1>10, <1>11, Zenon DEF IsMemberText
<1> QED
    BY <1>4, <1>12, Zenon DEF MemberText, u, b, a, c

\* Names and texts of members.
Named == Seq(Byte) \X Seq(Byte)

\* Where the brackets and commas before the members are in what is written for
\* an object, and the bracket behind the last one.
Starts(W, members, start) ==
    /\ start \in [1 .. Len(members) + 1 -> Nat]
    /\ start[1] = 1 /\ W[1] = 123
    /\ start[Len(members) + 1] = Len(W) /\ W[Len(W)] = 125
    /\ \A k \in 2 .. Len(members) : W[start[k]] = 44
    /\ \A k \in 1 .. Len(members) :
          MemberIn(W, start[k], members[k][1], members[k][2], start[k + 1])

Separator(k) == IF k > 1 THEN <<Comma>> ELSE <<>>

LEMMA Stringified ==
    ASSUME NEW members \in Seq(Named), Len(members) # 0
    PROVE  /\ Stringify(members) \in Seq(Byte)
           /\ \E start : Starts(Stringify(members), members, start)
<1> DEFINE K == Len(members)
           name(k) == members[k][1]
           e(k) == members[k][2]
           Q(k) == Quoted(name(k))
           part(k) == MemberText(Separator(k), Q(k), e(k))
           parts == [k \in DOMAIN members |-> part(k)]
           J == Joined(parts)
           W == Enclosed(OpenBrace, J, CloseBrace)
<1>1. K \in Nat \ {0} /\ DOMAIN members = 1 .. K
    OBVIOUS
<1>2. \A k \in 1 .. K : name(k) \in Seq(Byte) /\ e(k) \in Seq(Byte)
    BY DEF Named
<1>3. Stringify(members) = W
    BY Zenon DEF Stringify, Enclosed, MemberText, Separator
<1>4. \A k \in 1 .. K : Q(k) \in Seq(Byte) /\ Len(Q(k)) \in Nat /\ Len(e(k)) \in Nat
    <2> HIDE DEF name, e
    <2> QED
        BY <1>2, QuotedIs
<1>5. \A k : Separator(k) \in Seq(Byte)
    <2>1. <<Comma>> \in Seq(Byte) /\ <<>> \in Seq(Byte)
        BY SMT DEF Comma, Byte
    <2> QED
        BY <2>1, Zenon DEF Separator
<1>6. /\ \A k \in 2 .. K + 1 : Len(Separator(k)) = 1 /\ Separator(k)[1] = 44
      /\ Len(Separator(1)) = 0
    <2>1. \A k \in 2 .. K + 1 : k > 1
        BY <1>1
    <2>2. ~(1 > 1) /\ Len(<<>>) = 0
        OBVIOUS
    <2>3. Len(<<Comma>>) = 1 /\ <<Comma>>[1] = 44
        BY DEF Comma
    <2> QED
        BY <2>1, <2>2, <2>3, Zenon DEF Separator
<1> HIDE DEF name, e, Q
<1>7. \A k \in 1 .. K : part(k) \in Seq(Byte) /\ IsMemberText(part(k), Separator(k), Q(k), e(k))
    BY <1>2, <1>4, <1>5, MemberTextIs
<1> HIDE DEF part
<1>8. parts \in Seq(Seq(Byte)) /\ Len(parts) = K /\ \A k \in 1 .. K : parts[k] = part(k)
    BY <1>1, <1>7
<1> HIDE DEF parts
<1>9. J \in Seq(Byte) /\ \E place : Placed(J, parts, place)
    BY <1>8, JoinedPlaces, Zenon
<1> HIDE DEF J
<1>10. PICK place : Placed(J, parts, place)
    BY <1>9
<1>11. /\ place \in [0 .. K -> Nat] /\ place[0] = 0 /\ place[K] = Len(J)
       /\ \A k \in 1 .. K :
             /\ place[k] = place[k - 1] + Len(part(k))
             /\ place[k] <= Len(J)
             /\ \A i \in 1 .. Len(part(k)) : J[place[k - 1] + i] = part(k)[i]
    <2>1. /\ place \in [0 .. K -> Nat] /\ place[0] = 0 /\ place[K] = Len(J)
          /\ \A k \in 1 .. K :
                /\ place[k] = place[k - 1] + Len(parts[k])
                /\ place[k] <= Len(J)
                /\ \A i \in 1 .. Len(parts[k]) : J[place[k - 1] + i] = parts[k][i]
        BY <1>8, <1>10, Zenon DEF Placed
    <2>2. ASSUME NEW k \in 1 .. K
          PROVE  /\ place[k] = place[k - 1] + Len(part(k))
                 /\ place[k] <= Len(J)
                 /\ \A i \in 1 .. Len(part(k)) : J[place[k - 1] + i] = part(k)[i]
        <3> DEFINE w == part(k)
        <3>1. parts[k] = w
            BY <1>8
        <3> HIDE DEF w
        <3>2. /\ place[k] = place[k - 1] + Len(w)
              /\ place[k] <= Len(J)
              /\ \A i \in 1 .. Len(w) : J[place[k - 1] + i] = w[i]
            BY <2>1, <3>1, SMT
        <3> QED
            BY <3>2, Zenon DEF w
    <2> QED
        BY <2>1, <2>2
<1>12. W \in Seq(Byte) /\ IsEnclosed(W, OpenBrace, J, CloseBrace)
    <2>1. OpenBrace \in Byte /\ CloseBrace \in Byte
        BY SMT DEF OpenBrace, CloseBrace, Byte
    <2> QED
        BY <1>9, <2>1, EnclosedAre, Zenon
<1> HIDE DEF W
<1>13. Len(W) = Len(J) + 2 /\ Len(J) \in Nat /\ W[1] = 123 /\ W[Len(J) + 2] = 125
       /\ \A n \in 1 .. Len(J) : W[n + 1] = J[n]
    BY <1>12 DEF IsEnclosed, OpenBrace, CloseBrace
<1> DEFINE start == [k \in 1 .. K + 1 |-> IF k = 1 THEN 1 ELSE place[k - 1] + 2]
<1>14. start \in [1 .. K + 1 -> Nat]
    <2>1. \A k \in 1 .. K + 1 : k # 1 => k - 1 \in 0 .. K
        BY <1>1
    <2>2. place \in [0 .. K -> Nat]
        BY <1>11
    <2> QED
        BY <2>1, <2>2
<1>15. start[1] = 1 /\ start[K + 1] = Len(W) /\ W[Len(W)] = 125
    BY <1>1, <1>11, <1>13
<1>16. \A k \in 1 .. K : place[k - 1] + Len(Separator(k)) + 1 = start[k]
    <2> TAKE k \in 1 .. K
    <2>1. CASE k = 1
        BY <1>1, <1>6, <1>11, <2>1
    <2>2. CASE k # 1
        <3>1. k \in 2 .. K + 1 /\ k - 1 \in 0 .. K /\ k \in 1 .. K + 1
            BY <1>1, <2>2
        <3>2. Len(Separator(k)) = 1
            BY <1>6, <3>1, Zenon
        <3>3. place[k - 1] \in Nat
            BY <1>11, <3>1
        <3>4. start[k] = place[k - 1] + 2
            BY <2>2, <3>1
        <3> HIDE DEF start
        <3> QED
            BY <3>2, <3>3, <3>4
    <2> QED
        BY <2>1, <2>2
<1>17. \A k \in 1 .. K : start[k + 1] = place[k] + 2
    <2> TAKE k \in 1 .. K
    <2>1. k + 1 \in 1 .. K + 1 /\ k + 1 # 1 /\ (k + 1) - 1 = k
        BY <1>1
    <2> QED
        BY <2>1, Zenon
<1> HIDE DEF start
<1>18. ASSUME NEW k \in 1 .. K
       PROVE  /\ start[k] = place[k - 1] + Len(Separator(k)) + 1
              /\ start[k + 1] = start[k] + Len(Q(k)) + Len(e(k)) + 2
              /\ start[k + 1] <= Len(W) /\ start[k] \in Nat
              /\ \A n \in 1 .. Len(part(k)) : W[place[k - 1] + n + 1] = part(k)[n]
    <2>1. start[k] = place[k - 1] + Len(Separator(k)) + 1 /\ start[k + 1] = place[k] + 2
        BY <1>16, <1>17
    <2>2. k - 1 \in 0 .. K /\ k \in 0 .. K /\ k \in 1 .. K + 1
        BY <1>1
    <2>3. place[k - 1] \in Nat /\ place[k] \in Nat /\ start[k] \in Nat
        BY <1>11, <1>14, <2>2
    <2>4. Len(part(k)) = Len(Separator(k)) + Len(Q(k)) + Len(e(k)) + 1
        BY <1>7, Zenon DEF IsMemberText
    <2>5. place[k] = place[k - 1] + Len(part(k)) /\ place[k] <= Len(J)
        BY <1>11
    <2>6. Len(Separator(k)) \in Nat /\ Len(Q(k)) \in Nat /\ Len(e(k)) \in Nat
        BY <1>4, <1>5
    <2> DEFINE l == Len(part(k))
    <2>7. l \in Nat
        BY <2>4, <2>6
    <2>8. \A n \in 1 .. l : W[place[k - 1] + n + 1] = part(k)[n]
        <3> TAKE n \in 1 .. l
        <3>1. place[k - 1] + n \in 1 .. Len(J)
            BY <1>13, <2>3, <2>5, <2>7, SMTT(40)
        <3>2. W[(place[k - 1] + n) + 1] = J[place[k - 1] + n]
            BY <1>13, <3>1, Zenon
        <3>3. J[place[k - 1] + n] = part(k)[n]
            BY <1>11, Zenon
        <3> QED
            BY <3>2, <3>3
    <2>9. start[k + 1] = start[k] + Len(Q(k)) + Len(e(k)) + 2 /\ start[k + 1] <= Len(W)
        <3> DEFINE p == Len(Separator(k))
                   q == Len(Q(k))
                   m == Len(e(k))
                   a == place[k - 1]
                   b == place[k]
                   j == Len(J)
        <3>1. /\ p \in Nat /\ q \in Nat /\ m \in Nat /\ a \in Nat /\ b \in Nat /\ j \in Nat
              /\ l = p + q + m + 1 /\ b = a + l /\ b <= j
            BY <1>13, <2>3, <2>4, <2>5, <2>6
        <3>2. start[k] = a + p + 1 /\ start[k + 1] = b + 2 /\ Len(W) = j + 2
            BY <1>13, <2>1
        <3> HIDE DEF p, q, m, a, b, j, l
        <3>3. start[k + 1] = start[k] + q + m + 2 /\ start[k + 1] <= Len(W)
            BY <3>1, <3>2
        <3> QED
            BY <3>3 DEF q, m
    <2> QED
        BY <2>1, <2>3, <2>8, <2>9
<1>19. \A k \in 2 .. K : W[start[k]] = 44
    <2> TAKE k \in 2 .. K
    <2>1. k \in 1 .. K /\ k \in 2 .. K + 1 /\ k - 1 \in 0 .. K
        BY <1>1
    <2>2. Len(Separator(k)) = 1 /\ Separator(k)[1] = 44
        BY <1>6, <2>1, Zenon
    <2>3. start[k] = place[k - 1] + 1 + 1
        BY <1>18, <2>1, <2>2, Zenon
    <2>4. Len(part(k)) = Len(Separator(k)) + Len(Q(k)) + Len(e(k)) + 1 /\ part(k)[1] = 44
        <3>1. IsMemberText(part(k), Separator(k), Q(k), e(k))
            BY <1>7, <2>1
        <3>2. 1 \in 1 .. Len(Separator(k))
            BY <2>2
        <3>3. part(k)[1] = Separator(k)[1]
            BY <3>1, <3>2, Zenon DEF IsMemberText
        <3> QED
            BY <2>2, <3>1, <3>3, Zenon DEF IsMemberText
    <2>5. 1 \in 1 .. Len(part(k))
        BY <1>4, <2>1, <2>2, <2>4
    <2>6. W[place[k - 1] + 1 + 1] = part(k)[1]
        BY <1>18, <2>1, <2>5, Zenon
    <2> QED
        BY <2>3, <2>4, <2>6, Zenon
<1>20. \A k \in 1 .. K : W[start[k + 1]] \in {44, 125}
    <2> TAKE k \in 1 .. K
    <2>1. CASE k = K
        BY <1>15, <2>1
    <2>2. CASE k # K
        <3>1. k + 1 \in 2 .. K
            <4> HIDE DEF K
            <4> QED
                BY <1>1, <2>2
        <3> QED
            BY <1>19, <3>1
    <2> QED
        BY <2>1, <2>2
<1>21. \A k \in 1 .. K : MemberIn(W, start[k], name(k), e(k), start[k + 1])
    <2> TAKE k \in 1 .. K
    <2> DEFINE p == Len(Separator(k))
               q == Len(Q(k))
               m == Len(e(k))
               b == place[k - 1]
               u == part(k)
               s == start[k]
               c == start[k + 1]
    <2>1. p \in Nat /\ q \in Nat /\ m \in Nat
        BY <1>4, <1>5
    <2>2. b \in Nat
        BY <1>1, <1>11
    <2>3. /\ s = b + p + 1 /\ c = s + q + m + 2 /\ c <= Len(W) /\ s \in Nat
          /\ \A n \in 1 .. Len(u) : W[b + n + 1] = u[n]
        BY <1>18
    <2>4. /\ Len(u) = p + q + m + 1
          /\ \A n \in 1 .. q : u[p + n] = Q(k)[n]
          /\ u[p + q + 1] = 58
          /\ \A n \in 1 .. m : u[p + q + 1 + n] = e(k)[n]
        BY <1>7, Zenon DEF IsMemberText
    <2>11. Len(W) \in Nat
        BY <1>12
    <2> HIDE DEF p, q, m, b, u, s, c
    <2>5. s + q <= Len(W) /\ (s + q + 1) + m <= Len(W) /\ c \in 1 .. Len(W)
        BY <2>1, <2>2, <2>3, <2>11
    <2>6. \A n \in 1 .. q : W[s + n] = Q(k)[n]
        <3> TAKE n \in 1 .. q
        <3>1. p + n \in 1 .. Len(u) /\ b + (p + n) + 1 = s + n
            BY <2>1, <2>2, <2>3, <2>4
        <3>2. W[b + (p + n) + 1] = u[p + n]
            BY <2>3, <3>1, Zenon
        <3> QED
            BY <2>4, <3>1, <3>2, Zenon
    <2>7. W[s + q + 1] = 58
        <3>1. p + q + 1 \in 1 .. Len(u) /\ b + (p + q + 1) + 1 = s + q + 1
            BY <2>1, <2>2, <2>3, <2>4
        <3>2. W[b + (p + q + 1) + 1] = u[p + q + 1]
            BY <2>3, <3>1, Zenon
        <3> QED
            BY <2>4, <3>1, <3>2, Zenon
    <2>8. \A n \in 1 .. m : W[(s + q + 1) + n] = e(k)[n]
        <3> TAKE n \in 1 .. m
        <3>1. p + q + 1 + n \in 1 .. Len(u) /\ b + (p + q + 1 + n) + 1 = (s + q + 1) + n
            BY <2>1, <2>2, <2>3, <2>4
        <3>2. W[b + (p + q + 1 + n) + 1] = u[p + q + 1 + n]
            BY <2>3, <3>1, Zenon
        <3> QED
            BY <2>4, <3>1, <3>2, Zenon
    <2>9. Spelt(W, s, Q(k)) /\ Spelt(W, s + q + 1, e(k))
        BY <2>5, <2>6, <2>8, Zenon DEF Spelt, q, m
    <2>10. W[c] \in {44, 125}
        BY <1>20, Zenon DEF c
    <2> QED
        BY <2>3, <2>5, <2>7, <2>9, <2>10, Zenon DEF MemberIn, q, m, Q, s, c
<1>22. Starts(W, members, start)
    BY <1>13, <1>14, <1>15, <1>19, <1>21, Zenon DEF Starts, name, e
<1> QED
    BY <1>3, <1>12, <1>22

LEMMA SpeltAt ==
    ASSUME NEW t \in Seq(Byte), NEW W \in Seq(Byte), NEW i \in Nat, Spelt(t, i, W),
           NEW n \in 1 .. Len(W)
    PROVE  i + n \in 1 .. Len(t) /\ t[i + n] = W[n]
<1>1. i + Len(W) <= Len(t) /\ t[i + n] = W[n]
    BY Zenon DEF Spelt
<1> QED
    BY <1>1

LEMMA SpeltIn ==
    ASSUME NEW t \in Seq(Byte), NEW W \in Seq(Byte), NEW i \in Nat, Spelt(t, i, W),
           NEW e \in Seq(Byte), NEW a \in Nat, Spelt(W, a, e)
    PROVE  Spelt(t, i + a, e)
<1> DEFINE m == Len(e)
           w == Len(W)
           l == Len(t)
<1>1. m \in Nat /\ w \in Nat /\ l \in Nat
    OBVIOUS
<1>2. i + w <= l /\ a + m <= w
    BY Zenon DEF Spelt
<1>3. ASSUME NEW n \in 1 .. m PROVE t[i + a + n] = e[n]
    <2>1. W[a + n] = e[n]
        BY <1>3, Zenon DEF Spelt
    <2>2. a + n \in 1 .. w /\ i + a + n = i + (a + n)
        <3> HIDE DEF m, w
        <3> QED
            BY <1>1, <1>2
    <2>3. t[i + (a + n)] = W[a + n]
        BY <2>2, SpeltAt
    <2> QED
        BY <2>1, <2>2, <2>3, Zenon
<1>4. i + a + m <= l
    <2> HIDE DEF m, w, l
    <2> QED
        BY <1>1, <1>2
<1> QED
    BY <1>3, <1>4, Zenon DEF Spelt

LEMMA MemberMoves ==
    ASSUME NEW t \in Seq(Byte), NEW W \in Seq(Byte), NEW i \in Nat, Spelt(t, i, W),
           NEW a \in Nat, NEW s \in Seq(Byte), NEW e \in Seq(Byte), NEW c, MemberIn(W, a, s, e, c)
    PROVE  MemberIn(t, i + a, s, e, i + c) /\ t[i + c] = W[c]
<1> DEFINE Q == Quoted(s)
           q == Len(Q)
           m == Len(e)
           w == Len(W)
<1>1. Q \in Seq(Byte) /\ q \in Nat /\ m \in Nat /\ w \in Nat
    BY QuotedIs
<1>2. /\ Spelt(W, a, Q) /\ W[a + q + 1] = 58 /\ Spelt(W, a + q + 1, e)
      /\ c = a + q + m + 2 /\ c \in 1 .. w /\ W[c] \in {44, 125}
    BY Zenon DEF MemberIn
<1> HIDE DEF Q
<1>3. Spelt(t, i + a, Q)
    BY <1>1, <1>2, SpeltIn
<1>4. Spelt(t, i + a + q + 1, e)
    <2>1. a + q + 1 \in Nat /\ i + (a + q + 1) = i + a + q + 1
        BY <1>1
    <2>2. Spelt(t, i + (a + q + 1), e)
        BY <1>2, <2>1, SpeltIn
    <2> QED
        BY <2>1, <2>2, Zenon
<1>5. t[i + a + q + 1] = 58
    <2> HIDE DEF q, m
    <2>1. a + q + 1 \in 1 .. w /\ i + (a + q + 1) = i + a + q + 1
        BY <1>1, <1>2
    <2>2. t[i + (a + q + 1)] = W[a + q + 1]
        BY <2>1, SpeltAt
    <2> QED
        BY <1>2, <2>1, <2>2, Zenon
<1>6. i + c \in 1 .. Len(t) /\ t[i + c] = W[c]
    BY <1>2, SpeltAt
<1>7. i + c = i + a + q + m + 2
    <2> HIDE DEF q, m
    <2> QED
        BY <1>1, <1>2
<1> QED
    BY <1>2, <1>3, <1>4, <1>5, <1>6, <1>7, Zenon DEF MemberIn, Q, q, m

LEMMA LastRead ==
    ASSUME NEW t \in Seq(Byte), NEW reads, Parser(t, reads),
           NEW a \in Nat, NEW d \in Nat, NEW extra \in Nat \ {0}, d + extra <= StackLimit,
           NEW s \in Seq(Byte), NEW e \in Seq(Byte), NEW v, NEW c, MemberIn(t, a, s, e, c),
           IsRead(e, v, extra, {44, 125}), t[c] = 125
    PROVE  MembersGood(reads, a + 1, d, << <<s, v>> >>, c + 1)
<1> QED
    BY MemberRead DEF MembersGood

LEMMA OneMoreRead ==
    ASSUME NEW t \in Seq(Byte), NEW reads, Parser(t, reads),
           NEW a \in Nat, NEW d \in Nat, NEW extra \in Nat \ {0}, d + extra <= StackLimit,
           NEW s \in Seq(Byte), NEW e \in Seq(Byte), NEW v, NEW c, MemberIn(t, a, s, e, c),
           IsRead(e, v, extra, {44, 125}), t[c] = 44,
           NEW pairs, NEW stop, MembersGood(reads, c + 1, d, pairs, stop)
    PROVE  MembersGood(reads, a + 1, d, << <<s, v>> >> \o pairs, stop)
<1> DEFINE rest == RestAt(reads, c, d, s)
           one == << <<s, v>> >>
<1>1. rest = Good(pairs, stop)
    <2>1. (s # <<>>) \in BOOLEAN
        OBVIOUS
    <2> QED
        BY <2>1, Zenon DEF RestAt, MembersGood
<1> HIDE DEF rest
<1>2. rest.end = "ok" /\ rest.of = pairs /\ rest.at = stop
    BY <1>1, GoodIs
<1>3. ASSUME NEW n \in BOOLEAN PROVE reads[MembersAt(a + 1, d, n)] = Good(one \o pairs, stop)
    <2>1. reads[MembersAt(a + 1, d, n)] = Then(rest, Good(one \o rest.of, rest.at))
        BY MemberRead DEF rest
    <2> HIDE DEF one
    <2> QED
        BY <1>2, <2>1, ThenIs, Zenon
<1> QED
    BY <1>3 DEF MembersGood

\* What the members are read as.
ReadAs(members, pairs, vals, d) ==
    \A k \in 1 .. Len(members) :
        pairs[k] = <<members[k][1], vals[k]>> /\ IsRead(members[k][2], vals[k], d, {44, 125})

LEMMA ObjectIsRead ==
    ASSUME NEW members \in Seq(Named), Len(members) # 0, NEW P, NEW pairs \in Seq(P),
           Len(pairs) = Len(members), NEW vals, NEW extra \in Nat \ {0}, ReadAs(members, pairs, vals, extra)
    PROVE  IsRead(Stringify(members), ObjectOf(pairs), extra + 1, Byte)
<1> DEFINE W == Stringify(members)
           whole == ObjectOf(pairs)
           above == extra + 1
           K == Len(members)
           name(k) == members[k][1]
           text(k) == members[k][2]
<1>1. W \in Seq(Byte) /\ K \in Nat \ {0}
    BY Stringified
<1>2. PICK start : Starts(W, members, start)
    BY Stringified
<1> SUFFICES IsRead(W, whole, above, Byte)
    OBVIOUS
<1> HIDE DEF W, whole, above
<1> SUFFICES \A t \in Seq(Byte) : \A reads : Parser(t, reads) =>
                 \A i \in Nat, depth \in Nat :
                    depth + above <= StackLimit /\ StandsIn(t, i, W, Byte) =>
                        reads[ValueAt(i + 1, depth)] = Good(whole, i + Len(W) + 1)
    BY DEF IsRead
<1> TAKE t \in Seq(Byte)
<1> TAKE reads
<1> HAVE Parser(t, reads)
<1> TAKE i \in Nat, depth \in Nat
<1> HAVE depth + above <= StackLimit /\ StandsIn(t, i, W, Byte)
<1>3. Spelt(t, i, W)
    BY Zenon DEF StandsIn
<1>4. /\ start \in [1 .. K + 1 -> Nat]
      /\ start[1] = 1 /\ W[1] = 123
      /\ start[K + 1] = Len(W) /\ W[Len(W)] = 125
      /\ \A k \in 2 .. K : W[start[k]] = 44
      /\ \A k \in 1 .. K : MemberIn(W, start[k], name(k), text(k), start[k + 1])
    BY <1>2, Zenon DEF Starts
<1>5. \A k \in 1 .. K : name(k) \in Seq(Byte) /\ text(k) \in Seq(Byte)
    BY DEF Named
<1>6. \A k \in 1 .. K : pairs[k] = <<name(k), vals[k]>> /\ IsRead(text(k), vals[k], extra, {44, 125})
    BY Zenon DEF ReadAs
<1> HIDE DEF name, text
<1> DEFINE deep == depth + 1
           stop == i + Len(W) + 1
           From(k) == MembersGood(reads, i + start[k] + 1, deep, SubSeq(pairs, k, K), stop)
<1>7. deep \in Nat /\ deep + extra <= StackLimit
    BY StackLimitAssumption DEF above
<1>8. \A k \in 1 .. K + 1 : start[k] \in Nat /\ i + start[k] \in Nat
    <2>1. start \in [1 .. K + 1 -> Nat]
        BY <1>4
    <2> HIDE DEF K
    <2> QED
        BY <2>1
<1>9. ASSUME NEW k \in 1 .. K
      PROVE  /\ MemberIn(t, i + start[k], name(k), text(k), i + start[k + 1])
             /\ t[i + start[k + 1]] = W[start[k + 1]]
    <2>1. k \in 1 .. K + 1
        BY <1>1
    <2>2. start[k] \in Nat
        BY <1>8, <2>1
    <2>3. MemberIn(W, start[k], name(k), text(k), start[k + 1])
        BY <1>4
    <2> QED
        BY <1>1, <1>3, <1>5, <2>2, <2>3, MemberMoves
<1> HIDE DEF deep
<1>10. From(K)
    <2>1. K \in 1 .. K /\ K \in 1 .. K + 1
        BY <1>1
    <2> DEFINE a == i + start[K]
               c == i + start[K + 1]
    <2>2. a \in Nat /\ MemberIn(t, a, name(K), text(K), c) /\ t[c] = 125 /\ stop = c + 1
        <3>1. a \in Nat
            BY <1>8, <2>1
        <3>2. MemberIn(t, a, name(K), text(K), c)
            BY <1>9, <2>1
        <3>3. t[c] = 125
            <4>1. t[c] = W[start[K + 1]]
                BY <1>9, <2>1
            <4>2. W[start[K + 1]] = 125
                BY <1>4
            <4> QED
                BY <4>1, <4>2
        <3>4. stop = c + 1
            BY <1>4
        <3> QED
            BY <3>1, <3>2, <3>3, <3>4
    <2> HIDE DEF a, c, stop, K
    <2> DEFINE s == name(K)
               e == text(K)
               v == vals[K]
    <2>8. s \in Seq(Byte) /\ e \in Seq(Byte) /\ IsRead(e, v, extra, {44, 125})
        BY <1>5, <1>6, <2>1
    <2> HIDE DEF s, e, v
    <2>9. MembersGood(reads, a + 1, deep, << <<s, v>> >>, c + 1)
        BY <1>7, <2>2, <2>8, LastRead DEF s, e
    <2>3. MembersGood(reads, a + 1, deep, << <<name(K), vals[K]>> >>, c + 1)
        BY <2>9 DEF s, v
    <2>4. SubSeq(pairs, K, K) = << pairs[K] >> \o SubSeq(pairs, K + 1, K)
        <3>1. Len(pairs) = K
            BY DEF K
        <3>2. K \in 1 .. Len(pairs) /\ K \in K .. Len(pairs)
            BY <1>1, <3>1
        <3> QED
            BY <3>2, SubSeqRecursiveFirst
    <2>5. SubSeq(pairs, K + 1, K) = <<>>
        BY <1>1, SubSeqEmpty
    <2>6. << pairs[K] >> \o <<>> = << pairs[K] >>
        OBVIOUS
    <2>7. SubSeq(pairs, K, K) = << <<name(K), vals[K]>> >>
        BY <1>6, <2>1, <2>4, <2>5, <2>6, Zenon
    <2> QED
        BY <2>2, <2>3, <2>7, Zenon DEF a
<1>11. ASSUME NEW k \in 1 .. K, k # K, From(k + 1) PROVE From(k)
    <2> DEFINE a == i + start[k]
               c == i + start[k + 1]
               rest == SubSeq(pairs, k + 1, K)
    <2>1. k + 1 \in 2 .. K /\ k \in 1 .. K + 1
        <3> HIDE DEF K
        <3> QED
            BY <1>1, <1>11
    <2>2. a \in Nat /\ MemberIn(t, a, name(k), text(k), c) /\ t[c] = 44
        <3>1. a \in Nat
            BY <1>8, <2>1
        <3>2. W[start[k + 1]] = 44
            BY <1>4, <2>1, ZenonT(60)
        <3> QED
            BY <1>9, <3>1, <3>2, Zenon
    <2>3. MembersGood(reads, c + 1, deep, rest, stop)
        BY <1>11
    <2>4. SubSeq(pairs, k, K) = << pairs[k] >> \o rest
        <3>1. Len(pairs) = K
            OBVIOUS
        <3> HIDE DEF K
        <3>2. k \in 1 .. Len(pairs) /\ K \in k .. Len(pairs)
            BY <1>1, <3>1
        <3> QED
            BY <3>2, SubSeqRecursiveFirst
    <2>5. SubSeq(pairs, k, K) = << <<name(k), vals[k]>> >> \o rest
        <3> HIDE DEF rest
        <3> QED
            BY <1>6, <2>4, Zenon
    <2> HIDE DEF a, c, rest, stop, K
    <2>6. MembersGood(reads, a + 1, deep, << <<name(k), vals[k]>> >> \o rest, stop)
        BY <1>5, <1>6, <1>7, <2>2, <2>3, OneMoreRead
    <2> QED
        BY <2>5, <2>6, Zenon DEF a
<1> HIDE DEF From, K
<1> DEFINE S == {m \in Nat : m < K => From(K - m)}
<1>12. 0 \in S
    <2>1. K - 0 = K
        BY <1>1
    <2> QED
        BY <1>10, <2>1
<1>13. ASSUME NEW m \in S PROVE m + 1 \in S
    <2> SUFFICES ASSUME m + 1 < K PROVE From(K - (m + 1))
        OBVIOUS
    <2> DEFINE k == K - (m + 1)
    <2>1. m < K /\ k \in 1 .. K /\ k # K /\ k + 1 = K - m
        BY <1>1
    <2>2. From(k + 1)
        BY <2>1
    <2> HIDE DEF k
    <2>3. From(k)
        BY <1>11, <2>1, <2>2
    <2> QED
        BY <2>3 DEF k
<1>14. \A m \in Nat : m \in S
    <2> HIDE DEF S
    <2> QED
        BY <1>12, <1>13, Induction
<1>15. From(1)
    <2>1. K - 1 \in Nat /\ K - 1 < K /\ K - (K - 1) = 1
        BY <1>1
    <2>2. K - 1 \in S
        BY <1>14, <2>1
    <2>3. From(K - (K - 1))
        BY <2>1, <2>2
    <2> QED
        BY <2>1, <2>3, Zenon
<1>16. MembersGood(reads, i + 1 + 1, deep, pairs, stop)
    <2>1. SubSeq(pairs, 1, K) = pairs
        BY SubSeqFull DEF K
    <2> HIDE DEF stop
    <2> QED
        BY <1>4, <1>15, <2>1, Zenon DEF From
<1>17. i + 1 \in 1 .. Len(t) /\ t[i + 1] = 123
    <2>1. 1 \in 1 .. Len(W)
        <3>1. MemberIn(W, start[1], name(1), text(1), start[2])
            <4>1. 1 \in 1 .. K /\ 1 + 1 = 2
                BY <1>1
            <4> QED
                BY <1>4, <4>1, Zenon
        <3>2. start[2] \in 1 .. Len(W)
            BY <3>1, Zenon DEF MemberIn
        <3> QED
            BY <1>1, <3>2
    <2> QED
        BY <1>1, <1>3, <1>4, <2>1, SpeltAt
<1>18. depth \in 0 .. StackLimit /\ depth < StackLimit
    BY <1>1, StackLimitAssumption DEF above
<1>19. MembersGood(reads, (i + 1) + 1, depth + 1, pairs, stop)
    BY <1>16 DEF deep
<1> HIDE DEF stop
<1>20. reads[ValueAt(i + 1, depth)] = Good(ObjectOf(pairs), stop)
    BY <1>17, <1>18, <1>19, ObjectCalled
<1> QED
    BY <1>20 DEF stop, whole

-----------------------------------------------------------------------------
(* Numbers are read                                                          *)

Exponents == {69, 101}
Signs == {Plus, Minus}

\* What a number is read by.
Classes == {Digits, {Dot}, Exponents, Signs}

\* Behind the place i is w, as far as numbers go, and what ends a number.
Alike(t, i, w) ==
    /\ i + Len(w) + 1 <= Len(t)
    /\ \A k \in 1 .. Len(w) + 1 : \A B \in Classes : Char(t, i + k) \in B <=> Char(w, k) \in B

\* What is in none of them.
LEMMA OutOfClasses ==
    ASSUME NEW c \in {0, 44, 125}, NEW B \in Classes PROVE c \notin B
<1>1. c \notin Digits
    BY SMT DEF Digits
<1>2. c \notin {Dot}
    BY SMT DEF Dot
<1>3. c \notin Exponents
    BY SMT DEF Exponents
<1>4. c \notin Signs
    BY SMT DEF Signs, Plus, Minus
<1> QED
    BY <1>1, <1>2, <1>3, <1>4, Zenon DEF Classes

LEMMA NumbersNotBlank == \A c \in Digits \cup {Minus} : c \notin Blanks
<1> TAKE c \in Digits \cup {Minus}
<1>1. c \in 48 .. 57 \/ c = 45
    BY DEF Digits, Minus
<1>2. Blanks = {32, 9, 13, 10}
    BY SMT DEF Blanks, Space, TAB, CR, LF
<1> QED
    BY <1>1, <1>2

LEMMA AlikeIs ==
    ASSUME NEW t \in Seq(Byte), NEW i \in Nat, NEW w \in Seq(Byte), StandsIn(t, i, w, {44, 125})
    PROVE  Alike(t, i, w)
<1> DEFINE m == Len(w)
           behind == Char(t, i + m + 1)
<1>1. m \in Nat /\ i + m + 1 \in Nat \ {0}
    OBVIOUS
<1>2. behind \in {44, 125} /\ i + m <= Len(t)
    BY Zenon DEF StandsIn, Spelt
<1>3. i + m + 1 <= Len(t)
    <2>1. behind # 0
        BY <1>2
    <2> QED
        BY <1>1, <2>1, CharType
<1>4. \A B \in Classes : behind \notin B /\ 0 \notin B
    <2> HIDE DEF behind
    <2>1. behind \in {0, 44, 125} /\ 0 \in {0, 44, 125}
        BY <1>2
    <2> QED
        BY <2>1, OutOfClasses
<1>5. ASSUME NEW k \in 1 .. m + 1, NEW B \in Classes
      PROVE  Char(t, i + k) \in B <=> Char(w, k) \in B
    <2>1. CASE k = m + 1
        <3>1. Char(w, k) = 0 /\ i + k = i + m + 1
            BY <1>1, <2>1 DEF Char
        <3>2. Char(t, i + k) = behind
            BY <3>1, Zenon
        <3> QED
            BY <1>4, <3>1, <3>2
    <2>2. CASE k # m + 1
        <3>1. k \in 1 .. m /\ i + k <= Len(t)
            <4> HIDE DEF m
            <4> QED
                BY <1>1, <1>2, <2>2
        <3>2. t[i + k] = w[k]
            BY <3>1, Zenon DEF StandsIn, Spelt
        <3>3. Char(t, i + k) = t[i + k] /\ Char(w, k) = w[k]
            BY <3>1 DEF Char
        <3> QED
            BY <3>2, <3>3
    <2> QED
        BY <2>1, <2>2
<1> QED
    BY <1>3, <1>5, Zenon DEF Alike

LEMMA ClassesAre ==
    /\ Digits \in Classes /\ {Dot} \in Classes /\ Exponents \in Classes /\ Signs \in Classes
    /\ \A B \in Classes : 0 \notin B
<1>1. 0 \in {0, 44, 125}
    OBVIOUS
<1> QED
    BY <1>1, OutOfClasses, Zenon DEF Classes

\* There is one first place only.
LEMMA SkippedOnce ==
    ASSUME NEW t \in Seq(Byte), NEW i \in Nat, NEW bytes, NEW a, NEW b,
           Skipped(t, i, bytes, a), Skipped(t, i, bytes, b)
    PROVE  a = b
<1> DEFINE L == Len(t)
<1>1. L \in Nat /\ a \in i .. L + 1 /\ b \in i .. L + 1
    BY DEF Skipped
<1>2. a \in Nat /\ b \in Nat /\ i <= a /\ i <= b
    <2> HIDE DEF L
    <2> QED
        BY <1>1
<1>3. ~(a < b)
    <2> SUFFICES ASSUME a < b PROVE FALSE
        OBVIOUS
    <2>1. a \in i .. b - 1
        BY <1>2
    <2> QED
        BY <2>1, Zenon DEF Skipped
<1>4. ~(b < a)
    <2> SUFFICES ASSUME b < a PROVE FALSE
        OBVIOUS
    <2>1. b \in i .. a - 1
        BY <1>2
    <2> QED
        BY <2>1, Zenon DEF Skipped
<1> QED
    BY <1>2, <1>3, <1>4

Moved(m, n, i, a, w) == m = i + n /\ n \in a .. Len(w) + 1

LEMMA AfterMoves ==
    ASSUME NEW t \in Seq(Byte), NEW i \in Nat, NEW w \in Seq(Byte), Alike(t, i, w),
           NEW a \in 1 .. Len(w) + 1
    PROVE  Moved(After(t, i + a, Digits), After(w, a, Digits), i, a, w)
<1> DEFINE j == After(w, a, Digits)
           m == After(t, i + a, Digits)
<1>1. 0 \notin Digits /\ Digits \in Classes
    BY ClassesAre
<1>2. Skipped(w, a, Digits, j)
    BY <1>1, AfterFound
<1>3. Len(t) \in Nat /\ Len(w) \in Nat /\ i + Len(w) + 1 <= Len(t)
    BY DEF Alike
<1>4. i + a \in 1 .. Len(t) + 1
    BY <1>3
<1>5. Skipped(t, i + a, Digits, m)
    BY <1>1, <1>4, AfterFound
<1> HIDE DEF j, m
<1>6. j \in a .. Len(w) + 1 /\ j \in 1 .. Len(w) + 1 /\ Char(w, j) \notin Digits
    <2>1. j \in a .. Len(w) + 1 /\ Char(w, j) \notin Digits
        BY <1>2, Zenon DEF Skipped
    <2> QED
        BY <1>3, <2>1
<1>7. Char(t, i + j) \notin Digits
    BY <1>1, <1>6, Zenon DEF Alike
<1>8. \A k \in i + a .. (i + j) - 1 : Char(t, k) \in Digits
    <2> TAKE k \in i + a .. (i + j) - 1
    <2> DEFINE b == k - i
    <2>1. b \in a .. j - 1 /\ b \in 1 .. Len(w) + 1 /\ i + b = k
        BY <1>3, <1>6
    <2> HIDE DEF b
    <2>2. Char(w, b) \in Digits
        BY <1>2, <2>1, Zenon DEF Skipped
    <2>3. Char(t, i + b) \in Digits
        BY <1>1, <2>1, <2>2, Zenon DEF Alike
    <2> QED
        BY <2>1, <2>3, Zenon
<1>9. i + j \in i + a .. Len(t) + 1
    BY <1>3, <1>6
<1>10. Skipped(t, i + a, Digits, i + j)
    BY <1>7, <1>8, <1>9, Zenon DEF Skipped
<1>11. m = i + j
    <2>1. i + a \in Nat
        OBVIOUS
    <2> QED
        BY <1>5, <1>10, <2>1, SkippedOnce
<1> QED
    BY <1>6, <1>11, Zenon DEF Moved, j, m

LEMMA ExponentForm ==
    ASSUME NEW t, NEW i
    PROVE  ExponentEnd(t, i) =
             IF Char(t, i) \in Exponents
               THEN After(t, IF Char(t, i + 1) \in Signs THEN i + 2 ELSE i + 1, Digits) ELSE i
<1> QED
    BY Zenon DEF ExponentEnd, Exponents, Signs

\* A character of a number is one of the text.
LEMMA InText ==
    ASSUME NEW w \in Seq(Byte), NEW a \in 1 .. Len(w) + 1, NEW B \in Classes, Char(w, a) \in B
    PROVE  a + 1 \in 1 .. Len(w) + 1
<1>1. Char(w, a) # 0
    BY ClassesAre
<1>2. a <= Len(w)
    BY <1>1, CharType
<1> QED
    BY <1>2

LEMMA FractionMoves ==
    ASSUME NEW t \in Seq(Byte), NEW i \in Nat, NEW w \in Seq(Byte), Alike(t, i, w),
           NEW a \in 1 .. Len(w) + 1
    PROVE  Moved(FractionEnd(t, i + a), FractionEnd(w, a), i, a, w)
<1>1. {Dot} \in Classes
    BY ClassesAre
<1>2. Char(t, i + a) = Dot <=> Char(w, a) = Dot
    <2>1. Char(t, i + a) \in {Dot} <=> Char(w, a) \in {Dot}
        BY <1>1, Zenon DEF Alike
    <2> QED
        BY <2>1
<1>3. CASE Char(w, a) = Dot
    <2> DEFINE b == a + 1
    <2>1. b \in 1 .. Len(w) + 1
        <3>1. Char(w, a) \in {Dot}
            BY <1>3
        <3> QED
            BY <1>1, <3>1, InText
    <2>2. (i + a) + 1 = i + b /\ b >= a
        OBVIOUS
    <2>3. FractionEnd(w, a) = After(w, b, Digits) /\ FractionEnd(t, i + a) = After(t, (i + a) + 1, Digits)
        BY <1>2, <1>3, Zenon DEF FractionEnd
    <2> HIDE DEF b
    <2> DEFINE n == After(w, b, Digits)
               m == After(t, i + b, Digits)
    <2>4. Moved(m, n, i, b, w)
        BY <2>1, AfterMoves
    <2>5. FractionEnd(w, a) = n /\ FractionEnd(t, i + a) = m
        BY <2>2, <2>3, Zenon
    <2> HIDE DEF n, m
    <2>6. Moved(m, n, i, a, w)
        BY <2>1, <2>2, <2>4 DEF Moved
    <2> QED
        BY <2>5, <2>6, Zenon
<1>4. CASE Char(w, a) # Dot
    <2>1. FractionEnd(w, a) = a /\ FractionEnd(t, i + a) = i + a
        BY <1>2, <1>4, Zenon DEF FractionEnd
    <2> HIDE DEF FractionEnd
    <2> QED
        BY <2>1 DEF Moved
<1> QED
    BY <1>3, <1>4

LEMMA ExponentMoves ==
    ASSUME NEW t \in Seq(Byte), NEW i \in Nat, NEW w \in Seq(Byte), Alike(t, i, w),
           NEW a \in 1 .. Len(w) + 1
    PROVE  Moved(ExponentEnd(t, i + a), ExponentEnd(w, a), i, a, w)
<1>1. Exponents \in Classes /\ Signs \in Classes
    BY ClassesAre
<1>2. Char(t, i + a) \in Exponents <=> Char(w, a) \in Exponents
    BY <1>1, Zenon DEF Alike
<1>3. CASE Char(w, a) \in Exponents
    <2> DEFINE signed == Char(w, a + 1) \in Signs
               b == IF signed THEN a + 2 ELSE a + 1
               c == IF Char(t, i + a + 1) \in Signs THEN i + a + 2 ELSE i + a + 1
    <2>1. a + 1 \in 1 .. Len(w) + 1 /\ i + (a + 1) = i + a + 1
        BY <1>1, <1>3, InText
    <2>2. Char(t, i + a + 1) \in Signs <=> signed
        <3>1. Char(t, i + (a + 1)) \in Signs <=> Char(w, a + 1) \in Signs
            BY <1>1, <2>1, Zenon DEF Alike
        <3> QED
            BY <2>1, <3>1, Zenon
    <2>3. signed => (a + 1) + 1 \in 1 .. Len(w) + 1
        BY <1>1, <2>1, InText
    <2> HIDE DEF signed
    <2>4. b \in 1 .. Len(w) + 1 /\ b >= a /\ c = i + b
        BY <2>1, <2>2, <2>3
    <2>5. ExponentEnd(w, a) = After(w, b, Digits) /\ ExponentEnd(t, i + a) = After(t, c, Digits)
        BY <1>2, <1>3, ExponentForm, Zenon DEF signed
    <2> HIDE DEF b, c
    <2> DEFINE n == After(w, b, Digits)
               m == After(t, i + b, Digits)
    <2>6. Moved(m, n, i, b, w)
        BY <2>4, AfterMoves
    <2>7. ExponentEnd(w, a) = n /\ ExponentEnd(t, i + a) = m
        BY <2>4, <2>5, Zenon
    <2> HIDE DEF n, m
    <2>8. Moved(m, n, i, a, w)
        BY <2>4, <2>6 DEF Moved
    <2> QED
        BY <2>7, <2>8, Zenon
<1>4. CASE Char(w, a) \notin Exponents
    <2>1. ExponentEnd(w, a) = a /\ ExponentEnd(t, i + a) = i + a
        BY <1>2, <1>4, ExponentForm, Zenon
    <2> HIDE DEF ExponentEnd
    <2> QED
        BY <2>1 DEF Moved
<1> QED
    BY <1>3, <1>4

\* A number ends where it ends alone.
LEMMA NumberMoves ==
    ASSUME NEW t \in Seq(Byte), NEW i \in Nat, NEW w \in Seq(Byte), Alike(t, i, w),
           NEW a \in 1 .. Len(w) + 1
    PROVE  NumberEnd(t, i + a) = i + NumberEnd(w, a)
<1> DEFINE b == After(w, a, Digits)
           bAt == After(t, i + a, Digits)
           c == FractionEnd(w, b)
           cAt == FractionEnd(t, bAt)
           n == ExponentEnd(w, c)
           nAt == ExponentEnd(t, cAt)
<1>1. bAt = i + b /\ b \in a .. Len(w) + 1
    BY AfterMoves DEF Moved
<1> HIDE DEF b, bAt
<1>2. b \in 1 .. Len(w) + 1
    BY <1>1
<1>3. FractionEnd(t, i + b) = i + c /\ c \in b .. Len(w) + 1
    BY <1>2, FractionMoves DEF Moved
<1>4. cAt = i + c
    BY <1>1, <1>3, Zenon
<1> HIDE DEF c, cAt
<1>5. c \in 1 .. Len(w) + 1
    BY <1>2, <1>3
<1>6. ExponentEnd(t, i + c) = i + n
    BY <1>5, ExponentMoves DEF Moved
<1>7. nAt = i + n
    BY <1>4, <1>6, Zenon
<1> QED
    BY <1>7, Zenon DEF NumberEnd, n, nAt, c, cAt, b, bAt

-----------------------------------------------------------------------------
Readable(w) == Kind(DecodedInteger(w)) = "real" => DoubleReads(w)

LEMMA NumberScalar ==
    ASSUME NEW t, NEW i, NEW stop, NEW w, SubSeq(t, i, stop - 1) = w, Readable(w)
    PROVE  Scalar(t, Token("number", i, stop)) = Good(DecodedInteger(w), stop)
<1> DEFINE token == Token("number", i, stop)
           part == SubSeq(t, token.start, token.stop - 1)
           number == DecodedInteger(part)
<1>1. token.type = "number" /\ token.start = i /\ token.stop = stop
    BY TokenIs
<1> HIDE DEF token
<1>2. part = w
    BY <1>1, Zenon
<1> HIDE DEF part
<1>3. number = DecodedInteger(w)
    BY <1>2, Zenon
<1> HIDE DEF number
<1> DEFINE r == IF Kind(number) = "real" /\ ~DoubleReads(part) THEN Failed ELSE Good(number, token.stop)
<1>4. Scalar(t, token) = r
    <2> HIDE DEF r
    <2>1. Scalar(t, token) =
            CASE token.type = "word" ->
                    Good(CASE part = TrueWord -> Bool(TRUE)
                           [] part = FalseWord -> Bool(FALSE)
                           [] OTHER -> Null, token.stop)
              [] token.type = "number" -> r
              [] token.type = "string" ->
                    IF DecodedString(SubSeq(t, token.start + 1, token.stop - 2)).ok
                      THEN Good(Text(DecodedString(SubSeq(t, token.start + 1, token.stop - 2)).of), token.stop)
                    ELSE Failed
              [] OTHER -> Failed
        BY Zenon DEF Scalar, r, part, number
    <2> QED
        BY <1>1, <2>1
<1>5. ~(Kind(number) = "real" /\ ~DoubleReads(part))
    BY <1>2, <1>3, Zenon DEF Readable
<1>6. r = Good(DecodedInteger(w), stop)
    BY <1>1, <1>3, <1>5, Zenon
<1> HIDE DEF r
<1>7. Scalar(t, token) = Good(DecodedInteger(w), stop)
    BY <1>4, <1>6, Zenon
<1> QED
    BY <1>7 DEF token

LEMMA NumberIsRead ==
    ASSUME NEW w, NumberText(w), Readable(w)
    PROVE  IsRead(w, DecodedInteger(w), 1, {44, 125})
<1> DEFINE v == DecodedInteger(w)
<1> SUFFICES \A t \in Seq(Byte) : \A reads : Parser(t, reads) =>
                 \A i \in Nat, depth \in Nat :
                    depth + 1 <= StackLimit /\ StandsIn(t, i, w, {44, 125}) =>
                        reads[ValueAt(i + 1, depth)] = Good(v, i + Len(w) + 1)
    BY DEF IsRead
<1> HIDE DEF v
<1> TAKE t \in Seq(Byte)
<1> TAKE reads
<1> HAVE Parser(t, reads)
<1> TAKE i \in Nat, depth \in Nat
<1> HAVE depth + 1 <= StackLimit /\ StandsIn(t, i, w, {44, 125})
<1> DEFINE first == i + 1
           stop == i + Len(w) + 1
<1>1. w \in Seq(Byte) /\ Len(w) \in Nat \ {0} /\ w[1] \in Digits \cup {Minus} /\ NumberEnd(w, 2) = Len(w) + 1
    BY DEF NumberText
<1>2. Alike(t, i, w)
    BY <1>1, AlikeIs
<1>3. Spelt(t, i, w)
    BY Zenon DEF StandsIn
<1>4. first \in 1 .. Len(t) /\ t[first] = w[1]
    BY <1>1, <1>3, SpeltAt
<1>5. NumberEnd(t, first + 1) = stop
    <2>1. NumberEnd(t, i + 2) = i + NumberEnd(w, 2)
        BY <1>1, <1>2, NumberMoves
    <2>2. first + 1 = i + 2 /\ i + (Len(w) + 1) = stop
        BY <1>1
    <2> QED
        BY <1>1, <2>1, <2>2, Zenon
<1>6. After(t, first, Blanks) = first
    <2>1. t[first] \notin Blanks
        BY <1>1, <1>4, NumbersNotBlank, Zenon
    <2> QED
        BY <1>4, <2>1, NothingSkipped
<1>7. Char(t, first) \in Digits \cup {Minus}
    BY <1>1, <1>4 DEF Char
<1>8. stop - 1 = i + Len(w) /\ i + Len(w) <= Len(t) /\ \A n \in 1 .. Len(w) : t[i + n] = w[n]
    BY <1>1, <1>3 DEF Spelt
<1>9. SubSeq(t, first, stop - 1) = w
    <2> DEFINE u == SubSeq(t, i + 1, i + Len(w))
    <2>1. u \in Seq(Byte) /\ Len(u) = Len(w) /\ \A n \in 1 .. Len(w) : u[n] = t[i + n]
        BY <1>1, <1>8
    <2> HIDE DEF u
    <2>2. u = w
        <3>1. w \in Seq(Byte) /\ \A n \in 1 .. Len(w) : u[n] = w[n]
            BY <1>1, <1>8, <2>1
        <3>2. u \in Seq(Byte) /\ Len(u) = Len(w)
            BY <2>1
        <3> QED
            BY <3>1, <3>2
    <2> QED
        BY <1>8, <2>2, Zenon DEF u
<1>10. first \in 1 .. Len(t) + 1 /\ depth \in 0 .. StackLimit /\ depth < StackLimit
    BY <1>4, StackLimitAssumption
<1> HIDE DEF first, stop
<1>11. TokenAt(t, first) = Token("number", first, stop)
    <2>1. TokenFrom(t, first) = Token("number", first, NumberEnd(t, first + 1))
        BY <1>7, TokenBegins
    <2> QED
        BY <1>5, <1>6, <2>1, Zenon DEF TokenAt
<1>12. reads[ValueAt(first, depth)] = Scalar(t, Token("number", first, stop))
    BY <1>10, <1>11, ScalarCalled
<1>13. Scalar(t, Token("number", first, stop)) = Good(v, stop)
    BY <1>9, NumberScalar DEF v
<1> QED
    BY <1>12, <1>13, Zenon DEF first, stop

\* An integer is one number.
LEMMA SignedText ==
    ASSUME NEW n \in Int
    PROVE  /\ SignedDecimal(n) \in Seq(Byte) /\ Len(SignedDecimal(n)) \in Nat \ {0}
           /\ SignedDecimal(n)[1] \in Digits \cup {Minus}
           /\ \A k \in 2 .. Len(SignedDecimal(n)) : SignedDecimal(n)[k] \in Digits
           /\ SignedDecimal(n)[Len(SignedDecimal(n))] \in Digits
<1> DEFINE w == SignedDecimal(n)
           m == IF n < 0 THEN -n ELSE n
           digits == Decimal(m)
           first == First(w)
<1>1. IsSigned(w, n, digits)
    BY SignedIs
<1>2. m \in Nat
    OBVIOUS
<1>3. digits \in Seq(Digits) /\ Len(digits) \in Nat \ {0}
    BY <1>2, DecimalType
<1>4. First(w) = IF w[1] = Minus THEN 2 ELSE 1
    BY Zenon DEF First
<1> HIDE DEF w, digits, first
<1>5. /\ w \in Seq(Byte)
      /\ Len(w) = first - 1 + Len(digits)
      /\ \A i \in 1 .. Len(digits) : w[first - 1 + i] = digits[i]
      /\ first \in {1, 2}
      /\ first = 2 <=> w[1] = Minus
    <2>1. /\ w \in Seq(Byte)
          /\ Len(w) = first - 1 + Len(digits)
          /\ \A i \in 1 .. Len(digits) : w[first - 1 + i] = digits[i]
          /\ first \in {1, 2}
        BY <1>1, Zenon DEF IsSigned, first
    <2>2. first = 2 <=> w[1] = Minus
        BY <1>4 DEF first
    <2> QED
        BY <2>1, <2>2
<1>6. Len(w) \in Nat \ {0}
    BY <1>3, <1>5
<1>7. \A k \in first .. Len(w) : w[k] \in Digits
    <2> TAKE k \in first .. Len(w)
    <2> DEFINE i == k - first + 1
    <2>1. i \in 1 .. Len(digits) /\ first - 1 + i = k
        BY <1>3, <1>5
    <2> HIDE DEF i
    <2>2. w[first - 1 + i] = digits[i] /\ digits[i] \in Digits
        BY <1>3, <1>5, <2>1
    <2> QED
        BY <2>1, <2>2
<1>8. first <= Len(w)
    BY <1>3, <1>5
<1>9. w[1] \in Digits \cup {Minus}
    <2>1. first = 1 => 1 \in first .. Len(w)
        BY <1>6
    <2> QED
        BY <1>5, <1>7, <2>1
<1>10. \A k \in 2 .. Len(w) : k \in first .. Len(w)
    BY <1>5
<1>11. Len(w) \in first .. Len(w)
    BY <1>5, <1>6, <1>8
<1> QED
    BY <1>5, <1>6, <1>7, <1>9, <1>10, <1>11 DEF w

LEMMA SignedIsNumber ==
    ASSUME NEW n \in Int
    PROVE  /\ NumberText(SignedDecimal(n))
           /\ DoubleForm(SignedDecimal(n))
<1> DEFINE w == SignedDecimal(n)
           L == Len(w)
<1>1. /\ w \in Seq(Byte) /\ L \in Nat \ {0}
      /\ w[1] \in Digits \cup {Minus}
      /\ \A k \in 2 .. L : w[k] \in Digits
      /\ w[L] \in Digits
    BY SignedText
<1> HIDE DEF w
<1>2. Char(w, L + 1) = 0
    BY <1>1 DEF Char
<1>3. \A k \in 2 .. (L + 1) - 1 : Char(w, k) \in Digits
    BY <1>1 DEF Char
<1>4. 0 \notin Digits
    BY ClassesAre
<1>5. After(w, 2, Digits) = L + 1
    <2>1. 2 \in 1 .. L + 1 /\ L + 1 \in 2 .. L + 1
        BY <1>1
    <2>2. Skipped(w, 2, Digits, After(w, 2, Digits))
        BY <1>1, <1>4, <2>1, AfterFound
    <2>3. Skipped(w, 2, Digits, L + 1)
        BY <1>2, <1>3, <1>4, <2>1 DEF Skipped
    <2> QED
        BY <1>1, <2>2, <2>3, SkippedOnce
<1>6. FractionEnd(w, L + 1) = L + 1
    BY <1>2, SMT DEF FractionEnd, Dot
<1>7. ExponentEnd(w, L + 1) = L + 1
    BY <1>2, SMT DEF ExponentEnd
<1>8. NumberEnd(w, 2) = L + 1
    BY <1>5, <1>6, <1>7, Zenon DEF NumberEnd
<1>9. DoubleForm(w)
    <2> DEFINE places == {k \in DOMAIN w : w[k] \in {69, 101}}
               mantissa == IF places = {} THEN DOMAIN w
                           ELSE {k \in DOMAIN w : \A e \in places : k < e}
    <2>1. \A c \in Digits \cup {Minus} : c \notin {69, 101}
        BY DEF Digits, Minus
    <2>2. DOMAIN w = 1 .. L
        BY <1>1
    <2>3. \A k \in 1 .. L : k = 1 \/ k \in 2 .. L
        BY <1>1
    <2>4. \A k \in 1 .. L : w[k] \in Digits \cup {Minus}
        BY <1>1, <2>3
    <2>5. places = {}
        BY <2>1, <2>2, <2>4
    <2> HIDE DEF places
    <2>6. mantissa = 1 .. L
        BY <2>2, <2>5
    <2> HIDE DEF mantissa
    <2>7. L \in mantissa
        BY <1>1, <2>6
    <2>8. (\E k \in mantissa : w[k] \in Digits) /\ (places # {} => w[L] \in Digits)
        BY <1>1, <2>7
    <2> QED
        BY <2>8, Zenon DEF DoubleForm, places, mantissa
<1>10. NumberText(w)
    BY <1>1, <1>8 DEF NumberText
<1> QED
    BY <1>9, <1>10 DEF w

\* What is no integer is kept as it was written.
LEMMA RealDecoded ==
    ASSUME NEW w, RealText(w)
    PROVE  DecodedInteger(w) = Double(w)
<1> DEFINE L == Len(w)
<1>1. w \in Seq(Byte) /\ L \in Nat
    BY DEF RealText, NumberText
<1>2. PICK place \in 2 .. L : w[place] \notin Digits
    BY DEF RealText
<1>3. L >= 2
    BY <1>1, <1>2
<1>4. PICK fit, val : DecodesTo(w, fit, val)
    BY <1>1, <1>3, DecodeSteps
<1>5. First(w) \in {1, 2}
    BY DEF First
<1>6. \A k \in First(w) .. L : fit[k] <=> /\ fit[k - 1]
                                           /\ w[k] \in Digits
                                           /\ Fits(val[k - 1], k = L, w[k] - 48, LimitOf(w))
    BY <1>4, Zenon DEF DecodesTo, Decodes
<1>7. \A k \in First(w) .. L : ~fit[k - 1] => ~fit[k]
    BY <1>6, Zenon
<1>8. ~fit[place]
    <2>1. place \in First(w) .. L
        BY <1>2, <1>5
    <2> QED
        BY <1>2, <1>6, <2>1, Zenon
<1> DEFINE S == {k \in Nat : place + k <= L => ~fit[place + k]}
<1> HIDE DEF L
<1>9. 0 \in S
    <2>1. place + 0 = place
        BY <1>2
    <2> QED
        BY <1>8, <2>1
<1>10. ASSUME NEW k \in S PROVE k + 1 \in S
    <2>1. CASE place + (k + 1) <= L
        <3>1. place + (k + 1) \in First(w) .. L /\ (place + (k + 1)) - 1 = place + k /\ place + k <= L
            BY <1>1, <1>2, <1>5, <2>1
        <3>2. ~fit[place + k]
            BY <3>1
        <3>3. ~fit[place + (k + 1)]
            BY <1>7, <3>1, <3>2, Zenon
        <3> QED
            BY <3>3
    <2>2. CASE ~(place + (k + 1) <= L)
        BY <2>2
    <2> QED
        BY <2>1, <2>2
<1>11. \A k \in Nat : k \in S
    <2> HIDE DEF S
    <2> QED
        BY <1>9, <1>10, Induction
<1>12. ~fit[L]
    <2>1. L - place \in Nat /\ place + (L - place) = L /\ L <= L
        BY <1>1, <1>2
    <2>2. L - place \in S
        BY <1>11, <2>1
    <2> QED
        BY <2>1, <2>2
<1>13. DecodedInteger(w) = AnswerTo(w, fit[L], val[L])
    BY <1>4, Zenon DEF DecodesTo, L
<1> QED
    BY <1>12, <1>13, Zenon DEF AnswerTo

\* A speed that is sent as a number is read as a value that is written as it was.
LEMMA SpeechIsRead ==
    ASSUME NEW w \in Speech
    PROVE  /\ w \in Seq(Byte) /\ NumberText(w) /\ Readable(w)
           /\ AsString(DecodedInteger(w)) = Text(w)
<1> DEFINE v == DecodedInteger(w)
<1>1. IntegerText(w) \/ RealText(w)
    BY SpeechAssumption
<1>2. CASE IntegerText(w)
    <2>1. PICK n \in Numerals : w = SignedDecimal(n)
        BY <1>2, Zenon DEF IntegerText
    <2>6. w \notin Overflowing
        BY <1>2, Zenon DEF IntegerText
    <2>2. n \in Int
        BY NumeralsAssumption
    <2>3. NumberText(w) /\ DoubleReads(w)
        BY <2>1, <2>2, <2>6, SignedIsNumber, Zenon DEF DoubleReads
    <2>4. v \in {Double(w), Int64(n), UInt64(n)}
        <3>1. DecodedInteger(SignedDecimal(n)) \in {Double(SignedDecimal(n)), Int64(n), UInt64(n)}
            BY <2>2, IntegerExact
        <3> QED
            BY <2>1, <3>1, Zenon
    <2> HIDE DEF v
    <2>5. AsString(v) = Text(w)
        BY <2>1, <2>4 DEF AsString, Kind, Of, Double, Int64, UInt64
    <2> QED
        BY <2>3, <2>5, Zenon DEF v, NumberText, Readable
<1>3. CASE RealText(w)
    <2>1. v = Double(w)
        BY <1>3, RealDecoded
    <2> HIDE DEF v
    <2>2. AsString(v) = Text(w)
        BY <2>1 DEF AsString, Kind, Of, Double
    <2> QED
        BY <1>3, <2>2, Zenon DEF v, NumberText, RealText, Readable
<1> QED
    BY <1>1, <1>2, <1>3

-----------------------------------------------------------------------------
(* Objects are read                                                          *)

\* It may be read in deeper calls, and with less allowed behind it.
LEMMA ReadDeeper ==
    ASSUME NEW text \in Seq(Byte), NEW val, NEW less \in Nat, NEW more \in Nat, less <= more,
           IsRead(text, val, less, Byte)
    PROVE  IsRead(text, val, more, {44, 125})
<1> SUFFICES \A t \in Seq(Byte) : \A reads : Parser(t, reads) =>
                 \A i \in Nat, depth \in Nat :
                    depth + more <= StackLimit /\ StandsIn(t, i, text, {44, 125}) =>
                        reads[ValueAt(i + 1, depth)] = Good(val, i + Len(text) + 1)
    BY DEF IsRead
<1> TAKE t \in Seq(Byte)
<1> TAKE reads
<1> HAVE Parser(t, reads)
<1> TAKE i \in Nat, depth \in Nat
<1> HAVE depth + more <= StackLimit /\ StandsIn(t, i, text, {44, 125})
<1>1. Spelt(t, i, text)
    BY Zenon DEF StandsIn
<1>2. Char(t, i + Len(text) + 1) \in Byte
    <2>1. i + Len(text) + 1 \in Nat \ {0}
        OBVIOUS
    <2> QED
        BY <2>1, CharType
<1>3. StandsIn(t, i, text, Byte)
    BY <1>1, <1>2, Zenon DEF StandsIn
<1>4. depth + less <= StackLimit
    BY StackLimitAssumption
<1> QED
    BY <1>3, <1>4, Reading

\* The member of the name, and no other one.
LEMMA MemberOfPairs ==
    ASSUME NEW pairs, NEW K \in Nat, DOMAIN pairs = 1 .. K, Len(pairs) = K,
           NEW k \in 1 .. K, \A j \in 1 .. K : j # k => pairs[j][1] # pairs[k][1]
    PROVE  Member(ObjectOf(pairs), pairs[k][1]) = pairs[k][2]
<1> DEFINE names == {pairs[j][1] : j \in DOMAIN pairs}
           IsLast(name, j) == pairs[j][1] = name /\ \A n \in j + 1 .. Len(pairs) : pairs[n][1] # name
           Last(name) == CHOOSE j \in DOMAIN pairs : IsLast(name, j)
           f == [name \in names |-> pairs[Last(name)][2]]
           mine == pairs[k][1]
<1>1. ObjectOf(pairs) = Object(f)
    BY Zenon DEF ObjectOf
<1>2. mine \in names
    OBVIOUS
<1>3. IsLast(mine, k)
    <2>1. \A n \in k + 1 .. K : n \in 1 .. K /\ n # k
        OBVIOUS
    <2> QED
        BY <2>1
<1>4. \A j \in 1 .. K : IsLast(mine, j) => j = k
    OBVIOUS
<1> HIDE DEF IsLast
<1>5. Last(mine) = k
    BY <1>3, <1>4, Zenon
<1>6. f[mine] = pairs[k][2]
    <2>1. f[mine] = pairs[Last(mine)][2]
        BY <1>2
    <2> HIDE DEF f, Last, mine
    <2> QED
        BY <1>5, <2>1, Zenon
<1>7. mine \in DOMAIN f
    BY <1>2
<1> HIDE DEF f, mine
<1>8. Member(Object(f), mine) = f[mine]
    BY <1>7, SMT DEF Member, Object, Kind, Of
<1> QED
    BY <1>1, <1>6, <1>8, Zenon DEF mine

\* What is written for members of different names is read as a value with these
\* members.
Different(members) ==
    \A j, k \in 1 .. Len(members) : j # k => members[j][1] # members[k][1]

HasMembers(o, members, vals) == \A k \in 1 .. Len(members) : Member(o, members[k][1]) = vals[k]

LEMMA MembersAreRead ==
    ASSUME NEW members \in Seq(Named), Len(members) # 0, Different(members), NEW vals,
           NEW inner \in Nat \ {0},
           \A k \in 1 .. Len(members) : IsRead(members[k][2], vals[k], inner, {44, 125})
    PROVE  /\ Stringify(members) \in Seq(Byte)
           /\ \E o : IsRead(Stringify(members), o, inner + 1, Byte) /\ HasMembers(o, members, vals)
<1> DEFINE K == Len(members)
           name(k) == members[k][1]
           pairs == [k \in 1 .. K |-> <<name(k), vals[k]>>]
           P == {pairs[k] : k \in 1 .. K}
           o == ObjectOf(pairs)
<1>1. Stringify(members) \in Seq(Byte)
    BY Stringified
<1>2. K \in Nat
    OBVIOUS
<1>3. pairs \in Seq(P) /\ Len(pairs) = K /\ DOMAIN pairs = 1 .. K
    BY <1>2
<1>4. \A k \in 1 .. K : pairs[k] = <<name(k), vals[k]>>
    OBVIOUS
<1> HIDE DEF pairs, P, name
<1>5. ReadAs(members, pairs, vals, inner)
    BY <1>4, Zenon DEF ReadAs, name
<1>6. IsRead(Stringify(members), o, inner + 1, Byte)
    BY <1>3, <1>5, ObjectIsRead
<1>7. ASSUME NEW k \in 1 .. K PROVE Member(o, name(k)) = vals[k]
    <2>1. \A j \in 1 .. K : pairs[j][1] = name(j) /\ pairs[j][2] = vals[j]
        BY <1>4
    <2>2. \A j \in 1 .. K : j # k => name(j) # name(k)
        BY Zenon DEF Different, name
    <2>3. \A j \in 1 .. K : j # k => pairs[j][1] # pairs[k][1]
        BY <2>1, <2>2, ZenonT(60)
    <2>4. Member(o, pairs[k][1]) = pairs[k][2]
        BY <1>2, <1>3, <2>3, MemberOfPairs
    <2> QED
        BY <2>1, <2>4, Zenon
<1>8. HasMembers(o, members, vals)
    BY <1>7, Zenon DEF HasMembers, name
<1> QED
    BY <1>1, <1>6, <1>8

\* What parse is given holds the text, whatever the room behind it holds.
LEMMA DocumentIs ==
    ASSUME NEW text \in Seq(Byte), NEW doc \in Documents(text)
    PROVE  doc \in Seq(Byte) /\ Spelt(doc, 0, text)
<1> DEFINE L == Len(text)
<1>1. L \in Nat /\ ShortText \in Nat
    BY ResidueAssumption
<1>2. CASE L < ShortText
    <2> DEFINE rest(r) == SubSeq(r, 1, IF Len(r) < ShortText - L - 1 THEN Len(r) ELSE ShortText - L - 1)
    <2>1. PICK r \in Residues : doc = text \o <<0>> \o rest(r)
        BY <1>2, Zenon DEF Documents
    <2>2. r \in Seq(Byte)
        BY ResidueAssumption
    <2>3. rest(r) \in Seq(Byte)
        <3> DEFINE n == IF Len(r) < ShortText - L - 1 THEN Len(r) ELSE ShortText - L - 1
        <3>1. n \in Nat /\ n <= Len(r)
            BY <1>1, <1>2, <2>2
        <3> HIDE DEF n
        <3>2. SubSeq(r, 1, n) \in Seq(Byte)
            BY <2>2, <3>1
        <3> QED
            BY <3>2 DEF n
    <2> HIDE DEF rest
    <2> DEFINE zero == <<0>>
               a == text \o zero
    <2>4. zero \in Seq(Byte) /\ Len(zero) = 1
        BY SMT DEF Byte
    <2> HIDE DEF zero
    <2>5. a \in Seq(Byte) /\ IsJoin(a, text, zero, Byte)
        BY <2>4, JoinedAny
    <2> HIDE DEF a
    <2>6. doc = a \o rest(r)
        BY <2>1 DEF a, zero
    <2>7. doc \in Seq(Byte) /\ IsJoin(doc, a, rest(r), Byte)
        BY <2>3, <2>5, <2>6, JoinedAny
    <2>8. Len(a) = L + 1 /\ Len(doc) = Len(a) + Len(rest(r)) /\ Len(rest(r)) \in Nat
        BY <2>3, <2>4, <2>5, <2>7 DEF IsJoin
    <2>9. ASSUME NEW n \in 1 .. L PROVE doc[0 + n] = text[n]
        <3>1. n \in 1 .. Len(a) /\ 0 + n = n
            BY <1>1, <2>8
        <3>2. a[n] = text[n]
            BY <2>5, Zenon DEF IsJoin
        <3>3. doc[n] = a[n]
            BY <2>7, <3>1, Zenon DEF IsJoin
        <3> QED
            BY <3>1, <3>2, <3>3, Zenon
    <2>10. 0 + L <= Len(doc)
        BY <1>1, <2>8
    <2> QED
        BY <2>7, <2>9, <2>10, Zenon DEF Spelt
<1>3. CASE ~(L < ShortText)
    <2>1. doc = text
        BY <1>3, Zenon DEF Documents
    <2>2. \A n \in 1 .. L : 0 + n = n
        OBVIOUS
    <2>3. 0 + L <= L
        BY <1>1
    <2> QED
        BY <2>1, <2>2, <2>3, Zenon DEF Spelt
<1> QED
    BY <1>2, <1>3

\* What parse makes of such a text, with whatever the room behind it holds.
LEMMA TextParsed ==
    ASSUME NEW text \in Seq(Byte), NEW val, NEW deep \in Nat, deep <= StackLimit,
           IsRead(text, val, deep, Byte), NEW root \in Roots(text)
    PROVE  root.end = "ok" /\ root.of = val
<1>1. PICK doc \in Documents(text) : root = Parse(doc)
    BY Zenon DEF Roots
<1> DEFINE L == Len(text)
<1>2. L \in Nat /\ ShortText \in Nat
    BY ResidueAssumption
<1>3. doc \in Seq(Byte) /\ Spelt(doc, 0, text)
    BY DocumentIs
<1>4. StandsIn(doc, 0, text, Byte)
    <2>1. 0 + L + 1 \in Nat \ {0}
        BY <1>2
    <2>2. Char(doc, 0 + L + 1) \in Byte
        BY <1>3, <2>1, CharType
    <2> QED
        BY <1>3, <2>2, Zenon DEF StandsIn
<1>5. PICK reads : Parser(doc, reads)
    BY <1>3, ParseSteps
<1>6. Parse(doc) = reads[ValueAt(1, 0)]
    BY <1>5, Zenon DEF Parser
<1>7. reads[ValueAt(0 + 1, 0)] = Good(val, 0 + L + 1)
    <2>1. 0 + deep <= StackLimit /\ 0 \in Nat
        OBVIOUS
    <2> QED
        BY <1>3, <1>4, <1>5, <2>1, Reading
<1>8. 0 + 1 = 1
    OBVIOUS
<1>9. root = Good(val, 0 + L + 1)
    BY <1>1, <1>6, <1>7, <1>8, Zenon
<1> QED
    BY <1>9, GoodIs

-----------------------------------------------------------------------------
(* The messages are read                                                     *)

LEMMA NamesAre ==
    /\ {hello, HelloCar, SessionData, offer, answer, candidate, publish, cmd_vel, aLine} \subseteq Seq(Byte)
    /\ {type, msg, sdp, sdpMid, sdpMLineIndex, op, topic, linear, angular, x, z} \subseteq Seq(Byte)
    /\ type # msg /\ type # sdp /\ offer # candidate
    /\ candidate # sdpMid /\ candidate # sdpMLineIndex /\ sdpMid # sdpMLineIndex
    /\ op # topic /\ op # msg /\ topic # msg /\ linear # angular
<1>1. /\ hello \in Seq(Byte) /\ HelloCar \in Seq(Byte) /\ SessionData \in Seq(Byte)
      /\ offer \in Seq(Byte) /\ answer \in Seq(Byte) /\ candidate \in Seq(Byte)
      /\ publish \in Seq(Byte) /\ cmd_vel \in Seq(Byte) /\ aLine \in Seq(Byte)
    BY SMT DEF hello, HelloCar, SessionData, offer, answer, candidate, publish, cmd_vel, aLine, Byte, Slash
<1>2. /\ type \in Seq(Byte) /\ msg \in Seq(Byte) /\ sdp \in Seq(Byte) /\ sdpMid \in Seq(Byte)
      /\ sdpMLineIndex \in Seq(Byte) /\ op \in Seq(Byte) /\ topic \in Seq(Byte)
      /\ linear \in Seq(Byte) /\ angular \in Seq(Byte) /\ x \in Seq(Byte) /\ z \in Seq(Byte)
    BY SMT DEF type, msg, sdp, sdpMid, sdpMLineIndex, op, topic, linear, angular, x, z, Byte
<1>3. /\ type # msg /\ type # sdp /\ offer # candidate
      /\ candidate # sdpMid /\ candidate # sdpMLineIndex /\ sdpMid # sdpMLineIndex
      /\ op # topic /\ op # msg /\ topic # msg /\ linear # angular
    BY SMT DEF type, msg, sdp, offer, candidate, sdpMid, sdpMLineIndex, op, topic, linear, angular
<1> QED
    BY <1>1, <1>2, <1>3

\* Objects with one, two and three members.
IsOne(e, o, deep, n, v) ==
    /\ e \in Seq(Byte) /\ IsRead(e, o, deep, Byte)
    /\ Member(o, n) = v

LEMMA OneRead ==
    ASSUME NEW n1 \in Seq(Byte), NEW e1 \in Seq(Byte), NEW v1, NEW inner \in Nat \ {0},
           IsRead(e1, v1, inner, {44, 125})
    PROVE  \E o : IsOne(Stringify(<< <<n1, e1>> >>), o, inner + 1, n1, v1)
<1> DEFINE members == << <<n1, e1>> >>
           vals == <<v1>>
<1>1. members \in Seq(Named) /\ Len(members) = 1 /\ members[1] = <<n1, e1>>
    BY DEF Named
<1>2. members[1][1] = n1 /\ members[1][2] = e1 /\ vals[1] = v1
    OBVIOUS
<1>3. 1 \in 1 .. 1 /\ \A k \in 1 .. 1 : k = 1
    OBVIOUS
<1> HIDE DEF members, vals
<1>4. \A k \in 1 .. Len(members) : IsRead(members[k][2], vals[k], inner, {44, 125})
    BY <1>1, <1>2, <1>3, Zenon
<1>5. Different(members)
    BY <1>1, <1>3, Zenon DEF Different
<1>6. /\ Stringify(members) \in Seq(Byte)
      /\ \E o : IsRead(Stringify(members), o, inner + 1, Byte) /\ HasMembers(o, members, vals)
    <2>1. members \in Seq(Named) /\ Len(members) # 0
        BY <1>1
    <2> QED
        BY <1>4, <1>5, <2>1, MembersAreRead, Zenon
<1>7. PICK o : IsRead(Stringify(members), o, inner + 1, Byte) /\ HasMembers(o, members, vals)
    BY <1>6
<1>8. Member(o, n1) = v1
    BY <1>1, <1>2, <1>3, <1>7, Zenon DEF HasMembers
<1> QED
    BY <1>6, <1>7, <1>8, Zenon DEF IsOne, members

IsTwo(e, o, deep, n1, v1, n2, v2) ==
    /\ e \in Seq(Byte) /\ IsRead(e, o, deep, Byte)
    /\ Member(o, n1) = v1 /\ Member(o, n2) = v2

LEMMA TwoRead ==
    ASSUME NEW n1 \in Seq(Byte), NEW e1 \in Seq(Byte), NEW v1,
           NEW n2 \in Seq(Byte), NEW e2 \in Seq(Byte), NEW v2, n1 # n2, NEW inner \in Nat \ {0},
           IsRead(e1, v1, inner, {44, 125}), IsRead(e2, v2, inner, {44, 125})
    PROVE  \E o : IsTwo(Stringify(<< <<n1, e1>>, <<n2, e2>> >>), o, inner + 1, n1, v1, n2, v2)
<1> DEFINE members == << <<n1, e1>>, <<n2, e2>> >>
           vals == <<v1, v2>>
<1>1. members \in Seq(Named) /\ Len(members) = 2 /\ members[1] = <<n1, e1>> /\ members[2] = <<n2, e2>>
    BY DEF Named
<1>2. /\ members[1][1] = n1 /\ members[1][2] = e1 /\ vals[1] = v1
      /\ members[2][1] = n2 /\ members[2][2] = e2 /\ vals[2] = v2
    OBVIOUS
<1>3. 1 \in 1 .. 2 /\ 2 \in 1 .. 2 /\ \A k \in 1 .. 2 : k = 1 \/ k = 2
    OBVIOUS
<1> HIDE DEF members, vals
<1>4. \A k \in 1 .. Len(members) : IsRead(members[k][2], vals[k], inner, {44, 125})
    BY <1>1, <1>2, <1>3, Zenon
<1>5. Different(members)
    BY <1>1, <1>2, <1>3, Zenon DEF Different
<1>6. /\ Stringify(members) \in Seq(Byte)
      /\ \E o : IsRead(Stringify(members), o, inner + 1, Byte) /\ HasMembers(o, members, vals)
    <2>1. members \in Seq(Named) /\ Len(members) # 0
        BY <1>1
    <2> QED
        BY <1>4, <1>5, <2>1, MembersAreRead, Zenon
<1>7. PICK o : IsRead(Stringify(members), o, inner + 1, Byte) /\ HasMembers(o, members, vals)
    BY <1>6
<1>8. Member(o, n1) = v1 /\ Member(o, n2) = v2
    BY <1>1, <1>2, <1>3, <1>7, Zenon DEF HasMembers
<1> QED
    BY <1>6, <1>7, <1>8, Zenon DEF IsTwo, members

IsThree(e, o, deep, n1, v1, n2, v2, n3, v3) ==
    /\ e \in Seq(Byte) /\ IsRead(e, o, deep, Byte)
    /\ Member(o, n1) = v1 /\ Member(o, n2) = v2 /\ Member(o, n3) = v3

LEMMA ThreeRead ==
    ASSUME NEW n1 \in Seq(Byte), NEW e1 \in Seq(Byte), NEW v1,
           NEW n2 \in Seq(Byte), NEW e2 \in Seq(Byte), NEW v2,
           NEW n3 \in Seq(Byte), NEW e3 \in Seq(Byte), NEW v3,
           n1 # n2, n1 # n3, n2 # n3, NEW inner \in Nat \ {0},
           IsRead(e1, v1, inner, {44, 125}), IsRead(e2, v2, inner, {44, 125}),
           IsRead(e3, v3, inner, {44, 125})
    PROVE  \E o : IsThree(Stringify(<< <<n1, e1>>, <<n2, e2>>, <<n3, e3>> >>), o, inner + 1,
                          n1, v1, n2, v2, n3, v3)
<1> DEFINE members == << <<n1, e1>>, <<n2, e2>>, <<n3, e3>> >>
           vals == <<v1, v2, v3>>
<1>1. /\ members \in Seq(Named) /\ Len(members) = 3
      /\ members[1] = <<n1, e1>> /\ members[2] = <<n2, e2>> /\ members[3] = <<n3, e3>>
    BY DEF Named
<1>2. /\ members[1][1] = n1 /\ members[1][2] = e1 /\ vals[1] = v1
      /\ members[2][1] = n2 /\ members[2][2] = e2 /\ vals[2] = v2
      /\ members[3][1] = n3 /\ members[3][2] = e3 /\ vals[3] = v3
    OBVIOUS
<1>3. /\ 1 \in 1 .. 3 /\ 2 \in 1 .. 3 /\ 3 \in 1 .. 3
      /\ \A k \in 1 .. 3 : k = 1 \/ k = 2 \/ k = 3
    OBVIOUS
<1> HIDE DEF members, vals
<1>4. \A k \in 1 .. Len(members) : IsRead(members[k][2], vals[k], inner, {44, 125})
    BY <1>1, <1>2, <1>3, Zenon
<1>5. Different(members)
    BY <1>1, <1>2, <1>3, Zenon DEF Different
<1>6. /\ Stringify(members) \in Seq(Byte)
      /\ \E o : IsRead(Stringify(members), o, inner + 1, Byte) /\ HasMembers(o, members, vals)
    <2>1. members \in Seq(Named) /\ Len(members) # 0
        BY <1>1
    <2> QED
        BY <1>4, <1>5, <2>1, MembersAreRead, Zenon
<1>7. PICK o : IsRead(Stringify(members), o, inner + 1, Byte) /\ HasMembers(o, members, vals)
    BY <1>6
<1>8. Member(o, n1) = v1 /\ Member(o, n2) = v2 /\ Member(o, n3) = v3
    BY <1>1, <1>2, <1>3, <1>7, Zenon DEF HasMembers
<1> QED
    BY <1>6, <1>7, <1>8, Zenon DEF IsThree, members

-----------------------------------------------------------------------------
\* A string as a member, of an object in an object and so on.
LEMMA QuotedInside ==
    ASSUME NEW s \in Seq(Byte), NEW inner \in Nat \ {0}
    PROVE  Quoted(s) \in Seq(Byte) /\ IsRead(Quoted(s), Text(s), inner, {44, 125})
<1>1. Quoted(s) \in Seq(Byte)
    BY QuotedIs
<1>2. IsRead(Quoted(s), Text(s), 1, Byte)
    BY StringIsRead
<1>3. 1 <= inner
    OBVIOUS
<1> QED
    BY <1>1, <1>2, <1>3, ReadDeeper

LEMMA OfferRead ==
    ASSUME NEW s \in Seq(Byte)
    PROVE  /\ OfferText(s) \in Seq(Byte)
           /\ \E o : /\ IsRead(OfferText(s), o, 3, Byte) /\ Member(o, type) = Text(offer)
                     /\ At(o, msg, sdp) = Text(s)
<1> DEFINE a == Quoted(offer)
           b == Quoted(s)
           m == Stringify(<< <<type, a>>, <<sdp, b>> >>)
           e == Stringify(<< <<type, a>>, <<msg, m>> >>)
<1>1. /\ type \in Seq(Byte) /\ sdp \in Seq(Byte) /\ msg \in Seq(Byte) /\ offer \in Seq(Byte)
      /\ type # sdp /\ type # msg
    BY NamesAre
<1>2. /\ a \in Seq(Byte) /\ IsRead(a, Text(offer), 1, {44, 125}) /\ IsRead(a, Text(offer), 2, {44, 125})
      /\ b \in Seq(Byte) /\ IsRead(b, Text(s), 1, {44, 125})
    BY <1>1, QuotedInside
<1> HIDE DEF a, b
<1>3. PICK inner : IsTwo(m, inner, 1 + 1, type, Text(offer), sdp, Text(s))
    BY <1>1, <1>2, TwoRead
<1> HIDE DEF m
<1>4. m \in Seq(Byte) /\ IsRead(m, inner, 2, Byte) /\ Member(inner, sdp) = Text(s)
    <2>1. 1 + 1 = 2
        OBVIOUS
    <2> QED
        BY <1>3, <2>1, Zenon DEF IsTwo
<1>5. IsRead(m, inner, 2, {44, 125})
    BY <1>4, ReadDeeper
<1>6. PICK o : IsTwo(e, o, 2 + 1, type, Text(offer), msg, inner)
    BY <1>1, <1>2, <1>4, <1>5, TwoRead
<1> HIDE DEF e
<1>7. e \in Seq(Byte) /\ IsRead(e, o, 3, Byte) /\ Member(o, type) = Text(offer) /\ Member(o, msg) = inner
    <2>1. 2 + 1 = 3
        OBVIOUS
    <2> QED
        BY <1>6, <2>1, Zenon DEF IsTwo
<1>8. e = OfferText(s)
    BY Zenon DEF OfferText, e, m, a, b
<1> QED
    BY <1>4, <1>7, <1>8, Zenon DEF At

LEMMA ZeroIsRead ==
    <<48>> \in Seq(Byte) /\ IsRead(<<48>>, DecodedInteger(<<48>>), 1, {44, 125})
<1>1. SignedDecimal(0) = <<48>>
    <2>1. 0 \in 0 .. 9 /\ 48 + 0 = 48
        OBVIOUS
    <2>2. Decimal(0) = <<48 + 0>>
        BY <2>1, DecimalSteps, Zenon
    <2> QED
        BY <2>1, <2>2 DEF SignedDecimal
<1>2. NumberText(SignedDecimal(0)) /\ SignedDecimal(0) \in Seq(Byte)
    BY SignedIsNumber DEF NumberText
<1>4. Readable(SignedDecimal(0))
    <2>1. 0 \in Int /\ 0 <= MaxInt /\ ~(0 > 2 * MaxLargest + 1) /\ ~(0 < -(MaxLargest + 1))
        BY WidthAssumption
    <2>2. DecodedInteger(SignedDecimal(0)) = Int64(0)
        BY <2>1, IntegerExact
    <2>3. Kind(Int64(0)) # "real"
        BY DEF Kind, Int64
    <2> QED
        BY <2>2, <2>3, Zenon DEF Readable
<1>3. IsRead(SignedDecimal(0), DecodedInteger(SignedDecimal(0)), 1, {44, 125})
    BY <1>2, <1>4, NumberIsRead
<1> QED
    BY <1>1, <1>2, <1>3, Zenon

LEMMA CandidateRead ==
    ASSUME NEW s \in Seq(Byte)
    PROVE  /\ CandidateText(s) \in Seq(Byte)
           /\ \E o : /\ IsRead(CandidateText(s), o, 3, Byte) /\ Member(o, type) = Text(candidate)
                     /\ At(o, msg, candidate) = Text(s)
<1> DEFINE a == Quoted(candidate)
           b == Quoted(s)
           zero == <<48>>
           c == Quoted(zero)
           v == DecodedInteger(zero)
           m == Stringify(<< <<candidate, b>>, <<sdpMid, c>>, <<sdpMLineIndex, zero>> >>)
           e == Stringify(<< <<type, a>>, <<msg, m>> >>)
<1>1. /\ type \in Seq(Byte) /\ msg \in Seq(Byte) /\ candidate \in Seq(Byte)
      /\ sdpMid \in Seq(Byte) /\ sdpMLineIndex \in Seq(Byte) /\ type # msg
      /\ candidate # sdpMid /\ candidate # sdpMLineIndex /\ sdpMid # sdpMLineIndex
    BY NamesAre
<1>2. zero \in Seq(Byte) /\ IsRead(zero, v, 1, {44, 125})
    BY ZeroIsRead
<1> HIDE DEF zero, v
<1>3. /\ a \in Seq(Byte) /\ IsRead(a, Text(candidate), 2, {44, 125})
      /\ b \in Seq(Byte) /\ IsRead(b, Text(s), 1, {44, 125})
      /\ c \in Seq(Byte) /\ IsRead(c, Text(zero), 1, {44, 125})
    BY <1>1, <1>2, QuotedInside
<1> HIDE DEF a, b, c
<1>4. PICK inner : IsThree(m, inner, 1 + 1, candidate, Text(s), sdpMid, Text(zero), sdpMLineIndex, v)
    BY <1>1, <1>2, <1>3, ThreeRead
<1> HIDE DEF m
<1>5. m \in Seq(Byte) /\ IsRead(m, inner, 2, Byte) /\ Member(inner, candidate) = Text(s)
    <2>1. 1 + 1 = 2
        OBVIOUS
    <2> QED
        BY <1>4, <2>1, Zenon DEF IsThree
<1>6. IsRead(m, inner, 2, {44, 125})
    BY <1>5, ReadDeeper
<1>7. PICK o : IsTwo(e, o, 2 + 1, type, Text(candidate), msg, inner)
    BY <1>1, <1>3, <1>5, <1>6, TwoRead
<1> HIDE DEF e
<1>8. e \in Seq(Byte) /\ IsRead(e, o, 3, Byte) /\ Member(o, type) = Text(candidate) /\ Member(o, msg) = inner
    <2>1. 2 + 1 = 3
        OBVIOUS
    <2> QED
        BY <1>7, <2>1, Zenon DEF IsTwo
<1>9. e = CandidateText(s)
    BY Zenon DEF CandidateText, e, m, a, b, c, zero
<1> QED
    BY <1>5, <1>8, <1>9, Zenon DEF At

LEMMA CommandRead ==
    ASSUME NEW speed \in Seq(Byte), NEW turn \in Seq(Byte), NEW v1, NEW v2,
           IsRead(speed, v1, 1, {44, 125}), IsRead(turn, v2, 1, {44, 125})
    PROVE  /\ CommandText(speed, turn) \in Seq(Byte)
           /\ \E o : /\ IsRead(CommandText(speed, turn), o, 4, Byte)
                     /\ Member(o, op) = Text(publish) /\ Member(o, topic) = Text(cmd_vel)
                     /\ Member(At(o, msg, linear), x) = v1 /\ Member(At(o, msg, angular), z) = v2
<1> DEFINE a == Quoted(publish)
           b == Quoted(cmd_vel)
           f == Stringify(<< <<x, speed>> >>)
           g == Stringify(<< <<z, turn>> >>)
           m == Stringify(<< <<linear, f>>, <<angular, g>> >>)
           e == Stringify(<< <<op, a>>, <<topic, b>>, <<msg, m>> >>)
<1>1. /\ op \in Seq(Byte) /\ topic \in Seq(Byte) /\ msg \in Seq(Byte) /\ linear \in Seq(Byte)
      /\ angular \in Seq(Byte) /\ x \in Seq(Byte) /\ z \in Seq(Byte)
      /\ publish \in Seq(Byte) /\ cmd_vel \in Seq(Byte)
      /\ op # topic /\ op # msg /\ topic # msg /\ linear # angular
    BY NamesAre
<1>2. /\ a \in Seq(Byte) /\ IsRead(a, Text(publish), 3, {44, 125})
      /\ b \in Seq(Byte) /\ IsRead(b, Text(cmd_vel), 3, {44, 125})
    BY <1>1, QuotedInside
<1> HIDE DEF a, b
<1>3. 1 + 1 = 2 /\ 2 + 1 = 3 /\ 3 + 1 = 4
    OBVIOUS
<1>4. PICK o1 : IsOne(f, o1, 1 + 1, x, v1)
    BY <1>1, OneRead
<1>5. PICK o2 : IsOne(g, o2, 1 + 1, z, v2)
    BY <1>1, OneRead
<1> HIDE DEF f, g
<1>6. /\ f \in Seq(Byte) /\ IsRead(f, o1, 2, Byte) /\ Member(o1, x) = v1
      /\ g \in Seq(Byte) /\ IsRead(g, o2, 2, Byte) /\ Member(o2, z) = v2
    BY <1>3, <1>4, <1>5, Zenon DEF IsOne
<1>7. IsRead(f, o1, 2, {44, 125}) /\ IsRead(g, o2, 2, {44, 125})
    BY <1>6, ReadDeeper
<1>8. PICK o3 : IsTwo(m, o3, 2 + 1, linear, o1, angular, o2)
    BY <1>1, <1>6, <1>7, TwoRead
<1> HIDE DEF m
<1>9. m \in Seq(Byte) /\ IsRead(m, o3, 3, Byte) /\ Member(o3, linear) = o1 /\ Member(o3, angular) = o2
    BY <1>3, <1>8, Zenon DEF IsTwo
<1>10. IsRead(m, o3, 3, {44, 125})
    BY <1>9, ReadDeeper
<1>11. PICK o : IsThree(e, o, 3 + 1, op, Text(publish), topic, Text(cmd_vel), msg, o3)
    BY <1>1, <1>2, <1>9, <1>10, ThreeRead
<1> HIDE DEF e
<1>12. /\ e \in Seq(Byte) /\ IsRead(e, o, 4, Byte) /\ Member(o, op) = Text(publish)
       /\ Member(o, topic) = Text(cmd_vel) /\ Member(o, msg) = o3
    BY <1>3, <1>11, Zenon DEF IsThree
<1>13. e = CommandText(speed, turn)
    BY Zenon DEF CommandText, e, m, f, g, a, b
<1> QED
    BY <1>6, <1>9, <1>12, <1>13, Zenon DEF At

Begins(t, c) == Len(t) # 0 /\ t[1] = c

\* The texts that are no JSON are short, and begin with a letter.
LEMMA Fixed ==
    /\ hello # HelloCar /\ ~Begins(hello, 123) /\ ~Begins(HelloCar, 123)
    /\ SessionData # hello /\ SessionData # HelloCar /\ Begins(SessionData, 83) /\ Len(SessionData) = 1
<1> QED
    BY SMT DEF hello, HelloCar, SessionData, Begins

LEMMA ObjectBegins ==
    ASSUME NEW members \in Seq(Named), Len(members) # 0
    PROVE  Begins(Stringify(members), 123)
<1> DEFINE W == Stringify(members)
<1>1. W \in Seq(Byte) /\ \E start : Starts(W, members, start)
    BY Stringified
<1> HIDE DEF W
<1>2. PICK start : Starts(W, members, start)
    BY <1>1
<1>3. W[1] = 123
    BY <1>2, Zenon DEF Starts
<1>4. Len(W) # 0
    <2>1. 1 \in 1 .. Len(members)
        OBVIOUS
    <2>2. MemberIn(W, start[1], members[1][1], members[1][2], start[1 + 1])
        BY <1>2, <2>1, Zenon DEF Starts
    <2>3. start[1 + 1] \in 1 .. Len(W)
        BY <2>2, Zenon DEF MemberIn
    <2> QED
        BY <1>1, <2>3
<1> QED
    BY <1>3, <1>4 DEF Begins, W

LEMMA PairBegins ==
    ASSUME NEW n1 \in Seq(Byte), NEW e1 \in Seq(Byte), NEW n2 \in Seq(Byte), NEW e2 \in Seq(Byte)
    PROVE  Begins(Stringify(<< <<n1, e1>>, <<n2, e2>> >>), 123)
<1> DEFINE members == << <<n1, e1>>, <<n2, e2>> >>
<1>1. members \in Seq(Named) /\ Len(members) # 0
    BY DEF Named
<1> HIDE DEF members
<1>2. Begins(Stringify(members), 123)
    BY <1>1, ObjectBegins
<1> QED
    BY <1>2 DEF members

\* What a message means that was read well.
LEMMA WellRead ==
    ASSUME NEW text, text # hello, text # HelloCar, NEW root, root.end = "ok", NEW s \in Seq(Byte)
    PROVE  /\ Member(root.of, type) = Text(offer) /\ At(root.of, msg, sdp) = Text(s)
                => Meaning(text, root) = <<"offer", s>>
           /\ Member(root.of, type) = Text(candidate) /\ At(root.of, msg, candidate) = Text(s)
                => Meaning(text, root) = <<"candidate", aLine \o s>>
<1> DEFINE kind == Member(root.of, type)
           found == AsString(At(root.of, msg, candidate))
           heard == Does("candidate", IF found = Throws THEN Throws ELSE Text(aLine \o Of(found)))
           asked == Does("offer", AsString(At(root.of, msg, sdp)))
           other == CASE IsText(kind, offer) -> asked
                      [] IsText(kind, candidate) -> heard
                      [] OTHER -> <<"nothing", 0>>
<1>1. Meaning(text, root) =
        CASE text = hello -> <<"hello", 0>>
          [] text = HelloCar -> <<"Hello Car_data", 0>>
          [] text \notin {hello, HelloCar} /\ root.end = "error" -> <<"no JSON", 0>>
          [] text \notin {hello, HelloCar} /\ (root.end = "throws" \/ kind = Throws) -> Throws
          [] OTHER -> other
    BY Zenon DEF Meaning, other, asked, heard, found, kind
<1>2. \A w : Text(w) # Throws /\ AsString(Text(w)) = Text(w) /\ Of(Text(w)) = w
    BY SMT DEF Text, Throws, AsString, Kind, Of
<1>3. \A what, w : Does(what, Text(w)) = <<what, w>>
    BY <1>2, Zenon DEF Does
<1> HIDE DEF kind
<1>4. kind # Throws => Meaning(text, root) = other
    <2> HIDE DEF other
    <2> QED
        BY <1>1
<1>5. ASSUME kind = Text(offer), At(root.of, msg, sdp) = Text(s)
      PROVE  Meaning(text, root) = <<"offer", s>>
    <2>1. asked = <<"offer", s>>
        BY <1>2, <1>3, <1>5, Zenon
    <2>2. IsText(kind, offer) /\ ~IsText(kind, candidate)
        <3>1. Text(offer) # Text(candidate)
            BY NamesAre DEF Text
        <3> QED
            BY <1>5, <3>1, Zenon DEF IsText
    <2> HIDE DEF asked, heard
    <2>3. other = asked
        BY <2>2
    <2> HIDE DEF other
    <2> QED
        BY <1>2, <1>4, <1>5, <2>1, <2>3, Zenon
<1>6. ASSUME kind = Text(candidate), At(root.of, msg, candidate) = Text(s)
      PROVE  Meaning(text, root) = <<"candidate", aLine \o s>>
    <2>1. found = Text(s)
        BY <1>2, <1>6, Zenon
    <2> HIDE DEF found
    <2> DEFINE whole == aLine \o Of(found)
    <2>2. whole = aLine \o s
        BY <1>2, <2>1, Zenon
    <2> HIDE DEF whole
    <2>3. heard = <<"candidate", aLine \o s>>
        BY <1>2, <1>3, <2>1, <2>2, Zenon DEF whole
    <2>4. IsText(kind, candidate) /\ ~IsText(kind, offer)
        <3>1. Text(offer) # Text(candidate)
            BY NamesAre DEF Text
        <3> QED
            BY <1>6, <3>1, Zenon DEF IsText
    <2> HIDE DEF asked, heard
    <2>5. other = heard
        BY <2>4
    <2> HIDE DEF other
    <2> QED
        BY <1>2, <1>4, <1>6, <2>3, <2>5, Zenon
<1> QED
    BY <1>5, <1>6 DEF kind

\* A text that is no JSON.
LEMMA NoJson ==
    ASSUME NEW doc \in Seq(Byte), Len(doc) # 0, doc[1] = 83
    PROVE  Parse(doc) = Failed
<1>1. PICK reads : Parser(doc, reads)
    BY ParseSteps
<1>2. 1 \in 1 .. Len(doc) /\ 1 \in 1 .. Len(doc) + 1 /\ Char(doc, 1) = 83
    BY DEF Char
<1>3. /\ 83 \notin DOMAIN Punctuation \cup DOMAIN Words \cup Digits \cup {Minus, QuoteMark, Slash, 0}
      /\ 83 \notin Blanks
    <2>1. DOMAIN Punctuation = {123, 125, 91, 93, 44, 58} /\ DOMAIN Words = {116, 102, 110}
        BY Beginnings
    <2> QED
        BY <2>1, SMT DEF Digits, Minus, QuoteMark, Slash, Blanks, Space, TAB, CR, LF
<1> DEFINE first == 1
           stop == first + 1
<1>4. TokenFrom(doc, first) = Token("error", first, stop)
    <2>1. Char(doc, first) \notin DOMAIN Punctuation \cup DOMAIN Words \cup Digits
                                    \cup {Minus, QuoteMark, Slash, 0}
        BY <1>2, <1>3
    <2> QED
        BY <2>1, TokenBegins
<1>5. TokenAt(doc, first) = Token("error", first, stop)
    <2>1. After(doc, first, Blanks) = first
        BY <1>2, <1>3, NothingSkipped
    <2> HIDE DEF first
    <2> QED
        BY <1>4, <2>1, Zenon DEF TokenAt
<1>6. first \in 1 .. Len(doc) + 1 /\ 0 \in 0 .. StackLimit /\ 0 < StackLimit
    BY <1>2, StackLimitAssumption
<1>7. Parse(doc) = reads[ValueAt(first, 0)]
    BY <1>1, Zenon DEF Parser
<1> HIDE DEF first, stop
<1>8. reads[ValueAt(first, 0)] = Scalar(doc, Token("error", first, stop))
    BY <1>1, <1>5, <1>6, ScalarCalled
<1> DEFINE token == Token("error", first, stop)
<1>9. token.type = "error"
    BY TokenIs
<1> HIDE DEF token
<1>10. Scalar(doc, token) = Failed
    BY <1>9, SMT DEF Scalar
<1> QED
    BY <1>7, <1>8, <1>10, Zenon DEF token

LEMMA FixedMeaning ==
    ASSUME NEW root
    PROVE  /\ Meaning(hello, root) = <<"hello", 0>>
           /\ Meaning(HelloCar, root) = <<"Hello Car_data", 0>>
           /\ root = Failed => Meaning(SessionData, root) = <<"no JSON", 0>>
<1> DEFINE kind == Member(root.of, type)
           found == AsString(At(root.of, msg, candidate))
           other == CASE IsText(kind, offer) -> Does("offer", AsString(At(root.of, msg, sdp)))
                      [] IsText(kind, candidate) ->
                            Does("candidate", IF found = Throws THEN Throws ELSE Text(aLine \o Of(found)))
                      [] OTHER -> <<"nothing", 0>>
           a == <<"hello", 0>>
           b == <<"Hello Car_data", 0>>
           c == <<"no JSON", 0>>
           Known(text) == text \in {hello, HelloCar}
           bad == root.end = "throws" \/ kind = Throws
           failed == root.end = "error"
           of(text) == CASE text = hello -> a
                         [] text = HelloCar -> b
                         [] ~Known(text) /\ failed -> c
                         [] ~Known(text) /\ bad -> Throws
                         [] OTHER -> other
<1>1. \A text : Meaning(text, root) = of(text)
    BY Zenon DEF Meaning
<1>2. hello # HelloCar /\ SessionData # hello /\ SessionData # HelloCar
    BY Fixed
<1>3. Known(hello) /\ Known(HelloCar) /\ ~Known(SessionData)
    BY <1>2
<1>4. root = Failed => failed /\ ~bad
    <2>1. Failed.end = "error" /\ Failed.of = Null
        BY DEF Failed
    <2>2. Member(Null, type) = Null /\ Null # Throws
        BY SMT DEF Member, Null, Throws, Kind
    <2>3. "error" # "throws"
        OBVIOUS
    <2> QED
        BY <2>1, <2>2, <2>3, Zenon
<1> HIDE DEF other, a, b, c, Known
<1>5. of(hello) = a /\ of(HelloCar) = b
    <2> HIDE DEF failed, bad
    <2> QED
        BY <1>2, <1>3
<1>6. failed /\ ~bad => of(SessionData) = c
    <2> HIDE DEF failed, bad
    <2> QED
        BY <1>2, <1>3
<1> HIDE DEF of
<1> QED
    BY <1>1, <1>4, <1>5, <1>6, Zenon DEF a, b, c

LEMMA NoJsonSent ==
    ASSUME NEW root \in Roots(SessionData) PROVE root = Failed
<1>1. PICK doc \in Documents(SessionData) : root = Parse(doc)
    BY Zenon DEF Roots
<1>2. doc \in Seq(Byte) /\ Spelt(doc, 0, SessionData)
    BY <1>1, DocumentIs, NamesAre
<1> DEFINE W == SessionData
<1>3. Len(W) = 1 /\ W[1] = 83
    BY Fixed DEF Begins
<1> HIDE DEF W
<1>4. 0 + Len(W) <= Len(doc) /\ \A n \in 1 .. Len(W) : doc[0 + n] = W[n]
    BY <1>2, Zenon DEF Spelt, W
<1>5. Len(doc) # 0 /\ doc[1] = 83
    <2>1. 1 \in 1 .. Len(W) /\ 0 + 1 = 1
        BY <1>3
    <2>2. doc[0 + 1] = W[1]
        BY <1>4, <2>1
    <2> QED
        BY <1>2, <1>3, <1>4, <2>1, <2>2
<1> QED
    BY <1>1, <1>2, <1>5, NoJson

\* One message of this kind.
LEMMA OneMeant ==
    ASSUME NEW kind, NEW text, NEW meaning, Sent(kind) = {<<text, meaning>>},
           \A root \in Roots(text) : Meaning(text, root) = meaning
    PROVE  Understood(kind)
<1> DEFINE p == <<text, meaning>>
<1>1. p[1] = text /\ p[2] = meaning
    OBVIOUS
<1> HIDE DEF p
<1>2. \A root \in Roots(p[1]) : Meaning(p[1], root) = p[2]
    BY <1>1, Zenon
<1>3. \A q \in Sent(kind) : q = p
    BY DEF p
<1> QED
    BY <1>2, <1>3, Zenon DEF Understood

LEMMA FixedUnderstood ==
    Understood("hello") /\ Understood("Hello Car_data") /\ Understood("Session_data")
<1>1. Sent("hello") = {<<hello, <<"hello", 0>> >>}
    BY SMT DEF Sent
<1>2. Sent("Hello Car_data") = {<<HelloCar, <<"Hello Car_data", 0>> >>}
    BY SMT DEF Sent
<1>3. Sent("Session_data") = {<<SessionData, <<"no JSON", 0>> >>}
    BY SMT DEF Sent
<1> QED
    BY <1>1, <1>2, <1>3, FixedMeaning, NoJsonSent, OneMeant, ZenonT(60)

\* An object is none of the texts that are no JSON.
LEMMA ObjectIsOther ==
    ASSUME NEW text, Begins(text, 123) PROVE text # hello /\ text # HelloCar
<1> QED
    BY Fixed, SMT

LEMMA OfferUnderstood == Understood("offer")
<1> DEFINE OfferTexts == {<<OfferText(s), <<"offer", s>> >> : s \in Strings}
<1>1. Sent("offer") = OfferTexts
    BY SMT DEF Sent
<1>2. ASSUME NEW s \in Strings, NEW root \in Roots(OfferText(s))
      PROVE  Meaning(OfferText(s), root) = <<"offer", s>>
    <2> DEFINE text == OfferText(s)
    <2>1. s \in Seq(Byte)
        BY StringsAssumption
    <2>2. text \in Seq(Byte)
        BY <2>1, OfferRead
    <2>3. PICK o : /\ IsRead(text, o, 3, Byte) /\ Member(o, type) = Text(offer)
                   /\ At(o, msg, sdp) = Text(s)
        BY <2>1, OfferRead
    <2>4. Begins(text, 123)
        <3> DEFINE a == Quoted(offer)
                   m == Stringify(<< <<type, a>>, <<sdp, Quoted(s)>> >>)
        <3>1. a \in Seq(Byte) /\ Quoted(s) \in Seq(Byte) /\ type \in Seq(Byte) /\ msg \in Seq(Byte) /\ sdp \in Seq(Byte)
            BY <2>1, NamesAre, QuotedIs
        <3>2. m \in Seq(Byte)
            <4> DEFINE members == << <<type, a>>, <<sdp, Quoted(s)>> >>
            <4>1. members \in Seq(Named) /\ Len(members) # 0
                BY <3>1 DEF Named
            <4> HIDE DEF members
            <4>2. Stringify(members) \in Seq(Byte)
                BY <4>1, Stringified
            <4> QED
                BY <4>2 DEF members
        <3> HIDE DEF a, m
        <3>3. Begins(Stringify(<< <<type, a>>, <<msg, m>> >>), 123)
            BY <3>1, <3>2, PairBegins
        <3> QED
            BY <3>3, Zenon DEF OfferText, a, m
    <2> HIDE DEF text
    <2>5. text # hello /\ text # HelloCar
        BY <2>4, ObjectIsOther
    <2>6. root.end = "ok" /\ root.of = o
        BY <2>2, <2>3, DepthAssumption, StackLimitAssumption, TextParsed DEF text
    <2>7. Member(root.of, type) = Text(offer) /\ At(root.of, msg, sdp) = Text(s)
        BY <2>3, <2>6, Zenon
    <2> QED
        BY <2>1, <2>5, <2>6, <2>7, WellRead DEF text
<1> HIDE DEF Sent
<1>3. \A p \in OfferTexts : \A root \in Roots(p[1]) : Meaning(p[1], root) = p[2]
    <2> SUFFICES ASSUME NEW s \in Strings
                 PROVE  LET p == <<OfferText(s), <<"offer", s>> >>
                        IN  \A root \in Roots(p[1]) : Meaning(p[1], root) = p[2]
        BY Zenon
    <2> DEFINE a == OfferText(s)
               b == <<"offer", s>>
    <2>1. <<a, b>>[1] = a /\ <<a, b>>[2] = b
        OBVIOUS
    <2> QED
        BY <1>2, <2>1, Zenon
<1> QED
    BY <1>1, <1>3, Zenon DEF Understood

LEMMA CandidateUnderstood == Understood("candidate")
<1> DEFINE Candidates == {<<CandidateText(s), <<"candidate", aLine \o s>> >> : s \in Strings}
<1>1. Sent("candidate") = Candidates
    BY SMT DEF Sent
<1>2. ASSUME NEW s \in Strings, NEW root \in Roots(CandidateText(s))
      PROVE  Meaning(CandidateText(s), root) = <<"candidate", aLine \o s>>
    <2> DEFINE text == CandidateText(s)
    <2>1. s \in Seq(Byte)
        BY StringsAssumption
    <2>2. text \in Seq(Byte)
        BY <2>1, CandidateRead
    <2>3. PICK o : /\ IsRead(text, o, 3, Byte) /\ Member(o, type) = Text(candidate)
                   /\ At(o, msg, candidate) = Text(s)
        BY <2>1, CandidateRead
    <2>4. Begins(text, 123)
        <3> DEFINE a == Quoted(candidate)
                   zero == <<48>>
                   b == Quoted(s)
                   c == Quoted(zero)
                   m == Stringify(<< <<candidate, b>>, <<sdpMid, c>>, <<sdpMLineIndex, zero>> >>)
        <3>1. zero \in Seq(Byte)
            BY ZeroIsRead
        <3> HIDE DEF zero
        <3>2. /\ a \in Seq(Byte) /\ b \in Seq(Byte) /\ c \in Seq(Byte) /\ type \in Seq(Byte) /\ msg \in Seq(Byte)
              /\ candidate \in Seq(Byte) /\ sdpMid \in Seq(Byte) /\ sdpMLineIndex \in Seq(Byte)
            BY <2>1, <3>1, NamesAre, QuotedIs
        <3> HIDE DEF a, b, c
        <3>3. m \in Seq(Byte)
            <4> DEFINE members == << <<candidate, b>>, <<sdpMid, c>>, <<sdpMLineIndex, zero>> >>
            <4>1. members \in Seq(Named) /\ Len(members) # 0
                BY <3>1, <3>2 DEF Named
            <4> HIDE DEF members
            <4>2. Stringify(members) \in Seq(Byte)
                BY <4>1, Stringified
            <4> QED
                BY <4>2 DEF members
        <3> HIDE DEF m
        <3>4. Begins(Stringify(<< <<type, a>>, <<msg, m>> >>), 123)
            BY <3>2, <3>3, PairBegins
        <3> QED
            BY <3>4, Zenon DEF CandidateText, a, m, b, c, zero
    <2> HIDE DEF text
    <2>5. text # hello /\ text # HelloCar
        BY <2>4, ObjectIsOther
    <2>6. root.end = "ok" /\ root.of = o
        BY <2>2, <2>3, DepthAssumption, StackLimitAssumption, TextParsed DEF text
    <2>7. Member(root.of, type) = Text(candidate) /\ At(root.of, msg, candidate) = Text(s)
        BY <2>3, <2>6, Zenon
    <2> QED
        BY <2>1, <2>5, <2>6, <2>7, WellRead DEF text
<1> HIDE DEF Sent
<1>3. \A p \in Candidates : \A root \in Roots(p[1]) : Meaning(p[1], root) = p[2]
    <2> SUFFICES ASSUME NEW s \in Strings
                 PROVE  LET p == <<CandidateText(s), <<"candidate", aLine \o s>> >>
                        IN  \A root \in Roots(p[1]) : Meaning(p[1], root) = p[2]
        BY Zenon
    <2> DEFINE a == CandidateText(s)
               b == <<"candidate", aLine \o s>>
    <2>1. <<a, b>>[1] = a /\ <<a, b>>[2] = b
        OBVIOUS
    <2> QED
        BY <1>2, <2>1, Zenon
<1> QED
    BY <1>1, <1>3, Zenon DEF Understood

\* Whatever the description or the candidate is, byte for byte, and whatever
\* parse is given behind a text that is short: the car takes each message of the
\* server and of a page for what was sent (testclient.cpp:155, the main loop;
\* jsoncpp.cpp:286, Reader::parse).
THEOREM MessagesUnderstood == \A kind \in MessageKinds : Understood(kind)
BY FixedUnderstood, OfferUnderstood, CandidateUnderstood DEF MessageKinds

-----------------------------------------------------------------------------
\* What onDCRecvStrMsg makes of a command that was read well.
LEMMA CommandWellRead ==
    ASSUME NEW root, root.end = "ok",
           Member(root.of, op) = Text(publish), Member(root.of, topic) = Text(cmd_vel),
           NEW v, NEW w, AsString(Member(At(root.of, msg, linear), x)) = Text(v),
           AsString(Member(At(root.of, msg, angular), z)) = Text(w)
    PROVE  Command(root) = <<"speeds", <<v, w>> >>
<1>1. \A u : Text(u) # Throws /\ AsString(Text(u)) = Text(u) /\ Of(Text(u)) = u
    BY SMT DEF Text, Throws, AsString, Kind, Of
<1> DEFINE kind == <<AsString(Member(root.of, op)), AsString(Member(root.of, topic))>>
           speeds == <<AsString(Member(At(root.of, msg, linear), x)),
                       AsString(Member(At(root.of, msg, angular), z))>>
           r == IF kind[1] = Throws THEN Throws
                ELSE IF kind[1] # Text(publish) THEN <<"nothing", 0>>
                ELSE IF kind[2] = Throws THEN Throws
                ELSE IF kind[2] # Text(cmd_vel) THEN <<"nothing", 0>>
                ELSE IF Throws \in {speeds[1], speeds[2]} THEN Throws
                ELSE <<"speeds", <<Of(speeds[1]), Of(speeds[2])>> >>
<1>2. Command(root) = CASE root.end = "error" -> <<"nothing", 0>>
                        [] root.end = "throws" -> Throws
                        [] root.end = "ok" -> r
    BY Zenon DEF Command, r, kind, speeds
<1>3. kind[1] = Text(publish) /\ kind[2] = Text(cmd_vel)
    <2>1. kind[1] = AsString(Member(root.of, op)) /\ kind[2] = AsString(Member(root.of, topic))
        OBVIOUS
    <2> HIDE DEF kind
    <2> QED
        BY <1>1, <2>1, Zenon
<1>4. speeds[1] = Text(v) /\ speeds[2] = Text(w)
    OBVIOUS
<1> HIDE DEF kind, speeds
<1>5. r = <<"speeds", <<v, w>> >>
    <2>1. Throws \notin {speeds[1], speeds[2]}
        BY <1>1, <1>4
    <2> QED
        BY <1>1, <1>3, <1>4, <2>1, Zenon
<1> HIDE DEF r
<1> QED
    BY <1>2, <1>5

LEMMA CommandIsUnderstood ==
    ASSUME NEW speed \in Seq(Byte), NEW turn \in Seq(Byte), NEW v1, NEW v2, NEW v, NEW w,
           IsRead(speed, v1, 1, {44, 125}), IsRead(turn, v2, 1, {44, 125}),
           AsString(v1) = Text(v), AsString(v2) = Text(w),
           NEW root \in Roots(CommandText(speed, turn))
    PROVE  Command(root) = <<"speeds", <<v, w>> >>
<1> DEFINE text == CommandText(speed, turn)
<1>1. text \in Seq(Byte)
    BY CommandRead
<1>2. PICK o : /\ IsRead(text, o, 4, Byte)
               /\ Member(o, op) = Text(publish) /\ Member(o, topic) = Text(cmd_vel)
               /\ Member(At(o, msg, linear), x) = v1 /\ Member(At(o, msg, angular), z) = v2
    BY CommandRead
<1> HIDE DEF text
<1>3. root.end = "ok" /\ root.of = o
    BY <1>1, <1>2, DepthAssumption, StackLimitAssumption, TextParsed DEF text
<1>4. /\ Member(root.of, op) = Text(publish) /\ Member(root.of, topic) = Text(cmd_vel)
      /\ AsString(Member(At(root.of, msg, linear), x)) = Text(v)
      /\ AsString(Member(At(root.of, msg, angular), z)) = Text(w)
    BY <1>2, <1>3, Zenon
<1> QED
    BY <1>3, <1>4, CommandWellRead

\* Whatever numbers the page sends for the speeds, as numbers or as strings, the
\* car's atof is given the numbers that were sent, a double by the digits that
\* it was read from
\* (testclient.cpp:112, onDCRecvStrMsg; jsoncpp.cpp:702, decodeNumber).
THEOREM CommandsUnderstoodCorrect == CommandsUnderstood
<1> SUFFICES ASSUME NEW v \in Speech, NEW w \in Speech,
                    NEW root \in Roots(CommandText(Quoted(v), Quoted(w))) \cup Roots(CommandText(v, w))
             PROVE  Command(root) = <<"speeds", <<v, w>> >>
    BY Zenon DEF CommandsUnderstood
<1>1. /\ v \in Seq(Byte) /\ NumberText(v) /\ Readable(v) /\ AsString(DecodedInteger(v)) = Text(v)
      /\ w \in Seq(Byte) /\ NumberText(w) /\ Readable(w) /\ AsString(DecodedInteger(w)) = Text(w)
    BY SpeechIsRead
<1>2. CASE root \in Roots(CommandText(v, w))
    <2>1. IsRead(v, DecodedInteger(v), 1, {44, 125}) /\ IsRead(w, DecodedInteger(w), 1, {44, 125})
        BY <1>1, NumberIsRead
    <2> QED
        BY <1>1, <1>2, <2>1, CommandIsUnderstood
<1>3. CASE root \in Roots(CommandText(Quoted(v), Quoted(w)))
    <2>1. /\ Quoted(v) \in Seq(Byte) /\ IsRead(Quoted(v), Text(v), 1, {44, 125})
          /\ Quoted(w) \in Seq(Byte) /\ IsRead(Quoted(w), Text(w), 1, {44, 125})
        BY <1>1, QuotedInside
    <2>2. AsString(Text(v)) = Text(v) /\ AsString(Text(w)) = Text(w)
        BY SMT DEF AsString, Text, Kind, Of
    <2> QED
        BY <1>1, <1>3, <2>1, <2>2, CommandIsUnderstood
<1> QED
    BY <1>2, <1>3

\* Whatever descriptions, candidates, speeds and integers there are, and whatever
\* the widths of the integers are: the car takes a message for what was sent,
\* and no integer of it is wrapped around (testclient.cpp:155, the main loop;
\* jsoncpp.cpp:711, decodeNumber).
THEOREM MessagesMeantCorrect == Spec => []MessagesMeant
<1>1. MessagesMeant
    BY MessagesUnderstood, CommandsUnderstoodCorrect, IntegersExactCorrect, Zenon DEF MessagesMeant
<1> QED
    BY <1>1, PTL

-----------------------------------------------------------------------------
\* What every call has read well ends behind where it began, and in the text.
LEMMA CallsReach ==
    ASSUME NEW t \in Seq(Byte), NEW reads, Parser(t, reads), NEW call \in Calls(t)
    PROVE  Reaches(t, call.at, reads[call])
<1> DEFINE C == Calls(t)
           S == {n \in Nat : \A other \in C : Rank(t, other) < n => Reaches(t, other.at, reads[other])}
<1>1. \A other \in C : Rank(t, other) \in Nat
    <2> TAKE other \in C
    <2> DEFINE a == other.at
               p == IF other.what = "elements" THEN 1 ELSE 0
    <2>1. a \in 1 .. Len(t) + 1 /\ p \in 0 .. 1 /\ Len(t) \in Nat
        BY SMT DEF Calls
    <2>2. Rank(t, other) = 2 * (Len(t) + 1 - a) + p
        BY Zenon DEF Rank
    <2> HIDE DEF a, p
    <2> QED
        BY <2>1, <2>2
<1> HIDE DEF C
<1>2. 0 \in S
    BY <1>1
<1>3. ASSUME NEW n \in S PROVE n + 1 \in S
    <2>1. n \in Nat /\ n + 1 \in Nat
        OBVIOUS
    <2>2. ASSUME NEW one \in C, Rank(t, one) < n + 1 PROVE Reaches(t, one.at, reads[one])
        <3>1. ASSUME NEW other \in C, Rank(t, other) < Rank(t, one) PROVE Agree(t, reads, reads, other)
            <4> DEFINE a == Rank(t, other)
                       b == Rank(t, one)
            <4>1. a \in Nat /\ b \in Nat /\ a < b /\ b < n + 1
                BY <1>1, <2>2, <3>1
            <4> HIDE DEF a, b
            <4>2. a < n
                BY <2>1, <4>1
            <4>3. Reaches(t, other.at, reads[other])
                BY <4>2 DEF a
            <4> QED
                BY <4>3, Zenon DEF Agree
        <3>2. Same(t, one.at, Reads(t, reads, one), Reads(t, reads, one))
            BY <3>1, ReadsSame DEF C
        <3>3. reads[one] = Reads(t, reads, one)
            BY Zenon DEF Parser, C
        <3> QED
            BY <3>2, <3>3, Zenon DEF Same
    <2> QED
        BY <2>1, <2>2
<1>4. \A n \in Nat : n \in S
    <2> HIDE DEF S
    <2> QED
        BY <1>2, <1>3, Induction
<1>5. call \in C
    BY DEF C
<1>6. Rank(t, call) + 1 \in Nat /\ Rank(t, call) < Rank(t, call) + 1
    BY <1>1, <1>5
<1>7. Rank(t, call) + 1 \in S
    BY <1>4, <1>6
<1> QED
    BY <1>5, <1>6, <1>7

\* The parser comes to an end with every text, whatever its bytes are: what its
\* functions read is well defined (each calls the others for what is behind the
\* place where it began, and no deeper than stackLimit_g), and what was read
\* well is in the text and not empty, however the text was cut or continued
\* (jsoncpp.cpp:342, Reader::readValue; :622, readObject; :667, readArray).
THEOREM ParseEnds ==
    \A t \in Seq(Byte) :
        \E reads :
            /\ Parse(t) = reads[ValueAt(1, 0)]
            /\ \A call \in Calls(t) : /\ reads[call] = Reads(t, reads, call)
                                      /\ Reaches(t, call.at, reads[call])
<1> TAKE t \in Seq(Byte)
<1>1. PICK reads : Parser(t, reads)
    BY ParseSteps
<1>2. \A call \in Calls(t) : Reaches(t, call.at, reads[call])
    BY <1>1, CallsReach
<1> QED
    BY <1>1, <1>2, Zenon DEF Parser
=============================================================================
