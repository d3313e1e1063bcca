------------------------ MODULE PeerConnectionProofs ------------------------
(* The threads and the destructor of a connection, for any number of packets *)
(* and whether or not another connection of the process is alive.            *)
EXTENDS PeerConnection, SequenceTheorems, TLAPS

Places == {"spawned", "running", "starting", "looping", "popping", "notifying",
           "notified", "waiting", "connecting"} \cup Over

Chunks == Packets \cup {"flight"}

TypeOK ==
    /\ at \in [Threads -> Places]
    /\ step \in Nat
    /\ queue \in [Workers -> Seq(Chunks)]
    /\ stopped \in [Workers -> BOOLEAN]
    /\ stop \in [Wrappers -> BOOLEAN]
    /\ quit \in BOOLEAN /\ iceReady \in BOOLEAN
    /\ hs \in {"none", "sent", "replied", "done"}
    /\ sentData \in BOOLEAN /\ acked \in BOOLEAN /\ sock \in BOOLEAN
    /\ arrived \in Nat

\* A worker of DTLS that was started behind the back of ~PeerConnection.
Late == Over \cup {"looping"}

\* What each part of Script leaves behind.  DTLSWrapper::Stop has told both
\* its threads to end when the main loop may still start them; SCTP is started
\* by decrypt, which is joined or late by then; and nothing is started any more
\* when the main loop is joined.
StepInv ==
    /\ at["loop"] # "none" /\ at["send"] # "none"
    /\ step > 5 => stop["dtls"]
    /\ step > 6 => at["encrypt"] \in Late
    /\ step > 8 => at["decrypt"] \in Late
    /\ step > 10 => at["send"] = "ended"
    /\ step > 12 => at["loop"] = "ended"
    /\ step > 14 => at["recv"] \in Over
    /\ step > 15 => at["connect"] \in Over
    /\ step > 19 => at["encrypt"] \in Over
    /\ step > 21 => at["decrypt"] \in Over

\* How far the layers have come up.
LayerInv ==
    /\ ~iceReady => at["loop"] # "starting" /\ at["encrypt"] = "none"
                    /\ at["decrypt"] = "none" /\ hs = "none"
    /\ at["loop"] = "starting" => at["decrypt"] = "none"
    /\ at["decrypt"] = "none" => hs # "done"
    /\ hs # "done" => /\ at["recv"] = "none" /\ at["connect"] = "none"
                      /\ at["decrypt"] \notin {"notifying", "notified"}
    /\ at["decrypt"] = "notifying" => at["recv"] = "none" /\ at["connect"] = "none"
    /\ at["decrypt"] = "notified" => at["connect"] = "none"
    /\ at["recv"] = "looping" => sentData \/ stop["sctp"]
    /\ at["recv"] = "popping" => sentData

ConnectionInv == TypeOK /\ StepInv /\ LayerInv

-----------------------------------------------------------------------------
(* The kinds of steps                                                        *)

\* The steps of the main loop and the threads.
ThreadStep ==
    \/ LoopBegins \/ StartsDecrypt \/ LoopEnds \/ IceReady
    \/ \E p \in Packets : DataReceived(p)
    \/ \E w \in Workers : Looks(w) \/ PopsNull(w)
    \/ SendsPacket \/ Encrypts \/ AnswersFlight \/ CompletesHandshake \/ Decrypts
    \/ DropsPacket \/ StartsRecv \/ StartsConnect \/ RecvWaits \/ HandlesPacket
    \/ ConnectSends \/ Connects \/ ConnectFails

\* A step is the owner's, a thread's or none.
LEMMA NextCases ==
    ASSUME [Next]_vars PROVE Destroy \/ Owner \/ ThreadStep \/ UNCHANGED vars
BY DEF Next, Loop, Works, Decrypt, Connect, Network, ThreadStep

\* The threads leave the owner's place in the script alone.
LEMMA ThreadKeepsStep == ASSUME ThreadStep PROVE step' = step
BY DEF ThreadStep, LoopBegins, StartsDecrypt, LoopEnds, IceReady, DataReceived, Looks,
       PopsNull, SendsPacket, Encrypts, AnswersFlight, CompletesHandshake, Decrypts,
       DropsPacket, StartsRecv, StartsConnect, RecvWaits, HandlesPacket, ConnectSends,
       Connects, ConnectFails

\* The parts of the script that the proof looks at.
LEMMA ScriptFacts ==
    /\ Len(Script) = 27
    /\ Script[5] = Do("stop", "dtls")
    /\ Script[6] = Do("join", "encrypt") /\ Script[8] = Do("join", "decrypt")
    /\ Script[10] = Do("join", "send") /\ Script[12] = Do("join", "loop")
    /\ Script[14] = Do("join", "recv") /\ Script[15] = Do("join", "connect")
    /\ Script[19] = Do("join", "encrypt") /\ Script[21] = Do("join", "decrypt")
    /\ \A n \in 1 .. 27 :
        /\ Script[n] = Do("free", "sctp") => n = 17
        /\ Script[n] = Do("free", "dtls") => n = 22
        /\ Script[n] = Do("free", "nice") => n = 27
BY DEF Script, Do

\* The owner goes on in the script, and past a join when the thread is over.
LEMMA OwnerFacts ==
    ASSUME TypeOK, Owner
    PROVE  /\ step \in 1 .. 27 /\ step' = step + 1
           /\ UNCHANGED <<at, queue, iceReady, hs, sentData, acked, arrived>>
           /\ \A w \in Wrappers : stop[w] => stop'[w]
           /\ Script[step] = Do("stop", "dtls") => stop'["dtls"]
           /\ \A t \in Threads : Script[step] = Do("join", t) => at[t] \in Over
<1> USE DEF OwnerAt, Do, TypeOK, Wrappers
<1>0. Len(Script) = 27
    BY ScriptFacts
<1>1. ASSUME NEW w \in Wrappers, NEW q, StopsWrapper(w, q)
      PROVE  /\ step \in 1 .. 27 /\ step' = step + 1
             /\ UNCHANGED <<at, queue, iceReady, hs, sentData, acked, arrived>>
             /\ \A v \in Wrappers : stop[v] => stop'[v]
             /\ Script[step] = Do("stop", "dtls") => stop'["dtls"]
             /\ \A t \in Threads : Script[step] = Do("join", t) => at[t] \in Over
    BY <1>0, <1>1 DEF StopsWrapper
<1>2. CASE StopsDecrypt
    BY <1>0, <1>2 DEF StopsDecrypt
<1>3. ASSUME NEW t \in Threads, Joins(t)
      PROVE  /\ step \in 1 .. 27 /\ step' = step + 1
             /\ UNCHANGED <<at, queue, iceReady, hs, sentData, acked, arrived>>
             /\ \A v \in Wrappers : stop[v] => stop'[v]
             /\ Script[step] = Do("stop", "dtls") => stop'["dtls"]
             /\ \A u \in Threads : Script[step] = Do("join", u) => at[u] \in Over
    BY <1>0, <1>3 DEF Joins
<1>4. CASE ClosesSocket \/ QuitsLoop
    BY <1>0, <1>4 DEF ClosesSocket, QuitsLoop
<1>5. CASE \E w \in Wrappers : Frees(w)
    BY <1>0, <1>5 DEF Frees
<1> QED
    BY <1>1, <1>2, <1>3, <1>4, <1>5 DEF Owner

-----------------------------------------------------------------------------
(* Types                                                                     *)

\* A push of a chunk leaves queues of chunks.
LEMMA PushedType ==
    ASSUME NEW Q \in [Workers -> Seq(Chunks)], NEW q \in Workers, NEW p \in Chunks
    PROVE  Pushed(Q, q, p) \in [Workers -> Seq(Chunks)]
<1>1. Append(Q[q], p) \in Seq(Chunks)
    BY AppendProperties
<1> QED BY <1>1 DEF Pushed

\* A pop takes one chunk from one queue.
LEMMA PoppedType ==
    ASSUME TypeOK, NEW w \in Workers, Pops(w)
    PROVE  /\ Popped(w) \in [Workers -> Seq(Chunks)]
           /\ Len(Popped(w)[w]) = Len(queue[w]) - 1
           /\ \A v \in Workers \ {w} : Popped(w)[v] = queue[v]
<1>1. queue[w] \in Seq(Chunks) /\ queue[w] # <<>>
    BY DEF TypeOK, Pops
<1>2. Tail(queue[w]) \in Seq(Chunks) /\ Len(Tail(queue[w])) = Len(queue[w]) - 1
    BY <1>1, HeadTailProperties
<1> QED BY <1>2 DEF Popped, TypeOK

\* The state right after the constructor has the type.
LEMMA TypeInit == Init => TypeOK
<1> SUFFICES ASSUME Init PROVE TypeOK
    OBVIOUS
<1>1. << >> \in Seq(Chunks)
    OBVIOUS
<1> QED BY <1>1 DEF Init, TypeOK, Places, Over

\* Every step keeps the type.
LEMMA TypeStep == ASSUME TypeOK, [Next]_vars PROVE TypeOK'
<1> USE DEF Places, Over, Threads
<1>1. CASE UNCHANGED vars
    BY <1>1 DEF vars, TypeOK
<1>2. CASE Destroy
    BY <1>2 DEF Destroy, TypeOK
<1>3. CASE Owner
    <2>1. step' \in Nat /\ UNCHANGED <<at, queue, iceReady, hs, sentData, acked, arrived>>
        BY <1>3, OwnerFacts
    <2>2. /\ stopped' \in [Workers -> BOOLEAN] /\ stop' \in [Wrappers -> BOOLEAN]
          /\ quit' \in BOOLEAN /\ sock' \in BOOLEAN
        BY <1>3 DEF Owner, StopsWrapper, StopsDecrypt, Joins, ClosesSocket, QuitsLoop, Frees,
           TypeOK
    <2> QED BY <2>1, <2>2 DEF TypeOK
\* The threads: where they are, what is queued, and the rest.
<1>4. CASE ThreadStep
    <2>1. at' \in [Threads -> Places]
        BY <1>4 DEF ThreadStep, LoopBegins, StartsDecrypt, LoopEnds, IceReady, DataReceived,
           Looks, PopsNull, SendsPacket, Encrypts, AnswersFlight, CompletesHandshake,
           Decrypts, DropsPacket, StartsRecv, StartsConnect, RecvWaits, HandlesPacket,
           ConnectSends, Connects, ConnectFails, Moves, TypeOK
    <2>2. queue' \in [Workers -> Seq(Chunks)]
        <3>1. {"flight", "data"} \subseteq Chunks /\ Packets \subseteq Chunks
            BY DEF Chunks, Packets
        <3>2. /\ queue \in [Workers -> Seq(Chunks)]
              /\ {"send", "encrypt", "decrypt", "recv"} \subseteq Workers
            BY DEF TypeOK, Workers
        <3>3. CASE SendsPacket \/ CompletesHandshake \/ DropsPacket
            BY <3>2, <3>3, PoppedType DEF SendsPacket, CompletesHandshake, DropsPacket
        <3>4. ASSUME NEW w \in Workers, NEW q \in Workers, NEW p \in Chunks, Pops(w),
                     queue' = Pushed(Popped(w), q, p)
              PROVE  queue' \in [Workers -> Seq(Chunks)]
            <4>1. Popped(w) \in [Workers -> Seq(Chunks)]
                BY <3>4, PoppedType
            <4> QED BY <3>4, <4>1, PushedType
        <3>5. CASE Encrypts \/ AnswersFlight \/ Decrypts
            BY <3>1, <3>2, <3>4, <3>5 DEF Encrypts, AnswersFlight, Decrypts
        <3>7. CASE HandlesPacket
            BY <3>1, <3>2, <3>4, <3>7, PoppedType DEF HandlesPacket
        <3>8. ASSUME NEW q \in Workers, NEW p \in Chunks, queue' = Pushed(queue, q, p)
              PROVE  queue' \in [Workers -> Seq(Chunks)]
            BY <3>2, <3>8, PushedType
        <3>9. CASE IceReady \/ ConnectSends
            BY <3>1, <3>2, <3>8, <3>9 DEF IceReady, ConnectSends
        <3>10. CASE \E p \in Packets : DataReceived(p)
            BY <3>1, <3>2, <3>8, <3>10 DEF DataReceived
        <3>6. CASE queue' = queue
            BY <3>2, <3>6
        <3> QED
            BY <1>4, <3>3, <3>5, <3>6, <3>7, <3>9, <3>10
               DEF ThreadStep, LoopBegins, StartsDecrypt, LoopEnds, Looks, PopsNull,
                   StartsRecv, StartsConnect, RecvWaits, Connects, ConnectFails
    <2>3. /\ stopped' = stopped /\ quit' = quit /\ sock' = sock /\ step' = step
        BY <1>4 DEF ThreadStep, LoopBegins, StartsDecrypt, LoopEnds, IceReady, DataReceived,
           Looks, PopsNull, SendsPacket, Encrypts, AnswersFlight, CompletesHandshake,
           Decrypts, DropsPacket, StartsRecv, StartsConnect, RecvWaits, HandlesPacket,
           ConnectSends, Connects, ConnectFails
    <2>4. stop' \in [Wrappers -> BOOLEAN] /\ iceReady' \in BOOLEAN /\ acked' \in BOOLEAN
        BY <1>4 DEF ThreadStep, LoopBegins, StartsDecrypt, LoopEnds, IceReady, DataReceived,
           Looks, PopsNull, SendsPacket, Encrypts, AnswersFlight, CompletesHandshake,
           Decrypts, DropsPacket, StartsRecv, StartsConnect, RecvWaits, HandlesPacket,
           ConnectSends, Connects, ConnectFails, TypeOK
    <2>5. hs' \in {"none", "sent", "replied", "done"} /\ sentData' \in BOOLEAN
        BY <1>4 DEF ThreadStep, LoopBegins, StartsDecrypt, LoopEnds, IceReady, DataReceived,
           Looks, PopsNull, SendsPacket, Encrypts, AnswersFlight, CompletesHandshake,
           Decrypts, DropsPacket, StartsRecv, StartsConnect, RecvWaits, HandlesPacket,
           ConnectSends, Connects, ConnectFails, TypeOK
    <2>6. arrived' \in Nat
        BY <1>4 DEF ThreadStep, LoopBegins, StartsDecrypt, LoopEnds, IceReady, DataReceived,
           Looks, PopsNull, SendsPacket, Encrypts, AnswersFlight, CompletesHandshake,
           Decrypts, DropsPacket, StartsRecv, StartsConnect, RecvWaits, HandlesPacket,
           ConnectSends, Connects, ConnectFails, TypeOK
    <2> QED BY <2>1, <2>2, <2>3, <2>4, <2>5, <2>6 DEF TypeOK
<1> QED BY <1>1, <1>2, <1>3, <1>4, NextCases

-----------------------------------------------------------------------------
(* What the destructor leaves behind                                         *)

\* What the threads may do to each other: a thread that is over is started
\* again by nobody but the main loop and decrypt.
LEMMA ThreadFacts ==
    ASSUME TypeOK, ThreadStep
    PROVE  /\ at["loop"] # "none" => at'["loop"] # "none"
           /\ at["loop"] = "ended" => at'["loop"] = "ended"
           /\ at["send"] # "none" => at'["send"] # "none"
           /\ at["send"] = "ended" => at'["send"] = "ended"
           /\ at["encrypt"] \in Over => at'["encrypt"] \in Over
                \/ (at["loop"] = "running" /\ at'["encrypt"] = "looping")
           /\ at["decrypt"] \in Over => at'["decrypt"] \in Over
                \/ (at["loop"] = "starting" /\ at'["decrypt"] = "looping")
           /\ at["recv"] \in Over => at'["recv"] \in Over \/ at["decrypt"] = "notifying"
           /\ at["connect"] \in Over => at'["connect"] \in Over \/ at["decrypt"] = "notified"
           /\ \A w \in {"encrypt", "decrypt"} :
                at[w] = "looping" /\ stop["dtls"] => at'[w] \in {"looping", "ended"}
           /\ stop["dtls"] => stop'["dtls"]
<1> USE DEF TypeOK, Threads, Workers, Over, Moves, Pops
<1>1. CASE LoopBegins \/ LoopEnds \/ IceReady \/ StartsDecrypt
    BY <1>1 DEF LoopBegins, LoopEnds, IceReady, StartsDecrypt
<1>2. CASE ConnectSends \/ \E p \in Packets : DataReceived(p)
    BY <1>2 DEF ConnectSends, DataReceived
<1>3. ASSUME NEW w \in Workers, Looks(w)
      PROVE  /\ at[w] = "looping" /\ at'[w] \in {"ended", "popping"}
             /\ w \in {"encrypt", "decrypt"} /\ stop["dtls"] => at'[w] = "ended"
             /\ \A t \in Threads \ {w} : at'[t] = at[t]
             /\ stop' = stop
    BY <1>3 DEF Looks, Wrapper
<1>4. CASE \E w \in Workers : Looks(w)
    BY <1>3, <1>4
<1>5. ASSUME NEW w \in Workers, PopsNull(w)
      PROVE  /\ at[w] = "popping" /\ at'[w] = "ended"
             /\ \A t \in Threads \ {w} : at'[t] = at[t]
             /\ stop' = stop
    BY <1>5 DEF PopsNull
<1>6. CASE \E w \in Workers : PopsNull(w)
    BY <1>5, <1>6
<1>7. CASE SendsPacket \/ Encrypts \/ AnswersFlight \/ CompletesHandshake \/ Decrypts
           \/ DropsPacket
    BY <1>7 DEF SendsPacket, Encrypts, AnswersFlight, CompletesHandshake, Decrypts, DropsPacket
<1>8. CASE StartsRecv \/ StartsConnect \/ RecvWaits \/ HandlesPacket
    BY <1>8 DEF StartsRecv, StartsConnect, RecvWaits, HandlesPacket
<1>9. CASE Connects \/ ConnectFails
    BY <1>9 DEF Connects, ConnectFails, Wrappers
<1> QED
    BY <1>1, <1>2, <1>4, <1>6, <1>7, <1>8, <1>9 DEF ThreadStep

\* Every step keeps what the parts of the script leave behind.
LEMMA StepStep == ASSUME TypeOK, StepInv, [Next]_vars PROVE StepInv'
<1> USE DEF StepInv
<1>1. CASE UNCHANGED vars
    BY <1>1 DEF vars
<1>2. CASE Destroy
    BY <1>2 DEF Destroy
<1>3. CASE Owner
    <2>1. /\ step \in 1 .. 27 /\ step' = step + 1 /\ at' = at
          /\ stop["dtls"] => stop'["dtls"]
          /\ step = 5 => stop'["dtls"]
        BY <1>3, OwnerFacts, ScriptFacts DEF Wrappers
    <2>2. /\ step \in {6, 19} => at["encrypt"] \in Over
          /\ step \in {8, 21} => at["decrypt"] \in Over
          /\ step = 10 => at["send"] \in Over
        BY <1>3, OwnerFacts, ScriptFacts DEF Threads, Workers
    <2>3. /\ step = 12 => at["loop"] \in Over
          /\ step = 14 => at["recv"] \in Over
          /\ step = 15 => at["connect"] \in Over
        BY <1>3, OwnerFacts, ScriptFacts DEF Threads, Workers
    <2> QED BY <2>1, <2>2, <2>3 DEF Late, Over
<1>4. CASE ThreadStep
    <2>1. step' = step /\ step \in Nat
        BY <1>4, ThreadKeepsStep DEF TypeOK
    <2> QED BY <1>4, <2>1, ThreadFacts DEF Late, Over
<1> QED BY <1>1, <1>2, <1>3, <1>4, NextCases

-----------------------------------------------------------------------------
(* How the layers come up                                                    *)

\* Every step keeps the layers in the order they come up.
LEMMA LayerStep == ASSUME TypeOK, LayerInv, [Next]_vars PROVE LayerInv'
<1> USE DEF LayerInv, TypeOK, Threads, Workers
<1>1. CASE UNCHANGED vars
    BY <1>1 DEF vars
<1>2. CASE Destroy
    BY <1>2 DEF Destroy
<1>3. CASE Owner
    <2>1. /\ UNCHANGED <<at, iceReady, hs, sentData>>
          /\ stop["sctp"] => stop'["sctp"]
        BY <1>3, OwnerFacts DEF Wrappers
    <2> QED BY <2>1
<1>4. CASE LoopBegins \/ LoopEnds \/ (\E p \in Packets : DataReceived(p))
    BY <1>4 DEF LoopBegins, LoopEnds, DataReceived, Moves
<1>5. CASE IceReady
    BY <1>5 DEF IceReady
<1>6. CASE StartsDecrypt
    BY <1>6 DEF StartsDecrypt
<1>7. ASSUME NEW w \in Workers, Looks(w) PROVE LayerInv'
    <2>1. /\ at[w] = "looping" /\ at' = [at EXCEPT ![w] = at'[w]]
          /\ at'[w] \in {"ended", "popping"}
          /\ w = "recv" /\ at'[w] = "popping" => ~stop["sctp"]
          /\ UNCHANGED <<iceReady, hs, sentData, stop>>
        BY <1>7 DEF Looks, Moves, Wrapper
    <2>2. \A t \in Threads \ {w} : at'[t] = at[t]
        BY <2>1
    <2>3. CASE w = "recv"
        BY <2>1, <2>2, <2>3
    <2>4. CASE w = "decrypt"
        BY <2>1, <2>2, <2>4
    <2>5. CASE w \in {"send", "encrypt"}
        BY <2>1, <2>2, <2>5
    <2> QED BY <2>3, <2>4, <2>5
<1>8. ASSUME NEW w \in Workers, PopsNull(w) PROVE LayerInv'
    <2>1. /\ at[w] = "popping" /\ at'[w] = "ended"
          /\ UNCHANGED <<iceReady, hs, sentData, stop>>
          /\ \A t \in Threads \ {w} : at'[t] = at[t]
        BY <1>8 DEF PopsNull, Moves
    <2>2. CASE w = "recv"
        BY <2>1, <2>2
    <2>3. CASE w = "decrypt"
        BY <2>1, <2>3
    <2>4. CASE w \in {"send", "encrypt"}
        BY <2>1, <2>4
    <2> QED BY <2>2, <2>3, <2>4
<1>9. CASE SendsPacket \/ Encrypts
    BY <1>9 DEF SendsPacket, Encrypts, Moves
<1>10. CASE AnswersFlight \/ Decrypts \/ DropsPacket
    BY <1>10 DEF AnswersFlight, Decrypts, DropsPacket, Moves
<1>11. CASE CompletesHandshake
    BY <1>11 DEF CompletesHandshake, Moves
<1>12. CASE StartsRecv \/ StartsConnect
    BY <1>12 DEF StartsRecv, StartsConnect
<1>13. CASE RecvWaits \/ HandlesPacket
    BY <1>13 DEF RecvWaits, HandlesPacket, Moves, Pops
<1>14. CASE ConnectSends \/ Connects \/ ConnectFails
    BY <1>14 DEF ConnectSends, Connects, ConnectFails, Moves, Wrappers
<1> QED
    BY <1>1, <1>2, <1>3, <1>4, <1>5, <1>6, <1>7, <1>8, <1>9, <1>10, <1>11, <1>12, <1>13,
       <1>14, NextCases DEF ThreadStep

\* The invariant that both theorems rest on.
THEOREM Coherent == Spec => []ConnectionInv
<1>1. Init => ConnectionInv
    <2>1. ASSUME Init PROVE StepInv /\ LayerInv
        BY <2>1 DEF Init, StepInv, LayerInv, Threads, Workers, Late, Over
    <2> QED BY <2>1, TypeInit DEF ConnectionInv
<1>2. ConnectionInv /\ [Next]_vars => ConnectionInv'
    BY TypeStep, StepStep, LayerStep DEF ConnectionInv
<1> QED BY <1>1, <1>2, PTL DEF Spec

-----------------------------------------------------------------------------
(* The destructor and the order of the layers                                *)

\* ~PeerConnection frees a wrapper only when the threads that could still use
\* it are over, or will end without a call.
THEOREM NothingOutlives == Spec => []NoThreadOutlives
<1>1. ConnectionInv => NoThreadOutlives
    <2> SUFFICES ASSUME ConnectionInv PROVE NoThreadOutlives
        OBVIOUS
    <2>1. Len(Script) = 27 /\ step \in Nat
        BY ScriptFacts DEF ConnectionInv, TypeOK
    <2>2. Freed("sctp") => step > 17
        BY <2>1, ScriptFacts DEF Freed
    <2>3. Freed("dtls") => step > 22
        BY <2>1, ScriptFacts DEF Freed
    <2>4. Freed("nice") => step > 27
        BY <2>1, ScriptFacts DEF Freed
    <2>5. ASSUME step > 17
          PROVE  {at["recv"], at["connect"]} \subseteq Over /\ Harmless("decrypt")
        <3>1. at["recv"] \in Over /\ at["connect"] \in Over /\ at["decrypt"] \in Late
              /\ stop["dtls"]
            BY <2>1, <2>5 DEF ConnectionInv, StepInv
        <3> QED BY <3>1 DEF Harmless, Late, Workers, Wrapper
    <2>6. ASSUME step > 22
          PROVE  {at["encrypt"], at["decrypt"], at["loop"]} \subseteq Over
        BY <2>1, <2>6 DEF ConnectionInv, StepInv, Over
    <2>7. ASSUME step > 27
          PROVE  \A t \in Threads : at[t] \in Over
        BY <2>1, <2>7 DEF ConnectionInv, StepInv, Over, Threads, Workers
    <2> QED BY <2>2, <2>3, <2>4, <2>5, <2>6, <2>7 DEF NoThreadOutlives
<1> QED BY <1>1, Coherent, PTL

\* Every step respects the order of the layers.
LEMMA OrderStep ==
    ASSUME TypeOK, LayerInv, [Next]_vars
    PROVE  /\ Len(queue'["encrypt"]) > Len(queue["encrypt"]) => hs = "done"
           /\ acked' # acked => sentData
           /\ \A t \in Threads :
                at'[t] \in {"looping", "waiting", "connecting"} /\ at[t] \in Over =>
                    at[t] = "none"
<1> DEFINE QueueOK  == Len(queue'["encrypt"]) > Len(queue["encrypt"]) => hs = "done"
           AckOK    == acked' # acked => sentData
           StartsOK == \A t \in Threads :
                at'[t] \in {"looping", "waiting", "connecting"} /\ at[t] \in Over =>
                    at[t] = "none"
<1> USE DEF Threads, Workers
\* SCTP may send when the handshake is done.
<1>1. QueueOK
    <2>1. queue["encrypt"] \in Seq(Chunks)
        BY DEF TypeOK
    <2>2. ASSUME NEW w \in Workers, NEW q \in Workers \ {"encrypt"}, NEW p, Pops(w),
                 queue' = Pushed(Popped(w), q, p) \/ queue' = Popped(w)
          PROVE  QueueOK
        <3>1. queue'["encrypt"] = Popped(w)["encrypt"]
            BY <2>2, PoppedType DEF Pushed
        <3>2. Len(Popped(w)["encrypt"]) <= Len(queue["encrypt"])
            BY <2>1, <2>2, PoppedType
        <3> QED BY <2>1, <3>1, <3>2, PoppedType, <2>2
    <2>3. CASE SendsPacket \/ Encrypts
        BY <2>2, <2>3 DEF SendsPacket, Encrypts
    <2>4. CASE AnswersFlight \/ CompletesHandshake \/ Decrypts \/ DropsPacket
        BY <2>2, <2>4 DEF AnswersFlight, CompletesHandshake, Decrypts, DropsPacket
    <2>5. CASE HandlesPacket
        BY <2>5 DEF HandlesPacket, Pops, LayerInv
    <2>6. CASE ConnectSends
        BY <2>6 DEF ConnectSends, LayerInv
    <2>7. CASE IceReady \/ \E p \in Packets : DataReceived(p)
        <3>1. queue'["encrypt"] = queue["encrypt"]
            BY <2>7 DEF IceReady, DataReceived, Pushed, TypeOK
        <3> QED BY <2>1, <3>1
    <2>8. ASSUME queue' = queue PROVE QueueOK
        BY <2>1, <2>8
    <2>9. CASE Owner
        BY <2>8, <2>9, OwnerFacts
    <2>10. CASE Destroy \/ UNCHANGED vars
        BY <2>8, <2>10 DEF Destroy, vars
    <2>11. CASE \E w \in Workers : Looks(w) \/ PopsNull(w)
        BY <2>8, <2>11 DEF Looks, PopsNull
    <2>12. CASE LoopBegins \/ StartsDecrypt \/ LoopEnds \/ StartsRecv \/ StartsConnect
                \/ RecvWaits \/ Connects \/ ConnectFails
        BY <2>8, <2>12 DEF LoopBegins, StartsDecrypt, LoopEnds, StartsRecv, StartsConnect,
           RecvWaits, Connects, ConnectFails
    <2> QED
        BY <2>3, <2>4, <2>5, <2>6, <2>7, <2>9, <2>10, <2>11, <2>12, NextCases DEF ThreadStep
\* Only recv, past its wait, shows usrsctp a packet of the peer.
<1>2. AckOK
    <2>1. CASE HandlesPacket
        BY <2>1 DEF HandlesPacket, Pops, LayerInv
    <2>2. CASE Owner
        BY <2>2, OwnerFacts
    <2>3. CASE Destroy \/ UNCHANGED vars
        BY <2>3 DEF Destroy, vars
    <2>4. CASE ThreadStep /\ ~HandlesPacket
        BY <2>4 DEF ThreadStep, LoopBegins, StartsDecrypt, LoopEnds, IceReady, DataReceived,
           Looks, PopsNull, SendsPacket, Encrypts, AnswersFlight, CompletesHandshake,
           Decrypts, DropsPacket, StartsRecv, StartsConnect, RecvWaits, ConnectSends,
           Connects, ConnectFails
    <2> QED BY <2>1, <2>2, <2>3, <2>4, NextCases
\* No thread is started twice.
<1>3. StartsOK
    <2>1. ASSUME UNCHANGED at PROVE StartsOK
        BY <2>1 DEF Over
    <2>2. CASE Owner
        BY <2>1, <2>2, OwnerFacts
    <2>3. CASE Destroy \/ UNCHANGED vars
        BY <2>1, <2>3 DEF Destroy, vars
    <2>4. CASE IceReady \/ StartsDecrypt
        BY <2>4 DEF IceReady, StartsDecrypt, LayerInv, TypeOK, Over
    <2>5. CASE StartsRecv \/ StartsConnect
        BY <2>5 DEF StartsRecv, StartsConnect, LayerInv, TypeOK, Over
    <2>6. CASE ConnectSends \/ \E p \in Packets : DataReceived(p)
        BY <2>1, <2>6 DEF ConnectSends, DataReceived
    <2>7. CASE \E w \in Workers : Looks(w) \/ PopsNull(w)
        BY <2>7 DEF Looks, PopsNull, Moves, Over, TypeOK
    <2>8. CASE SendsPacket \/ Encrypts \/ AnswersFlight \/ CompletesHandshake \/ Decrypts
               \/ DropsPacket
        BY <2>8 DEF SendsPacket, Encrypts, AnswersFlight, CompletesHandshake, Decrypts,
           DropsPacket, Moves, Over, TypeOK
    <2>9. CASE LoopBegins \/ LoopEnds \/ RecvWaits \/ HandlesPacket \/ Connects
               \/ ConnectFails
        BY <2>9 DEF LoopBegins, LoopEnds, RecvWaits, HandlesPacket, Connects, ConnectFails,
           Moves, Over, TypeOK
    <2> QED
        BY <2>2, <2>3, <2>4, <2>5, <2>6, <2>7, <2>8, <2>9, NextCases DEF ThreadStep
<1> QED BY <1>1, <1>2, <1>3

\* Nothing is encrypted before the handshake is done, usrsctp handles no packet
\* before it has sent one, and no thread is started twice.
THEOREM LayersCorrect == Spec => LayersInOrder
<1> DEFINE InOrder ==
        /\ Len(queue'["encrypt"]) > Len(queue["encrypt"]) => hs = "done"
        /\ acked' # acked => sentData
        /\ \A t \in Threads :
             at'[t] \in {"looping", "waiting", "connecting"} /\ at[t] \in Over =>
                 at[t] = "none"
<1>1. ConnectionInv /\ [Next]_vars => [InOrder]_vars
    BY OrderStep DEF ConnectionInv
<1> QED BY <1>1, Coherent, PTL DEF Spec, LayersInOrder
=============================================================================
