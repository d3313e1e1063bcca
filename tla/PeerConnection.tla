--------------------------- MODULE PeerConnection ---------------------------
(* PeerConnection.cpp over NiceWrapper.cpp, DTLSWrapper.cpp and              *)
(* SCTPWrapper.cpp: the six threads of a connection, from the end of its     *)
(* constructor to the end of its destructor.                                 *)
(*                                                                           *)
(*   loop     g_main_loop_run: the callbacks of libnice                      *)
(*   send     NiceWrapper::SendLoop       decrypt  DTLSWrapper::RunDecrypt   *)
(*   encrypt  DTLSWrapper::RunEncrypt     recv     SCTPWrapper::RecvLoop     *)
(*   connect  SCTPWrapper::RunConnect                                        *)
(*                                                                           *)
(* The last five are started by callbacks; the four workers each empty a     *)
(* ChunkQueue that has the worker's name here.  A queue is what Conveyor     *)
(* promises of it: a worker in wait_and_pop is answered as soon as there is  *)
(* a chunk or the queue is stopped.                                          *)
(*                                                                           *)
(* Abstracted: addresses, candidates, the contents of packets; the handshake *)
(* of OpenSSL is two flights each way, the association of usrsctp is there   *)
(* as soon as a packet of the peer is handled.                               *)
EXTENDS Naturals, Sequences

CONSTANTS
    MaxPackets,    \* bound on the packets that arrive from the peer
    OtherSockets   \* is another connection of the process still alive?

ASSUME PacketsAssumption == MaxPackets \in Nat
ASSUME OtherSocketsAssumption == OtherSockets \in BOOLEAN

VARIABLES
    at,        \* where each thread is; none before it is started
    step,      \* the owner's place in Script; 0 before the destructor
    queue,     \* what waits in each queue
    stopped,   \* the queues' stopping
    stop,      \* the wrappers' should_stop
    quit,      \* has the main loop been told to quit?
    iceReady,
    hs,        \* the DTLS handshake: none, sent, replied or done
    sentData,  \* connectSentData
    acked,     \* has usrsctp handled a packet of the peer?
    sock,      \* is the SCTP socket open?
    arrived    \* how many packets have arrived

vars == <<at, step, queue, stopped, stop, quit, iceReady, hs, sentData, acked,
          sock, arrived>>

Workers == {"send", "encrypt", "decrypt", "recv"}
Threads == Workers \cup {"loop", "connect"}
Wrappers == {"nice", "dtls", "sctp"}

Wrapper(w) ==
    IF w = "send" THEN "nice" ELSE IF w = "recv" THEN "sctp" ELSE "dtls"

\* What arrives: the two flights of the handshake, and encrypted SCTP packets.
Packets == {"hello", "finish", "data"}

Over == {"none", "ended"}

-----------------------------------------------------------------------------
(* The destructor                                                            *)

Do(op, on) == [op |-> op, on |-> on]

\* Mutant of Script: the wrappers' own destructors do not stop them again.
ScriptOnce ==
    <<Do("stop", "sctp"), Do("join", "recv"), Do("join", "connect"), Do("close", "sctp"),
      Do("stop", "dtls"), Do("join", "encrypt"), Do("drain", "dtls"), Do("join", "decrypt"),
      Do("stop", "nice"), Do("join", "send"), Do("quit", "nice"), Do("join", "loop"),
      Do("free", "sctp"), Do("free", "dtls"), Do("free", "nice")>>

\* ~PeerConnection calls Stop of the three wrappers; then they are destroyed in
\* the reverse order of their declaration, and each stops itself again.
Script ==
    <<Do("stop", "sctp"), Do("join", "recv"), Do("join", "connect"), Do("close", "sctp"),
      Do("stop", "dtls"), Do("join", "encrypt"), Do("drain", "dtls"), Do("join", "decrypt"),
      Do("stop", "nice"), Do("join", "send"), Do("quit", "nice"), Do("join", "loop"),
      Do("stop", "sctp"), Do("join", "recv"), Do("join", "connect"), Do("close", "sctp"),
      Do("free", "sctp"),
      Do("stop", "dtls"), Do("join", "encrypt"), Do("drain", "dtls"), Do("join", "decrypt"),
      Do("free", "dtls"),
      Do("stop", "nice"), Do("join", "send"), Do("quit", "nice"), Do("join", "loop"),
      Do("free", "nice")>>

\* The owner is about to do this.
OwnerAt(op, on) == step \in 1 .. Len(Script) /\ Script[step] = Do(op, on)

Destroy ==
    /\ step = 0
    /\ step' = 1
    /\ UNCHANGED <<at, queue, stopped, stop, quit, iceReady, hs, sentData,
                   acked, sock, arrived>>

\* Mutant of StopsWrapper: should_stop without stopping the queue.
FlagsWrapper(w, q) ==
    /\ OwnerAt("stop", w)
    /\ step' = step + 1
    /\ stop' = [stop EXCEPT ![w] = TRUE]
    /\ UNCHANGED <<at, queue, stopped, quit, iceReady, hs, sentData, acked,
                   sock, arrived>>

\* should_stop and the first queue of the wrapper.
StopsWrapper(w, q) ==
    /\ OwnerAt("stop", w)
    /\ step' = step + 1
    /\ stop' = [stop EXCEPT ![w] = TRUE]
    /\ stopped' = [stopped EXCEPT ![q] = TRUE]
    /\ UNCHANGED <<at, queue, quit, iceReady, hs, sentData, acked, sock, arrived>>

\* DTLSWrapper::Stop stops its second queue only after it joined encrypt.
StopsDecrypt ==
    /\ OwnerAt("drain", "dtls")
    /\ step' = step + 1
    /\ stopped' = [stopped EXCEPT !["decrypt"] = TRUE]
    /\ UNCHANGED <<at, queue, stop, quit, iceReady, hs, sentData, acked, sock,
                   arrived>>

\* if (thread.joinable()) thread.join();
Joins(t) ==
    /\ OwnerAt("join", t)
    /\ at[t] \in Over
    /\ step' = step + 1
    /\ UNCHANGED <<at, queue, stopped, stop, quit, iceReady, hs, sentData,
                   acked, sock, arrived>>

ClosesSocket ==
    /\ OwnerAt("close", "sctp")
    /\ step' = step + 1
    /\ sock' = FALSE
    /\ UNCHANGED <<at, queue, stopped, stop, quit, iceReady, hs, sentData,
                   acked, arrived>>

\* g_main_loop_quit has no effect on a loop that does not run yet.
QuitsLoop ==
    /\ OwnerAt("quit", "nice")
    /\ step' = step + 1
    /\ quit' = (quit \/ at["loop"] # "spawned")
    /\ UNCHANGED <<at, queue, stopped, stop, iceReady, hs, sentData, acked,
                   sock, arrived>>

\* The rest of the wrapper's destructor.  ~SCTPWrapper repeats usrsctp_finish
\* until it succeeds, for ever: `tries` is never counted up.
Frees(w) ==
    /\ OwnerAt("free", w)
    /\ w = "sctp" => ~OtherSockets
    /\ step' = step + 1
    /\ UNCHANGED <<at, queue, stopped, stop, quit, iceReady, hs, sentData,
                   acked, sock, arrived>>

Owner ==
    \/ StopsWrapper("sctp", "recv")
    \/ StopsWrapper("dtls", "encrypt")
    \/ StopsWrapper("nice", "send")
    \/ StopsDecrypt
    \/ \E t \in Threads : Joins(t)
    \/ ClosesSocket
    \/ QuitsLoop
    \/ \E w \in Wrappers : Frees(w)

-----------------------------------------------------------------------------
(* The threads                                                               *)

Moves(t, from, to) == at[t] = from /\ at' = [at EXCEPT ![t] = to]

\* ChunkQueue::push: no effect after Stop.
Pushed(Q, q, packet) ==
    IF stopped[q] THEN Q ELSE [Q EXCEPT ![q] = Append(@, packet)]

LoopBegins ==
    /\ Moves("loop", "spawned", "running")
    /\ UNCHANGED <<step, queue, stopped, stop, quit, iceReady, hs, sentData,
                   acked, sock, arrived>>

\* Mutant of IceReady: OnIceReady does not look at iceReady.
IceReadyAgain ==
    /\ at["loop"] = "running"
    /\ iceReady' = TRUE
    /\ hs' = "sent"
    /\ queue' = Pushed(queue, "send", "flight")
    /\ at' = [at EXCEPT !["loop"] = "starting", !["encrypt"] = "looping"]
    /\ UNCHANGED <<step, stopped, stop, quit, sentData, acked, sock, arrived>>

\* OnIceReady, the first time: DTLSWrapper::Start sends the first flight and
\* starts encrypt ...
IceReady ==
    /\ at["loop"] = "running"
    /\ ~iceReady
    /\ iceReady' = TRUE
    /\ hs' = "sent"
    /\ queue' = Pushed(queue, "send", "flight")
    /\ at' = [at EXCEPT !["loop"] = "starting", !["encrypt"] = "looping"]
    /\ UNCHANGED <<step, stopped, stop, quit, sentData, acked, sock, arrived>>

\* ... and then decrypt.
StartsDecrypt ==
    /\ at["loop"] = "starting"
    /\ at' = [at EXCEPT !["loop"] = "running", !["decrypt"] = "looping"]
    /\ UNCHANGED <<step, queue, stopped, stop, quit, iceReady, hs, sentData,
                   acked, sock, arrived>>

\* data_received: DecryptData queues the packet, ready or not.
DataReceived(packet) ==
    /\ at["loop"] = "running"
    /\ arrived < MaxPackets
    /\ arrived' = arrived + 1
    /\ queue' = Pushed(queue, "decrypt", packet)
    /\ UNCHANGED <<at, step, stopped, stop, quit, iceReady, hs, sentData,
                   acked, sock>>

LoopEnds ==
    /\ quit
    /\ Moves("loop", "running", "ended")
    /\ UNCHANGED <<step, queue, stopped, stop, quit, iceReady, hs, sentData,
                   acked, sock, arrived>>

\* while (!should_stop): on to wait_and_pop, or out.
Looks(w) ==
    /\ Moves(w, "looping", IF stop[Wrapper(w)] THEN "ended" ELSE "popping")
    /\ UNCHANGED <<step, queue, stopped, stop, quit, iceReady, hs, sentData,
                   acked, sock, arrived>>

\* The queue is stopped: wait_and_pop returns null.
PopsNull(w) ==
    /\ stopped[w]
    /\ Moves(w, "popping", "ended")
    /\ UNCHANGED <<step, queue, stopped, stop, quit, iceReady, hs, sentData,
                   acked, sock, arrived>>

Pops(w) == at[w] = "popping" /\ ~stopped[w] /\ queue[w] # <<>>

Popped(w) == [queue EXCEPT ![w] = Tail(@)]

SendsPacket ==
    /\ Pops("send")
    /\ queue' = Popped("send")
    /\ Moves("send", "popping", "looping")
    /\ UNCHANGED <<step, stopped, stop, quit, iceReady, hs, sentData, acked,
                   sock, arrived>>

Encrypts ==
    /\ Pops("encrypt")
    /\ queue' = Pushed(Popped("encrypt"), "send", "data")
    /\ Moves("encrypt", "popping", "looping")
    /\ UNCHANGED <<step, stopped, stop, quit, iceReady, hs, sentData, acked,
                   sock, arrived>>

\* The peer's first flight is answered with our second.
AnswersFlight ==
    /\ Pops("decrypt")
    /\ Head(queue["decrypt"]) = "hello"
    /\ hs = "sent"
    /\ hs' = "replied"
    /\ queue' = Pushed(Popped("decrypt"), "send", "flight")
    /\ Moves("decrypt", "popping", "looping")
    /\ UNCHANGED <<step, stopped, stop, quit, iceReady, sentData, acked, sock,
                   arrived>>

\* Mutant of CompletesHandshake: nobody is notified.
CompletesSilently ==
    /\ Pops("decrypt")
    /\ Head(queue["decrypt"]) = "finish"
    /\ hs = "replied"
    /\ hs' = "done"
    /\ queue' = Popped("decrypt")
    /\ Moves("decrypt", "popping", "looping")
    /\ UNCHANGED <<step, stopped, stop, quit, iceReady, sentData, acked, sock,
                   arrived>>

\* The handshake is done: on to OnDTLSHandshakeDone.
CompletesHandshake ==
    /\ Pops("decrypt")
    /\ Head(queue["decrypt"]) = "finish"
    /\ hs = "replied"
    /\ hs' = "done"
    /\ queue' = Popped("decrypt")
    /\ Moves("decrypt", "popping", "notifying")
    /\ UNCHANGED <<step, stopped, stop, quit, iceReady, sentData, acked, sock,
                   arrived>>

Decrypts ==
    /\ Pops("decrypt")
    /\ Head(queue["decrypt"]) = "data"
    /\ hs = "done"
    /\ queue' = Pushed(Popped("decrypt"), "recv", "data")
    /\ Moves("decrypt", "popping", "looping")
    /\ UNCHANGED <<step, stopped, stop, quit, iceReady, hs, sentData, acked,
                   sock, arrived>>

\* A flight out of turn or data before the handshake: OpenSSL yields nothing.
DropsPacket ==
    /\ Pops("decrypt")
    /\ <<Head(queue["decrypt"]), hs>> \notin
           {<<"hello", "sent">>, <<"finish", "replied">>, <<"data", "done">>}
    /\ queue' = Popped("decrypt")
    /\ Moves("decrypt", "popping", "looping")
    /\ UNCHANGED <<step, stopped, stop, quit, iceReady, hs, sentData, acked,
                   sock, arrived>>

\* SCTPWrapper::Start: first recv, then connect.
StartsRecv ==
    /\ at["decrypt"] = "notifying"
    /\ at' = [at EXCEPT !["decrypt"] = "notified", !["recv"] = "waiting"]
    /\ UNCHANGED <<step, queue, stopped, stop, quit, iceReady, hs, sentData,
                   acked, sock, arrived>>

StartsConnect ==
    /\ at["decrypt"] = "notified"
    /\ at' = [at EXCEPT !["decrypt"] = "looping", !["connect"] = "connecting"]
    /\ UNCHANGED <<step, queue, stopped, stop, quit, iceReady, hs, sentData,
                   acked, sock, arrived>>

\* Mutant of RecvWaits: recv does not wait for the connect thread.
RecvHurries ==
    /\ Moves("recv", "waiting", "looping")
    /\ UNCHANGED <<step, queue, stopped, stop, quit, iceReady, hs, sentData,
                   acked, sock, arrived>>

\* "We need to wait for the connect thread to send some data".
RecvWaits ==
    /\ sentData \/ stop["sctp"]
    /\ Moves("recv", "waiting", "looping")
    /\ UNCHANGED <<step, queue, stopped, stop, quit, iceReady, hs, sentData,
                   acked, sock, arrived>>

\* usrsctp_conninput; usrsctp may answer with a packet of its own.
HandlesPacket ==
    /\ Pops("recv")
    /\ \/ queue' = Popped("recv")
       \/ queue' = Pushed(Popped("recv"), "encrypt", "data")
    /\ acked' = TRUE
    /\ Moves("recv", "popping", "looping")
    /\ UNCHANGED <<step, stopped, stop, quit, iceReady, hs, sentData, sock,
                   arrived>>

\* usrsctp_connect sends its first packet through OnSCTPForDTLS.
ConnectSends ==
    /\ at["connect"] = "connecting"
    /\ sock
    /\ ~sentData
    /\ queue' = Pushed(queue, "encrypt", "data")
    /\ sentData' = TRUE
    /\ UNCHANGED <<at, step, stopped, stop, quit, iceReady, hs, acked, sock,
                   arrived>>

Connects ==
    /\ sentData
    /\ acked
    /\ Moves("connect", "connecting", "ended")
    /\ UNCHANGED <<step, queue, stopped, stop, quit, iceReady, hs, sentData,
                   acked, sock, arrived>>

\* The connection is refused or timed out, or the socket is closed.
ConnectFails ==
    /\ stop' = [stop EXCEPT !["sctp"] = TRUE]
    /\ Moves("connect", "connecting", "ended")
    /\ UNCHANGED <<step, queue, stopped, quit, iceReady, hs, sentData, acked,
                   sock, arrived>>

-----------------------------------------------------------------------------

Init ==
    /\ at = [t \in Threads |-> IF t = "loop" THEN "spawned"
                               ELSE IF t = "send" THEN "looping" ELSE "none"]
    /\ step = 0
    /\ queue = [w \in Workers |-> <<>>]
    /\ stopped = [w \in Workers |-> FALSE]
    /\ stop = [w \in Wrappers |-> FALSE]
    /\ quit = FALSE
    /\ iceReady = FALSE
    /\ hs = "none"
    /\ sentData = FALSE
    /\ acked = FALSE
    /\ sock = TRUE
    /\ arrived = 0

Loop == LoopBegins \/ StartsDecrypt \/ LoopEnds

Decrypt == AnswersFlight \/ CompletesHandshake \/ Decrypts \/ DropsPacket

Works(w) ==
    \/ Looks(w)
    \/ PopsNull(w)
    \/ w = "send" /\ SendsPacket
    \/ w = "encrypt" /\ Encrypts
    \/ w = "decrypt" /\ (Decrypt \/ StartsRecv \/ StartsConnect)
    \/ w = "recv" /\ (RecvWaits \/ HandlesPacket)

Connect == ConnectSends \/ Connects \/ ConnectFails

Network == IceReady \/ \E p \in Packets : DataReceived(p)

Next ==
    \/ Destroy
    \/ Owner
    \/ Loop
    \/ \E w \in Workers : Works(w)
    \/ Connect
    \/ Network

Spec == Init /\ [][Next]_vars

\* The threads are scheduled and usrsctp_connect returns in the end, with
\* success or not.  Nothing is assumed of the network or of when the owner
\* destroys the connection.
FairSpec ==
    /\ Spec
    /\ WF_vars(Owner)
    /\ WF_vars(Loop)
    /\ \A w \in Workers : WF_vars(Works(w))
    /\ WF_vars(Connect)
-----------------------------------------------------------------------------
(* Properties                                                                *)

\* The wrapper's destructor is over.
Freed(w) ==
    \E n \in 1 .. Len(Script) : n < step /\ Script[n] = Do("free", w)

\* t cannot call into the library any more: it is over, or it was started so
\* late that it will look at should_stop and end.
Harmless(t) ==
    \/ at[t] \in Over
    \/ t \in Workers /\ at[t] = "looping" /\ stop[Wrapper(t)]

\* No thread outlives what it works on: its own wrapper, and the wrapper
\* behind whose callback it calls (decrypt starts and feeds SCTP, the main
\* loop starts and feeds DTLS).  decrypt may run SCTPWrapper::Start after
\* ~PeerConnection has called SCTPWrapper::Stop, and the main loop may run
\* DTLSWrapper::Start after DTLSWrapper::Stop.
NoThreadOutlives ==
    /\ Freed("sctp") => /\ {at["recv"], at["connect"]} \subseteq Over
                        /\ Harmless("decrypt")
    /\ Freed("dtls") => {at["encrypt"], at["decrypt"], at["loop"]} \subseteq Over
    /\ Freed("nice") => \A t \in Threads : at[t] \in Over

\* The layers come up in order and once: nothing is encrypted for SCTP before
\* the handshake is done; usrsctp handles no packet of the peer before it has
\* sent one of its own ("We need to wait for the connect thread", line 336),
\* although the peer's first packets may be there long before; and every
\* std::thread is started at most once, since assigning to a member that is
\* joinable would end the process.
LayersInOrder ==
    [][/\ Len(queue'["encrypt"]) > Len(queue["encrypt"]) => hs = "done"
       /\ acked' # acked => sentData
       /\ \A t \in Threads :
            at'[t] \in {"looping", "waiting", "connecting"} /\ at[t] \in Over =>
                at[t] = "none"]_vars

\* ~PeerConnection returns, from whatever point of the set-up it is called:
\* every join ends.  The one exception is a main loop that has not begun to
\* run when it is told to quit (NiceWrapper.cpp:223): it never hears of it.
DestructorReturns ==
    /\ (step = 1) ~> OwnerAt("quit", "nice")
    /\ (OwnerAt("quit", "nice") /\ at["loop"] # "spawned") ~> Freed("nice")

\* When the handshake is done, SCTP is started.
SctpStarts == (hs = "done") ~> (at["connect"] # "none")
=============================================================================
