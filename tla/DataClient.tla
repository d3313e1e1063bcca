----------------------------- MODULE DataClient -----------------------------
(* testclient.cpp, the program on the car that answers a controller's offer  *)
(* and drives the robot by the messages on the data channel.                 *)
(*                                                                           *)
(*   main    empties `messages`: hello, offers, candidates                   *)
(*   ws      WebSocketWrapper::Loop, between the websocket, `messages` and   *)
(*           `outbox`                                                        *)
(*   ice     one per connection: the callbacks of libnice                    *)
(*   recv    one per connection: the messages of the data channels           *)
(*   sender  send_loop, detached, one per data channel that was opened       *)
(*                                                                           *)
(* Connection n answers offer n.  PeerConnection says how a connection comes *)
(* up and how its destructor stops its threads; here a connection is up, or  *)
(* stopped, in one step.  The websocket delivers in order until it is closed *)
(* (MessagePipe).                                                            *)
EXTENDS Naturals, Sequences

CONSTANTS
    Offers,         \* the offers are 1 .. Offers
    MaxMessages,    \* bound on what the server sends besides hello
    MaxCandidates,  \* bound on the local candidates of a connection
    MaxOpens,       \* bound on the senders of a connection at a time
    MaxFrames,      \* bound on the frames written to the robot
    SeqModulus      \* the values of msg_seq: 256 for a uint8_t

ASSUME OffersAssumption == Offers \in Nat
ASSUME BoundsAssumption ==
    {MaxMessages, MaxCandidates, MaxOpens, MaxFrames} \subseteq Nat
ASSUME ModulusAssumption == SeqModulus \in Nat \ {0}

VARIABLES
    ended,     \* what has ended the process; "no" while it runs
    main,      \* where the main thread is with the offer `cur`
    cur,
    pc,        \* the connection that the main thread holds; 0 is none
    messages,  \* ChunkQueue messages
    outbox,    \* WebSocketWrapper::send_queue
    toCar,     \* what the server has sent and the websocket not dispatched
    atServer,  \* the messages that went out on the websocket
    wsOpen,
    sent,      \* how many messages the server has sent
    offered,   \* how many of them were offers
    life,      \* of each connection
    gathered,  \* how many local candidates its agent has reported
    given,     \* pairs <<connection, offer>>: the remote candidates it was given
    channel,   \* has a data channel been opened on it?
    senders,   \* how many send_loop threads hold one of its channels
    recv,      \* where its recv thread is in onDCRecvStrMsg
    seq,       \* Autolabor::msg_seq
    line       \* the frames written to the serial line

net == <<toCar, atServer, wsOpen, sent, offered>>
mainVars == <<main, cur, pc>>
conns == <<life, gathered, given, channel, senders, recv>>
base == <<seq, line>>

vars == <<ended, mainVars, messages, outbox, net, conns, base>>

Conns == 1 .. Offers

-----------------------------------------------------------------------------
(* Messages                                                                  *)

Plain(type) == [type |-> type, n |-> 0, mid |-> 0]
Offer(n) == [type |-> "offer", n |-> n, mid |-> 0]
RemoteCandidate(n) == [type |-> "candidate", n |-> n, mid |-> 0]
Answer(n, mid) == [type |-> "answer", n |-> n, mid |-> mid]
LocalCandidate(n, mid) == [type |-> "candidate", n |-> n, mid |-> mid]

\* The mid of a connection is read from its offer.
Mid(n) == IF life[n] \in {"none", "made"} THEN 0 ELSE n

-----------------------------------------------------------------------------
(* The server and the controllers behind it                                  *)

Delivers(message) ==
    /\ wsOpen
    /\ sent < MaxMessages
    /\ sent' = sent + 1
    /\ toCar' = Append(toCar, message)

\* The car's hello is answered.
ServerWelcomes ==
    /\ offered = 0
    /\ Plain("Car_data hello") \in atServer
    /\ Delivers(Plain("Hello Car_data"))
    /\ UNCHANGED <<ended, mainVars, messages, outbox, atServer, wsOpen,
                   offered, conns, base>>

\* A controller is told SESSION_OK and sends its offer.  Two of them may be
\* told so for one car (SignallingServer, run stale).
ControllerOffers ==
    /\ offered < Offers
    /\ Plain("Car_data hello") \in atServer
    /\ offered' = offered + 1
    /\ Delivers(Offer(offered + 1))
    /\ UNCHANGED <<ended, mainVars, messages, outbox, atServer, wsOpen, conns,
                   base>>

\* A controller's candidates come after its offer.
ControllerAdds ==
    /\ \E n \in 1 .. offered : Delivers(RemoteCandidate(n))
    /\ UNCHANGED <<ended, mainVars, messages, outbox, atServer, wsOpen,
                   offered, conns, base>>

\* The button was pressed again: "Session_data", which is no JSON.
ControllerCalls ==
    /\ offered > 0
    /\ Delivers(Plain("Session_data"))
    /\ UNCHANGED <<ended, mainVars, messages, outbox, atServer, wsOpen,
                   offered, conns, base>>

\* The server closes the websocket when the controller is gone; what was on
\* its way may get lost.
ServerCloses ==
    /\ wsOpen
    /\ wsOpen' = FALSE
    /\ \E n \in 0 .. Len(toCar) : toCar' = SubSeq(toCar, 1, n)
    /\ UNCHANGED <<ended, mainVars, messages, outbox, atServer, sent, offered,
                   conns, base>>

-----------------------------------------------------------------------------
(* WebSocketWrapper::Loop                                                    *)

\* Mutant of LoopDispatches: the newest message first.
LoopDispatchesNewest ==
    /\ toCar # <<>>
    /\ toCar' = Tail(toCar)
    /\ messages' = <<Head(toCar)>> \o messages
    /\ UNCHANGED <<ended, mainVars, outbox, atServer, wsOpen, sent, offered,
                   conns, base>>

\* dispatch calls onMessage.
LoopDispatches ==
    /\ toCar # <<>>
    /\ toCar' = Tail(toCar)
    /\ messages' = Append(messages, Head(toCar))
    /\ UNCHANGED <<ended, mainVars, outbox, atServer, wsOpen, sent, offered,
                   conns, base>>

\* A websocket that is closed drops what it is given.
LoopSends ==
    /\ outbox # <<>>
    /\ outbox' = Tail(outbox)
    /\ atServer' = IF wsOpen THEN atServer \cup {Head(outbox)} ELSE atServer
    /\ UNCHANGED <<ended, mainVars, messages, toCar, wsOpen, sent, offered,
                   conns, base>>

-----------------------------------------------------------------------------
(* The main thread                                                           *)

\* wait_and_pop answers with a message of this type.
Takes(type) ==
    /\ main = "idle"
    /\ messages # <<>>
    /\ Head(messages).type = type
    /\ messages' = Tail(messages)

\* What a thrown exception or a bad pointer leaves.
Dies(how) ==
    /\ ended' = how
    /\ UNCHANGED <<mainVars, outbox, net, conns, base>>

TakesHello ==
    /\ Takes("hello")
    /\ outbox' = Append(outbox, Plain("Car_data hello"))
    /\ UNCHANGED <<ended, mainVars, net, conns, base>>

\* "Hello Car_data", and what does not parse as JSON.
TakesText ==
    /\ Takes("Hello Car_data") \/ Takes("Session_data")
    /\ UNCHANGED <<ended, mainVars, outbox, net, conns, base>>

\* make_shared<PeerConnection>: the old connection stays while the new one is
\* built.
TakesOffer ==
    /\ Takes("offer")
    /\ main' = "certificate"
    /\ cur' = Head(messages).n
    /\ UNCHANGED <<ended, pc, outbox, net, conns, base>>

\* A step of the constructor, which calls no one that could see it.
Builds(from, to) ==
    /\ main = from
    /\ main' = to
    /\ UNCHANGED <<ended, cur, pc, messages, outbox, net, conns, base>>

\* Every connection has a key and a certificate of its own, ...
GeneratesCertificate == Builds("certificate", "dtls")

\* ... the context and the memory buffers of its SSL, ...
InitializesDTLS == Builds("dtls", "nice")

\* ... an agent with one stream, whose main loop has a thread, ...
InitializesNice == Builds("nice", "sctp")

\* ... and a socket with its options.  Then the wrappers are connected.
InitializesSCTP ==
    /\ main = "sctp"
    /\ main' = "made"
    /\ life' = [life EXCEPT ![cur] = "made"]
    /\ UNCHANGED <<ended, cur, pc, messages, outbox, net, gathered, given,
                   channel, senders, recv, base>>

\* Any of them fails: the constructor throws, and nobody catches.
InitializeThrows ==
    /\ main \in {"certificate", "dtls", "nice", "sctp"}
    /\ Dies("offer")
    /\ UNCHANGED messages

\* Mutant of Replaces: the old connection is not destroyed.
ReplacesOnly ==
    /\ main = "made"
    /\ main' = "assigned"
    /\ pc' = cur
    /\ UNCHANGED <<ended, cur, messages, outbox, net, conns, base>>

\* pc = ...: the destructor of the old connection stops its threads (and waits
\* for what its recv thread is doing) and closes its socket.
Replaces ==
    /\ main = "made"
    /\ main' = "assigned"
    /\ pc' = cur
    /\ pc # 0 => recv[pc] = "idle"
    /\ life' = [n \in Conns |-> IF n = pc THEN "stopped" ELSE life[n]]
    /\ UNCHANGED <<ended, cur, messages, outbox, net, gathered, given, channel,
                   senders, recv, base>>

SocketOpen(n) == life[n] \in {"made", "read", "gathering", "up", "lost"}

\* Mutant of FinishEnds: `tries` is counted up.
FinishGivesUp(n) == TRUE

\* ~SCTPWrapper repeats usrsctp_finish until no socket of the process is open;
\* it never counts `tries`.
FinishEnds(n) == \A m \in Conns \ {n} : ~SocketOpen(m)

Replaced == {n \in Conns : life[n] = "stopped"}

\* The old connection is freed, and ParseOffer reads the lines of the offer.
\* (A browser offers actpass, which leaves the role at Client.)
ReadsOffer ==
    /\ main = "assigned"
    /\ \A n \in Replaced : FinishEnds(n)
    /\ main' = "read"
    /\ life' = [n \in Conns |-> IF n = cur THEN "read"
                                ELSE IF n \in Replaced THEN "freed"
                                ELSE life[n]]
    /\ UNCHANGED <<ended, cur, pc, messages, outbox, net, gathered, given,
                   channel, senders, recv, base>>

\* NiceWrapper::ParseRemoteSDP starts the gathering ...
Gathers ==
    /\ main = "read"
    /\ main' = "gathering"
    /\ life' = [life EXCEPT ![cur] = "gathering"]
    /\ UNCHANGED <<ended, cur, pc, messages, outbox, net, gathered, given,
                   channel, senders, recv, base>>

\* ... or throws.
GatherThrows ==
    /\ main = "read"
    /\ Dies("offer")
    /\ UNCHANGED messages

\* Mutant of Answers: the answer is not sent.
AnswersNobody ==
    /\ main = "gathering"
    /\ main' = "idle"
    /\ UNCHANGED <<ended, cur, pc, messages, outbox, net, conns, base>>

\* GenerateAnswer and ws.Send.
Answers ==
    /\ main = "gathering"
    /\ main' = "idle"
    /\ outbox' = Append(outbox, Answer(cur, Mid(cur)))
    /\ UNCHANGED <<ended, cur, pc, messages, net, conns, base>>

\* A candidate that libnice does not understand, or takes no more of, is
\* dropped; the answer is not looked at.
SetRemoteIceCandidate(n) ==
    \/ given' = given \cup {<<pc, n>>}
    \/ UNCHANGED given

\* Before there is a connection it ends the process.
TakesCandidate ==
    /\ Takes("candidate")
    /\ ended' = IF pc = 0 THEN "pointer" ELSE "no"
    /\ SetRemoteIceCandidate(Head(messages).n)
    /\ UNCHANGED <<mainVars, outbox, net, life, gathered, channel,
                   senders, recv, base>>

-----------------------------------------------------------------------------
(* The threads of the connections                                            *)

\* OnCandidate; the last one is the empty one of OnGatheringDone.
ReportsCandidate(n) ==
    /\ life[n] \in {"gathering", "up", "lost"}
    /\ gathered[n] < MaxCandidates
    /\ gathered' = [gathered EXCEPT ![n] = @ + 1]
    /\ outbox' = Append(outbox, LocalCandidate(n, Mid(n)))
    /\ UNCHANGED <<ended, mainVars, messages, net, life, given, channel,
                   senders, recv, base>>

\* The controller has the answer: ICE, DTLS and SCTP connect.
ComesUp(n) ==
    /\ life[n] = "gathering"
    /\ Answer(n, n) \in atServer
    /\ life' = [life EXCEPT ![n] = "up"]
    /\ UNCHANGED <<ended, mainVars, messages, outbox, net, gathered, given,
                   channel, senders, recv, base>>

\* The controller is gone and the association with it.
IsLost(n) ==
    /\ life[n] = "up"
    /\ life' = [life EXCEPT ![n] = "lost"]
    /\ UNCHANGED <<ended, mainVars, messages, outbox, net, gathered, given,
                   channel, senders, recv, base>>

\* HandleNewDataChannel and onDataChannel: the new channel takes the place of
\* another one with its stream id, and a sender is started for it.
OpensChannel(n) ==
    /\ life[n] = "up"
    /\ recv[n] = "idle"
    /\ senders[n] < MaxOpens
    /\ channel' = [channel EXCEPT ![n] = TRUE]
    /\ senders' = [senders EXCEPT ![n] = @ + 1]
    /\ UNCHANGED <<ended, mainVars, messages, outbox, net, life, gathered,
                   given, recv, base>>

\* A string on an open channel that publishes /cmd_vel.  Other strings, and
\* messages on an unknown channel, change nothing.
Commanded(n) ==
    /\ life[n] = "up"
    /\ recv[n] = "idle"
    /\ channel[n]
    /\ Len(line) < MaxFrames
    /\ recv' = [recv EXCEPT ![n] = "told"]
    /\ UNCHANGED <<ended, mainVars, messages, outbox, net, life, gathered,
                   given, channel, senders, base>>

\* Mutant of Writes: msg_seq is not a byte.
WritesUnbounded(cmd) ==
    /\ line' = Append(line, [cmd |-> cmd, seq |-> seq])
    /\ seq' = seq + 1

\* A frame takes the next sequence number and is written.  (Write gives up
\* when the line takes nothing; whether it did is logged.)
Writes(cmd) ==
    /\ line' = Append(line, [cmd |-> cmd, seq |-> seq])
    /\ seq' = (seq + 1) % SeqModulus

\* CreateResetCmd and its Write ...
WritesReset(n) ==
    /\ recv[n] = "told"
    /\ recv' = [recv EXCEPT ![n] = "reset"]
    /\ Writes("reset")
    /\ UNCHANGED <<ended, mainVars, messages, outbox, net, life, gathered,
                   given, channel, senders>>

\* ... and CreateSpeedCmd and its Write, whatever became of the first.
WritesSpeed(n) ==
    /\ recv[n] = "reset"
    /\ recv' = [recv EXCEPT ![n] = "idle"]
    /\ Writes("speed")
    /\ UNCHANGED <<ended, mainVars, messages, outbox, net, life, gathered,
                   given, channel, senders>>

\* send_loop: the file is sent, or there is none.
SenderEnds(n) ==
    /\ senders[n] > 0
    /\ senders' = [senders EXCEPT ![n] = @ - 1]
    /\ UNCHANGED <<ended, mainVars, messages, outbox, net, life, gathered,
                   given, channel, recv, base>>

\* GSForSCTP throws when usrsctp has refused the message five times.
SendThrows(n) ==
    /\ senders[n] > 0
    /\ life[n] \in {"lost", "stopped"}
    /\ Dies("send")
    /\ UNCHANGED messages

-----------------------------------------------------------------------------

Init ==
    /\ ended = "no"
    /\ main = "idle"
    /\ cur = 0
    /\ pc = 0
    /\ messages = <<>>
    /\ outbox = <<>>
    /\ toCar = <<Plain("hello")>>
    /\ atServer = {}
    /\ wsOpen = TRUE
    /\ sent = 0
    /\ offered = 0
    /\ life = [n \in Conns |-> "none"]
    /\ gathered = [n \in Conns |-> 0]
    /\ given = {}
    /\ channel = [n \in Conns |-> FALSE]
    /\ senders = [n \in Conns |-> 0]
    /\ recv = [n \in Conns |-> "idle"]
    /\ seq = 0
    /\ line = <<>>

Server ==
    \/ ServerWelcomes
    \/ ControllerOffers
    \/ ControllerAdds
    \/ ControllerCalls
    \/ ServerCloses

Main ==
    \/ TakesHello
    \/ TakesText
    \/ TakesOffer
    \/ GeneratesCertificate
    \/ InitializesDTLS
    \/ InitializesNice
    \/ InitializesSCTP
    \/ InitializeThrows
    \/ Replaces
    \/ ReadsOffer
    \/ Gathers
    \/ GatherThrows
    \/ Answers
    \/ TakesCandidate

Ice(n) == ReportsCandidate(n) \/ ComesUp(n) \/ IsLost(n)

Recv(n) == WritesReset(n) \/ WritesSpeed(n)

Peer(n) == OpensChannel(n) \/ Commanded(n)

Sender(n) == SenderEnds(n) \/ SendThrows(n)

Next ==
    /\ ended = "no"
    /\ \/ Server
       \/ LoopDispatches
       \/ LoopSends
       \/ Main
       \/ \E n \in Conns : Ice(n) \/ Peer(n) \/ Recv(n) \/ Sender(n)

Spec == Init /\ [][Next]_vars

\* Threads are scheduled.  Nothing is assumed of the server, the controllers
\* and the network.
FairSpec ==
    /\ Spec
    /\ WF_vars(ended = "no" /\ LoopDispatches)
    /\ WF_vars(ended = "no" /\ LoopSends)
    /\ WF_vars(ended = "no" /\ Main)
    /\ \A n \in Conns : WF_vars(ended = "no" /\ Recv(n)) /\ WF_vars(ended = "no" /\ Sender(n))
-----------------------------------------------------------------------------
(* Properties                                                                *)

Active == {"read", "gathering", "up", "lost"}

Kinds == {"hello", "Hello Car_data", "Session_data", "offer", "candidate",
          "Car_data hello", "answer"}

Message == [type : Kinds, n : 0 .. Offers, mid : 0 .. Offers]

Frame == [cmd : {"reset", "speed"}, seq : 0 .. SeqModulus - 1]

TypeOK ==
    /\ ended \in {"no", "offer", "pointer", "send"}
    /\ main \in {"idle", "certificate", "dtls", "nice", "sctp", "made",
                "assigned", "read", "gathering"}
    /\ cur \in 0 .. Offers /\ pc \in 0 .. Offers
    /\ messages \in Seq(Message) /\ outbox \in Seq(Message)
    /\ toCar \in Seq(Message) /\ atServer \subseteq Message
    /\ wsOpen \in BOOLEAN
    /\ sent \in Nat /\ offered \in 0 .. Offers
    /\ life \in [Conns -> {"none", "made", "stopped", "freed"} \cup Active]
    /\ gathered \in [Conns -> Nat]
    /\ given \subseteq (0 .. Offers) \X (0 .. Offers)
    /\ channel \in [Conns -> BOOLEAN]
    /\ senders \in [Conns -> Nat]
    /\ recv \in [Conns -> {"idle", "told", "reset"}]
    /\ seq \in 0 .. SeqModulus - 1
    /\ line \in Seq(Frame)

\* The main thread does not use a null `pc` (testclient.cpp:186), and a
\* connection is only given candidates of the controller whose offer it
\* answers, although two controllers' messages come mixed.  (They do no harm
\* for a bad reason: a second offer leaves the main thread in ~SCTPWrapper.)
CandidateFindsItsConnection == \A p \in given : p[1] = p[2]

\* The robot is commanded by one thread at a time: the frames on the line are
\* a reset and a speed command in turns, with sequence numbers in a row,
\* although every connection has a recv thread of its own and all of them use
\* the one Autolabor and the one serial line without a lock.
FramesPaired ==
    \A i \in DOMAIN line :
        IF i = 1 THEN line[i].cmd = "reset" /\ line[i].seq = 0
        ELSE /\ line[i].cmd # line[i - 1].cmd
             /\ line[i].seq = (line[i - 1].seq + 1) % SeqModulus

\* A sender uses no connection that has been freed: DataChannel keeps a plain
\* pointer to it (DataChannel.hpp:78) and send_loop is detached.
PointerAlive == \A n \in Conns : senders[n] > 0 => life[n] # "freed"

Answered(n) == Answer(n, n) \in atServer

Offered(n) == \E i \in DOMAIN messages :
                    messages[i].type = "offer" /\ messages[i].n = n

\* The first offer is answered, unless the websocket is closed or the process
\* ends.
FirstOfferAnswered == Offered(1) ~> (Answered(1) \/ ~wsOpen \/ ended # "no")
=============================================================================
