-------------------------- MODULE SignallingServer --------------------------
(* signalling/signalling-server.py: the websocket server that pairs one car  *)
(* with one controller, separately for video and for data, and shovels their *)
(* messages.  Every connection is served by its own asyncio task, `handler`; *)
(* tasks interleave only where they await.  The program counter of a         *)
(* connection says at which await its task is suspended:                     *)
(*                                                                           *)
(*   off       not connected yet            recv      recv_msg_ping          *)
(*   hello     hello_peer's recv            pairing   send('SESSION_OK')     *)
(*   greeting  hello_peer's send            relaying  wso.send(msg)          *)
(*   done      the task has ended           closing   cleanup_session's      *)
(*                                                    wso.close()            *)
(*                                                                           *)
(* Awaiting a send suspends the task only while the transport's write buffer *)
(* is full.  SendMaySuspend tells whether that is considered: when it is     *)
(* FALSE a task passes through its sends without giving up the event loop.   *)
(*                                                                           *)
(* Abstracted: addresses, printing, the text of messages (a message either   *)
(* starts with 'Session' or does not), and the insertion order of a dict     *)
(* (the first free peer of the loop is some free peer).                      *)
EXTENDS Naturals

CONSTANTS
    Conns,           \* websocket connections, each used once
    Uids,            \* what clients call themselves
    Hello,           \* what each connection's client says in its hello
    NoConn, NoUid,   \* "no such key in the dict"
    SendMaySuspend,  \* may awaiting a send give up the event loop?
    MaxUnread        \* bound on the messages queued on one connection

Classes == {"Car_data", "Car_video", "Controller_data", "Controller_video"}
Kinds == {"data", "video"}

\* A hello of class "Other" is one that hello_peer rejects by its form.
Hellos == [class : Classes \cup {"Other"}, uid : Uids]

ASSUME ConnsAssumption == NoConn \notin Conns
ASSUME UidsAssumption == NoUid \notin Uids
ASSUME HelloAssumption == Hello \in [Conns -> Hellos]
ASSUME SuspendAssumption == SendMaySuspend \in BOOLEAN
ASSUME UnreadAssumption == MaxUnread \in Nat \ {0}

VARIABLES
    peers,     \* peers_car_data, peers_car_video, peers_controller_...
    sessions,  \* sessions_data and sessions_video
    pc,        \* where each task is suspended
    other,     \* the peer a task in pairing or relaying is dealing with
    open,      \* can the server still send on the connection?
    unread,    \* messages received on the connection, not yet handled
    told,      \* has the client been sent SESSION_OK?
    heard      \* the connections whose messages were relayed to this one

vars == <<peers, sessions, pc, other, open, unread, told, heard>>

Entry == [ws : Conns \cup {NoConn}, inSession : BOOLEAN]
Absent == [ws |-> NoConn, inSession |-> FALSE]
PeerDicts == [Classes -> [Uids -> Entry]]
SessionDicts == [Kinds -> [Uids -> Uids \cup {NoUid}]]
Others == [uid : Uids \cup {NoUid}, ws : Conns \cup {NoConn}]
NoOther == [uid |-> NoUid, ws |-> NoConn]

Class(c) == Hello[c].class
Uid(c) == Hello[c].uid

Kind(cl) == IF cl \in {"Car_data", "Controller_data"} THEN "data" ELSE "video"

CarClass(k) == IF k = "data" THEN "Car_data" ELSE "Car_video"
ControllerClass(k) == IF k = "data" THEN "Controller_data"
                                    ELSE "Controller_video"

\* Mutant of Opposite: every controller's other end is looked up among the
\* data cars.
OppositeMixedUp(cl) == IF cl \in {"Car_data", "Car_video"}
                       THEN ControllerClass(Kind(cl)) ELSE "Car_data"

Opposite(cl) == IF cl \in {"Car_data", "Car_video"}
                THEN ControllerClass(Kind(cl)) ELSE CarClass(Kind(cl))

\* uid in peers_<class>
Has(P, cl, u) == P[cl][u].ws # NoConn

\* The tasks that are between the two halves of an awaited send.
InSend == {c \in Conns : pc[c] \in {"greeting", "pairing", "relaying"}}

\* The event loop may run a task of S (or, S empty, take in socket events).
Turn(S) == SendMaySuspend \/ InSend \subseteq S

\* The task of c is resumed from the await it is suspended at.
Resumed(c, place) == pc[c] = place /\ Turn({c})

Init ==
    /\ peers = [cl \in Classes |-> [u \in Uids |-> Absent]]
    /\ sessions = [k \in Kinds |-> [u \in Uids |-> NoUid]]
    /\ pc = [c \in Conns |-> "off"]
    /\ other = [c \in Conns |-> NoOther]
    /\ open = [c \in Conns |-> FALSE]
    /\ unread = [c \in Conns |-> 0]
    /\ told = [c \in Conns |-> FALSE]
    /\ heard = [c \in Conns |-> {}]

-----------------------------------------------------------------------------
(* The end of a task: the finally clause of handler runs remove_peer.  P and *)
(* S are the dictionaries as the exception left them.                        *)

\* The task ends; websockets closes the connection of a handler that returns
\* or raises.
Ends(c, closed) ==
    /\ pc' = [pc EXCEPT ![c] = "done"]
    /\ open' = [d \in Conns |-> open[d] /\ d # c /\ d # closed]
    /\ other' = [other EXCEPT ![c] = NoOther]

\* Mutant of Deregister: remove_peer closes but does not delete.
DeregisterKeepingEntry(c, P, S) ==
    /\ peers' = P
    /\ sessions' = S
    /\ Ends(c, P[Class(c)][Uid(c)].ws)

\* remove_peer after cleanup_session: it takes the uid's entry away, whoever
\* registered it, and closes the websocket it finds there.  Without an entry
\* ws is None and ws.close() raises.
Deregister(c, P, S) ==
    /\ peers' = [P EXCEPT ![Class(c)][Uid(c)] = Absent]
    /\ sessions' = S
    /\ Ends(c, P[Class(c)][Uid(c)].ws)

\* Mutant of HangUp: the other end is removed but its connection not closed.
HangUpQuietly(c, P, S, k, o) ==
    LET cl == IF Has(P, ControllerClass(k), o) THEN ControllerClass(k)
                                               ELSE CarClass(k)
    IN  /\ sessions' = [S EXCEPT ![k][o] = NoUid]
        /\ peers' = [P EXCEPT ![cl][o] = Absent]
        /\ pc' = [pc EXCEPT ![c] = "closing"]
        /\ other' = [other EXCEPT ![c] = NoOther]
        /\ UNCHANGED open

\* cleanup_session hangs up on o, the other end in sessions of kind k, and
\* awaits the close; it looks for o among the controllers first.  When o is
\* in neither dict the KeyError leaves remove_peer at once.
HangUp(c, P, S, k, o) ==
    LET cl == IF Has(P, ControllerClass(k), o) THEN ControllerClass(k)
                                               ELSE CarClass(k)
    IN  /\ sessions' = [S EXCEPT ![k][o] = NoUid]
        /\ \/ /\ Has(P, cl, o)
              /\ peers' = [P EXCEPT ![cl][o] = Absent]
              /\ open' = [open EXCEPT ![P[cl][o].ws] = FALSE]
              /\ pc' = [pc EXCEPT ![c] = "closing"]
              /\ other' = [other EXCEPT ![c] = NoOther]
           \/ /\ ~Has(P, cl, o)
              /\ peers' = P
              /\ Ends(c, c)

\* remove_peer up to its first await.  Only a data session of the uid is
\* looked at; a video session is cleaned up when it is the one that the other
\* end of a data session is left with.
Leave(c, P, S) ==
    LET o == S["data"][Uid(c)]
        S1 == [S EXCEPT !["data"][Uid(c)] = NoUid]
    IN  \/ /\ o = NoUid
           /\ Deregister(c, P, S)
        \/ /\ o # NoUid
           /\ S1["data"][o] # NoUid
           /\ HangUp(c, P, S1, "data", o)
        \/ /\ o # NoUid
           /\ S1["data"][o] = NoUid
           /\ S1["video"][o] # NoUid
           /\ HangUp(c, P, S1, "video", o)
        \/ /\ o # NoUid
           /\ S1["data"][o] = NoUid
           /\ S1["video"][o] = NoUid
           /\ Deregister(c, P, S1)

\* The awaited close of the other end is over; remove_peer goes on.
FinishLeave(c) ==
    /\ Resumed(c, "closing")
    /\ Deregister(c, peers, sessions)
    /\ UNCHANGED <<unread, told, heard>>

-----------------------------------------------------------------------------
(* handler and hello_peer                                                    *)

Connect(c) ==
    /\ Turn({})
    /\ pc[c] = "off"
    /\ pc' = [pc EXCEPT ![c] = "hello"]
    /\ open' = [open EXCEPT ![c] = TRUE]
    /\ UNCHANGED <<peers, sessions, other, unread, told, heard>>

\* The client's first message is its hello.
HelloAccepted(c) ==
    /\ unread[c] > 0
    /\ open[c]
    /\ Class(c) \in Classes
    /\ ~Has(peers, Class(c), Uid(c))

\* The uid is free: hello_peer awaits the send of its answer ...
AcceptHello(c) ==
    /\ Resumed(c, "hello")
    /\ HelloAccepted(c)
    /\ unread' = [unread EXCEPT ![c] = @ - 1]
    /\ pc' = [pc EXCEPT ![c] = "greeting"]
    /\ UNCHANGED <<peers, sessions, other, open, told, heard>>

\* ... or the hello is refused, or the client has gone.  This is outside of
\* handler's try: nothing is cleaned up.
RejectHello(c) ==
    /\ Resumed(c, "hello")
    /\ unread[c] > 0 \/ ~open[c]
    /\ ~HelloAccepted(c)
    /\ Ends(c, c)
    /\ UNCHANGED <<peers, sessions, unread, told, heard>>

\* connection_handler registers the peer without looking at the dict again.
Register(c) ==
    /\ Resumed(c, "greeting")
    /\ peers' = [peers EXCEPT ![Class(c)][Uid(c)] =
                     [ws |-> c, inSession |-> FALSE]]
    /\ pc' = [pc EXCEPT ![c] = "recv"]
    /\ UNCHANGED <<sessions, other, open, unread, told, heard>>

\* The connection was lost while hello_peer was suspended in its send.
GreetFails(c) ==
    /\ Resumed(c, "greeting")
    /\ ~open[c]
    /\ Ends(c, c)
    /\ UNCHANGED <<peers, sessions, unread, told, heard>>

-----------------------------------------------------------------------------
(* connection_handler: its loop                                              *)

\* recv returns what is queued even after the connection is closed.
Receive(c) ==
    /\ Resumed(c, "recv")
    /\ unread[c] > 0
    /\ unread' = [unread EXCEPT ![c] = @ - 1]

\* Mutant of RecvClosed: the exception is caught inside of the loop.
RecvClosedIgnored(c) ==
    /\ Resumed(c, "recv")
    /\ unread[c] = 0
    /\ ~open[c]
    /\ UNCHANGED vars

\* recv raises ConnectionClosed.
RecvClosed(c) ==
    /\ Resumed(c, "recv")
    /\ unread[c] = 0
    /\ ~open[c]
    /\ Leave(c, peers, sessions)
    /\ UNCHANGED <<unread, told, heard>>

Own(c) == peers[Class(c)][Uid(c)]

\* peers_<class>[uid] raises KeyError: another task took the entry away.
LookupFails(c) ==
    /\ Receive(c)
    /\ ~Has(peers, Class(c), Uid(c))
    /\ Leave(c, peers, sessions)
    /\ UNCHANGED <<told, heard>>

InSession(c) == Has(peers, Class(c), Uid(c)) /\ Own(c).inSession

OtherId(c) == sessions[Kind(Class(c))][Uid(c)]

\* Both lookups of the relay succeed, the assertion holds, and the other
\* end's websocket still takes messages.
Routable(c) ==
    /\ OtherId(c) # NoUid
    /\ Has(peers, Opposite(Class(c)), OtherId(c))
    /\ peers[Opposite(Class(c))][OtherId(c)].inSession
    /\ open[peers[Opposite(Class(c))][OtherId(c)].ws]

Relay(c) ==
    /\ Receive(c)
    /\ InSession(c)
    /\ Routable(c)
    /\ LET wso == peers[Opposite(Class(c))][OtherId(c)].ws
       IN  /\ heard' = [heard EXCEPT ![wso] = @ \cup {c}]
           /\ other' = [other EXCEPT ![c] = [uid |-> OtherId(c), ws |-> wso]]
    /\ pc' = [pc EXCEPT ![c] = "relaying"]
    /\ UNCHANGED <<peers, sessions, open, told>>

\* The awaited send is over.
Relayed(c) ==
    /\ Resumed(c, "relaying")
    /\ pc' = [pc EXCEPT ![c] = "recv"]
    /\ other' = [other EXCEPT ![c] = NoOther]
    /\ UNCHANGED <<peers, sessions, open, unread, told, heard>>

\* The other end is lost during the suspended send: the exception ends the
\* task of the sender.
RelaySendFails(c) ==
    /\ Resumed(c, "relaying")
    /\ ~open[other[c].ws]
    /\ Leave(c, peers, sessions)
    /\ UNCHANGED <<unread, told, heard>>

\* KeyError, AssertionError or ConnectionClosed.
RelayFails(c) ==
    /\ Receive(c)
    /\ InSession(c)
    /\ ~Routable(c)
    /\ Leave(c, peers, sessions)
    /\ UNCHANGED <<told, heard>>

Idle(c) == Has(peers, Class(c), Uid(c)) /\ ~Own(c).inSession

\* Any other message outside of a session is ignored.
IgnoreMessage(c) ==
    /\ Receive(c)
    /\ Idle(c)
    /\ UNCHANGED <<peers, sessions, pc, other, open, told, heard>>

\* Mutant of FreePeers: the status of the callee is not looked at.
AllPeers(cl) == {v \in Uids : Has(peers, cl, v)}

FreePeers(cl) == {v \in Uids : Has(peers, cl, v) /\ ~peers[cl][v].inSession}

\* Who is sent SESSION_OK: the caller, except that for a Controller_video
\* caller it is the car.
Addressee(c, v) ==
    IF Class(c) = "Controller_video" THEN peers[Opposite(Class(c))][v].ws ELSE c

\* A Session message: the caller takes a free peer and awaits the send of
\* SESSION_OK before it registers anything.
CallPeer(c) ==
    /\ Receive(c)
    /\ Idle(c)
    /\ \E v \in FreePeers(Opposite(Class(c))) :
          /\ open[Addressee(c, v)]
          /\ told' = [told EXCEPT ![Addressee(c, v)] = TRUE]
          /\ other' = [other EXCEPT ![c] =
                 [uid |-> v, ws |-> peers[Opposite(Class(c))][v].ws]]
    /\ pc' = [pc EXCEPT ![c] = "pairing"]
    /\ UNCHANGED <<peers, sessions, open, heard>>

\* The send raises ConnectionClosed, or there is no free peer and the print
\* after the loop raises on wsc being None.
CallFails(c) ==
    /\ Receive(c)
    /\ Idle(c)
    /\ \/ FreePeers(Opposite(Class(c))) = {}
       \/ \E v \in FreePeers(Opposite(Class(c))) : ~open[Addressee(c, v)]
    /\ Leave(c, peers, sessions)
    /\ UNCHANGED <<told, heard>>

\* Mutant of MarkInSession: the status is written to a copy of the entry.
MarkCopy(P, cl, u) == P

\* peers_<class>[uid][2] = 'session'
MarkInSession(P, cl, u) ==
    [P EXCEPT ![cl][u] = [ws |-> P[cl][u].ws, inSession |-> TRUE]]

\* Mutant of PairAssign: only the caller is marked as in a session.
PairAssignCaller(c) ==
    /\ Has(peers, Class(c), Uid(c))
    /\ peers' = MarkInSession(peers, Class(c), Uid(c))
    /\ sessions' = [sessions EXCEPT ![Kind(Class(c))] =
                       [@ EXCEPT ![Uid(c)] = other[c].uid,
                                 ![other[c].uid] = Uid(c)]]
    /\ pc' = [pc EXCEPT ![c] = "recv"]
    /\ other' = [other EXCEPT ![c] = NoOther]
    /\ UNCHANGED open

\* After the send: the four assignments that register the session.  The
\* first and the third raise KeyError when the entry is no longer there,
\* the third after the caller's half has been written.
PairAssign(c) ==
    LET cl == Class(c)
        u == Uid(c)
        v == other[c].uid
        k == Kind(cl)
        P1 == MarkInSession(peers, cl, u)
        S1 == [sessions EXCEPT ![k][u] = v]
    IN  \/ /\ Has(peers, cl, u)
           /\ Has(peers, Opposite(cl), v)
           /\ peers' = MarkInSession(P1, Opposite(cl), v)
           /\ sessions' = [S1 EXCEPT ![k][v] = u]
           /\ pc' = [pc EXCEPT ![c] = "recv"]
           /\ other' = [other EXCEPT ![c] = NoOther]
           /\ UNCHANGED open
        \/ /\ Has(peers, cl, u)
           /\ ~Has(peers, Opposite(cl), v)
           /\ Leave(c, P1, S1)
        \/ /\ ~Has(peers, cl, u)
           /\ Leave(c, peers, sessions)

Pair(c) ==
    /\ Resumed(c, "pairing")
    /\ PairAssign(c)
    /\ UNCHANGED <<unread, told, heard>>

\* The connection SESSION_OK was sent on is lost during the suspended send.
PairSendFails(c) ==
    /\ Resumed(c, "pairing")
    /\ ~open[IF Class(c) = "Controller_video" THEN other[c].ws ELSE c]
    /\ Leave(c, peers, sessions)
    /\ UNCHANGED <<unread, told, heard>>

-----------------------------------------------------------------------------
(* The clients                                                               *)

\* Mutant of ClientSends: no max_queue.
ClientFloods(c) ==
    /\ Turn({})
    /\ open[c]
    /\ unread' = [unread EXCEPT ![c] = @ + 1]
    /\ UNCHANGED <<peers, sessions, pc, other, open, told, heard>>

\* websockets queues at most max_queue messages of a connection.
ClientSends(c) ==
    /\ Turn({})
    /\ open[c]
    /\ unread[c] < MaxUnread
    /\ unread' = [unread EXCEPT ![c] = @ + 1]
    /\ UNCHANGED <<peers, sessions, pc, other, open, told, heard>>

\* The client closes the connection or goes away.
ClientCloses(c) ==
    /\ Turn({})
    /\ open[c]
    /\ open' = [open EXCEPT ![c] = FALSE]
    /\ UNCHANGED <<peers, sessions, pc, other, unread, told, heard>>

-----------------------------------------------------------------------------

\* The steps a task takes of its own accord once it is resumed.
Task(c) ==
    \/ AcceptHello(c)
    \/ RejectHello(c)
    \/ Register(c)
    \/ GreetFails(c)
    \/ RecvClosed(c)
    \/ LookupFails(c)
    \/ Relay(c)
    \/ Relayed(c)
    \/ RelayFails(c)
    \/ RelaySendFails(c)
    \/ IgnoreMessage(c)
    \/ CallPeer(c)
    \/ CallFails(c)
    \/ Pair(c)
    \/ PairSendFails(c)
    \/ FinishLeave(c)

Client(c) == Connect(c) \/ ClientSends(c) \/ ClientCloses(c)

Next == \E c \in Conns : Task(c) \/ Client(c)

Spec == Init /\ [][Next]_vars

\* The event loop keeps its ready tasks in a FIFO queue: a task that is ready
\* again and again between other tasks' turns is resumed (strong, because
\* without suspended sends a task waits while another one holds the loop).
\* Nothing is assumed of the clients: they may stay silent or connected
\* forever.
FairSpec == Spec /\ \A c \in Conns : SF_vars(Task(c))
-----------------------------------------------------------------------------
(* Properties                                                                *)

Places == {"off", "hello", "greeting", "recv", "pairing", "relaying",
           "closing", "done"}

\* The dictionaries, the tasks and the connections have the shapes the code
\* gives them; in particular no connection has more messages queued than
\* websockets keeps for it (max_queue, line 334).
TypeOK ==
    /\ peers \in PeerDicts
    /\ sessions \in SessionDicts
    /\ pc \in [Conns -> Places]
    /\ other \in [Conns -> Others]
    /\ open \in [Conns -> BOOLEAN]
    /\ unread \in [Conns -> 0..MaxUnread]
    /\ told \in [Conns -> BOOLEAN]
    /\ heard \in [Conns -> SUBSET Conns]

\* "Bidirectional mapping between the two peers" (lines 41-43): whoever a
\* session maps a peer to is mapped back to it.  The four assignments of a
\* pairing and the two deletions of a clean-up are each spread over awaits of
\* other tasks.
SessionsSymmetric ==
    \A k \in Kinds, u \in Uids :
        sessions[k][u] # NoUid => sessions[k][sessions[k][u]] = u

\* assert(status == 'session') of line 188: when a peer in a session sends a
\* message and the other end of its session is registered, then that entry is
\* in a session too.
RelayAssertion ==
    \A c \in Conns :
        /\ pc[c] = "recv"
        /\ InSession(c)
        /\ OtherId(c) # NoUid
        /\ Has(peers, Opposite(Class(c)), OtherId(c))
        => peers[Opposite(Class(c))][OtherId(c)].inSession

\* An entry stands for the client that said the entry's class and uid, and
\* that client's task is past its hello.
OwnersRegistered ==
    \A cl \in Classes, u \in Uids :
        Has(peers, cl, u) =>
            /\ Hello[peers[cl][u].ws] = [class |-> cl, uid |-> u]
            /\ pc[peers[cl][u].ws] \in
                   {"recv", "pairing", "relaying", "closing", "done"}

\* Messages cross from a car to a controller or back, and never between video
\* and data, although the four kinds of peers share the uids and both roles
\* share one sessions dict.
RelayStaysInKind ==
    \A d \in Conns : \A c \in heard[d] :
        /\ Kind(Class(d)) = Kind(Class(c))
        /\ Class(d) \in {"Car_data", "Car_video"} <=>
               Class(c) \notin {"Car_data", "Car_video"}

\* 1-1 calls where every client has a uid of its own, so that nobody reconnects
\* under a uid: over its whole life a connection is relayed the messages of one
\* other connection only, whatever calls and hang-ups go on around it.  (Where a
\* video controller does reconnect under its uid, its car keeps the session of
\* before and may hear a second controller.)
OneVoice == \A d \in Conns : \A c1, c2 \in heard[d] : c1 = c2

\* A client that has been sent SESSION_OK and is still connected is in a
\* session, or the task that is about to put it into one is still alive.
SessionOkKept ==
    \A c \in Conns :
        told[c] /\ open[c] =>
            \/ InSession(c)
            \/ \E d \in Conns :
                  pc[d] = "pairing" /\ (c = d \/ other[d].ws = c)

\* A uid is taken only while the task that registered it lives: its client
\* "may reconnect again whenever you wish" (Protocol.md).
UidFreed ==
    \A cl \in Classes, u \in Uids :
        Has(peers, cl, u) => pc[peers[cl][u].ws] # "done"

\* A session is made and ended, never silently moved: no pairing replaces the
\* other end of a session that is still in the dict.
SessionNotRedirected ==
    [][\A k \in Kinds, u \in Uids :
          sessions[k][u] # NoUid =>
              sessions'[k][u] \in {sessions[k][u], NoUid}]_vars

\* When its connection is closed, from either side, a task comes to its end,
\* and the connection does not stay in the dicts of peers, where others could
\* call it.
HandlerEnds ==
    /\ \A c \in Conns : (pc[c] # "off" /\ ~open[c]) ~> pc[c] = "done"
    /\ \A c \in {d \in Conns : Class(d) \in Classes} :
            (Own(c).ws = c /\ ~open[c]) ~> Own(c).ws # c

\* c is in a session with d, as the dictionaries have it.
InSessionWith(c, d) ==
    /\ Class(c) \in Classes
    /\ InSession(c)
    /\ Own(c).ws = c
    /\ OtherId(c) = Uid(d)
    /\ peers[Opposite(Class(c))][Uid(d)].ws = d

\* "If there was a session with this peer, also close the connection to reset
\* its state" (lines 88 and 103): when one end of a session is gone, the
\* other end is closed in the end.  (The video sessions are not
\* looked at.)
DataHangUp ==
    \A c, d \in Conns :
        (Kind(Class(c)) = "data" /\ InSessionWith(c, d) /\ ~open[d]) ~> ~open[c]
=============================================================================
