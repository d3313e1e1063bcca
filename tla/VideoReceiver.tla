---------------------------- MODULE VideoReceiver ----------------------------
(* video/src/webrtc-gstreamer-receiver.c: the controller's video receiver,   *)
(* inside of the HTTP server of main.c and ullvs-httpd.c.  The GLib main     *)
(* loop runs the callbacks of the HTTP server and of every websocket that    *)
(* was ever opened; every webrtcbin has a thread of its own.  All of them    *)
(* share app_state, ws_conn and webrtc1 without a lock.                      *)
(*                                                                           *)
(* The main loop never ends: `loop`, which cleanup_and_quit_loop would quit, *)
(* is NULL, since main keeps its loop in a variable of its own.              *)
(*                                                                           *)
(* A step ends wherever another thread can tell: between the writes of        *)
(* ws_conn and app_state, between a test of app_state and the use of ws_conn  *)
(* or webrtc1 that it guards, and inside of cleanup_and_quit_loop.            *)
(*                                                                           *)
(* Abstracted: descriptions, candidates and incoming media; the messages     *)
(* that change nothing here (the server's "hello", what cannot be parsed,    *)
(* the peer's candidates, an offer during a call).                           *)
EXTENDS Naturals

CONSTANTS
    MaxConnects,  \* bound on the requests to connect to the server
    MaxCalls      \* bound on the offers that are taken

ASSUME ConnectsAssumption == MaxConnects \in Nat
ASSUME CallsAssumption == MaxCalls \in Nat

Conns == 1 .. MaxConnects
Calls == 1 .. MaxCalls

\* enum AppState; PEER_CONNECTING is never entered.
APP_STATE_UNKNOWN == 0
APP_STATE_ERROR == 1
SERVER_CONNECTING == 1000
SERVER_CONNECTION_ERROR == 1001
SERVER_CONNECTED == 1002
SERVER_REGISTERING == 2000
SERVER_REGISTRATION_ERROR == 2001
SERVER_REGISTERED == 2002
SERVER_CLOSED == 2003
PEER_CONNECTED == 3002
PEER_CALL_NEGOTIATING == 4000
PEER_CALL_ERROR == 4001

VARIABLES
    app_state,
    connects,  \* how many requests to connect there were
    sock,      \* each websocket: none, connecting, failed, open, closing, closed
    ws_conn,   \* the websocket that ws_conn points at; 0 for NULL
    freed,     \* the websockets that have been unreferenced
    main,      \* loop, or where in a callback: assigned, connected, failed (of
               \* on_server_connected), cleaning (of cleanup_and_quit_loop),
               \* offer, starting (of on_server_message)
    process,   \* up, crashed, or what aborted it: sdptype, start, webrtc1
               \* (is NULL), app_state (in on_answer_created)
    calls,     \* how many offers have been taken; each has a webrtcbin
    webrtc1,   \* the call whose webrtcbin webrtc1 points at; 0 for NULL
    at,        \* each webrtcbin: none, created, asked, setting, answering, done
    sending,   \* its thread in a function that sends: no, passed or failed the
               \* test of app_state, closes or unrefs ws_conn
    described, \* the calls whose webrtcbin has a local description
    answered,  \* the websocket that each call's answer went out on, or 0
    ahead      \* the calls of which a candidate went out before the answer

conn == <<sock, ws_conn, freed>>
call == <<calls, webrtc1, at, sending, described>>
out == <<answered, ahead>>
vars == <<app_state, connects, conn, main, process, call, out>>

Up == process = "up"

\* Does ws_conn take texts?
CanSend == ws_conn # 0 /\ ws_conn \notin freed /\ sock[ws_conn] = "open"

\* ws_conn is used: anything may happen when it dangles.
Uses == process' \in IF ws_conn \in freed THEN {"up", "crashed"} ELSE {process}

\* The main thread is in g_main_loop_run and not inside of a callback.
Dispatches == Up /\ main = "loop"

\* cleanup_and_quit_loop, called by the main thread: first the state ...
CleansUp(x) ==
    /\ app_state' = x
    /\ main' = "cleaning"
    /\ UNCHANGED <<connects, ws_conn, freed, call, out>>

\* ... then an open connection is closed, and another one unreferenced.
Dropped ==
    LET open == ws_conn # 0 /\ sock[ws_conn] = "open"
    IN  /\ sock' = IF open THEN [sock EXCEPT ![ws_conn] = "closing"] ELSE sock
        /\ freed' = IF open \/ ws_conn = 0 THEN freed ELSE freed \cup {ws_conn}

CleanedUp ==
    /\ Up
    /\ main = "cleaning"
    /\ main' = "loop"
    /\ Dropped
    /\ Uses
    /\ UNCHANGED <<app_state, connects, ws_conn, call, out>>

-----------------------------------------------------------------------------
(* Requests to the HTTP server                                               *)

\* "ConnectToServer": checkAndConnect, connected already or not.
Connect ==
    /\ Dispatches
    /\ connects < MaxConnects
    /\ connects' = connects + 1
    /\ sock' = [sock EXCEPT ![connects + 1] = "connecting"]
    /\ app_state' = SERVER_CONNECTING
    /\ UNCHANGED <<ws_conn, freed, main, process, call, out>>

\* "Monitoring": setup_call finds the connection closed, or none.  When it is
\* open, Session_video is sent and nothing else changes.
MonitoringFails ==
    /\ Dispatches
    /\ ~CanSend
    /\ CleansUp(PEER_CALL_ERROR)
    /\ Uses
    /\ UNCHANGED sock

-----------------------------------------------------------------------------
(* The websockets                                                            *)

\* on_server_connected: ws_conn is overwritten, ...
Connected(c) ==
    /\ Dispatches
    /\ sock[c] = "connecting"
    /\ sock' = [sock EXCEPT ![c] = "open"]
    /\ ws_conn' = c
    /\ main' = "assigned"
    /\ UNCHANGED <<app_state, connects, freed, process, call, out>>

\* ... app_state follows, ...
EntersConnected ==
    /\ Up
    /\ main = "assigned"
    /\ app_state' = SERVER_CONNECTED
    /\ main' = "connected"
    /\ UNCHANGED <<connects, conn, process, call, out>>

\* ... and register_with_server, unless the connection has ended by now.
Registers ==
    /\ Up
    /\ main = "connected"
    /\ app_state' = IF sock[ws_conn] = "open" THEN SERVER_REGISTERING ELSE app_state
    /\ main' = "loop"
    /\ Uses
    /\ UNCHANGED <<connects, conn, call, out>>

\* on_server_connected with an error: ws_conn is overwritten with NULL.
NotConnected(c) ==
    /\ Dispatches
    /\ sock[c] = "connecting"
    /\ sock' = [sock EXCEPT ![c] = "failed"]
    /\ ws_conn' = 0
    /\ main' = "failed"
    /\ UNCHANGED <<app_state, connects, freed, process, call, out>>

ConnectFails ==
    /\ Up
    /\ main = "failed"
    /\ CleansUp(SERVER_CONNECTION_ERROR)
    /\ UNCHANGED <<sock, process>>

\* The server closes the connection, or it breaks.
ServerCloses(c) ==
    /\ Up
    /\ sock[c] = "open"
    /\ sock' = [sock EXCEPT ![c] = "closing"]
    /\ UNCHANGED <<app_state, connects, ws_conn, freed, main, process, call, out>>

\* on_server_closed of any websocket cleans up the one in ws_conn.
Closed(c) ==
    /\ Dispatches
    /\ sock[c] = "closing"
    /\ c \notin freed
    /\ sock' = [sock EXCEPT ![c] = "closed"]
    /\ CleansUp(SERVER_CLOSED)
    /\ UNCHANGED process

\* A text arrives on c, whether or not ws_conn still points at it.
Hears(c) == Dispatches /\ sock[c] \in {"open", "closing"} /\ c \notin freed

\* Mutant of Registered: the state is not looked at.
RegisteredAlways(c) ==
    /\ Hears(c)
    /\ app_state' = SERVER_REGISTERED
    /\ UNCHANGED <<connects, conn, main, process, call, out>>

\* "Hello Controller_video", when we are registering and when we are not.
Registered(c) ==
    /\ Hears(c)
    /\ app_state = SERVER_REGISTERING
    /\ app_state' = SERVER_REGISTERED
    /\ UNCHANGED <<connects, conn, main, process, call, out>>

NotRegistering(c) ==
    /\ Hears(c)
    /\ app_state # SERVER_REGISTERING
    /\ CleansUp(APP_STATE_ERROR)
    /\ UNCHANGED <<sock, process>>

\* The state after an ERROR text in state x.
ErrorOf(x) ==
    IF x = SERVER_CONNECTING THEN SERVER_CONNECTION_ERROR
    ELSE IF x = SERVER_REGISTERING THEN SERVER_REGISTRATION_ERROR
    ELSE APP_STATE_ERROR

ErrorText(c) ==
    /\ Hears(c)
    /\ CleansUp(ErrorOf(app_state))
    /\ UNCHANGED <<sock, process>>

\* An SDP without a type.
SdpWithoutType(c) ==
    /\ Hears(c)
    /\ CleansUp(PEER_CALL_ERROR)
    /\ UNCHANGED <<sock, process>>

-----------------------------------------------------------------------------
(* An offer: on_server_message, up to the playing pipeline                   *)

Aborts(why) ==
    /\ process' = why
    /\ UNCHANGED <<app_state, connects, conn, main, call, out>>

\* g_assert_cmpstr (sdptype, ==, "offer") fails, or GST_SDP_OK is not what
\* the description's parser returns.
OtherType(c) == Hears(c) /\ Aborts("sdptype")

\* Mutant of Takes: the state is not looked at.
TakesAlways(c) == Hears(c) /\ calls < MaxCalls

\* The offer is taken in every state below PEER_CONNECTED.
Takes(c) == Hears(c) /\ app_state < PEER_CONNECTED /\ calls < MaxCalls

\* create_pipeAndwebrtc; the pipeline of an earlier call runs on.
TakesOffer(c) ==
    /\ Takes(c)
    /\ app_state' = PEER_CONNECTED
    /\ calls' = calls + 1
    /\ webrtc1' = calls + 1
    /\ at' = [at EXCEPT ![calls + 1] = "created"]
    /\ main' = "offer"
    /\ UNCHANGED <<connects, conn, process, sending, described, out>>

\* create_pipeAndwebrtc fails: after the clean-up webrtc1 is found to be NULL.
CreateFails(c) == Takes(c) /\ Aborts("start")

\* The offer is not taken, and there is no call either.
OfferMeetsNothing(c) ==
    /\ Hears(c)
    /\ app_state >= PEER_CONNECTED
    /\ webrtc1 = 0
    /\ Aborts("webrtc1")

\* Mutant of AsksAnswer: "create-answer" is not emitted.
AsksNothing ==
    /\ Up
    /\ main = "offer"
    /\ main' = "starting"
    /\ app_state' = PEER_CALL_NEGOTIATING
    /\ at' = [at EXCEPT ![webrtc1] = "done"]
    /\ UNCHANGED <<connects, conn, process, calls, webrtc1, sending, described,
                   out>>

\* on_negotiation_needed, called by start_pipeline: the answer is asked for.
AsksAnswer ==
    /\ Up
    /\ main = "offer"
    /\ main' = "starting"
    /\ app_state' = PEER_CALL_NEGOTIATING
    /\ at' = [at EXCEPT ![webrtc1] = "asked"]
    /\ UNCHANGED <<connects, conn, process, calls, webrtc1, sending, described,
                   out>>

\* The rest of start_pipeline, which may fail as CreateFails does.
Plays ==
    /\ Up
    /\ main = "starting"
    /\ main' = "loop"
    /\ UNCHANGED <<app_state, connects, conn, process, call, out>>

PlayFails == Up /\ main = "starting" /\ Aborts("start")

-----------------------------------------------------------------------------
(* The threads of the webrtcbins                                             *)

\* Mutant of AnswerCreated: the description is not set and nothing is sent.
AnswerCreatedUnsent(n) ==
    /\ Up
    /\ sending[n] = "no"
    /\ at[n] = "asked"
    /\ app_state = PEER_CALL_NEGOTIATING
    /\ at' = [at EXCEPT ![n] = "done"]
    /\ described' = described \cup {n}
    /\ UNCHANGED <<app_state, connects, conn, main, process, calls, webrtc1,
                   sending, out>>

\* on_answer_created passes its assertion ...
AnswerCreated(n) ==
    /\ Up
    /\ sending[n] = "no"
    /\ at[n] = "asked"
    /\ app_state = PEER_CALL_NEGOTIATING
    /\ at' = [at EXCEPT ![n] = "setting"]
    /\ UNCHANGED <<app_state, connects, conn, main, process, calls, webrtc1,
                   sending, described, out>>

\* ... or g_assert_cmphex (app_state, ==, PEER_CALL_NEGOTIATING) fails.
AnswerAsserts(n) ==
    /\ Up
    /\ sending[n] = "no"
    /\ at[n] = "asked"
    /\ app_state # PEER_CALL_NEGOTIATING
    /\ Aborts("app_state")

\* The local description is set, of the webrtcbin that webrtc1 points at by now.
SetsDescription(n) ==
    /\ Up
    /\ at[n] = "setting"
    /\ at' = [at EXCEPT ![n] = "answering"]
    /\ described' = described \cup {webrtc1}
    /\ UNCHANGED <<app_state, connects, conn, main, process, calls, webrtc1,
                   sending, out>>

\* send_sdp_answer and send_ice_candidate_message test the state first.
Tests(n) ==
    /\ Up
    /\ sending[n] = "no"
    /\ sending' = [sending EXCEPT ![n] =
                        IF app_state < PEER_CALL_NEGOTIATING THEN "failed" ELSE "passed"]
    /\ UNCHANGED <<app_state, connects, conn, main, process, calls, webrtc1, at,
                   described, out>>

TestsAnswer(n) == at[n] = "answering" /\ Tests(n)

\* There are candidates as soon as there is a local description.
TestsCandidate(n) ==
    n \in described /\ at[n] \notin {"setting", "answering"} /\ Tests(n)

\* Later on the text is sent on what ws_conn is then, and dropped when that is
\* not open.
Sends(n) ==
    /\ Up
    /\ sending[n] = "passed"
    /\ sending' = [sending EXCEPT ![n] = "no"]
    /\ Uses
    /\ UNCHANGED <<app_state, connects, conn, main, calls, webrtc1, described>>

\* The end of send_sdp_answer and of on_answer_created.
SendsAnswer(n) ==
    /\ at[n] = "answering"
    /\ Sends(n)
    /\ at' = [at EXCEPT ![n] = "done"]
    /\ answered' = IF CanSend THEN [answered EXCEPT ![n] = ws_conn] ELSE answered
    /\ UNCHANGED ahead

SendsCandidate(n) ==
    /\ at[n] # "answering"
    /\ Sends(n)
    /\ ahead' = IF CanSend /\ answered[n] = 0 THEN ahead \cup {n} ELSE ahead
    /\ UNCHANGED <<at, answered>>

\* The function returns, and on_answer_created with it.
Returns(n) ==
    /\ sending' = [sending EXCEPT ![n] = "no"]
    /\ at' = IF at[n] = "answering" THEN [at EXCEPT ![n] = "done"] ELSE at

\* "Can't send ..., not in call": cleanup_and_quit_loop on this thread sets the
\* state and looks at ws_conn ...
Leaves(n) ==
    /\ Up
    /\ sending[n] = "failed"
    /\ app_state' = APP_STATE_ERROR
    /\ IF ws_conn = 0
       THEN Returns(n)
       ELSE /\ sending' = [sending EXCEPT ![n] =
                            IF sock[ws_conn] = "open" THEN "closes" ELSE "unrefs"]
            /\ UNCHANGED at
    /\ Uses
    /\ UNCHANGED <<connects, conn, main, calls, webrtc1, described, out>>

\* ... and may close or unreference another, if ws_conn has been overwritten.
Drops(n) ==
    /\ Up
    /\ sending[n] \in {"closes", "unrefs"}
    /\ Returns(n)
    /\ sock' = IF sending[n] = "closes" /\ ws_conn # 0 /\ sock[ws_conn] = "open"
               THEN [sock EXCEPT ![ws_conn] = "closing"] ELSE sock
    /\ freed' = IF sending[n] = "unrefs" /\ ws_conn # 0 THEN freed \cup {ws_conn}
                ELSE freed
    /\ Uses
    /\ UNCHANGED <<app_state, connects, ws_conn, main, calls, webrtc1, described, out>>

-----------------------------------------------------------------------------

Init ==
    /\ app_state = APP_STATE_UNKNOWN
    /\ connects = 0
    /\ sock = [c \in Conns |-> "none"]
    /\ ws_conn = 0
    /\ freed = {}
    /\ main = "loop"
    /\ process = "up"
    /\ calls = 0
    /\ webrtc1 = 0
    /\ at = [n \in Calls |-> "none"]
    /\ sending = [n \in Calls |-> "no"]
    /\ described = {}
    /\ answered = [n \in Calls |-> 0]
    /\ ahead = {}

\* What the web page asks for.
Http == Connect \/ MonitoringFails

\* What comes from the server and the peer.
Network(c) ==
    \/ Connected(c)
    \/ NotConnected(c)
    \/ ServerCloses(c)
    \/ Registered(c)
    \/ NotRegistering(c)
    \/ ErrorText(c)
    \/ SdpWithoutType(c)
    \/ OtherType(c)
    \/ TakesOffer(c)
    \/ CreateFails(c)
    \/ OfferMeetsNothing(c)

\* What the main thread does of itself.
Main ==
    \/ \E c \in Conns : Closed(c)
    \/ CleanedUp
    \/ EntersConnected
    \/ Registers
    \/ ConnectFails
    \/ AsksAnswer
    \/ Plays
    \/ PlayFails

\* The thread of a webrtcbin: on_answer_created and what candidates end with.
Answer(n) == AnswerCreated(n) \/ AnswerAsserts(n)

Works(n) ==
    \/ SetsDescription(n)
    \/ TestsAnswer(n)
    \/ SendsAnswer(n)
    \/ SendsCandidate(n)
    \/ Leaves(n)
    \/ Drops(n)

Next ==
    \/ Http
    \/ \E c \in Conns : Network(c)
    \/ Main
    \/ \E n \in Calls : Answer(n) \/ Works(n) \/ TestsCandidate(n)

Spec == Init /\ [][Next]_vars

\* The threads are scheduled, and a webrtcbin's thread takes its tasks in their
\* order, so that candidates do not hold up an answer for ever.  Nothing is
\* assumed of the web page, the server, the peer and the candidates.
FairSpec ==
    /\ Spec
    /\ WF_vars(Main)
    /\ \A n \in Calls : WF_vars(Works(n)) /\ SF_vars(Answer(n))
-----------------------------------------------------------------------------
(* Properties                                                                *)

States == {APP_STATE_UNKNOWN, APP_STATE_ERROR, SERVER_CONNECTING,
           SERVER_CONNECTION_ERROR, SERVER_CONNECTED, SERVER_REGISTERING,
           SERVER_REGISTRATION_ERROR, SERVER_REGISTERED, SERVER_CLOSED,
           PEER_CONNECTED, PEER_CALL_NEGOTIATING, PEER_CALL_ERROR}

\* The shape of the state; webrtc1 is not NULL while an offer is handled.
TypeOK ==
    /\ app_state \in States
    /\ connects \in 0 .. MaxConnects
    /\ sock \in [Conns -> {"none", "connecting", "failed", "open", "closing",
                           "closed"}]
    /\ ws_conn \in 0 .. MaxConnects
    /\ freed \subseteq Conns
    /\ main \in {"loop", "assigned", "connected", "failed", "cleaning", "offer",
                "starting"}
    /\ process \in {"up", "crashed", "sdptype", "start", "webrtc1", "app_state"}
    /\ calls \in 0 .. MaxCalls
    /\ webrtc1 \in 0 .. MaxCalls
    /\ main \in {"offer", "starting"} => webrtc1 # 0
    /\ main \in {"assigned", "connected"} => ws_conn # 0
    /\ at \in [Calls -> {"none", "created", "asked", "setting", "answering", "done"}]
    /\ sending \in [Calls -> {"no", "passed", "failed", "closes", "unrefs"}]
    /\ described \subseteq Calls
    /\ answered \in [Calls -> 0 .. MaxConnects]
    /\ ahead \subseteq Calls

\* As long as the page has connected once and that connection is open, no
\* assertion on the receiver's own state fails: neither app_state in
\* on_answer_created nor webrtc1 behind an offer that is not taken.  (The
\* exception is an answer that is created inside of cleanup_and_quit_loop, when
\* the state has changed and the connection is about to be closed.)
AssertionsInCall ==
    process \in {"app_state", "webrtc1"} =>
        connects > 1 \/ sock[1] # "open" \/ main = "cleaning"

\* As long as the page has connected once, an answer that went out is the local
\* description of its own call, although on_answer_created sets it on whatever
\* webrtc1 points at by then and any later offer replaces webrtc1.
AnswerDescribes ==
    connects <= 1 => \A n \in Calls : answered[n] # 0 => n \in described

\* As long as the page has connected once, no call's candidates overtake its
\* answer, nor go out when the answer was dropped.
AnswerFirst == connects <= 1 => ahead = {}

\* An offer that is taken is answered, unless a connection ends, the page
\* connects again (which has one connecting) or the process ends.
OfferAnswered ==
    \A n \in Calls :
        at[n] = "created" ~>
            \/ answered[n] # 0
            \/ \E c \in 1 .. connects : sock[c] # "open"
            \/ ~Up
=============================================================================
