---------------------------- MODULE VideoSender ----------------------------
(* sender/webrtc-gstreamer-sender.c: the car's video sender.  The GLib main  *)
(* loop runs the callbacks of the websocket; every webrtcbin has a thread of *)
(* its own that runs its signals and its promises one after the other.  Both *)
(* share app_state1..3, the websocket and the main loop without a lock.      *)
(*                                                                           *)
(* An element <<s, n>> is the webrtcbin of stream s that the n-th SESSION_OK *)
(* made.  Abstracted: the descriptions and candidates themselves, incoming   *)
(* media, the messages that change nothing here (the server's "hello", what  *)
(* cannot be parsed, the peer's candidates, which go to the webrtcbin).      *)
EXTENDS Naturals

CONSTANTS
    NStreams,   \* how many pipelines a call has: three in the code
    MaxCalls    \* bound on the SESSION_OKs that the server sends

ASSUME StreamsAssumption == NStreams \in Nat \ {0}
ASSUME CallsAssumption == MaxCalls \in Nat

Streams == 1 .. NStreams
Elements == Streams \X (1 .. MaxCalls)

\* enum AppState
APP_STATE_ERROR == 1
SERVER_CONNECTING == 1000
SERVER_CONNECTION_ERROR == 1001
SERVER_REGISTERING == 2000
SERVER_REGISTRATION_ERROR == 2001
SERVER_REGISTERED == 2002
SERVER_CLOSED == 2003
PEER_CONNECTED == 3002
PEER_CALL_NEGOTIATING == 4000
PEER_CALL_STARTED == 4001
PEER_CALL_ERROR == 4004

VARIABLES
    app_state,  \* app_state1, app_state2, app_state3
    ws,         \* the connection behind ws_conn; none stands for NULL
    freed,      \* has ws_conn been unreferenced?
    loop,       \* running; quit, when told to (loop = NULL); ended
    process,    \* up, over, crashed, aborted (by the assertion of
                \* on_offer_created) or sdp (by that of an SDP's parser)
    calls,      \* how many SESSION_OKs there were
    starting,   \* the pipeline that on_server_message starts next, or 0
    webrtc,     \* the call whose element webrtc1..3 point at; 0 for NULL
    at,         \* none, playing, negotiated or stopped, for each element
    wanted,     \* how many offers each element has been asked for
    offering,   \* the elements inside of on_offer_created
    described,  \* the elements that have a local description
    offered,    \* the elements whose offer went out
    ahead       \* the elements of which a candidate went out before the offer

conn == <<ws, freed, loop, process>>
elements == <<at, wanted, offering, described>>
out == <<offered, ahead>>
vars == <<app_state, conn, calls, starting, webrtc, elements, out>>

All(state) == [s \in Streams |-> state]

Up == process = "up"

\* Is ws_conn a connection that texts can be sent on?
CanSend == ws = "open" /\ ~freed

-----------------------------------------------------------------------------
(* The connection to the server                                              *)

\* cleanup_and_quit_loop, which leaves the states S behind.  It closes an open
\* connection and unreferences one that is closing or closed; when it has done
\* that before, ws_conn dangles and anything may happen.
Cleanup(S) ==
    /\ app_state' = S
    /\ loop' = IF loop = "running" THEN "quit" ELSE loop
    /\ ws' = IF CanSend THEN "closing" ELSE ws
    /\ freed' = (freed \/ ws \in {"closing", "closed"})
    /\ process' \in IF freed THEN {"up", "crashed"} ELSE {process}

\* The main thread is in g_main_loop_run and not inside of a callback.
Dispatches == Up /\ loop # "ended" /\ starting = 0

\* on_server_connected without an error, and register_with_server.
Connected ==
    /\ Dispatches
    /\ ws = "none"
    /\ ws' = "open"
    /\ app_state' = All(SERVER_REGISTERING)
    /\ UNCHANGED <<freed, loop, process, calls, starting, webrtc, elements, out>>

\* on_server_connected with an error: ws_conn stays NULL.
NotConnected ==
    /\ Dispatches
    /\ ws = "none"
    /\ loop = "running"
    /\ Cleanup(All(SERVER_CONNECTION_ERROR))
    /\ UNCHANGED <<calls, starting, webrtc, elements, out>>

\* The server closes the connection, or it breaks.
ServerCloses ==
    /\ Up
    /\ CanSend
    /\ ws' = "closing"
    /\ UNCHANGED <<app_state, freed, loop, process, calls, starting, webrtc,
                   elements, out>>

\* Mutant of Closed: on_server_closed only notes that the server has gone.
ClosedQuietly ==
    /\ Dispatches
    /\ ws = "closing"
    /\ ~freed
    /\ ws' = "closed"
    /\ app_state' = All(SERVER_CLOSED)
    /\ UNCHANGED <<freed, loop, process, calls, starting, webrtc, elements, out>>

\* on_server_closed.
Closed ==
    /\ Dispatches
    /\ ws = "closing"
    /\ ~freed
    /\ ws' = "closed"
    /\ freed' = TRUE
    /\ app_state' = All(SERVER_CLOSED)
    /\ loop' = IF loop = "running" THEN "quit" ELSE loop
    /\ UNCHANGED <<process, calls, starting, webrtc, elements, out>>

-----------------------------------------------------------------------------
(* on_server_message: the server's texts are taken in any order.             *)

\* A text arrives.  After we have closed the connection the texts that were
\* under way are still delivered.
Hears == Dispatches /\ ws \in {"open", "closing"} /\ ~freed

\* Mutant of Registered: only app_state1 is set.
RegisteredFirst ==
    /\ Hears
    /\ app_state[1] = SERVER_REGISTERING
    /\ app_state' = [app_state EXCEPT ![1] = SERVER_REGISTERED]
    /\ UNCHANGED <<conn, calls, starting, webrtc, elements, out>>

\* "Hello Car_video", when we are registering and when we are not.
Registered ==
    /\ Hears
    /\ app_state[1] = SERVER_REGISTERING
    /\ app_state' = All(SERVER_REGISTERED)
    /\ UNCHANGED <<conn, calls, starting, webrtc, elements, out>>

NotRegistering ==
    /\ Hears
    /\ app_state[1] # SERVER_REGISTERING
    /\ Cleanup(All(APP_STATE_ERROR))
    /\ UNCHANGED <<calls, starting, webrtc, elements, out>>

\* SESSION_OK, in whatever state: the check for one is commented out.
SessionOk ==
    /\ Hears
    /\ calls < MaxCalls
    /\ calls' = calls + 1
    /\ app_state' = All(PEER_CONNECTED)
    /\ starting' = 1
    /\ UNCHANGED <<conn, webrtc, elements, out>>

\* Mutant of Starts: the pipelines are alternatives (|| for &&).
StartsOne(s) ==
    /\ Up
    /\ starting = s
    /\ webrtc' = [webrtc EXCEPT ![s] = calls]
    /\ at' = [at EXCEPT ![<<s, calls>>] = "playing"]
    /\ starting' = 0
    /\ UNCHANGED <<app_state, conn, calls, wanted, offering, described, out>>

\* start_pipeline1..3, one after the other; the thread of the new webrtcbin
\* runs from here on.  The element of an earlier call is not stopped.
Starts(s) ==
    /\ Up
    /\ starting = s
    /\ webrtc' = [webrtc EXCEPT ![s] = calls]
    /\ at' = [at EXCEPT ![<<s, calls>>] = "playing"]
    /\ starting' = IF s = NStreams THEN 0 ELSE s + 1
    /\ UNCHANGED <<app_state, conn, calls, wanted, offering, described, out>>

\* start_pipeline1..3 fails: the pipelines before it keep running, those
\* behind it are not started.
StartFails(s) ==
    /\ Up
    /\ starting = s
    /\ webrtc' = [webrtc EXCEPT ![s] = 0]
    /\ starting' = 0
    /\ Cleanup(All(PEER_CALL_ERROR))
    /\ UNCHANGED <<calls, elements, out>>

\* An SDP, in whatever state: without a type, ...
SdpWithoutType ==
    /\ Hears
    /\ Cleanup(All(PEER_CALL_ERROR))
    /\ UNCHANGED <<calls, starting, webrtc, elements, out>>

\* ... with a description that g_assert_cmphex (ret, ==, GST_SDP_OK) aborts
\* on, ...
SdpAborts ==
    /\ Hears
    /\ process' = "sdp"
    /\ UNCHANGED <<app_state, ws, freed, loop, calls, starting, webrtc,
                   elements, out>>

\* ... and an answer for stream s.
Answered(s) ==
    /\ Hears
    /\ app_state' = [app_state EXCEPT ![s] = PEER_CALL_STARTED]
    /\ UNCHANGED <<conn, calls, starting, webrtc, elements, out>>

\* The peer answers what it was offered, at any time afterwards.
PeerAnswers(s) == (\E n \in 1 .. calls : <<s, n>> \in offered) /\ Answered(s)

\* The state after an ERROR text in state x.
ErrorOf(x) ==
    CASE x = SERVER_CONNECTING -> SERVER_CONNECTION_ERROR
      [] x = SERVER_REGISTERING -> SERVER_REGISTRATION_ERROR
      [] OTHER -> APP_STATE_ERROR

ErrorText ==
    /\ Hears
    /\ Cleanup(All(ErrorOf(app_state[1])))
    /\ UNCHANGED <<calls, starting, webrtc, elements, out>>

-----------------------------------------------------------------------------
(* The threads of the elements                                               *)

\* The thread of e is there and free for the next signal or promise.
Free(e) == Up /\ at[e] \in {"playing", "negotiated"} /\ e \notin offering

\* What webrtc1..3 points at: not an element when it is NULL.
Current(e) == <<e[1], webrtc[e[1]]>>

\* Mutant of NegotiationNeeded: a state copied from on_negotiation_needed1.
NegotiationNeededFirst(e) ==
    /\ Free(e)
    /\ at[e] = "playing"
    /\ at' = [at EXCEPT ![e] = "negotiated"]
    /\ app_state' = [app_state EXCEPT ![1] = PEER_CALL_NEGOTIATING]
    /\ wanted' = [d \in Elements |->
                     IF d = Current(e) THEN wanted[d] + 1 ELSE wanted[d]]
    /\ UNCHANGED <<conn, calls, starting, webrtc, offering, described, out>>

\* on_negotiation_needed1..3: the offer is asked of webrtc1..3, which may be
\* the element of a later call by now.
NegotiationNeeded(e) ==
    /\ Free(e)
    /\ at[e] = "playing"
    /\ at' = [at EXCEPT ![e] = "negotiated"]
    /\ app_state' = [app_state EXCEPT ![e[1]] = PEER_CALL_NEGOTIATING]
    /\ wanted' = [d \in Elements |->
                     IF d = Current(e) THEN wanted[d] + 1 ELSE wanted[d]]
    /\ UNCHANGED <<conn, calls, starting, webrtc, offering, described, out>>

\* Mutant of OfferCreated: the call of send_sdp_offer is missing.
OfferCreatedUnsent(e) ==
    /\ Free(e)
    /\ wanted[e] > 0
    /\ app_state[e[1]] = PEER_CALL_NEGOTIATING
    /\ wanted' = [wanted EXCEPT ![e] = @ - 1]
    /\ described' = described \cup ({Current(e)} \cap Elements)
    /\ UNCHANGED <<app_state, conn, calls, starting, webrtc, at, offering, out>>

\* on_offer_created1..3 passes its assertion and sets the local description.
OfferCreated(e) ==
    /\ Free(e)
    /\ wanted[e] > 0
    /\ app_state[e[1]] = PEER_CALL_NEGOTIATING
    /\ wanted' = [wanted EXCEPT ![e] = @ - 1]
    /\ offering' = offering \cup {e}
    /\ described' = described \cup ({Current(e)} \cap Elements)
    /\ UNCHANGED <<app_state, conn, calls, starting, webrtc, at, out>>

\* g_assert_cmphex (app_state1, ==, PEER_CALL_NEGOTIATING) fails.
OfferAsserts(e) ==
    /\ Free(e)
    /\ wanted[e] > 0
    /\ app_state[e[1]] # PEER_CALL_NEGOTIATING
    /\ process' = "aborted"
    /\ UNCHANGED <<app_state, ws, freed, loop, calls, starting, webrtc,
                   elements, out>>

\* A text of element e, noted as S in sent, goes out if its stream is in a
\* call; soup drops it when the connection is not open, and a dangling ws_conn
\* may end the process.
Sends(e, S, sent) ==
    /\ app_state[e[1]] >= PEER_CALL_NEGOTIATING
    /\ process' \in IF freed THEN {"up", "crashed"} ELSE {process}
    /\ UNCHANGED <<app_state, ws, freed, loop>>
    /\ sent' = IF CanSend THEN sent \cup S ELSE sent

\* "Can't send ..., not in call".
NotInCall(e, sent) ==
    /\ app_state[e[1]] < PEER_CALL_NEGOTIATING
    /\ Cleanup(All(APP_STATE_ERROR))
    /\ UNCHANGED sent

\* send_sdp_offer1..3, the end of on_offer_created1..3.
SendsOffer(e) ==
    /\ Up
    /\ e \in offering
    /\ offering' = offering \ {e}
    /\ Sends(e, {e}, offered) \/ NotInCall(e, offered)
    /\ UNCHANGED <<calls, starting, webrtc, at, wanted, described, ahead>>

\* send_ice_candidate_message1..3: webrtcbin gathers candidates as soon as it
\* has a local description.
SendsCandidate(e) ==
    /\ Free(e)
    /\ e \in described
    /\ Sends(e, {e} \ offered, ahead) \/ NotInCall(e, ahead)
    /\ UNCHANGED <<calls, starting, webrtc, elements, offered>>

-----------------------------------------------------------------------------
(* The end of main                                                           *)

LoopEnds ==
    /\ Dispatches
    /\ loop = "quit"
    /\ loop' = "ended"
    /\ UNCHANGED <<app_state, ws, freed, process, calls, starting, webrtc,
                   elements, out>>

\* pipe1..3 are set to NULL, which ends the threads of their elements; those
\* of an earlier call run on.
Running(s) == {n \in {webrtc[s]} \ {0} : at[<<s, n>>] # "stopped"}

StopsPipe(s) ==
    /\ Up
    /\ loop = "ended"
    /\ Running(s) # {}
    /\ \A r \in 1 .. s - 1 : Running(r) = {}
    /\ <<s, webrtc[s]>> \notin offering
    /\ at' = [at EXCEPT ![<<s, webrtc[s]>>] = "stopped"]
    /\ UNCHANGED <<app_state, conn, calls, starting, webrtc, wanted, offering,
                   described, out>>

Exits ==
    /\ Up
    /\ loop = "ended"
    /\ \A s \in Streams : Running(s) = {}
    /\ process' = "over"
    /\ UNCHANGED <<app_state, ws, freed, loop, calls, starting, webrtc,
                   elements, out>>

-----------------------------------------------------------------------------

Init ==
    /\ app_state = All(SERVER_CONNECTING)
    /\ ws = "none"
    /\ freed = FALSE
    /\ loop = "running"
    /\ process = "up"
    /\ calls = 0
    /\ starting = 0
    /\ webrtc = All(0)
    /\ at = [e \in Elements |-> "none"]
    /\ wanted = [e \in Elements |-> 0]
    /\ offering = {}
    /\ described = {}
    /\ offered = {}
    /\ ahead = {}

\* What the server, the peer and the network do.
Network ==
    \/ Connected
    \/ NotConnected
    \/ ServerCloses
    \/ Registered
    \/ NotRegistering
    \/ SessionOk
    \/ SdpWithoutType
    \/ SdpAborts
    \/ \E s \in Streams : PeerAnswers(s)
    \/ ErrorText

\* What the main thread does of itself.
Main ==
    \/ Closed
    \/ \E s \in Streams : Starts(s) \/ StartFails(s) \/ StopsPipe(s)
    \/ LoopEnds
    \/ Exits

\* The thread of an element; candidates come whenever there are some.
Offers(e) ==
    \/ NegotiationNeeded(e)
    \/ OfferCreated(e)
    \/ OfferAsserts(e)
    \/ SendsOffer(e)

Next ==
    \/ Network
    \/ Main
    \/ \E e \in Elements : Offers(e) \/ SendsCandidate(e)

Spec == Init /\ [][Next]_vars

\* The threads are scheduled.  Nothing is assumed of the server, the peer and
\* the candidates.
FairSpec ==
    /\ Spec
    /\ WF_vars(Main)
    /\ \A e \in Elements : WF_vars(Offers(e))
-----------------------------------------------------------------------------
(* Properties                                                                *)

States == {APP_STATE_ERROR, SERVER_CONNECTING, SERVER_CONNECTION_ERROR,
           SERVER_REGISTERING, SERVER_REGISTRATION_ERROR, SERVER_REGISTERED,
           SERVER_CLOSED, PEER_CONNECTED, PEER_CALL_NEGOTIATING,
           PEER_CALL_STARTED, PEER_CALL_ERROR}

\* The shape of the state.
TypeOK ==
    /\ app_state \in [Streams -> States]
    /\ ws \in {"none", "open", "closing", "closed"}
    /\ freed \in BOOLEAN
    /\ loop \in {"running", "quit", "ended"}
    /\ process \in {"up", "over", "aborted", "sdp", "crashed"}
    /\ calls \in 0 .. MaxCalls
    /\ starting \in 0 .. NStreams
    /\ webrtc \in [Streams -> 0 .. MaxCalls]
    /\ at \in [Elements -> {"none", "playing", "negotiated", "stopped"}]
    /\ wanted \in [Elements -> Nat]
    /\ offering \subseteq Elements
    /\ described \subseteq Elements
    /\ offered \subseteq Elements
    /\ ahead \subseteq Elements

\* In the first call no candidate of a stream reaches the peer before the
\* stream's offer: the receiver has nothing to add a candidate to before
\* (webrtc1 is NULL in its on_server_message).  In a second call an element
\* of the first may send candidates ahead of the new offer.
OfferFirst == calls <= 1 => ahead = {}

\* The assertion of on_offer_created fails only in a call that is over, or
\* replaced by another: the answer, the other streams and a slow or early
\* thread do not disturb a stream's negotiation.
AssertionInCall ==
    process = "aborted" => calls > 1 \/ loop # "running" \/ ws # "open"

\* As long as a text may find app_state1 in a state of the server's side, the
\* three states agree: on_server_message looks at the first alone (lines 663
\* and 693) and speaks for all.
StatesAgree ==
    app_state[1] \in SERVER_CONNECTING .. SERVER_CLOSED /\ loop = "running" =>
        \A s \in Streams : app_state[s] = app_state[1]

\* Every call comes to the point where all three offers are out, unless the
\* call is replaced or the connection or the process comes to its end.
CallOffered ==
    \A n \in 1 .. MaxCalls :
        (calls = n) ~> \/ \A s \in Streams : <<s, n>> \in offered
                      \/ calls > n
                      \/ ws # "open" \/ ~Up

\* When the connection closes or the loop is told to quit, the process ends.
ProcessEnds == (loop # "running" \/ ws = "closing") ~> ~Up
=============================================================================
