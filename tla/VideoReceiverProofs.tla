------------------------- MODULE VideoReceiverProofs -------------------------
(* The safety of the video receiver, for any number of requests to connect   *)
(* and of calls, and for every interleaving of the main loop, the websockets *)
(* and the threads of the webrtcbins.                                        *)
EXTENDS VideoReceiver, TLAPS

\* Bookkeeping of the websockets and the webrtcbins.
Counted ==
    /\ \A c \in Conns : c > connects => sock[c] = "none"
    /\ webrtc1 = calls
    /\ calls > 0 => MaxConnects > 0
    /\ \A n \in Calls : n > calls => at[n] = "none" /\ sending[n] = "no"
    /\ \A n \in described : n <= calls
    /\ main = "offer" => at[calls] = "created"

\* The main thread is about to close ws_conn.
Cleaning == main = "cleaning"

\* While the page has asked for one connection: before that connection is
\* open there is nothing, ...
Before == sock[1] \in {"none", "connecting"} => calls = 0 /\ ws_conn = 0 /\ freed = {}

\* ... and while it is open the state follows the call, and no thread leaves it
\* before the main thread has.
During ==
    sock[1] = "open" =>
        /\ ws_conn = 1 /\ 1 \notin freed /\ calls <= 1
        /\ main # "failed"
        /\ main \in {"assigned", "connected"} => calls = 0
        /\ main \in {"loop", "offer", "starting"} =>
            /\ app_state \in {SERVER_REGISTERING, SERVER_REGISTERED,
                              PEER_CONNECTED, PEER_CALL_NEGOTIATING}
            /\ calls = IF app_state < PEER_CONNECTED THEN 0 ELSE 1
            /\ app_state = PEER_CONNECTED => main = "offer"
        /\ \A n \in Calls : at[n] = "asked" => app_state = PEER_CALL_NEGOTIATING \/ Cleaning
        /\ \A n \in Calls : /\ sending[n] # "unrefs"
                            /\ sending[n] \in {"failed", "closes"} => Cleaning

\* While it is open, the one call goes through its states in order and does not
\* lose its answer.
InOrder ==
    sock[1] = "open" /\ 1 \in Calls =>
        /\ 1 \in described <=> at[1] \in {"answering", "done"}
        /\ sending[1] # "no" => at[1] \in {"answering", "done"}
        /\ at[1] = "done" => answered[1] # 0

OneWebsocket == connects <= 1 /\ 1 \in Conns => Before /\ During /\ InOrder

IInv ==
    /\ TypeOK
    /\ Counted
    /\ OneWebsocket
    /\ AssertionsInCall
    /\ AnswerDescribes
    /\ AnswerFirst

-----------------------------------------------------------------------------
(* Groups of steps                                                           *)

SockStates == {"none", "connecting", "failed", "open", "closing", "closed"}
Places == {"none", "created", "asked", "setting", "answering", "done"}
Sending == {"no", "passed", "failed", "closes", "unrefs"}

\* The steps of the main thread that enter cleanup_and_quit_loop.
Entering ==
    \/ MonitoringFails
    \/ ConnectFails
    \/ \E c \in Conns :
        Closed(c) \/ NotRegistering(c) \/ ErrorText(c) \/ SdpWithoutType(c)

LEMMA EnteringFacts ==
    ASSUME TypeOK, Entering
    PROVE  /\ Up /\ app_state' \in States /\ main' = "cleaning"
           /\ sock' \in [Conns -> SockStates]
           /\ \A c \in Conns : sock'[c] = sock[c] \/ (sock[c] = "closing" /\ sock'[c] = "closed")
           /\ process' \in {"up", "crashed"}
           /\ UNCHANGED <<connects, ws_conn, freed, call, out>>
<1> USE DEF CleansUp, States, PEER_CALL_ERROR, SERVER_CLOSED, APP_STATE_ERROR,
            SERVER_CONNECTION_ERROR, SERVER_REGISTRATION_ERROR
<1>0. sock \in [Conns -> SockStates]
    BY DEF TypeOK, SockStates
<1>1. CASE MonitoringFails
    BY <1>0, <1>1 DEF MonitoringFails, Dispatches, Uses, Up
<1>2. CASE ConnectFails
    BY <1>0, <1>2 DEF ConnectFails, Up
<1>3. CASE \E c \in Conns : Closed(c)
    <2>1. PICK c \in Conns : Closed(c)
        BY <1>3
    <2>2. /\ sock' = [sock EXCEPT ![c] = "closed"] /\ sock[c] = "closing"
        BY <2>1 DEF Closed
    <2>3. sock' \in [Conns -> SockStates]
        BY <1>0, <2>2 DEF SockStates
    <2>4. \A d \in Conns : sock'[d] = sock[d] \/ (sock[d] = "closing" /\ sock'[d] = "closed")
        BY <1>0, <2>2
    <2> QED BY <2>1, <2>3, <2>4 DEF Closed, Dispatches, Up
<1>4. CASE \E c \in Conns : NotRegistering(c) \/ ErrorText(c) \/ SdpWithoutType(c)
    <2>1. ErrorOf(app_state) \in States
        BY DEF ErrorOf
    <2> QED BY <1>0, <1>4, <2>1
        DEF NotRegistering, ErrorText, SdpWithoutType, Hears, Dispatches, Up
<1> QED BY <1>1, <1>2, <1>3, <1>4 DEF Entering

\* What the rest of cleanup_and_quit_loop does on the main thread.
LEMMA CleanedUpFacts ==
    ASSUME TypeOK, CleanedUp
    PROVE  /\ Up /\ main' = "loop"
           /\ sock' \in [Conns -> SockStates]
           /\ \A c \in Conns : sock'[c] = sock[c] \/ (sock[c] = "open" /\ sock'[c] = "closing")
           /\ ws_conn # 0 => sock'[ws_conn] # "open"
           /\ freed' \subseteq Conns /\ (ws_conn = 0 => freed' = freed)
           /\ process' \in {"up", "crashed"}
           /\ UNCHANGED <<app_state, connects, ws_conn, call, out>>
<1> USE ConnectsAssumption DEF TypeOK, Conns
<1>1. /\ Up /\ main' = "loop" /\ Dropped /\ process' \in {"up", "crashed"}
      /\ UNCHANGED <<app_state, connects, ws_conn, call, out>>
    BY DEF CleanedUp, Uses, Up
<1>2. ws_conn # 0 => ws_conn \in Conns
    OBVIOUS
<1>3. CASE ws_conn # 0 /\ sock[ws_conn] = "open"
    <2>1. sock' = [sock EXCEPT ![ws_conn] = "closing"] /\ freed' = freed
        BY <1>1, <1>3 DEF Dropped
    <2> QED BY <1>1, <1>2, <1>3, <2>1 DEF SockStates
<1>4. CASE ~(ws_conn # 0 /\ sock[ws_conn] = "open")
    <2>1. /\ sock' = sock
          /\ freed' = IF ws_conn = 0 THEN freed ELSE freed \cup {ws_conn}
        BY <1>1, <1>4 DEF Dropped
    <2> QED BY <1>1, <1>2, <1>4, <2>1 DEF SockStates
<1> QED BY <1>3, <1>4

\* The steps that abort the process and do nothing else.
Aborting ==
    \/ \E c \in Conns : OtherType(c) \/ CreateFails(c) \/ OfferMeetsNothing(c)
    \/ PlayFails
    \/ \E n \in Calls : AnswerAsserts(n)

LEMMA AbortingFacts ==
    ASSUME Aborting
    PROVE  /\ UNCHANGED <<app_state, connects, conn, main, call, out>>
           /\ process' \in {"sdptype", "start", "webrtc1", "app_state"}
BY DEF Aborting, OtherType, CreateFails, OfferMeetsNothing, PlayFails, AnswerAsserts, Aborts

\* The tests of app_state that precede a text.
Testing(n) == TestsAnswer(n) \/ TestsCandidate(n)

\* The texts.
Texting(n) == SendsAnswer(n) \/ SendsCandidate(n)

LEMMA NextCases ==
    ASSUME [Next]_vars
    PROVE  \/ UNCHANGED vars
           \/ Entering \/ CleanedUp \/ Aborting
           \/ Connect \/ EntersConnected \/ Registers \/ AsksAnswer \/ Plays
           \/ \E c \in Conns : \/ Connected(c) \/ NotConnected(c) \/ ServerCloses(c)
                               \/ Registered(c) \/ TakesOffer(c)
           \/ \E n \in Calls : \/ AnswerCreated(n) \/ SetsDescription(n) \/ Testing(n)
                               \/ Texting(n) \/ Leaves(n) \/ Drops(n)
BY DEF Next, Http, Network, Main, Answer, Works, Entering, Aborting, Testing, Texting

-----------------------------------------------------------------------------
(* Types                                                                     *)

LEMMA TypeInit == Init => TypeOK
BY ConnectsAssumption, CallsAssumption DEF Init, TypeOK, States, Conns, Calls

LEMMA TypeStep == ASSUME TypeOK, Counted, [Next]_vars PROVE TypeOK'
<1> USE ConnectsAssumption, CallsAssumption
    DEF TypeOK, Conns, Calls, conn, call, out, SockStates
<1>1. CASE UNCHANGED vars
    BY <1>1 DEF vars
<1>2. CASE Entering
    BY <1>2, EnteringFacts
<1>3. CASE CleanedUp
    BY <1>3, CleanedUpFacts
<1>4. CASE Aborting
    BY <1>4, AbortingFacts
<1>5. CASE Connect
    BY <1>5 DEF Connect, States
<1>6. CASE EntersConnected \/ Registers
    BY <1>6 DEF EntersConnected, Registers, States, Uses, Up
<1>7. CASE AsksAnswer
    BY <1>7 DEF AsksAnswer, States
<1>8. CASE Plays
    BY <1>8 DEF Plays
<1>9. ASSUME NEW c \in Conns, Connected(c) PROVE TypeOK'
    <2>1. c # 0
        OBVIOUS
    <2> QED BY <1>9, <2>1 DEF Connected
<1>10. ASSUME NEW c \in Conns, NotConnected(c) PROVE TypeOK'
    BY <1>10 DEF NotConnected
<1>11. ASSUME NEW c \in Conns, ServerCloses(c) \/ Registered(c) PROVE TypeOK'
    BY <1>11 DEF ServerCloses, Registered, States
<1>12. ASSUME NEW c \in Conns, TakesOffer(c) PROVE TypeOK'
    <2>1. calls + 1 \in 1 .. MaxCalls
        BY <1>12 DEF TakesOffer, Takes
    <2>2. at' \in [Calls -> Places]
        BY <1>12, <2>1 DEF TakesOffer, Places
    <2> QED BY <1>12, <2>1, <2>2, SMTT(40) DEF TakesOffer, States, Places
<1>13. ASSUME NEW n \in Calls, AnswerCreated(n) PROVE TypeOK'
    BY <1>13 DEF AnswerCreated
<1>14. ASSUME NEW n \in Calls, SetsDescription(n) PROVE TypeOK'
    <2>1. webrtc1 \in Calls
        <3>1. at[n] = "setting"
            BY <1>14 DEF SetsDescription
        <3>2. ~(n > calls) /\ webrtc1 = calls
            BY <3>1 DEF Counted
        <3> QED BY <3>2
    <2> QED BY <1>14, <2>1 DEF SetsDescription
<1>15. ASSUME NEW n \in Calls, Testing(n) PROVE TypeOK'
    BY <1>15 DEF Testing, TestsAnswer, TestsCandidate, Tests
<1>16. ASSUME NEW n \in Calls, Texting(n) PROVE TypeOK'
    <2>1. /\ at' \in [Calls -> Places]
          /\ sending' \in [Calls -> Sending]
          /\ answered' \in [Calls -> 0 .. MaxConnects]
          /\ ahead' \subseteq Calls
        BY <1>16 DEF Texting, SendsAnswer, SendsCandidate, Sends, Places, Sending
    <2> QED BY <1>16, <2>1
        DEF Texting, SendsAnswer, SendsCandidate, Sends, Places, Sending, Uses, Up
<1>17. ASSUME NEW n \in Calls, Leaves(n) PROVE TypeOK'
    <2>1. /\ at' \in [Calls -> Places] /\ sending' \in [Calls -> Sending]
          /\ app_state' \in States
        BY <1>17 DEF Leaves, Returns, Places, Sending, States
    <2> QED BY <1>17, <2>1 DEF Leaves, Places, Sending, Uses, Up
<1>18. ASSUME NEW n \in Calls, Drops(n) PROVE TypeOK'
    <2>1. at' \in [Calls -> Places] /\ sending' \in [Calls -> Sending]
        BY <1>18 DEF Drops, Returns, Places, Sending
    <2>2. sock' \in [Conns -> SockStates] /\ freed' \subseteq Conns
        BY <1>18 DEF Drops
    <2> QED BY <1>18, <2>1, <2>2 DEF Drops, Places, Sending, Uses, Up
<1> QED
    BY <1>1, <1>2, <1>3, <1>4, <1>5, <1>6, <1>7, <1>8, <1>9, <1>10, <1>11, <1>12, <1>13,
       <1>14, <1>15, <1>16, <1>17, <1>18, NextCases

-----------------------------------------------------------------------------
(* Bookkeeping                                                               *)

LEMMA CountedStep == ASSUME TypeOK, Counted, [Next]_vars PROVE Counted'
<1> USE ConnectsAssumption, CallsAssumption DEF Counted, TypeOK, Conns, Calls, conn, call, out
<1>1. CASE UNCHANGED vars
    BY <1>1 DEF vars
<1>2. CASE Entering
    <2>1. /\ \A c \in Conns : sock[c] = "none" => sock'[c] = "none"
          /\ main' # "offer"
          /\ UNCHANGED <<connects, calls, webrtc1, at, sending, described>>
        BY <1>2, EnteringFacts
    <2> QED BY <2>1
<1>3. CASE CleanedUp
    <2>1. /\ \A c \in Conns : sock[c] = "none" => sock'[c] = "none"
          /\ main' # "offer"
          /\ UNCHANGED <<connects, calls, webrtc1, at, sending, described>>
        BY <1>3, CleanedUpFacts
    <2> QED BY <2>1
<1>4. CASE Aborting
    BY <1>4, AbortingFacts
<1>5. CASE Connect
    BY <1>5 DEF Connect
<1>6. CASE EntersConnected \/ Registers
    BY <1>6 DEF EntersConnected, Registers
<1>7. CASE AsksAnswer
    <2>1. /\ main' = "starting" /\ at' = [at EXCEPT ![webrtc1] = "asked"]
          /\ UNCHANGED <<connects, sock, calls, webrtc1, sending, described>>
        BY <1>7 DEF AsksAnswer
    <2>2. \A n \in Calls : n > calls => at'[n] = at[n]
        BY <2>1
    <2> QED BY <2>1, <2>2
<1>8. CASE Plays
    BY <1>8 DEF Plays
<1>9. ASSUME NEW c \in Conns, Connected(c) \/ NotConnected(c) PROVE Counted'
    <2>1. /\ sock[c] = "connecting" /\ main' # "offer"
          /\ \A d \in Conns \ {c} : sock'[d] = sock[d]
          /\ UNCHANGED <<connects, call, out>>
        BY <1>9 DEF Connected, NotConnected
    <2>2. ~(c > connects)
        BY <2>1
    <2> QED BY <2>1, <2>2
<1>10. ASSUME NEW c \in Conns, ServerCloses(c) PROVE Counted'
    <2>1. /\ sock[c] = "open"
          /\ \A d \in Conns \ {c} : sock'[d] = sock[d]
          /\ UNCHANGED <<connects, main, ws_conn, call, out>>
        BY <1>10 DEF ServerCloses
    <2>2. ~(c > connects)
        BY <2>1
    <2> QED BY <2>1, <2>2
<1>11. ASSUME NEW c \in Conns, Registered(c) PROVE Counted'
    BY <1>11 DEF Registered
<1>12. ASSUME NEW c \in Conns, TakesOffer(c) PROVE Counted'
    <2>1. /\ calls' = calls + 1 /\ webrtc1' = calls + 1 /\ calls + 1 \in Calls
          /\ at' = [at EXCEPT ![calls + 1] = "created"]
          /\ UNCHANGED <<connects, sock, sending, described>>
        BY <1>12 DEF TakesOffer, Takes
    <2>2. \A n \in Calls : n > calls + 1 => at'[n] = at[n]
        BY <2>1
    <2>3. at'[calls'] = "created"
        BY <2>1
    <2> QED BY <2>1, <2>2, <2>3
<1>13. ASSUME NEW n \in Calls, AnswerCreated(n) \/ SetsDescription(n) PROVE Counted'
    <2>1. /\ at[n] \in {"asked", "setting"}
          /\ \A m \in Calls \ {n} : at'[m] = at[m]
          /\ described' \subseteq described \cup {webrtc1}
          /\ UNCHANGED <<connects, sock, main, calls, webrtc1, sending>>
        BY <1>13 DEF AnswerCreated, SetsDescription
    <2>2. ~(n > calls) /\ (main = "offer" => n # calls)
        BY <2>1
    <2>3. \A m \in described' : m <= calls
        BY <2>1
    <2>4. main = "offer" => at'[calls] = at[calls]
        BY <2>1, <2>2
    <2> QED BY <2>1, <2>2, <2>3, <2>4
<1>14. ASSUME NEW n \in Calls, Testing(n) PROVE Counted'
    <2>1. /\ at[n] = "answering" \/ n \in described
          /\ \A m \in Calls \ {n} : sending'[m] = sending[m]
          /\ UNCHANGED <<connects, sock, main, calls, webrtc1, at, described>>
        BY <1>14 DEF Testing, TestsAnswer, TestsCandidate, Tests
    <2>2. ~(n > calls)
        BY <2>1
    <2> QED BY <2>1, <2>2
<1>15. ASSUME NEW n \in Calls, Texting(n) \/ Leaves(n) \/ Drops(n) PROVE Counted'
    <2>1. /\ sending[n] # "no"
          /\ \A m \in Calls \ {n} : at'[m] = at[m] /\ sending'[m] = sending[m]
          /\ at'[n] = at[n] \/ at[n] = "answering"
          /\ \A c \in Conns : sock[c] = "none" => sock'[c] = "none"
          /\ UNCHANGED <<connects, main, calls, webrtc1, described>>
        BY <1>15 DEF Texting, SendsAnswer, SendsCandidate, Sends, Leaves, Drops, Returns
    <2>2. ~(n > calls)
        BY <2>1
    <2>3. main = "offer" => at'[calls] = at[calls]
        BY <2>1, <2>2
    <2> QED BY <2>1, <2>2, <2>3
<1> QED
    BY <1>1, <1>2, <1>3, <1>4, <1>5, <1>6, <1>7, <1>8, <1>9, <1>10, <1>11, <1>12, <1>13,
       <1>14, <1>15, NextCases

-----------------------------------------------------------------------------
(* One websocket                                                             *)

\* A step with the one websocket not open, and none of the thread's, leaves it
\* as it is.
LEMMA NotOpenKept ==
    ASSUME OneWebsocket, UNCHANGED <<connects, ws_conn, freed, calls>>,
           connects <= 1 /\ 1 \in Conns =>
                /\ sock'[1] # "open"
                /\ sock'[1] \in {"none", "connecting"} => sock[1] = sock'[1]
    PROVE  OneWebsocket'
BY DEF OneWebsocket, Before, During, InOrder

LEMMA OneWebsocketStep ==
    ASSUME TypeOK, Counted, OneWebsocket, [Next]_vars
    PROVE  OneWebsocket'
<1> USE ConnectsAssumption, CallsAssumption
<1> SUFFICES ASSUME connects' <= 1, 1 \in Conns PROVE (Before /\ During /\ InOrder)'
    BY DEF OneWebsocket, Conns
<1>a. connects' = connects \/ Connect
    BY NextCases, EnteringFacts, CleanedUpFacts, AbortingFacts
    DEF vars, conn, EntersConnected, Registers, AsksAnswer, Plays, Connected, NotConnected,
        ServerCloses, Registered, TakesOffer, AnswerCreated, SetsDescription, Testing,
        TestsAnswer, TestsCandidate, Tests, Texting, SendsAnswer, SendsCandidate, Sends,
        Leaves, Drops
<1>b. Connect => connects = 0 /\ connects' = 1
    BY DEF Connect, TypeOK
<1>c. connects <= 1 /\ Before /\ During /\ InOrder
    BY <1>a, <1>b DEF OneWebsocket
<1>d. sock \in [Conns -> SockStates] /\ (1 \in Calls <=> MaxCalls >= 1)
    BY DEF TypeOK, SockStates, Calls
<1> USE DEF Before, During, InOrder, Cleaning, conn, call, out
<1>1. CASE UNCHANGED vars
    BY <1>1, <1>c DEF vars
<1>2. CASE Entering
    <2>1. sock'[1] = sock[1] \/ (sock[1] = "closing" /\ sock'[1] = "closed")
        BY <1>2, EnteringFacts
    <2> QED BY <1>2, <1>c, <2>1, EnteringFacts
<1>3. CASE CleanedUp
    <2>1. /\ sock'[1] # "open"
          /\ sock'[1] \in {"none", "connecting"} => sock[1] = sock'[1]
        BY <1>3, <1>c, CleanedUpFacts
    <2> QED BY <1>3, <1>c, <2>1, CleanedUpFacts
<1>4. CASE Aborting
    BY <1>4, <1>c, AbortingFacts
<1>5. CASE Connect
    <2>1. sock'[1] = "connecting" /\ sock[1] = "none"
        BY <1>5, <1>b, <1>d DEF Connect, Counted
    <2> QED BY <1>5, <1>c, <2>1 DEF Connect
<1>6. CASE EntersConnected
    BY <1>6, <1>c DEF EntersConnected, Counted, Calls, TypeOK
<1>7. CASE Registers
    <2>1. /\ main = "connected" /\ main' = "loop" /\ UNCHANGED <<connects, conn, call, out>>
          /\ app_state' = IF sock[ws_conn] = "open" THEN SERVER_REGISTERING ELSE app_state
        BY <1>7 DEF Registers
    <2>2. ASSUME sock[1] = "open"
          PROVE  /\ app_state' = SERVER_REGISTERING /\ calls = 0
                 /\ \A n \in Calls : at[n] = "none" /\ sending[n] = "no"
        BY <1>c, <2>1, <2>2 DEF Counted, Calls
    <2> QED BY <1>c, <2>1, <2>2 DEF SERVER_REGISTERING, PEER_CONNECTED
<1>8. CASE AsksAnswer
    <2>1. /\ main = "offer" /\ main' = "starting" /\ app_state' = PEER_CALL_NEGOTIATING
          /\ at' = [at EXCEPT ![webrtc1] = "asked"]
          /\ UNCHANGED <<connects, conn, calls, sending, described, answered>>
        BY <1>8 DEF AsksAnswer
    <2>2. webrtc1 = calls /\ calls # 0 /\ at[calls] = "created"
        BY <2>1 DEF Counted, TypeOK
    <2>3. ASSUME sock[1] = "open"
          PROVE  calls = 1 /\ 1 \in Calls /\ 1 \notin described /\ sending[1] = "no"
        BY <1>c, <2>2, <2>3 DEF TypeOK, Calls
    <2>4. sock[1] = "open" => at'[1] = "asked"
        BY <2>1, <2>2, <2>3 DEF TypeOK
    <2> QED BY <1>c, <2>1, <2>3, <2>4 DEF PEER_CALL_NEGOTIATING, PEER_CONNECTED
<1>9. CASE Plays
    BY <1>9, <1>c DEF Plays, PEER_CONNECTED, PEER_CALL_NEGOTIATING
<1>10. ASSUME NEW c \in Conns, Connected(c) PROVE (Before /\ During /\ InOrder)'
    <2>1. /\ sock[c] = "connecting" /\ sock' = [sock EXCEPT ![c] = "open"]
          /\ ws_conn' = c /\ main' = "assigned"
          /\ UNCHANGED <<connects, freed, call, out>>
        BY <1>10 DEF Connected
    <2>2. c = 1
        BY <1>c, <2>1 DEF Counted, TypeOK, Conns
    <2>3. /\ calls = 0 /\ freed = {}
          /\ \A n \in Calls : at[n] = "none" /\ sending[n] = "no" /\ n \notin described
        BY <1>c, <2>1, <2>2 DEF Counted, TypeOK, Calls
    <2> QED BY <1>d, <2>1, <2>2, <2>3
<1>11. ASSUME NEW c \in Conns, NotConnected(c) PROVE (Before /\ During /\ InOrder)'
    <2>1. /\ sock[c] = "connecting" /\ sock' = [sock EXCEPT ![c] = "failed"]
          /\ connects' = connects
        BY <1>11 DEF NotConnected
    <2>2. sock'[1] = "failed"
        BY <1>c, <1>d, <2>1 DEF Counted, TypeOK, Conns
    <2> QED BY <2>2
<1>12. ASSUME NEW c \in Conns, ServerCloses(c) PROVE (Before /\ During /\ InOrder)'
    <2>1. /\ sock[c] = "open" /\ sock' = [sock EXCEPT ![c] = "closing"]
          /\ connects' = connects
        BY <1>12 DEF ServerCloses
    <2>2. sock'[1] = "closing"
        BY <1>c, <1>d, <2>1 DEF Counted, TypeOK, Conns
    <2> QED BY <2>2
<1>13. ASSUME NEW c \in Conns, Registered(c) PROVE (Before /\ During /\ InOrder)'
    BY <1>13, <1>c
    DEF Registered, Hears, Dispatches, SERVER_REGISTERING, SERVER_REGISTERED, PEER_CONNECTED,
        PEER_CALL_NEGOTIATING, Counted, Calls
<1>14. ASSUME NEW c \in Conns, TakesOffer(c) PROVE (Before /\ During /\ InOrder)'
    <2>1. /\ main = "loop" /\ app_state < PEER_CONNECTED /\ calls + 1 \in Calls
          /\ sock[c] \in {"open", "closing"} /\ app_state' = PEER_CONNECTED
          /\ calls' = calls + 1 /\ main' = "offer"
          /\ at' = [at EXCEPT ![calls + 1] = "created"]
          /\ UNCHANGED <<connects, conn, sending, described, answered>>
        BY <1>14 DEF TakesOffer, Takes, Hears, Dispatches, TypeOK, Calls
    <2>2. sock[1] \notin {"none", "connecting"}
        BY <1>c, <2>1 DEF Counted, TypeOK, Conns
    <2>3. ASSUME sock[1] = "open"
          PROVE  /\ calls = 0
                 /\ \A n \in Calls : at[n] = "none" /\ sending[n] = "no" /\ n \notin described
        BY <1>c, <2>1, <2>3 DEF Counted, TypeOK, Calls
    <2>4. ASSUME sock[1] = "open"
          PROVE  at'[1] = "created" /\ \A n \in Calls : at'[n] # "asked"
        BY <2>1, <2>3, <2>4 DEF TypeOK
    <2> QED BY <1>c, <2>1, <2>2, <2>3, <2>4 DEF PEER_CONNECTED
<1>15. ASSUME NEW n \in Calls, AnswerCreated(n) PROVE (Before /\ During /\ InOrder)'
    <2>1. /\ at[n] = "asked" /\ at' = [at EXCEPT ![n] = "setting"] /\ sending[n] = "no"
          /\ UNCHANGED <<app_state, connects, conn, main, calls, sending, described, answered>>
        BY <1>15 DEF AnswerCreated
    <2>2. /\ \A m \in Calls : at'[m] = "asked" => at[m] = "asked"
          /\ at'[1] \in {"answering", "done"} <=> at[1] \in {"answering", "done"}
          /\ at'[1] = "done" => at[1] = "done"
        BY <2>1 DEF TypeOK
    <2> QED BY <1>c, <2>1, <2>2
<1>16. ASSUME NEW n \in Calls, SetsDescription(n) PROVE (Before /\ During /\ InOrder)'
    <2>1. /\ at[n] = "setting" /\ at' = [at EXCEPT ![n] = "answering"]
          /\ described' = described \cup {webrtc1}
          /\ UNCHANGED <<app_state, connects, conn, main, calls, sending, answered>>
        BY <1>16 DEF SetsDescription
    <2>2. \A m \in Calls : at'[m] = "asked" => at[m] = "asked"
        BY <2>1 DEF TypeOK
    <2>3. ASSUME sock[1] = "open" PROVE webrtc1 = 1 /\ n = 1
        BY <1>c, <2>1, <2>3 DEF Counted, TypeOK, Calls
    <2>4. sock[1] = "open" => at'[1] = "answering" /\ 1 \in described'
        BY <2>1, <2>3 DEF TypeOK
    <2> QED BY <1>c, <2>1, <2>2, <2>4
<1>17. ASSUME NEW n \in Calls, Testing(n) PROVE (Before /\ During /\ InOrder)'
    <2>1. /\ at[n] = "answering" \/ n \in described
          /\ sending' = [sending EXCEPT ![n] =
                            IF app_state < PEER_CALL_NEGOTIATING THEN "failed" ELSE "passed"]
          /\ UNCHANGED <<app_state, connects, conn, main, calls, at, described, answered>>
        BY <1>17 DEF Testing, TestsAnswer, TestsCandidate, Tests
    <2>2. ASSUME sock[1] = "open" PROVE n = 1 /\ calls = 1 /\ at[1] \in {"answering", "done"}
        BY <1>c, <2>1, <2>2 DEF Counted, TypeOK, Calls
    <2>3. ASSUME sock[1] = "open", ~Cleaning PROVE sending'[n] = "passed"
        <3>1. main \in {"loop", "offer", "starting"}
            BY <1>c, <2>2, <2>3 DEF TypeOK
        <3>2. app_state = PEER_CALL_NEGOTIATING
            BY <1>c, <2>2, <2>3, <3>1
            DEF Counted, SERVER_REGISTERING, SERVER_REGISTERED, PEER_CONNECTED
        <3> QED BY <2>1, <3>2 DEF TypeOK, PEER_CALL_NEGOTIATING
    <2>4. \A m \in Calls : m # n => sending'[m] = sending[m]
        BY <2>1 DEF TypeOK
    <2>5. sending'[n] \in {"failed", "passed"}
        BY <2>1 DEF TypeOK
    <2> QED BY <1>c, <2>1, <2>2, <2>3, <2>4, <2>5
<1>18. ASSUME NEW n \in Calls, Texting(n) PROVE (Before /\ During /\ InOrder)'
    <2>1. /\ sending[n] = "passed" /\ sending' = [sending EXCEPT ![n] = "no"]
          /\ UNCHANGED <<app_state, connects, conn, main, calls, described>>
        BY <1>18 DEF Texting, SendsAnswer, SendsCandidate, Sends
    <2>2. ASSUME sock[1] = "open" PROVE n = 1 /\ CanSend
        BY <1>c, <2>1, <2>2 DEF Counted, TypeOK, Calls, CanSend
    <2>3. \A m \in Calls : sending'[m] = "no" \/ sending'[m] = sending[m]
        BY <2>1 DEF TypeOK
    <2>4. CASE SendsAnswer(n)
        <3>1. /\ at[n] = "answering" /\ at' = [at EXCEPT ![n] = "done"]
              /\ answered' = IF CanSend THEN [answered EXCEPT ![n] = ws_conn] ELSE answered
            BY <2>4 DEF SendsAnswer
        <3>2. \A m \in Calls : at'[m] = "asked" => at[m] = "asked"
            BY <3>1 DEF TypeOK
        <3>3. ASSUME sock[1] = "open" PROVE at'[1] = "done" /\ answered'[1] = 1
            BY <1>c, <2>2, <3>1, <3>3 DEF TypeOK
        <3> QED BY <1>c, <2>1, <2>2, <2>3, <3>1, <3>2, <3>3
    <2>5. CASE SendsCandidate(n)
        <3>1. UNCHANGED <<at, answered>>
            BY <2>5 DEF SendsCandidate
        <3> QED BY <1>c, <2>1, <2>3, <3>1
    <2> QED BY <1>18, <2>4, <2>5 DEF Texting
<1>19. ASSUME NEW n \in Calls, Leaves(n) PROVE (Before /\ During /\ InOrder)'
    <2>1. /\ sending[n] = "failed" /\ UNCHANGED <<connects, conn, main, calls, described, answered>>
        BY <1>19 DEF Leaves
    <2>2. ASSUME sock[1] = "open"
          PROVE  /\ ws_conn = 1 /\ Cleaning /\ at' = at
                 /\ sending' = [sending EXCEPT ![n] = "closes"]
        BY <1>19, <1>c, <2>1, <2>2 DEF Leaves
    <2>3. ASSUME sock[1] = "open"
          PROVE  \A m \in Calls : sending'[m] = "closes" \/ sending'[m] = sending[m]
        BY <2>2, <2>3 DEF TypeOK
    <2>4. ASSUME sock[1] = "open", 1 \in Calls
          PROVE  sending'[1] # "no" => sending[1] # "no"
        BY <2>1, <2>2, <2>4 DEF TypeOK
    <2> QED BY <1>c, <2>1, <2>2, <2>3, <2>4
<1>20. ASSUME NEW n \in Calls, Drops(n) PROVE (Before /\ During /\ InOrder)'
    <2>1. /\ sending[n] \in {"closes", "unrefs"}
          /\ sock' = IF sending[n] = "closes" /\ ws_conn # 0 /\ sock[ws_conn] = "open"
                     THEN [sock EXCEPT ![ws_conn] = "closing"] ELSE sock
          /\ freed' = IF sending[n] = "unrefs" /\ ws_conn # 0 THEN freed \cup {ws_conn}
                      ELSE freed
          /\ UNCHANGED <<connects, ws_conn, calls>>
        BY <1>20 DEF Drops
    <2>2. sock'[1] # "open"
        BY <1>c, <1>d, <2>1
    <2>3. sock'[1] \in {"none", "connecting"} => sock[1] = sock'[1]
        BY <1>d, <2>1 DEF TypeOK, Conns
    <2> QED BY <1>c, <2>1, <2>2, <2>3
<1> QED
    BY <1>1, <1>2, <1>3, <1>4, <1>5, <1>6, <1>7, <1>8, <1>9, <1>10, <1>11, <1>12, <1>13,
       <1>14, <1>15, <1>16, <1>17, <1>18, <1>19, <1>20, NextCases

-----------------------------------------------------------------------------
(* The assertions and the texts                                              *)

LEMMA AssertionsStep ==
    ASSUME TypeOK, Counted, OneWebsocket, AssertionsInCall, [Next]_vars
    PROVE  AssertionsInCall'
<1> SUFFICES ASSUME process' \in {"app_state", "webrtc1"}
             PROVE  (connects > 1 \/ sock[1] # "open" \/ main = "cleaning")'
    BY DEF AssertionsInCall
<1>1. CASE UNCHANGED vars
    BY <1>1 DEF AssertionsInCall, vars, conn
<1>2. CASE Aborting
    <2>1. UNCHANGED <<connects, sock, main>>
        BY <1>2, AbortingFacts DEF conn
    <2>2. (\E c \in Conns : OfferMeetsNothing(c)) \/ (\E n \in Calls : AnswerAsserts(n))
        BY <1>2 DEF Aborting, OtherType, CreateFails, PlayFails, Aborts
    <2>3. SUFFICES ASSUME connects <= 1, sock[1] = "open", main # "cleaning" PROVE FALSE
        BY <2>1 DEF TypeOK
    <2>4. CASE \E c \in Conns : OfferMeetsNothing(c)
        <3>1. app_state >= PEER_CONNECTED /\ webrtc1 = 0 /\ main = "loop" /\ 1 \in Conns
            BY <2>4, ConnectsAssumption DEF OfferMeetsNothing, Hears, Dispatches, Conns
        <3> QED BY <2>3, <3>1
            DEF OneWebsocket, During, Counted, SERVER_REGISTERING, SERVER_REGISTERED,
                PEER_CONNECTED, PEER_CALL_NEGOTIATING
    <2>5. CASE \E n \in Calls : AnswerAsserts(n)
        <3>1. PICK n \in Calls : at[n] = "asked" /\ app_state # PEER_CALL_NEGOTIATING
            BY <2>5 DEF AnswerAsserts
        <3>2. 1 \in Conns
            BY <3>1, ConnectsAssumption, CallsAssumption DEF Counted, TypeOK, Conns, Calls
        <3> QED BY <2>3, <3>1, <3>2 DEF OneWebsocket, During, Cleaning
    <2> QED BY <2>2, <2>4, <2>5
<1>3. CASE ~Aborting /\ ~UNCHANGED vars
    <2>1. process' \in {"up", "crashed"}
        BY <1>3, NextCases, EnteringFacts, CleanedUpFacts
        DEF Connect, EntersConnected, Registers, AsksAnswer, Plays, Connected, NotConnected,
            ServerCloses, Registered, TakesOffer, Takes, Hears, Dispatches, AnswerCreated,
            SetsDescription, Testing, TestsAnswer, TestsCandidate, Tests, Texting,
            SendsAnswer, SendsCandidate, Sends, Leaves, Drops, Uses, Up
    <2> QED BY <2>1
<1> QED BY <1>1, <1>2, <1>3

\* A text goes out of the first call, on the one websocket.
LEMMA OneTexts ==
    ASSUME TypeOK, Counted, OneWebsocket, connects <= 1, CanSend,
           NEW n \in Calls, sending[n] = "passed"
    PROVE  /\ n = 1 /\ 1 \in described
           /\ at[n] # "answering" => answered[n] # 0
<1> USE ConnectsAssumption, CallsAssumption
<1>1. ws_conn \in Conns /\ sock[ws_conn] = "open"
    BY DEF CanSend, TypeOK, Conns
<1>2. ws_conn = 1
    BY <1>1 DEF Counted, TypeOK, Conns
<1>3. During /\ InOrder
    BY <1>1, <1>2 DEF OneWebsocket
<1>4. n = 1
    BY <1>1, <1>2, <1>3 DEF During, Counted, TypeOK, Calls
<1> QED BY <1>1, <1>2, <1>3, <1>4 DEF InOrder

LEMMA TextsStep ==
    ASSUME TypeOK, Counted, OneWebsocket, AnswerDescribes, AnswerFirst, [Next]_vars
    PROVE  AnswerDescribes' /\ AnswerFirst'
<1> SUFFICES ASSUME connects' <= 1
             PROVE  (\A n \in Calls : answered[n] # 0 => n \in described)' /\ ahead' = {}
    BY DEF AnswerDescribes, AnswerFirst
<1>1. CASE \E n \in Calls : SendsAnswer(n)
    <2>1. PICK n \in Calls : SendsAnswer(n)
        BY <1>1
    <2>2. /\ sending[n] = "passed" /\ UNCHANGED <<connects, described, ahead>>
          /\ answered' = IF CanSend THEN [answered EXCEPT ![n] = ws_conn] ELSE answered
        BY <2>1 DEF SendsAnswer, Sends
    <2>3. CanSend => n \in described
        BY <2>2, OneTexts
    <2>4. \A m \in Calls : answered'[m] # 0 => answered[m] # 0 \/ (m = n /\ CanSend)
        BY <2>2 DEF TypeOK
    <2> QED BY <2>2, <2>3, <2>4 DEF AnswerDescribes, AnswerFirst
<1>2. CASE \E n \in Calls : SendsCandidate(n)
    <2>1. PICK n \in Calls : SendsCandidate(n)
        BY <1>2
    <2>2. /\ sending[n] = "passed" /\ UNCHANGED <<connects, described, answered>>
          /\ at[n] # "answering"
          /\ ahead' = IF CanSend /\ answered[n] = 0 THEN ahead \cup {n} ELSE ahead
        BY <2>1 DEF SendsCandidate, Sends
    <2>3. CanSend => answered[n] # 0
        BY <2>2, OneTexts
    <2> QED BY <2>2, <2>3 DEF AnswerDescribes, AnswerFirst
<1>3. CASE ~(\E n \in Calls : Texting(n))
    <2>1. /\ UNCHANGED out /\ described \subseteq described'
          /\ connects' = connects \/ connects' = connects + 1
        BY <1>3, NextCases, EnteringFacts, CleanedUpFacts, AbortingFacts
        DEF vars, call, Connect, EntersConnected, Registers, AsksAnswer, Plays, Connected,
            NotConnected, ServerCloses, Registered, TakesOffer, AnswerCreated,
            SetsDescription, Testing, TestsAnswer, TestsCandidate, Tests, Leaves, Drops
    <2>2. connects <= 1
        BY <2>1 DEF TypeOK
    <2> QED BY <2>1, <2>2 DEF AnswerDescribes, AnswerFirst, out
<1> QED BY <1>1, <1>2, <1>3 DEF Texting

-----------------------------------------------------------------------------
(* The theorems                                                              *)

LEMMA InvInit == Init => IInv
<1> SUFFICES ASSUME Init PROVE IInv
    OBVIOUS
<1>1. Counted
    BY ConnectsAssumption, CallsAssumption DEF Init, Counted, Conns, Calls
<1>2. OneWebsocket
    BY DEF Init, OneWebsocket, Before, During, InOrder, Conns
<1>3. AssertionsInCall /\ AnswerFirst /\ AnswerDescribes
    BY DEF Init, AssertionsInCall, AnswerFirst, AnswerDescribes
<1> QED
    BY <1>1, <1>2, <1>3, TypeInit DEF IInv

LEMMA InvStep == IInv /\ [Next]_vars => IInv'
BY TypeStep, CountedStep, OneWebsocketStep, AssertionsStep, TextsStep DEF IInv

LEMMA Invariant == Spec => []IInv
BY InvInit, InvStep, PTL DEF Spec

\* Every variable keeps its type; webrtc1 is not NULL while an offer is
\* handled, nor ws_conn while a connection is taken (webrtc-gstreamer-receiver.c).
THEOREM TypeCorrect == Spec => []TypeOK
<1>1. IInv => TypeOK
    BY DEF IInv
<1> QED BY <1>1, Invariant, PTL

\* While the page's one connection is open, neither the assertion on app_state
\* in on_answer_created nor the use of webrtc1 aborts the process, except in the
\* middle of cleanup_and_quit_loop.
THEOREM AssertionsHold == Spec => []AssertionsInCall
<1>1. IInv => AssertionsInCall
    BY DEF IInv
<1> QED BY <1>1, Invariant, PTL

\* With one request to connect, an answer that went out was set as the local
\* description of its own call, for any number of offers (on_answer_created).
THEOREM OwnDescription == Spec => []AnswerDescribes
<1>1. IInv => AnswerDescribes
    BY DEF IInv
<1> QED BY <1>1, Invariant, PTL

\* With one request to connect, no call's candidate goes out before or without
\* its answer, for any number of offers (send_ice_candidate_message).
THEOREM AnswerPrecedes == Spec => []AnswerFirst
<1>1. IInv => AnswerFirst
    BY DEF IInv
<1> QED BY <1>1, Invariant, PTL
=============================================================================
