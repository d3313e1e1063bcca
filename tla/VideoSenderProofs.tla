------------------------- MODULE VideoSenderProofs -------------------------
(* The safety of the video sender, for any number of pipelines and of        *)
(* SESSION_OKs.                                                              *)
EXTENDS VideoSender, TLAPS

\* Nothing has happened to e yet.
Untouched(e) ==
    /\ wanted[e] = 0
    /\ e \notin offering
    /\ e \notin offered
    /\ e \notin described

\* An element that does not exist is untouched; those that exist belong to a
\* call there was, and webrtc1..3 point at such ones.
Existing ==
    /\ \A e \in Elements :
          /\ at[e] = "none" => Untouched(e)
          /\ at[e] # "none" => e[2] <= calls
    /\ \A s \in Streams :
          webrtc[s] # 0 => webrtc[s] <= calls /\ at[<<s, webrtc[s]>>] # "none"

\* The pipelines that are still to be started have no element in this call.
ToStart ==
    starting # 0 =>
        /\ calls > 0
        /\ \A s \in Streams : s >= starting => at[<<s, calls>>] = "none"

\* There is no call before the connection, and no registration in a call.
CallsOnline ==
    calls > 0 => ws # "none" /\ app_state[1] # SERVER_REGISTERING

\* In the first call an element is asked for one offer, after it has signalled
\* that it needs one, and until then nothing comes of it.
OneOffer ==
    \A e \in Elements :
        /\ at[e] = "playing" => Untouched(e)
        /\ wanted[e] <= 1
        /\ wanted[e] = 1 => e \notin offering /\ e \notin offered

\* While the call lasts its state waits for the offer.
Negotiating ==
    loop = "running" /\ ws = "open" =>
        \A e \in Elements :
            wanted[e] = 1 => app_state[e[1]] = PEER_CALL_NEGOTIATING

\* Who has a local description has sent the offer, or is about to, or can send
\* nothing any more.
OfferComes ==
    CanSend =>
        /\ \A e \in described : e \in offering \/ e \in offered
        /\ \A e \in offering : app_state[e[1]] >= PEER_CALL_NEGOTIATING

FirstCall == OneOffer /\ Negotiating /\ OfferComes /\ ahead = {}

SenderInv ==
    /\ TypeOK
    /\ Existing
    /\ ToStart
    /\ CallsOnline
    /\ calls <= 1 => FirstCall
    /\ AssertionInCall
-----------------------------------------------------------------------------
(* Proofs                                                                    *)

LEMMA TypeStep ==
    ASSUME TypeOK, [Next]_vars PROVE TypeOK'
<1> USE DEF TypeOK, All, States, conn, elements, out
<1>1. CASE Connected
    BY <1>1 DEF Connected
<1>2. CASE NotConnected
    BY <1>2 DEF NotConnected, Cleanup
<1>3. CASE ServerCloses
    BY <1>3 DEF ServerCloses
<1>4. CASE Registered
    BY <1>4 DEF Registered
<1>5. CASE NotRegistering
    BY <1>5 DEF NotRegistering, Cleanup
<1>6. CASE SessionOk
    BY StreamsAssumption, CallsAssumption, <1>6 DEF SessionOk
<1>7. ASSUME NEW s \in Streams, PeerAnswers(s) PROVE TypeOK'
    BY <1>7 DEF PeerAnswers, Answered
<1>8. CASE ErrorText
    BY <1>8 DEF ErrorText, Cleanup, ErrorOf
<1>21. CASE SdpWithoutType
    BY <1>21 DEF SdpWithoutType, Cleanup
<1>22. CASE SdpAborts
    BY <1>22 DEF SdpAborts
<1>9. CASE Closed
    BY <1>9 DEF Closed
<1>10. ASSUME NEW s \in Streams, Starts(s) PROVE TypeOK'
  <2>1. starting' \in 0 .. NStreams
    BY StreamsAssumption, <1>10 DEF Starts, Streams
  <2>2. webrtc' \in [Streams -> 0 .. MaxCalls]
    BY <1>10 DEF Starts
  <2>3. at' \in [Elements -> {"none", "playing", "negotiated", "stopped"}]
    BY <1>10 DEF Starts
  <2> QED
    BY <1>10, <2>1, <2>2, <2>3 DEF Starts
<1>11. ASSUME NEW s \in Streams, StartFails(s) PROVE TypeOK'
    BY StreamsAssumption, CallsAssumption, <1>11 DEF StartFails, Cleanup, Streams
<1>12. ASSUME NEW s \in Streams, StopsPipe(s) PROVE TypeOK'
    BY <1>12 DEF StopsPipe
<1>13. CASE LoopEnds
    BY <1>13 DEF LoopEnds
<1>14. CASE Exits
    BY <1>14 DEF Exits
<1>15. ASSUME NEW e \in Elements, NegotiationNeeded(e) PROVE TypeOK'
  <2>1. wanted' \in [Elements -> Nat]
    BY <1>15 DEF NegotiationNeeded
  <2>2. app_state' \in [Streams -> States]
    BY <1>15 DEF NegotiationNeeded
  <2>3. at' \in [Elements -> {"none", "playing", "negotiated", "stopped"}]
    BY <1>15 DEF NegotiationNeeded
  <2> QED
    BY <1>15, <2>1, <2>2, <2>3 DEF NegotiationNeeded
<1>16. ASSUME NEW e \in Elements, OfferCreated(e) PROVE TypeOK'
    BY <1>16 DEF OfferCreated
<1>17. ASSUME NEW e \in Elements, OfferAsserts(e) PROVE TypeOK'
    BY <1>17 DEF OfferAsserts
<1>18. ASSUME NEW e \in Elements, SendsOffer(e) PROVE TypeOK'
    BY <1>18 DEF SendsOffer, Cleanup, Sends, NotInCall
<1>19. ASSUME NEW e \in Elements, SendsCandidate(e) PROVE TypeOK'
    BY <1>19 DEF SendsCandidate, Cleanup, Sends, NotInCall
<1>20. CASE UNCHANGED vars
    BY <1>20 DEF vars
<1> QED
    BY <1>1, <1>2, <1>3, <1>4, <1>5, <1>6, <1>7, <1>8, <1>9, <1>10, <1>11, <1>12, <1>13, <1>14, <1>15, <1>16, <1>17,
       <1>18, <1>19, <1>20, <1>21, <1>22
       DEF Next, Network, Main, Offers

\* The steps that leave the call and its elements alone.
Aside ==
    \/ Connected \/ NotConnected \/ ServerCloses \/ Registered \/ NotRegistering
    \/ SdpWithoutType \/ SdpAborts \/ \E s \in Streams : PeerAnswers(s)
    \/ ErrorText \/ Closed \/ LoopEnds \/ Exits
    \/ \E e \in Elements : OfferAsserts(e)
    \/ UNCHANGED vars

LEMMA AsideFrame ==
    ASSUME Aside PROVE UNCHANGED <<calls, starting, webrtc, elements, out>>
BY DEF Aside, Connected, NotConnected, ServerCloses, Registered, NotRegistering,
       SdpWithoutType, SdpAborts, PeerAnswers, Answered, ErrorText, Closed, LoopEnds,
       Exits, OfferAsserts, vars, elements, out

\* Every step is one of those, or one of these eight.
LEMMA NextCases ==
    ASSUME [Next]_vars
    PROVE  \/ Aside
           \/ SessionOk
           \/ \E s \in Streams : Starts(s)
           \/ \E s \in Streams : StartFails(s)
           \/ \E s \in Streams : StopsPipe(s)
           \/ \E e \in Elements : NegotiationNeeded(e)
           \/ \E e \in Elements : OfferCreated(e)
           \/ \E e \in Elements : SendsOffer(e)
           \/ \E e \in Elements : SendsCandidate(e)
BY DEF Next, Network, Main, Offers, Aside

\* An element is the pair of a stream and a call.
LEMMA ElementPairs ==
    /\ \A s \in Streams, n \in 1 .. MaxCalls :
          <<s, n>> \in Elements /\ <<s, n>>[1] = s /\ <<s, n>>[2] = n
    /\ \A e \in Elements :
          e[1] \in Streams /\ e[2] \in 1 .. MaxCalls /\ e = <<e[1], e[2]>>
BY DEF Elements

\* What webrtc1..3 points at, if at anything, is an element that exists.
LEMMA CurrentExists ==
    ASSUME TypeOK, Existing, NEW e \in Elements, Current(e) \in Elements
    PROVE  at[Current(e)] # "none"
<1>1. e[1] \in Streams
    BY ElementPairs
<1>2. webrtc[e[1]] # 0
    BY CallsAssumption DEF Current, Elements
<1> QED
    BY <1>1, <1>2 DEF Existing, Current

\* No thread touches an element that does not exist.
LEMMA ExistingStep ==
    ASSUME TypeOK, Existing, ToStart, [Next]_vars PROVE Existing'
<1> USE DEF elements, out
<1>1. CASE Aside
    BY <1>1, AsideFrame DEF Existing, Untouched
<1>2. CASE SessionOk
  <2>1. \A n \in 0 .. MaxCalls : n <= calls => n <= calls'
    BY <1>2, CallsAssumption DEF SessionOk, TypeOK
  <2>2. \A e \in Elements : e[2] \in 0 .. MaxCalls
    BY ElementPairs, CallsAssumption
  <2> QED
    BY <1>2, <2>1, <2>2 DEF SessionOk, Existing, Untouched, TypeOK
<1>3. ASSUME NEW s \in Streams, Starts(s) PROVE Existing'
  <2>1. calls \in 1 .. MaxCalls
    BY <1>3, CallsAssumption, StreamsAssumption DEF Starts, ToStart, TypeOK, Streams
  <2>2. <<s, calls>> \in Elements /\ <<s, calls>>[2] = calls
    BY <2>1, ElementPairs
  <2>3. \A e \in Elements : at'[e] = IF e = <<s, calls>> THEN "playing" ELSE at[e]
    BY <1>3, <2>2 DEF Starts, TypeOK
  <2>4. calls <= calls
    BY <2>1
  <2>5. \A e \in Elements : (at'[e] = "none" => Untouched(e)') /\ (at'[e] # "none" => e[2] <= calls')
    BY <1>3, <2>2, <2>3, <2>4 DEF Starts, Existing, Untouched
  <2>6. ASSUME NEW r \in Streams, webrtc'[r] # 0
        PROVE  webrtc'[r] <= calls' /\ at'[<<r, webrtc'[r]>>] # "none"
    <3>1. CASE r = s
      BY <1>3, <2>2, <2>3, <2>4, <3>1 DEF Starts, TypeOK
    <3>2. CASE r # s
      <4>1. webrtc'[r] = webrtc[r]
        BY <1>3, <3>2 DEF Starts, TypeOK
      <4>2. webrtc[r] \in 1 .. MaxCalls
        BY <2>6, <4>1, CallsAssumption DEF TypeOK
      <4>3. <<r, webrtc[r]>> \in Elements
        BY <4>2, ElementPairs
      <4> QED
        BY <1>3, <2>3, <2>6, <4>1, <4>3 DEF Starts, Existing
    <3> QED
      BY <3>1, <3>2
  <2> QED
    BY <2>5, <2>6 DEF Existing
<1>4. ASSUME NEW s \in Streams, StartFails(s) PROVE Existing'
    BY <1>4 DEF StartFails, Existing, Untouched, TypeOK
<1>5. ASSUME NEW s \in Streams, StopsPipe(s) PROVE Existing'
  <2>1. webrtc[s] # 0
    BY <1>5 DEF StopsPipe, Running
  <2>2. \A d : d # <<s, webrtc[s]>> => at'[d] = at[d]
    BY <1>5 DEF StopsPipe, TypeOK
  <2>3. webrtc[s] \in 1 .. MaxCalls
    BY <2>1, CallsAssumption DEF TypeOK
  <2>4. <<s, webrtc[s]>> \in Elements
    BY <2>3, ElementPairs
  <2>5. at[<<s, webrtc[s]>>] # "none" /\ at'[<<s, webrtc[s]>>] = "stopped"
    BY <1>5, <2>1, <2>4 DEF StopsPipe, Existing, TypeOK
  <2>6. \A d : at'[d] = "none" <=> at[d] = "none"
    BY <2>2, <2>5
  <2> QED
    BY <1>5, <2>6 DEF StopsPipe, Existing, Untouched
<1>6. ASSUME NEW e \in Elements, NegotiationNeeded(e) PROVE Existing'
  <2>1. \A d \in Elements : at'[d] = "none" => at[d] = "none" /\ d # Current(e)
    BY <1>6, CurrentExists DEF NegotiationNeeded, TypeOK
  <2>2. \A d : at[d] # "none" => at'[d] # "none"
    BY <1>6 DEF NegotiationNeeded, TypeOK
  <2>3. at[e] # "none"
    BY <1>6 DEF NegotiationNeeded
  <2>4. \A d \in Elements : at'[d] # "none" => at[d] # "none"
    BY <1>6, <2>3 DEF NegotiationNeeded, TypeOK
  <2>5. \A d \in Elements : d # Current(e) => wanted'[d] = wanted[d]
    BY <1>6 DEF NegotiationNeeded
  <2> QED
    BY <1>6, <2>1, <2>2, <2>4, <2>5 DEF NegotiationNeeded, Existing, Untouched
<1>7. ASSUME NEW e \in Elements, OfferCreated(e) PROVE Existing'
  <2>1. at[e] # "none"
    BY <1>7 DEF OfferCreated, Free
  <2>2. \A d \in Elements : at[d] = "none" => d # e /\ d \notin described' /\ wanted'[d] = 0
    BY <1>7, <2>1, CurrentExists DEF OfferCreated, TypeOK, Existing, Untouched
  <2> QED
    BY <1>7, <2>2 DEF OfferCreated, Existing, Untouched
<1>8. ASSUME NEW e \in Elements, SendsOffer(e) PROVE Existing'
  <2>1. at[e] # "none"
    BY <1>8 DEF SendsOffer, Existing, Untouched
  <2> QED
    BY <1>8, <2>1 DEF SendsOffer, Sends, NotInCall, Existing, Untouched
<1>9. ASSUME NEW e \in Elements, SendsCandidate(e) PROVE Existing'
    BY <1>9 DEF SendsCandidate, Existing, Untouched
<1> QED
    BY NextCases, <1>1, <1>2, <1>3, <1>4, <1>5, <1>6, <1>7, <1>8, <1>9

\* Without a call there is no element.
LEMMA NothingYet ==
    ASSUME TypeOK, Existing, calls = 0
    PROVE  \A e \in Elements : at[e] = "none" /\ Untouched(e)
<1> SUFFICES ASSUME NEW e \in Elements PROVE at[e] = "none" /\ Untouched(e)
    OBVIOUS
<1>1. e[2] > 0
    BY ElementPairs, CallsAssumption
<1>2. ~(e[2] <= calls)
    BY <1>1, ElementPairs, CallsAssumption
<1> QED
    BY <1>2 DEF Existing

\* In the first call webrtc1..3 point at the elements of that call or nowhere.
LEMMA CurrentIsOwn ==
    ASSUME TypeOK, Existing, calls <= 1, NEW e \in Elements, at[e] # "none"
    PROVE  Current(e) = e \/ Current(e) \notin Elements
<1>1. e[1] \in Streams /\ e[2] \in 1 .. MaxCalls /\ e = <<e[1], e[2]>>
    BY ElementPairs
<1>2. e[2] <= calls
    BY DEF Existing
<1>3. e[2] = 1 /\ calls = 1
    BY <1>1, <1>2, CallsAssumption DEF TypeOK
<1>4. webrtc[e[1]] \in 0 .. MaxCalls
    BY <1>1 DEF TypeOK
<1>5. CASE webrtc[e[1]] = 0
  <2>1. 0 \notin 1 .. MaxCalls
    BY CallsAssumption
  <2> QED
    BY <1>5, <2>1 DEF Current, Elements
<1>6. CASE webrtc[e[1]] # 0
  <2>1. webrtc[e[1]] <= calls
    BY <1>1, <1>6 DEF Existing
  <2>2. webrtc[e[1]] = 1
    BY <1>3, <1>4, <1>6, <2>1, CallsAssumption
  <2> QED
    BY <1>1, <1>3, <2>2 DEF Current
<1> QED
    BY <1>5, <1>6

\* cleanup_and_quit_loop ends the sending and the loop.
LEMMA CleanupCuts ==
    ASSUME TypeOK, NEW S, Cleanup(S)
    PROVE  ~CanSend' /\ loop' # "running" /\ app_state' = S
BY DEF TypeOK, Cleanup, CanSend

\* A call is only ever replaced by the next one.
LEMMA CallsGrow ==
    ASSUME TypeOK, [Next]_vars
    PROVE  calls' = calls \/ (calls' = calls + 1 /\ SessionOk)
<1> USE DEF elements, out
<1>1. CASE Aside
    BY <1>1, AsideFrame
<1>2. CASE SessionOk
    BY <1>2 DEF SessionOk
<1>3. CASE \E s \in Streams : Starts(s) \/ StartFails(s) \/ StopsPipe(s)
    BY <1>3 DEF Starts, StartFails, StopsPipe
<1>4. CASE \E e \in Elements : NegotiationNeeded(e) \/ OfferCreated(e)
    BY <1>4 DEF NegotiationNeeded, OfferCreated
<1>5. CASE \E e \in Elements : SendsOffer(e) \/ SendsCandidate(e)
    BY <1>5 DEF SendsOffer, SendsCandidate
<1> QED
    BY NextCases, <1>1, <1>2, <1>3, <1>4, <1>5

\* An element that exists does not cease to; the only ones that come are those
\* that are started.
LEMMA NoneStays ==
    ASSUME TypeOK, Existing, [Next]_vars, NEW d \in Elements, at[d] = "none",
           ~ \E s \in Streams : Starts(s) /\ d = <<s, calls>>
    PROVE  at'[d] = "none"
<1> USE DEF elements, out
<1>1. CASE Aside
    BY <1>1, AsideFrame
<1>2. CASE SessionOk
    BY <1>2 DEF SessionOk
<1>3. ASSUME NEW s \in Streams, Starts(s) PROVE at'[d] = "none"
    BY <1>3 DEF Starts, TypeOK
<1>4. CASE \E s \in Streams : StartFails(s)
    BY <1>4 DEF StartFails
<1>5. ASSUME NEW s \in Streams, StopsPipe(s) PROVE at'[d] = "none"
  <2>1. webrtc[s] # 0
    BY <1>5 DEF StopsPipe, Running
  <2>2. d # <<s, webrtc[s]>>
    BY <2>1 DEF Existing
  <2> QED
    BY <1>5, <2>2 DEF StopsPipe, TypeOK
<1>6. CASE \E e \in Elements : NegotiationNeeded(e)
    BY <1>6 DEF NegotiationNeeded, TypeOK
<1>7. CASE \E e \in Elements : OfferCreated(e) \/ SendsOffer(e) \/ SendsCandidate(e)
    BY <1>7 DEF OfferCreated, SendsOffer, SendsCandidate
<1> QED
    BY NextCases, <1>1, <1>2, <1>3, <1>4, <1>5, <1>6, <1>7

\* The elements of a call come one after the other.
LEMMA ToStartStep ==
    ASSUME TypeOK, Existing, ToStart, [Next]_vars PROVE ToStart'
<1> USE DEF elements, out
<1>1. CASE SessionOk
  <2>1. calls \in 0 .. MaxCalls /\ calls + 1 \in 1 .. MaxCalls /\ calls' = calls + 1 /\ at' = at
    BY <1>1, CallsAssumption DEF SessionOk, TypeOK
  <2>2. ASSUME NEW s \in Streams PROVE at[<<s, calls + 1>>] = "none"
    <3>1. <<s, calls + 1>> \in Elements /\ <<s, calls + 1>>[2] = calls + 1
      BY <2>1, ElementPairs
    <3>2. ~(calls + 1 <= calls)
      BY <2>1, CallsAssumption
    <3> QED
      BY <3>1, <3>2 DEF Existing
  <2>3. calls + 1 > 0
    BY <2>1
  <2> QED
    BY <2>1, <2>2, <2>3 DEF ToStart
<1>2. ASSUME NEW s \in Streams, Starts(s) PROVE ToStart'
  <2>1. calls \in 1 .. MaxCalls /\ calls > 0
    BY <1>2, CallsAssumption, StreamsAssumption DEF Starts, ToStart, TypeOK, Streams
  <2>2. calls' = calls /\ starting = s
    BY <1>2 DEF Starts
  <2>3. ASSUME NEW r \in Streams, starting' # 0, r >= starting'
        PROVE  at'[<<r, calls>>] = "none"
    <3>1. r # s /\ r >= starting /\ starting # 0
      BY <1>2, <2>3, StreamsAssumption DEF Starts, Streams
    <3>2. at[<<r, calls>>] = "none"
      BY <3>1 DEF ToStart
    <3>3. <<r, calls>> # <<s, calls>>
      BY <3>1
    <3> QED
      BY <1>2, <3>2, <3>3 DEF Starts, TypeOK
  <2> QED
    BY <2>1, <2>2, <2>3 DEF ToStart
<1>3. CASE \E s \in Streams : StartFails(s)
    BY <1>3 DEF StartFails, ToStart
<1>4. CASE /\ ~ \E s \in Streams : Starts(s)
           /\ calls' = calls
           /\ starting' = starting
  <2> SUFFICES ASSUME starting # 0
               PROVE  \A s \in Streams : s >= starting => at'[<<s, calls>>] = "none"
    BY <1>4 DEF ToStart
  <2>1. calls \in 1 .. MaxCalls
    BY CallsAssumption DEF ToStart, TypeOK
  <2> QED
    BY <1>4, <2>1, ElementPairs, NoneStays DEF ToStart
<1>5. \/ SessionOk
      \/ \E s \in Streams : Starts(s) \/ StartFails(s)
      \/ (calls' = calls /\ starting' = starting)
  <2>1. CASE Aside
    BY <2>1, AsideFrame
  <2>2. CASE \E s \in Streams : StopsPipe(s)
    BY <2>2 DEF StopsPipe
  <2>3. CASE \E e \in Elements : NegotiationNeeded(e) \/ OfferCreated(e)
    BY <2>3 DEF NegotiationNeeded, OfferCreated
  <2>4. CASE \E e \in Elements : SendsOffer(e) \/ SendsCandidate(e)
    BY <2>4 DEF SendsOffer, SendsCandidate
  <2> QED
    BY NextCases, <2>1, <2>2, <2>3, <2>4
<1> QED
    BY <1>1, <1>2, <1>3, <1>4, <1>5

\* Nothing in a call goes back to the state in which hellos are awaited.
LEMMA CallsOnlineStep ==
    ASSUME TypeOK, CallsOnline, [Next]_vars PROVE CallsOnline'
<1> USE CallsAssumption, StreamsAssumption DEF TypeOK, CallsOnline, All, conn
<1>a. 1 \in Streams
    BY DEF Streams
<1>1. CASE Connected
    BY <1>1 DEF Connected
<1>2. CASE NotConnected \/ NotRegistering \/ SdpWithoutType
    BY <1>2, <1>a DEF NotConnected, NotRegistering, SdpWithoutType, Hears, Cleanup,
                      CanSend, SERVER_REGISTERING, SERVER_CONNECTION_ERROR,
                      APP_STATE_ERROR, PEER_CALL_ERROR
<1>3. CASE ServerCloses \/ Closed
    BY <1>3, <1>a DEF ServerCloses, Closed, SERVER_REGISTERING, SERVER_CLOSED
<1>4. CASE Registered
    BY <1>4, <1>a DEF Registered, SERVER_REGISTERING, SERVER_REGISTERED
<1>5. CASE SessionOk
    BY <1>5, <1>a DEF SessionOk, Hears, SERVER_REGISTERING, PEER_CONNECTED
<1>6. ASSUME NEW s \in Streams, PeerAnswers(s) PROVE CallsOnline'
    BY <1>6, <1>a DEF PeerAnswers, Answered, SERVER_REGISTERING, PEER_CALL_STARTED
<1>7. CASE ErrorText
    BY <1>7, <1>a DEF ErrorText, ErrorOf, Hears, Cleanup, CanSend, SERVER_REGISTERING,
                 SERVER_CONNECTING, SERVER_REGISTRATION_ERROR,
                 SERVER_CONNECTION_ERROR, APP_STATE_ERROR
<1>8. CASE SdpAborts \/ LoopEnds \/ Exits \/ UNCHANGED vars
    BY <1>8 DEF SdpAborts, LoopEnds, Exits, vars
<1>9. CASE \E e \in Elements : OfferAsserts(e)
    BY <1>9 DEF OfferAsserts
<1>10. CASE \E s \in Streams : Starts(s) \/ StopsPipe(s)
    BY <1>10 DEF Starts, StopsPipe
<1>11. CASE \E s \in Streams : StartFails(s)
    BY <1>11, <1>a DEF StartFails, Cleanup, SERVER_REGISTERING, PEER_CALL_ERROR
<1>12. ASSUME NEW e \in Elements, NegotiationNeeded(e) PROVE CallsOnline'
    BY <1>12, <1>a DEF NegotiationNeeded, SERVER_REGISTERING, PEER_CALL_NEGOTIATING
<1>13. CASE \E e \in Elements : OfferCreated(e)
    BY <1>13 DEF OfferCreated
<1>14. CASE \E e \in Elements : SendsOffer(e) \/ SendsCandidate(e)
    BY <1>14, <1>a DEF SendsOffer, SendsCandidate, Sends, NotInCall, Cleanup,
                  SERVER_REGISTERING, APP_STATE_ERROR
<1> QED
    BY NextCases, <1>1, <1>2, <1>3, <1>4, <1>5, <1>6, <1>7, <1>8, <1>9, <1>10,
       <1>11, <1>12, <1>13, <1>14 DEF Aside

\* One offer for each element: who has been asked for its offer was never asked
\* before, since webrtc1..3 do not move on to another call.
LEMMA OneOfferStep ==
    ASSUME TypeOK, Existing, ToStart, calls <= 1, OneOffer, [Next]_vars
    PROVE  OneOffer'
<1> USE DEF elements, out
<1>1. CASE Aside \/ SessionOk
    BY <1>1, AsideFrame DEF SessionOk, OneOffer, Untouched
<1>2. ASSUME NEW s \in Streams, Starts(s) PROVE OneOffer'
  <2>1. calls \in 1 .. MaxCalls
    BY <1>2, CallsAssumption, StreamsAssumption DEF Starts, ToStart, TypeOK, Streams
  <2>2. <<s, calls>> \in Elements
    BY <2>1, ElementPairs
  <2>3. at[<<s, calls>>] = "none"
    BY <1>2, StreamsAssumption DEF Starts, ToStart, Streams
  <2>4. Untouched(<<s, calls>>)
    BY <2>2, <2>3 DEF Existing
  <2>5. \A d \in Elements : at'[d] = "playing" => at[d] = "playing" \/ d = <<s, calls>>
    BY <1>2 DEF Starts, TypeOK
  <2> QED
    BY <1>2, <2>4, <2>5 DEF Starts, OneOffer, Untouched
<1>3. CASE \E s \in Streams : StartFails(s)
    BY <1>3 DEF StartFails, OneOffer, Untouched
<1>4. ASSUME NEW s \in Streams, StopsPipe(s) PROVE OneOffer'
  <2>1. \A d \in Elements : at'[d] = "playing" => at[d] = "playing"
    BY <1>4 DEF StopsPipe, TypeOK
  <2> QED
    BY <1>4, <2>1 DEF StopsPipe, OneOffer, Untouched
<1>5. ASSUME NEW e \in Elements, NegotiationNeeded(e) PROVE OneOffer'
  <2>1. Untouched(e) /\ at[e] # "none"
    BY <1>5 DEF NegotiationNeeded, OneOffer
  <2>2. Current(e) = e \/ Current(e) \notin Elements
    BY <2>1, CurrentIsOwn
  <2>3. \A d \in Elements : d # e => wanted'[d] = wanted[d] /\ at'[d] = at[d]
    BY <1>5, <2>2 DEF NegotiationNeeded, TypeOK
  <2>4. at'[e] = "negotiated"
    BY <1>5 DEF NegotiationNeeded, TypeOK
  <2>5. wanted'[e] = 0 + 1 \/ wanted'[e] = 0
    BY <1>5, <2>1 DEF NegotiationNeeded, Untouched
  <2>6. wanted'[e] <= 1
    BY <2>5
  <2> QED
    BY <1>5, <2>1, <2>3, <2>4, <2>6 DEF NegotiationNeeded, OneOffer, Untouched
<1>6. ASSUME NEW e \in Elements, OfferCreated(e) PROVE OneOffer'
  <2>1. wanted[e] \in Nat /\ wanted[e] > 0 /\ wanted[e] <= 1
    BY <1>6 DEF OfferCreated, TypeOK, OneOffer
  <2>2. wanted[e] = 1 /\ wanted[e] # 0
    BY <2>1
  <2>3. wanted'[e] = 0 /\ 0 # 1 /\ 0 <= 1
    BY <1>6, <2>2 DEF OfferCreated, TypeOK
  <2>4. \A d \in Elements : d # e => wanted'[d] = wanted[d]
    BY <1>6 DEF OfferCreated, TypeOK
  <2>5. at[e] # "none" /\ at[e] # "playing"
    BY <1>6, <2>2 DEF OfferCreated, Free, OneOffer, Untouched
  <2>6. \A d \in Elements : d # e => (d \in described' <=> d \in described)
    BY <1>6, <2>5, CurrentIsOwn DEF OfferCreated
  <2>7. \A d \in Elements : d # e => (d \in offering' <=> d \in offering)
    BY <1>6 DEF OfferCreated
  <2> QED
    BY <1>6, <2>3, <2>4, <2>5, <2>6, <2>7 DEF OfferCreated, OneOffer, Untouched
<1>7. ASSUME NEW e \in Elements, SendsOffer(e) PROVE OneOffer'
  <2>1. at[e] # "playing" /\ wanted[e] # 1
    BY <1>7 DEF SendsOffer, OneOffer, Untouched
  <2>2. \A d \in Elements : d \in offered' => d \in offered \/ d = e
    BY <1>7 DEF SendsOffer, Sends, NotInCall
  <2> QED
    BY <1>7, <2>1, <2>2 DEF SendsOffer, OneOffer, Untouched
<1>8. CASE \E e \in Elements : SendsCandidate(e)
    BY <1>8 DEF SendsCandidate, OneOffer, Untouched
<1> QED
    BY NextCases, <1>1, <1>2, <1>3, <1>4, <1>5, <1>6, <1>7, <1>8

\* The answer is the only text that leaves the state of a negotiation without
\* ending the loop, and it presupposes the offer.
LEMMA NegotiatingStep ==
    ASSUME TypeOK, Existing, CallsOnline, calls <= 1, calls' <= 1, OneOffer,
           Negotiating, [Next]_vars
    PROVE  Negotiating'
<1> USE DEF elements, out
<1>a. ASSUME calls = 0, wanted' = wanted PROVE Negotiating'
  <2>1. \A e \in Elements : wanted'[e] = 0 /\ 0 # 1
    BY <1>a, NothingYet DEF Untouched
  <2> QED
    BY <2>1 DEF Negotiating
<1>b. ASSUME loop' # "running" \/ ws' # "open" PROVE Negotiating'
    BY <1>b DEF Negotiating
<1>c. calls = 0 \/ calls = 1
    BY CallsAssumption DEF TypeOK
<1>d. calls > 0 <=> calls # 0
    BY <1>c
<1>1. CASE Connected \/ Registered
    BY <1>1, <1>a, <1>d DEF Connected, Registered, CallsOnline
<1>2. CASE NotConnected \/ NotRegistering \/ SdpWithoutType \/ ErrorText
    BY <1>2, <1>b, CleanupCuts DEF NotConnected, NotRegistering, SdpWithoutType, ErrorText
<1>3. CASE ServerCloses \/ Closed \/ LoopEnds
    BY <1>3, <1>b DEF ServerCloses, Closed, LoopEnds
<1>4. CASE SessionOk
  <2>1. calls = 0
    BY <1>4, <1>c DEF SessionOk
  <2> QED
    BY <1>4, <2>1, <1>a DEF SessionOk
<1>5. ASSUME NEW s \in Streams, PeerAnswers(s) PROVE Negotiating'
  <2>1. ASSUME NEW e \in Elements, wanted[e] = 1 PROVE e[1] # s
    <3>1. PICK n \in 1 .. calls : <<s, n>> \in offered
      BY <1>5 DEF PeerAnswers, Answered
    <3>2. n = 1 /\ calls = 1
      BY <1>c, <3>1
    <3>3. at[e] # "none"
      BY <2>1 DEF Existing, Untouched
    <3>4. e[2] \in 1 .. MaxCalls /\ e[2] <= calls /\ e = <<e[1], e[2]>>
      BY <3>3, ElementPairs DEF Existing
    <3>5. e[2] = 1
      BY <3>2, <3>4, CallsAssumption
    <3>6. e \notin offered
      BY <2>1 DEF OneOffer
    <3> QED
      BY <3>1, <3>2, <3>4, <3>5, <3>6
  <2>2. ASSUME NEW e \in Elements, e[1] # s PROVE app_state'[e[1]] = app_state[e[1]]
    BY <1>5, <2>2, ElementPairs DEF PeerAnswers, Answered, TypeOK
  <2> QED
    BY <1>5, <2>1, <2>2 DEF PeerAnswers, Answered, Negotiating, conn
<1>6. CASE \/ SdpAborts \/ Exits \/ \E e \in Elements : OfferAsserts(e)
           \/ UNCHANGED vars
    BY <1>6 DEF SdpAborts, Exits, OfferAsserts, vars, conn, Negotiating
<1>7. CASE \E s \in Streams : Starts(s) \/ StopsPipe(s)
    BY <1>7 DEF Starts, StopsPipe, conn, Negotiating
<1>8. CASE \E s \in Streams : StartFails(s)
    BY <1>8, <1>b, CleanupCuts DEF StartFails
<1>9. ASSUME NEW e \in Elements, NegotiationNeeded(e) PROVE Negotiating'
  <2>1. Current(e) = e \/ Current(e) \notin Elements
    BY <1>9, CurrentIsOwn DEF NegotiationNeeded
  <2>2. \A d \in Elements : d # e => wanted'[d] = wanted[d]
    BY <1>9, <2>1 DEF NegotiationNeeded
  <2>3. \A d \in Elements :
           app_state'[d[1]] = IF d[1] = e[1] THEN PEER_CALL_NEGOTIATING
                                             ELSE app_state[d[1]]
    BY <1>9, ElementPairs DEF NegotiationNeeded, TypeOK
  <2> QED
    BY <1>9, <2>2, <2>3 DEF NegotiationNeeded, Negotiating, conn
<1>10. ASSUME NEW e \in Elements, OfferCreated(e) PROVE Negotiating'
  <2>1. wanted'[e] # 1
    <3>1. wanted[e] \in Nat /\ wanted[e] <= 1 /\ wanted'[e] = wanted[e] - 1
      BY <1>10 DEF OfferCreated, TypeOK, OneOffer
    <3> QED
      BY <3>1
  <2>2. \A d \in Elements : d # e => wanted'[d] = wanted[d]
    BY <1>10 DEF OfferCreated, TypeOK
  <2> QED
    BY <1>10, <2>1, <2>2 DEF OfferCreated, Negotiating, conn
<1>11. ASSUME NEW e \in Elements, SendsOffer(e) \/ SendsCandidate(e)
       PROVE  Negotiating'
  <2>1. CASE Cleanup(All(APP_STATE_ERROR))
    BY <1>b, <2>1, CleanupCuts
  <2>2. CASE ~Cleanup(All(APP_STATE_ERROR))
    BY <1>11, <2>2 DEF SendsOffer, SendsCandidate, Sends, NotInCall, Negotiating
  <2> QED
    BY <2>1, <2>2
<1> QED
    BY NextCases, <1>1, <1>2, <1>3, <1>4, <1>5, <1>6, <1>7, <1>8, <1>9, <1>10,
       <1>11 DEF Aside

\* The description is set in on_offer_created, which ends with the sending.
LEMMA OfferComesStep ==
    ASSUME TypeOK, Existing, CallsOnline, calls <= 1, calls' <= 1, OneOffer,
           OfferComes, [Next]_vars
    PROVE  OfferComes'
<1> USE DEF elements, out
<1>a. ASSUME calls = 0, described' = described, offering' = offering PROVE OfferComes'
  <2>1. described' \subseteq Elements /\ offering' \subseteq Elements
    BY <1>a DEF TypeOK
  <2>2. \A e \in Elements : e \notin described' /\ e \notin offering'
    BY <1>a, NothingYet DEF Untouched
  <2> QED
    BY <2>1, <2>2 DEF OfferComes
<1>b. ASSUME ~CanSend' PROVE OfferComes'
    BY <1>b DEF OfferComes
<1>c. calls = 0 \/ calls = 1
    BY CallsAssumption DEF TypeOK
<1>d. calls > 0 <=> calls # 0
    BY <1>c
<1>e. \A e \in offering : e[1] \in Streams
    BY ElementPairs DEF TypeOK
<1>1. CASE Connected \/ Registered
    BY <1>1, <1>a, <1>d DEF Connected, Registered, CallsOnline
<1>2. CASE NotConnected \/ NotRegistering \/ SdpWithoutType \/ ErrorText
    BY <1>2, <1>b, CleanupCuts DEF NotConnected, NotRegistering, SdpWithoutType, ErrorText
<1>3. CASE ServerCloses \/ Closed
    BY <1>3, <1>b DEF ServerCloses, Closed, CanSend
<1>4. CASE SessionOk
  <2>1. calls = 0
    BY <1>4, <1>c DEF SessionOk
  <2> QED
    BY <1>4, <2>1, <1>a DEF SessionOk
<1>5. ASSUME NEW s \in Streams, PeerAnswers(s) PROVE OfferComes'
  <2>1. \A e \in offering :
           app_state'[e[1]] = IF e[1] = s THEN PEER_CALL_STARTED ELSE app_state[e[1]]
    BY <1>5, <1>e DEF PeerAnswers, Answered, TypeOK
  <2>2. PEER_CALL_STARTED >= PEER_CALL_NEGOTIATING
    BY DEF PEER_CALL_STARTED, PEER_CALL_NEGOTIATING
  <2> QED
    BY <1>5, <2>1, <2>2 DEF PeerAnswers, Answered, OfferComes, conn, CanSend
<1>6. CASE \/ SdpAborts \/ LoopEnds \/ Exits \/ \E e \in Elements : OfferAsserts(e)
           \/ UNCHANGED vars
    BY <1>6 DEF SdpAborts, LoopEnds, Exits, OfferAsserts, vars, conn, OfferComes, CanSend
<1>7. CASE \E s \in Streams : Starts(s) \/ StopsPipe(s)
    BY <1>7 DEF Starts, StopsPipe, conn, OfferComes, CanSend
<1>8. CASE \E s \in Streams : StartFails(s)
    BY <1>8, <1>b, CleanupCuts DEF StartFails
<1>9. ASSUME NEW e \in Elements, NegotiationNeeded(e) PROVE OfferComes'
  <2>1. \A d \in offering :
           app_state'[d[1]] = IF d[1] = e[1] THEN PEER_CALL_NEGOTIATING
                                             ELSE app_state[d[1]]
    BY <1>9, <1>e, ElementPairs DEF NegotiationNeeded, TypeOK
  <2>2. PEER_CALL_NEGOTIATING >= PEER_CALL_NEGOTIATING
    BY DEF PEER_CALL_NEGOTIATING
  <2> QED
    BY <1>9, <2>1, <2>2 DEF NegotiationNeeded, OfferComes, conn, CanSend
<1>10. ASSUME NEW e \in Elements, OfferCreated(e) PROVE OfferComes'
  <2>1. at[e] # "none"
    BY <1>10 DEF OfferCreated, Free
  <2>2. \A d \in described' : d \in described \/ d = e
    BY <1>10, <2>1, CurrentIsOwn DEF OfferCreated
  <2>3. offering' = offering \cup {e} /\ UNCHANGED <<app_state, conn, out>>
    BY <1>10 DEF OfferCreated
  <2>4. app_state[e[1]] >= PEER_CALL_NEGOTIATING
    BY <1>10 DEF OfferCreated, PEER_CALL_NEGOTIATING
  <2> QED
    BY <2>2, <2>3, <2>4 DEF OfferComes, conn, CanSend
<1>11. ASSUME NEW e \in Elements, SendsOffer(e) PROVE OfferComes'
  <2>1. CASE NotInCall(e, offered)
    BY <1>b, <2>1, CleanupCuts DEF NotInCall
  <2>2. CASE Sends(e, {e}, offered)
    BY <1>11, <2>2 DEF SendsOffer, Sends, OfferComes, CanSend
  <2> QED
    BY <1>11, <2>1, <2>2 DEF SendsOffer
<1>12. ASSUME NEW e \in Elements, SendsCandidate(e) PROVE OfferComes'
  <2>1. CASE NotInCall(e, ahead)
    BY <1>b, <2>1, CleanupCuts DEF NotInCall
  <2>2. CASE Sends(e, {e} \ offered, ahead)
    BY <1>12, <2>2 DEF SendsCandidate, Sends, OfferComes, CanSend
  <2> QED
    BY <1>12, <2>1, <2>2 DEF SendsCandidate
<1> QED
    BY NextCases, <1>1, <1>2, <1>3, <1>4, <1>5, <1>6, <1>7, <1>8, <1>9, <1>10,
       <1>11, <1>12 DEF Aside

\* A candidate goes out after its element's offer: its thread is not inside of
\* on_offer_created when it has one to send.
LEMMA AheadStep ==
    ASSUME calls <= 1, OfferComes, ahead = {}, [Next]_vars
    PROVE  ahead' = {}
<1> USE DEF elements, out
<1>1. CASE Aside \/ SessionOk
    BY <1>1, AsideFrame DEF SessionOk
<1>2. CASE \E s \in Streams : Starts(s) \/ StartFails(s) \/ StopsPipe(s)
    BY <1>2 DEF Starts, StartFails, StopsPipe
<1>3. CASE \E e \in Elements : NegotiationNeeded(e) \/ OfferCreated(e) \/ SendsOffer(e)
    BY <1>3 DEF NegotiationNeeded, OfferCreated, SendsOffer
<1>4. ASSUME NEW e \in Elements, SendsCandidate(e) PROVE ahead' = {}
  <2>1. e \in described /\ e \notin offering
    BY <1>4 DEF SendsCandidate, Free
  <2>2. CanSend => e \in offered
    BY <2>1 DEF OfferComes
  <2> QED
    BY <1>4, <2>2 DEF SendsCandidate, Sends, NotInCall
<1> QED
    BY NextCases, <1>1, <1>2, <1>3, <1>4

\* Only on_offer_created aborts on its state, and what it asserts holds during
\* the first call.
LEMMA AssertionStep ==
    ASSUME TypeOK, calls <= 1 => FirstCall, AssertionInCall, [Next]_vars
    PROVE  AssertionInCall'
<1>1. ASSUME NEW e \in Elements, OfferAsserts(e) PROVE AssertionInCall'
  <2> SUFFICES ASSUME ~(calls > 1), loop = "running", ws = "open" PROVE FALSE
    BY <1>1 DEF OfferAsserts, AssertionInCall
  <2>1. FirstCall
    BY CallsAssumption DEF TypeOK
  <2>2. wanted[e] \in Nat /\ wanted[e] > 0 /\ wanted[e] <= 1
    BY <1>1, <2>1 DEF OfferAsserts, TypeOK, FirstCall, OneOffer
  <2>3. wanted[e] = 1
    BY <2>2
  <2> QED
    BY <1>1, <2>1, <2>3 DEF OfferAsserts, FirstCall, Negotiating
<1>2. CASE UNCHANGED vars
    BY <1>2 DEF vars, conn, AssertionInCall
<1>3. CASE /\ Next
           /\ ~ \E e \in Elements : OfferAsserts(e)
  <2>1. process = "up" => process' # "aborted"
    <3> USE DEF conn
    <3>1. CASE Network
      BY <1>3, <3>1 DEF Network, Connected, NotConnected, ServerCloses, Registered,
         NotRegistering, SessionOk, SdpWithoutType, SdpAborts, PeerAnswers, Answered,
         ErrorText, Cleanup
    <3>2. CASE Main
      BY <3>2 DEF Main, Closed, Starts, StartFails, StopsPipe, LoopEnds, Exits, Cleanup
    <3>3. CASE \E e \in Elements : NegotiationNeeded(e) \/ OfferCreated(e)
      BY <3>3 DEF NegotiationNeeded, OfferCreated
    <3>4. CASE \E e \in Elements : SendsOffer(e) \/ SendsCandidate(e)
      BY <3>4 DEF SendsOffer, SendsCandidate, Sends, NotInCall, Cleanup
    <3> QED
      BY <1>3, <3>1, <3>2, <3>3, <3>4 DEF Next, Offers
  <2>2. process = "up"
    <3>1. CASE Network
      BY <3>1 DEF Network, Connected, NotConnected, ServerCloses, Registered,
         NotRegistering, SessionOk, SdpWithoutType, SdpAborts, PeerAnswers, Answered,
         ErrorText, Hears, Dispatches, Up
    <3>2. CASE Main
      BY <3>2 DEF Main, Closed, Starts, StartFails, StopsPipe, LoopEnds, Exits,
         Dispatches, Up
    <3>3. CASE \E e \in Elements : Offers(e) \/ SendsCandidate(e)
      BY <3>3 DEF Offers, NegotiationNeeded, OfferCreated, OfferAsserts, SendsOffer,
         SendsCandidate, Free, Up
    <3> QED
      BY <1>3, <3>1, <3>2, <3>3 DEF Next
  <2> QED
    BY <2>1, <2>2 DEF AssertionInCall
<1> QED
    BY <1>1, <1>2, <1>3

LEMMA SenderInit ==
    ASSUME Init PROVE SenderInv
<1> USE DEF Init, All
<1>1. TypeOK
  <2>1. 0 \in 0 .. MaxCalls /\ 0 \in 0 .. NStreams /\ 0 \in Nat
    BY CallsAssumption, StreamsAssumption
  <2>2. app_state \in [Streams -> States]
    BY DEF States
  <2> QED
    BY <2>1, <2>2 DEF TypeOK
<1>2. Existing
    BY DEF Existing, Untouched
<1>3. ToStart /\ CallsOnline /\ AssertionInCall
    BY DEF ToStart, CallsOnline, AssertionInCall
<1>4. OneOffer
  <2>1. 0 <= 1 /\ 0 # 1
    OBVIOUS
  <2> QED
    BY <2>1 DEF OneOffer, Untouched
<1>5. Negotiating /\ OfferComes
    BY DEF Negotiating, OfferComes, CanSend
<1> QED
    BY <1>1, <1>2, <1>3, <1>4, <1>5 DEF SenderInv, FirstCall

\* Every step keeps the whole invariant.
LEMMA SenderStep ==
    ASSUME SenderInv, [Next]_vars PROVE SenderInv'
<1> USE DEF SenderInv
<1>1. ASSUME calls' <= 1 PROVE FirstCall'
  <2>1. calls <= 1
    <3>1. calls \in Nat
      BY CallsAssumption DEF TypeOK
    <3> QED
      BY <1>1, <3>1, CallsGrow
  <2> QED
    BY <1>1, <2>1, OneOfferStep, NegotiatingStep, OfferComesStep, AheadStep
       DEF FirstCall
<1> QED
    BY <1>1, TypeStep, ExistingStep, ToStartStep, CallsOnlineStep, AssertionStep

\* The sender is in one of its states at every time, whatever order texts,
\* signals and promises come in, for any number of pipelines and calls.
THEOREM TypeCorrect == Spec => []TypeOK
<1>1. TypeOK /\ [Next]_vars => TypeOK'
    BY TypeStep
<1>2. Init => TypeOK
    BY SenderInit DEF SenderInv
<1> QED
    BY <1>1, <1>2, PTL DEF Spec

\* SenderInv is an invariant of the sender.
THEOREM SenderInvariant == Spec => []SenderInv
BY SenderInit, SenderStep, PTL DEF Spec

\* In the first call the peer hears of no candidate before the offer it belongs
\* to, for any number of pipelines.
THEOREM OfferFirstCorrect == Spec => []OfferFirst
<1>1. SenderInv => OfferFirst
    BY DEF SenderInv, FirstCall, OfferFirst
<1> QED
    BY <1>1, SenderInvariant, PTL

\* The assertion of on_offer_created1..3 can fail only after the end of the
\* first call, whatever the other streams and the answers do.
THEOREM AssertionInCallCorrect == Spec => []AssertionInCall
<1>1. SenderInv => AssertionInCall
    BY DEF SenderInv
<1> QED
    BY <1>1, SenderInvariant, PTL

-----------------------------------------------------------------------------
(* The states agree                                                          *)

ServerSide == SERVER_CONNECTING .. SERVER_CLOSED

\* Before the first call the states are always set together; from then on the
\* first one is no state of the server's side, unless the loop is to end.
Together ==
    loop = "running" =>
        /\ calls = 0 => \A s \in Streams : app_state[s] = app_state[1]
        /\ calls > 0 => app_state[1] \notin ServerSide

LEMMA AllTogether ==
    ASSUME NEW x, app_state' = All(x) PROVE \A s \in Streams : app_state'[s] = app_state'[1]
<1>1. 1 \in Streams
    BY StreamsAssumption DEF Streams
<1> QED BY <1>1 DEF All

LEMMA TogetherStep ==
    ASSUME SenderInv, Together, [Next]_vars PROVE Together'
<1> USE DEF Together, TypeOK
<1>0. /\ 1 \in Streams /\ calls \in 0 .. MaxCalls /\ TypeOK
      /\ PEER_CONNECTED \notin ServerSide /\ PEER_CALL_NEGOTIATING \notin ServerSide
      /\ PEER_CALL_STARTED \notin ServerSide
    BY StreamsAssumption DEF Streams, SenderInv, ServerSide, SERVER_CONNECTING, SERVER_CLOSED,
       PEER_CONNECTED, PEER_CALL_NEGOTIATING, PEER_CALL_STARTED
\* The loop is left, or nothing happens to the states.
<1>1. ASSUME calls' = calls, loop' # "running" \/ UNCHANGED <<loop, app_state>>
      PROVE  Together'
    BY <1>1
<1>2. CASE NotConnected \/ NotRegistering \/ SdpWithoutType \/ ErrorText \/ Closed
    <2>1. calls' = calls /\ loop' # "running"
        BY <1>2 DEF NotConnected, NotRegistering, SdpWithoutType, ErrorText, Closed, Cleanup
    <2> QED BY <1>1, <2>1
<1>3. CASE ServerCloses \/ SdpAborts \/ LoopEnds \/ Exits \/ UNCHANGED vars
    <2>1. calls' = calls /\ (loop' # "running" \/ UNCHANGED <<loop, app_state>>)
        BY <1>3 DEF ServerCloses, SdpAborts, LoopEnds, Exits, vars, conn
    <2> QED BY <1>1, <2>1
<1>4. CASE Connected \/ Registered
    <2>1. calls = 0
        BY <1>0, <1>4 DEF Connected, Registered, SenderInv, CallsOnline
    <2>2. calls' = calls /\ \E x : app_state' = All(x)
        BY <1>4 DEF Connected, Registered
    <2> QED BY <2>1, <2>2, AllTogether
<1>5. ASSUME NEW s \in Streams, PeerAnswers(s) PROVE Together'
    <2>1. /\ calls' = calls /\ loop' = loop /\ calls > 0
          /\ app_state'[1] \in {app_state[1], PEER_CALL_STARTED}
        BY <1>0, <1>5 DEF PeerAnswers, Answered, conn
    <2> QED BY <1>0, <2>1
<1>6. CASE SessionOk
    <2>1. calls' = calls + 1 /\ app_state'[1] = PEER_CONNECTED
        BY <1>0, <1>6 DEF SessionOk, All
    <2> QED BY <1>0, <2>1
<1>7. ASSUME NEW s \in Streams, Starts(s) \/ StartFails(s) \/ StopsPipe(s) PROVE Together'
    <2>1. calls' = calls /\ (loop' # "running" \/ UNCHANGED <<loop, app_state>>)
        BY <1>7 DEF Starts, StartFails, StopsPipe, Cleanup, conn
    <2> QED BY <1>1, <2>1
<1>8. ASSUME NEW e \in Elements, NegotiationNeeded(e) PROVE Together'
    <2>1. /\ calls' = calls /\ loop' = loop /\ at[e] # "none"
          /\ app_state'[1] \in {app_state[1], PEER_CALL_NEGOTIATING}
        BY <1>0, <1>8 DEF NegotiationNeeded, conn
    <2>2. e[2] <= calls /\ e[2] \in 1 .. MaxCalls
        BY <2>1, ElementPairs DEF SenderInv, Existing
    <2>3. calls > 0
        BY <1>0, <2>2
    <2> QED BY <1>0, <2>1, <2>3
<1>9. ASSUME NEW e \in Elements, OfferCreated(e) \/ OfferAsserts(e) PROVE Together'
    <2>1. calls' = calls /\ UNCHANGED <<loop, app_state>>
        BY <1>9 DEF OfferCreated, OfferAsserts, conn
    <2> QED BY <1>1, <2>1
<1>10. ASSUME NEW e \in Elements, SendsOffer(e) \/ SendsCandidate(e) PROVE Together'
    <2>1. calls' = calls /\ (loop' # "running" \/ UNCHANGED <<loop, app_state>>)
        BY <1>10 DEF SendsOffer, SendsCandidate, Sends, NotInCall, Cleanup
    <2> QED BY <1>1, <2>1
<1> QED
    BY <1>2, <1>3, <1>4, <1>5, <1>6, <1>7, <1>8, <1>9, <1>10 DEF Next, Network, Main, Offers

\* As long as a text may find app_state1 in a state of the server's side the
\* three states agree, for any number of streams and calls: on_server_message
\* looks at the first one only.
THEOREM StatesAgreeCorrect == Spec => []StatesAgree
<1>1. Init => Together
    <2>1. 1 \in Streams
        BY StreamsAssumption DEF Streams
    <2>2. Init => calls = 0
        BY DEF Init
    <2> QED BY <2>1, <2>2 DEF Init, Together, All
<1>2. SenderInv /\ Together => StatesAgree
    <2>1. SenderInv => calls = 0 \/ calls > 0
        BY CallsAssumption DEF SenderInv, TypeOK
    <2> QED BY <2>1 DEF Together, StatesAgree, ServerSide
<1>3. SenderInv /\ Together /\ [Next]_vars => Together'
    BY TogetherStep
<1> QED
    BY <1>1, <1>2, <1>3, SenderInvariant, PTL DEF Spec
=============================================================================
