# ULLRC: verification of the signalling server and of the car's programs

ULLRC drives a robot car over WebRTC.  A *car* runs two programs, a video
sender and a data client; a *controller* runs a video receiver and a web page.
They find each other through a *signalling server* that pairs one car with one
controller, separately for video and for data, and then shovels their messages.
This directory holds TLA+ models of the parts of the system, the TLC runs that
check them and the TLAPS proofs about them.  Every definition that models code
is tied to its lines in `PROJECT.json` ("map").

## 1. Inventory

| Component | State it keeps | Operations | Interacts through | Hard behaviour | What makes it correct |
|---|---|---|---|---|---|
| Signalling server (`signalling/signalling-server.py`) | four dicts of peers (car/controller x video/data) with a websocket and a status; two dicts of sessions; one asyncio task per connection | hello, register, `Session` call, relay, clean-up | websockets to all clients | tasks interleave at every await; clean-up of one peer edits the entries of another; reconnection under an old uid | 1-1 sessions; both ends agree; messages go to the other end only; hanging up reaches the other end; a uid becomes free again |
| ChunkQueue (`librtcdcpp/include/rtcdcpp/ChunkQueue.hpp`) | a queue, a flag `stopping`, a mutex and a condition variable | `push`, `wait_and_pop`, `Stop`, `empty` | joins every pair of threads of the library | lost and spurious wake-ups, Stop against blocked consumers | FIFO, no chunk lost or doubled before Stop, nobody sleeps over a chunk, Stop releases everybody |
| Transport wrappers (`NiceWrapper`, `DTLSWrapper`, `SCTPWrapper`) | six threads, their queues, `should_stop` flags, `handshake_complete`, `connectSentData` | `Start`, `Stop`, the loops of the threads, callbacks of libnice and usrsctp | callbacks into each other through `PeerConnection` | start-up by a callback thread while another thread stops; joins; a connect that fails | every thread ends after Stop; nothing is used after it is closed; layers start in order |
| PeerConnection, DataChannel | role, mid, `iceReady`, table of channels by stream id | `ParseOffer`, `GenerateAnswer`, message dispatch, destructor | the three wrappers | the destructor runs against the callbacks of four threads | channels are opened before use; the destructor returns |
| Data car client (`examples/testclient.cpp`, `WebSocketWrapper`) | current peer connection, message queue, detached senders, websocket thread | answer an offer, add candidates, drive the robot, send a file | server, PeerConnection, robot base | a second offer replaces a live connection; messages from three threads; senders that outlive their connection | every offer is answered; candidates go to the connection they belong to; one thread commands the robot at a time |
| Websocket client (`examples/easywsclient.cpp`) | `readyState`, `rxbuf`, `txbuf`, `receivedData` | `from_url`, `poll`, `dispatch`, `send`, `close` | WebSocketWrapper, the server | frames arrive in pieces; the socket blocks, ends or is reset anywhere; frames around a close | messages come out whole, in order and once; nothing follows a close frame |
| JSON library (`examples/jsoncpp.cpp`, `json/`) | the document being read; a global depth counter | `Reader::parse`, `writeString`, `Value` | testclient, on two threads | limits of integers and depth, escapes, what is behind a text | what is written is read back; a text cut short is refused, but for what the residue behind a short one completes; numbers do not wrap |
| Robot base driver (`autolabor.cpp`, `serial.cpp`, `timeout.cpp`) | `msg_seq`, file descriptor | open the line, make a speed or reset command, write | testclient | 8-bit sequence wrap, 16-bit speed, two wheels to scale | speeds saturate in proportion; frame and check byte; sequence |
| Video sender (`sender/webrtc-gstreamer-sender.c`) | one `AppState` per stream, three pipelines, the websocket | main-loop callbacks, signals and promises of webrtcbin | server, GStreamer | callbacks on four threads share the states without a lock; errors in the middle of a negotiation; a second call | offers before candidates; a negotiation is disturbed by nothing but the end of its call; every call is offered; the process ends when told to |
| Video receiver (`video/src/webrtc-gstreamer-receiver.c`, `main.c`) | `AppState`, pipeline, websocket | main-loop callbacks, `setup_call` from the HTTP server | server, GStreamer, HTTP server | a second connection while callbacks of the first are under way; errors that cannot end the main loop | every offer is answered or its connection ends; an answer describes its own call and goes ahead of its candidates; no assertion fails in a call |
| HTTP server, web pages, certificates, logging, other vendored code | - | - | - | pure I/O, rendering or third party | not modelled (a certificate that cannot be made is a step of `DataClient`) |

The older servers (`simple-server-randomConnect.py`,
`server-randomConnect_cmdAndVideo.py`, `backup/`) and their command-line
clients are ancestors of the deployed server and are left out.

## 2. The signalling server

### Modules

* `SignallingServer` - the server.  One variable for the four dicts of peers
  (`peers`), one for the two dicts of sessions (`sessions`), one program
  counter per connection (`pc`) that says at which `await` its task is
  suspended, the peer it is dealing with across that await (`other`), and per
  connection whether it is open (`open`) and how many messages wait in it
  (`unread`).  `told` and `heard` record who was sent SESSION_OK and whose
  messages were relayed to whom; the guards do not read them.
* `Matchmaker` - what the server promises a data peer: join, be matched with
  one free peer of the other role in one step, hang up and thereby end the
  session for both in one step.
* `SignallingAtomic` - the inductive invariant for sends that do not suspend,
  and the refinement mapping from the server to `Matchmaker`.
* `SignallingProofs` - the proofs.
* `MCSignalling` - the populations of clients for TLC.

Each handler is one action per stretch between two awaits; the stretch includes
every exception path.  A `KeyError`, an `AssertionError` or a closed connection
in `connection_handler` runs the `finally` clause in the same step, up to the
next await (`Leave`); `remove_peer` awaits only where `cleanup_session` closes
the other end (`closing`), and its own deletion and close come after that
(`FinishLeave`).  Awaiting a send suspends the task only while the write buffer
of that websocket is full, so `SendMaySuspend` is a constant: FALSE is the
server under light load, TRUE lets any send give up the event loop.

Clients send, fall silent, close or vanish at any time; a connection is used
once and a client that reconnects is another connection with the same uid.

### Runs

| Run | Population, sends | Shows |
|---|---|---|
| `atomic` | 2 data cars, 2 data controllers, unique uids, no suspension; symmetric under the renamings that keep the hellos | `AtomicInv` (the proofs' invariant), symmetry of the sessions, one voice per connection (where nobody reconnects), no dead entries, sessions never redirected |
| `hang_up` | 1 data car, 2 data controllers, no suspension, fairness | a closed connection's task ends and its entry goes (`HandlerEnds`), the other end of a data session is closed (`DataHangUp`), `Matchmaker` is implemented, its fairness included (`KeepsPromise`) |
| `suspend` | 1 data car, 2 data controllers, 1 client with a bad hello, suspension | the relay's assertion and SESSION_OK survive the races between callers |
| `same_uid` | 4 clients, one of each class, one uid, no suspension | types, and that video and data never mix |
| `stale` (violation) | 1 data car, 2 data controllers, suspension | two callers take one callee, a clean-up then raises and a dead entry keeps its uid |
| `assertion` (violation) | a video controller that reconnects | the assertion of line 188 fails: `remove_peer` looks at data sessions only, so the end of a video session is not passed on and the car keeps it |

Bounds.  `MaxUnread = 1` stands for websockets' `max_queue = 16`: a handler
takes one message at a time and does not see how many wait behind it, so one
waiting message (which also outlives the close of its connection) already gives
every order of handling against the other tasks.  Three connections are the
least in which two callers compete for a callee; four give two simultaneous
sessions, or a competitor on either side.  `CHECK_DEADLOCK FALSE` because the
system stops when all connections are over.  `Renamings` (runs `atomic` and
`suspend`) are the permutations of connections and uids under which `Hello` is
the same function; the specification and the invariants mention no connection
or uid by name, so they are symmetric under them.  The runs with fairness use
no symmetry.

Fairness.  `FairSpec` assumes strong fairness of each task and nothing of the
clients.  asyncio keeps ready callbacks in a FIFO queue and runs each of them
once per iteration, so a task that is ready is resumed; strong rather than weak
because in the model a task is not enabled while another one is inside of a
send that does not suspend.

### Proofs

`SignallingProofs` proves in its first part, for every population and for
suspended sends too, `TypeOK`, `OwnersRegistered` (an entry belongs to a client
that said this class and uid and is past its hello) and, from the two,
`RelayStaysInKind`.

`RelayAssertion` and `SessionOkKept` hold with suspended sends as well, provided
that no two clients with a valid hello have the same uid (`UniquePeers`; a client
that is rejected may say any).  Almost nothing that one would say of the
sessions is true then: two callers take one callee, a clean-up raises in the
middle and leaves half of a session behind.  `SuspendInv` therefore says nothing
of the two directions of a session.  It says of each *name* in the dicts of
sessions that it is settled: where it is registered it is marked, and no task
is left that would register it afresh (`SessionsSettled`); that a task in
`pairing` has found a client of the opposite class that is past its hello
(`PairingKnown`); that whoever takes an entry away closes its connection
(`GoneClosed`), while a video peer's entry goes with its own task only
(`VideoRegistered`); and, of who was told SESSION_OK, that it is in a session or
the task that told it is still pairing (`OkInv`).

The second part assumes that all clients' uids are unique and that
sends do not suspend.  `SessionsSymmetric` is not inductive as it stands: a
clean-up removes two entries, and a second clean-up in the middle must not find
a third.  `AtomicInv` adds that at most one task is inside of a send, that a
registered peer that is not marked is in no session, that who has a data
session is registered, that clients in their hello are in no session, and what
a task in `pairing` knows of the callee it found.  From it follow
`SessionsSymmetric`, `UidFreed` and the action property `SessionNotRedirected`.
`OneVoice` says something of clients with a uid of their own only, who cannot
reconnect: a video car keeps its session when its controller goes (the finding of
run `assertion`), and when the controller's uid comes back, on a new connection,
the car may be relayed the messages of both.  `OneVoice` needs memory of the past, and an invariant of its own beside
`AtomicInv`: who has been relayed a message is past its hello, and as long as it
is registered it is marked as in a session, whose other end is the one that was
heard or gone (`VoiceInv`).

`PromiseSafe` is the safety part of the refinement of `Matchmaker`: the states of
the data users, read off the dictionaries, make a step of the promise whenever
they change.  `LeavePromise` is its heart.  A task that ends finds either no
session and takes its entry away (`Depart`, or nothing if it had been hung up
on), or the other end of its session, still registered (`BusyFacts`), and the
two deletions end the session for both (`End`).  `OneToOneCorrect` carries what
the promise is about over to the server: its data sessions are 1-1.

The assumptions are needed: in run `stale` sends suspend and a dead entry keeps
its uid, in run `assertion` two connections share one.  The liveness properties and
the fairness part of the refinement are model-checked only.

## 3. ChunkQueue

`ChunkQueue` has one step per method of `ChunkQueue.hpp`, since every method
holds the mutex throughout; `wait_and_pop` is one step before and one after
`data_cond.wait`, where it gives the mutex up.  A woken thread competes for the
mutex with callers that come later, and wakes up without a notification too.
`Stop` may come at any time and more than once.  `Conveyor` is the promise:
in order, once, as soon as there is a chunk and somebody asks, nothing after
the end, and then an answer for everybody.

Run `chunk_queue` (three consumers, three pushes: a caller can overtake a woken
thread while a third one sleeps) checks the inductive invariant `QueueInv`,
`NoLostWakeup`, `StopReleases` and, with weak fairness of each consumer that
wants the mutex, that the queue implements `Conveyor` with its liveness.

`ChunkQueueProofs` proves `QueueInv` for any number of consumers and pushes,
`NoLostWakeup` and `StopReleases` from it, and the safety part of `Conveyor`.
`NoLostWakeup` is the interesting conjunct: `notify_one` leaves one woken
thread per chunk, a thread that overtakes takes a chunk *and* leaves the woken
one to find less than it was woken for, and so the count of woken threads is
compared with the length of the queue only while somebody sleeps.

## 4. PeerConnection and its transport

`PeerConnection` models the life of one connection from the end of its
constructor: the six threads (`at`), the four `ChunkQueue`s between them, the
three `should_stop` flags, the DTLS handshake (`hs`), `connectSentData`, the
SCTP socket, and the owner, who at any moment may begin the destructor.  The
destructor is the sequence `Script`: `~PeerConnection` calls `Stop` of the SCTP,
DTLS and ICE wrappers, and then the members are destroyed in reverse order of
their declaration, each stopping itself again.  The queues are taken by what
`Conveyor` promises.  Callbacks run on the thread that makes them: `OnIceReady`
on the main loop (and starts the DTLS threads from there), the end of the
handshake on `RunDecrypt` (and starts the SCTP threads from there).

Run `peer_connection` (three packets from the peer: the two flights of the
handshake and one of data, in every order and with repetitions; 66,539 states)
checks

* `NoThreadOutlives` - `RunDecrypt` may start the SCTP threads after
  `SCTPWrapper::Stop`, and the main loop the DTLS threads after
  `DTLSWrapper::Stop`: the second stop, in the wrapper's own destructor, is
  what ends them;
* `LayersInOrder`, `SctpStarts` - the layers come up in order, each thread is
  started once, and when the handshake is done SCTP is started;
* `DestructorReturns` - every join returns, with one exception: when the main
  loop has not begun to run when `g_main_loop_quit` is called
  (NiceWrapper.cpp:223), the quit is lost and the join of the loop never
  returns.

The comment "Unblock the recv thread" in `RunConnect` (SCTPWrapper.cpp:373) does
not hold: a receive thread that is already in `wait_and_pop` is not unblocked by
`should_stop` and `connectCV`; it ends with the destructor's stop of its queue.

`PeerConnectionProofs` proves `NoThreadOutlives` and `LayersInOrder` for any
number of packets and with or without other connections of the process.
`ConnectionInv` adds to the types two groups of facts.  `StepInv` says what
each part of the destructor's script leaves behind: after `DTLSWrapper::Stop` the
main loop can still start the DTLS threads, but only such that end at once
(`Late`); SCTP is started by `RunDecrypt`, which is joined or late by the time its
own wrapper is destroyed; and nothing is started any more once the main loop is
joined.  `LayerInv` says how far the layers have come up, thread by thread.

Fairness: threads are scheduled, and `usrsctp_connect` returns in the end.  The
network and the owner are free.  `OtherSockets` says whether another connection
of the process is alive: `~SCTPWrapper` then repeats `usrsctp_finish` for ever
(its counter `tries` is never incremented).  The runs take it as FALSE; with
TRUE the destructor does not return, which is listed among the hazards.

External, and modelled by what `src/` relies on: OpenSSL's handshake is two
flights each way and drops what is out of turn; usrsctp answers a packet with
at most one packet; libnice runs its callbacks on the main loop's thread.

## 5. The video sender

`VideoSender` has the three states `app_state1..3` (any number of streams,
`NStreams`), the websocket and its reference, the main loop, and one element
`<<s, n>>` for the webrtcbin of stream `s` that the `n`-th SESSION_OK made.  The
main thread runs one callback at a time; every element has its own thread on
which webrtcbin runs its signals and promises in order.  Between the steps of
the main thread and of those threads anything may happen, as in the code, which
takes no lock.  `start_pipeline1..3` are three steps, since the first pipeline
is already negotiating when the second is built.  `on_offer_created` is two
steps: setting the local description, from where on candidates come, and the
sending of the offer.  The peer is assumed to answer what it was offered
(`PeerAnswers`), at any time, also when the offer's call has been replaced; the
handler itself (`Answered`) looks at no state.  An SDP without a type or one that
cannot be parsed may come at any time and ends the call or the process.

A second SESSION_OK is accepted in every state (the check is commented out in
the source): the pipelines are started again and `webrtc1..3` move on to the
new elements while the threads of the old ones run on and use the new globals.
The properties `OfferFirst` and `AssertionInCall` are therefore stated for the
first call; in a second one they fail.

A `ws_conn` that has been unreferenced by `cleanup_and_quit_loop` and is used
again by another thread's callback is undefined: the model continues or ends the
process (`crashed`).

Run `video_sender` (two streams, two SESSION_OKs, errors and closes at any
time) checks `OfferFirst`, `AssertionInCall`, `StatesAgree` and, with fairness of the main thread and of each element's thread, that every
call is offered (`CallOffered`) and that the process ends when the connection
closes or the loop is told to quit (`ProcessEnds`).  Two streams show every
interference between streams; the third runs the same code with another digit.
Two SESSION_OKs show a call replacing another.

`VideoSenderProofs` proves `TypeOK`, `OfferFirst`, `AssertionInCall` and
`StatesAgree` for any number of streams and SESSION_OKs.  None but the first is
inductive.  `SenderInv` adds, for all calls, that only elements that were started have a thread and that
`webrtc1..3` point at such (`Existing`, `ToStart`), and that no registration
happens in a call (`CallsOnline`); for the first call, that each element is asked
for one offer (`OneOffer`: `webrtc1..3` cannot have moved on), that the state of
its stream waits for it while loop and connection last (`Negotiating`: the only
other writers are the answer, which presupposes the offer, and the clean-ups,
which end the loop), and that who has a local description has sent the offer or
is inside of `on_offer_created` (`OfferComes`).  `StatesAgree` follows from
`Together`: before the first call the states are always written together, and
from then on the first of them is no state of the server's side unless the loop
is to end.

## 6. The video receiver

`VideoReceiver` has the one `app_state`, the websockets that were ever opened
(`sock`) with the one that `ws_conn` points at and those that have been
unreferenced, and for each offer that was taken the progress of its webrtcbin
(`at`) and of that webrtcbin's thread in a function that sends (`sending`).  The
requests `ConnectToServer` and `Monitoring` of the web page reach
`checkAndConnect` and `setup_call` on the main loop (`Connect`,
`MonitoringFails`).  `answered` records the websocket that an answer went out on;
it is read only to tell which candidates went `ahead`.

No lock is taken, so a step ends wherever another thread can tell:

* `on_server_connected` is three steps: line 458 overwrites `ws_conn`
  (`Connected`), line 467 writes `app_state` (`EntersConnected`), and
  `register_with_server` looks at the connection again (`Registers`); with an
  error it is two (`NotConnected`, `ConnectFails`);
* `cleanup_and_quit_loop` writes `app_state` in one step and looks at `ws_conn` in
  another (`CleansUp`, `CleanedUp`); on a webrtcbin's thread it also finds a
  connection open in one step and closes whatever `ws_conn` points at in the
  next (`Leaves`, `Drops`);
* `on_answer_created` is its assertion (`AnswerCreated`), the description, set on
  what `webrtc1` points at by then (`SetsDescription`), and `send_sdp_answer`;
* the two functions that send test `app_state` (`TestsAnswer`, `TestsCandidate`)
  and use `ws_conn` later (`SendsAnswer`, `SendsCandidate`);
* an offer is `create_pipeAndwebrtc`, `on_negotiation_needed` and the end of
  `start_pipeline`.

A test of `app_state` by the main thread and the write behind it (`Registered`,
`ErrorText`, `TakesOffer`, `Registers`) are one step.  The threads only ever write
`APP_STATE_ERROR`, which in those places is treated like the states it could
replace or is overwritten.  A thread's write of `APP_STATE_ERROR` and its look at
`ws_conn` behind it are one step as well.

The main loop cannot be left: `main` of `main.c` keeps its loop in a local
variable, so the global `loop` that `cleanup_and_quit_loop` looks at is NULL.  An
error therefore leaves the program running with the state it has set, and a
state like `PEER_CALL_ERROR` is above `PEER_CONNECTED`: the next offer is not
taken, and if there was none before, `g_assert_nonnull (webrtc1)` aborts.

Run `video_receiver` (two requests to connect, two offers) checks

* `AssertionsInCall` - on the first connection, while it is open, no assertion
  on the receiver's own state fails, except for an answer that is created in the
  middle of a clean-up, which has written the state and not closed the
  connection yet;
* `AnswerDescribes` - while the page has connected once, an answer that went out
  is the local description of its own call, although `on_answer_created` sets it
  on the global `webrtc1` (line 212), which every offer that is taken replaces;
* `AnswerFirst` - while the page has connected once, no candidate overtakes its
  call's answer, or goes out when the answer was dropped;
* `OfferAnswered` - an offer that is taken is answered unless a connection ends,
  the page connects again, or the process aborts.

The first three are false once the page connects again, and stated accordingly.
The texts of an earlier call may then go out on the new websocket: line 458 may
come between a thread's test of `app_state` and its use of `ws_conn`, and after a
failed `Monitoring` request `app_state` is `PEER_CALL_ERROR`, which passes both
tests, until line 467.  So an answer may reach another connection than its
offer came on, and a candidate a connection that never gets the answer.  Nothing
in the repository promises otherwise; it is listed among the hazards.  For the
same reason `OfferAnswered` says that the answer goes out and not where.

Types are proved and not checked again.  Two connections and two calls show a
connection and a call being replaced; a third would replace the second in the
same way.

Fairness: the main thread and the webrtcbins' threads are scheduled.  For the
promise of create-answer it is strong (`SF_vars(Answer(n))`), because a thread
that is in the middle of sending a candidate cannot take it: webrtcbin's thread
takes its tasks in their order, so the candidates that come meanwhile do not hold
up the answer for ever.

`VideoReceiverProofs` proves the three safety properties, and the types, for any
number of connections and offers.  The invariant adds the book-keeping of
websockets and webrtcbins (`Counted`) and, for the one connection
(`OneWebsocket`): that before it is open there is nothing (`Before`); that while it
is open there is at most one call, the state follows that call outside of a
clean-up, and no thread leaves the call before the main thread has (`During`);
and that this call is described and answered in order and does not lose its answer
(`InOrder`).  From `During` follows that `webrtc1` is still the call's own webrtcbin
when line 212 is reached.

## 7. The data client and the robot base

`DataClient` is the program on the car: the main thread with its queue
`messages`, `WebSocketWrapper::Loop` between the websocket and the two queues,
and for every connection the main loop of libnice (`Ice`), the receive thread
(`Recv`) and the detached `send_loop`s (`Sender`).  Connection `n` answers offer
`n`.  An offer takes the main thread through the four stages of the constructor
(certificate, DTLS, libnice, SCTP), each of which may throw, through the
assignment that destroys the connection before, `ParseOffer`, the gathering and
the answer; the other threads run in between.  How a connection comes up and is
taken down is `PeerConnection`'s business: here it is up, or stopped, in one
step.  The websocket delivers in order until it is closed, which is what
`MessagePipe` promises (section 8).

`RobotBase` has the two commands of `autolabor.cpp` with their arithmetic, byte
for byte, and the settings that `serial::Open` leaves on the line.  `Bytes` has
what it shares with the texts and the websocket, and `CarCommands` joins the
frames that `DataClient` writes, and the messages it takes, with their bytes.

Run `data_client` (two offers, four messages of the server besides its hello,
one local candidate and one sender per connection, three frames with a
sequence number modulo three; 194,550 states) checks

* `CandidateFindsItsConnection` and `PointerAlive` - candidates of two
  controllers come mixed, and senders keep a plain pointer to a connection that
  an offer may replace.  Both hold for a bad reason.  A second offer reaches one
  car only through the server's race (run `stale`); then the destructor of the
  first connection calls `~SCTPWrapper`, which repeats `usrsctp_finish` while
  another socket is open, and the second connection's is: `tries` is never
  counted (SCTPWrapper.cpp:51).  The main thread stays there for ever.  What that
  hides is a use after free (DataChannel.hpp:78), which the mutant that counts
  `tries` shows, and a candidate of the first controller that would reach the
  second one's connection;
* `FramesPaired` - the robot gets a reset and a speed command in turns, with
  sequence numbers in a row, although each connection has a receive thread and
  none takes a lock;
* `FirstOfferAnswered` - the first offer is answered unless the websocket is
  closed or the process ends, which an exception in any thread makes it do;
* `CommandsMeant`, `MessagesMeant`, `WritingMeant` - the bytes of the frames on the
  line, of the messages in the queue and of the answers mean what they should
  (below, and section 9).

`CommandsMeant` looks, for every frame that was written, at the bytes it stands
for: the length and the check byte fit, the line carries every byte as it is
whatever its settings were before `Open`, and for 44 x 44 pairs of
speeds up to far beyond `MAXIMUM_ENCODING` the firmware reads two speeds within
the limit, in the direction and the proportion that were asked for.  The frames'
reader and the firmware are external; they are the reference.

Bounds: two offers are the least that replace a connection; four messages let
each of them have its candidates; the sequence number wraps at three as it does at
256, within the frames there are.  `CHECK_DEADLOCK FALSE` because the process may end,
and waits for ever once the websocket is closed (it does not connect again).

Fairness: the loop thread, the main thread, the receive threads and the senders
are scheduled.  Nothing is assumed of the server, the controllers, libnice and the
network.

`DataClientProofs` proves, for any number of offers, messages and frames, and
any modulus,

* `LineSafe` (`FramesPaired`), from `OneConnection` - only the connection the main
  thread holds calls back, because its predecessor's threads are joined in the
  assignment - and `PairOpen`: the last frame is a reset just when a receive
  thread is between the two;
* `CandidatesSafe` and `PointersSafe`, from `Stuck` - the main thread does not come
  back from the destructor of the first connection, so nothing is ever freed -
  and `StreamInv`: what is on its way are offers in a row, and candidates behind
  the offer they belong to (which takes lemmas on prefixes and tails of
  sequences).

`CommandsMeantCorrect` is about the bytes: for every set of speeds, every number
of units in a pulse and every modulus that fits a `uint8_t`, and for every frame on
the line.  `Scaled` is the arithmetic of the curve (both quotients are cut
towards 0, so each is off by less than one, and by its own side of 0);
`BytesProofs` gives the rest: the two bytes of a short are read as that short, the
exclusive or of a sequence with its check byte is 0, and the line carries a
sequence of bytes as it is when nothing works on it.  `Xor` and `Carried` are
recursive functions, and what they yield for sequences of every length is proved by
`Induction` of the set of lengths for which it is true.

## 8. The websocket of the car

`EasyWebSocket` is `easywsclient.cpp` under its one user, the thread
`WebSocketWrapper::Loop`, in its rounds: a poll, the queue of messages to send,
another poll, the dispatch.  A frame is a header and up to `MaxLength` units of payload;
the socket gives at most `MaxRecv` units in a `recv` and holds at most `Room` of
what was sent, so frames are cut anywhere.  The server cuts its messages into
frames, mixes in pings, pongs and unknown frames, closes by a close frame or
without, and the connection may be reset at any time, with the loss of a suffix.

So that the properties can be stated, a header says which text frame of its
sender it is and where in which message its payload begins (`no`, `message`,
`from`), and a unit of payload says its place in its message; no guard of either
program looks at these.  `texts` are the headers of the text frames the server has
sent, `atServer` the messages it has read, and `closeRead` whether it has read a close
frame.

`MessagePipe` is what the two programs at its ends rely on: in each direction
messages come out in order and once; while the pipe is open all of them do.

Run `web_socket` (three frames of the server, three messages in all; 159,149
states) checks

* `MessagesIntact` - `onMessage` is called with whole messages in order, however
  they were cut, and so is the server's reader;
* `NothingAfterClose` - nothing is sent after a close frame, although the loop
  dispatches frames and takes messages from the queue after it;
* `ImplementsPipe` - the refinement of `MessagePipe`, with its liveness: the
  thread runs, repeated `recv`s find what was sent, the server reads its socket;
* `WireUnderstood` - `WebSocketWire`'s bytes: headers with lengths around 126 and
  65536 are read back as written, the mask is undone, and `from_url` finds the
  end of the handshake's response exactly, for every response whose lines do not
  fill `line`.  (`Connects` is the reading of lines only: the url, the request and
  the status code in the first line are left out.)

A message in two frames around a control frame needs three frames; with payloads
of no and one unit and a room of two every frame is cut at every place.

`EasyWebSocketProofs` proves the safety of all four for every number and length of
frames, every size of `recv` and every room in the socket.  None is inductive: an
action sees a piece of a buffer, and the property speaks of messages that were
cut into many.  The invariant therefore looks at two streams, `in == rxbuf \o
inWire` and `out == outWire \o txbuf`, which an action cuts or lengthens only at
their ends:

* each stream is whole frames, except that a reset may have cut off its end
  (`Stream`, `Uncut`), and its text frames are numbered in a row (`Chain`, `Ends`);
* `InInv`: every text frame of the server goes on where the one before it ends
  (`TextsLinked`), and for the number `done` of them that have been dispatched,
  the stream begins with the next one, and `dispatched` and `receivedData` are just
  what the first `done` carry (`Received`);
* `OutInv`: what the program has said is, in this order, with the server, in the
  stream, or still queued, as long as the websocket is open; and a close frame is
  the last thing in the stream.

`MessagesIntact` and `NothingAfterClose` are conjuncts of it, and
`ImplementsPipeSafely` shows that every step is one of `MessagePipe` or a stutter.

About the bytes it proves `HeaderRead` - the header of a frame of *every* size below
2^32, of every opcode, masked or not, is read as it was written, where TLC looks
at the sizes around 126 and 65536 - and `MaskedTwice`, for payloads of every length and
every key; and from these, with the response to the handshake, `WireUnderstoodCorrect`,
whatever the size of `line`.

Observations that no property is about: a header line of 256 characters, or a
few more, desynchronises the handshake; when `getaddrinfo` fails `from_url`
goes on with descriptor 1; a `recv` error in the handshake is not seen;
`WebSocketWrapper::Close` has no caller.

## 9. The texts

`JsonText` (tokens, strings, numbers) and `JsonDocument` (values, `Reader::parse`,
`writeString`) are jsoncpp with the features and settings the program uses, over
sequences of bytes; `CarMessages` is what `testclient.cpp` takes a text for and
what it writes.  A name or fixed text of the program is one letter there; of what is
passed on (descriptions, candidates) every byte counts.  They are functions:
nothing of them runs beside them, except for the global `stackDepth_g`, which two
threads count without a lock (listed among the hazards).

Two properties are evaluated in run `data_client`, once a message has arrived.
`MessagesMeant`: for descriptions with every byte that is escaped, a message is taken
for what was sent, byte for byte, whatever is behind it in the buffer (parse reads
`capacity()` bytes); a command has the speeds the page sent; and around the limits an
integer is read as itself or left to be a double, never wrapped.  `WritingMeant`: what the
car writes is read back as the value it was, and a proper prefix of it is refused,
unless it is shorter than 15 bytes and ends inside of a string.  Such a prefix may be
accepted: `parse` copies a short text with the bytes behind it (jsoncpp.cpp:288), and
a string goes on over the NUL at its end into what was in the buffer before.
The limits are small ones in the run (`MaxInt = 7`, `MaxLargest = 127`), and
`Overflowing`, the texts of numbers that `decodeDouble` refuses because a double
overflows, is 1e999.

`MessagesMeant` is proved for every length, number and limit, in `DataClientProofs`
(`MessagesMeantCorrect`):

* `IntegersExactCorrect`: whatever the widths are, an integer of any size comes back
  as itself, or is left to `decodeDouble` when no integer holds it, which takes it
  unless a double overflows (`IntegersExact`).  The proof
  follows `decodeNumber` digit by digit: a digit that is not the last one is taken if
  and only if a tenth of the number read with it is below a tenth of the limit, and the
  last one if and only if the whole number is within the limit; so what is taken is
  never multiplied beyond the width, and the remainder modulo the width changes nothing.
* `StringReadCorrect`: what `valueToQuotedStringN` writes for a string of any bytes is
  read as one string token, wherever it is in a text and whatever is behind it, and
  `decodeString` gives the bytes back.  Both loops are followed from the closing quote
  backwards over the three ways a character is written (as it is, by a letter, in hex).
* `ParseEnds`: `Reader::parse` comes to an end with every text, and what any of its
  functions reads well is in the text and not empty.  `readValue`, `readObject` and
  `readArray` call each other; in `JsonDocument` they are one recursive function over
  their calls.  The proof gives every call a rank, twice the bytes that are left, plus
  one for `readArray` (which calls `readValue` for the place where it is itself), and
  shows that two functions which agree on the calls of lower rank read the same in this
  one; then `BytesProofs` builds the function.  `stackLimit_g` bounds the depth of the
  calls, not their number.
* `MessagesUnderstood`: every message of the server and of a page is taken for what it
  is, byte for byte, for every description and candidate there is.
* `CommandsUnderstoodCorrect`: a command has the two speeds that the page sent, as
  strings or as numbers, for all integers and for all numbers with a fraction or an
  exponent that `decodeDouble` reads.

The last two go by the text that is read: `IsRead(text, value, deep, behind)` says that
wherever this text stands in a document, in front of one of the bytes `behind`, and with
so many calls left below `stackLimit_g`, a call of the parser that begins there reads
this value and ends behind it.  It is shown for strings (in front of anything), for
numbers (only in front of a comma or a brace: a digit behind a number is part of it),
and for an object of any number of members whose names differ and whose members are
read; the messages are objects of one to three members, at most four calls deep
(`DepthAssumption`).  What is behind a short text in the buffer is read by nobody,
because the object ends in front of it.  The texts that are no JSON are no value:
"Session_data" is refused at its first letter.

Not true of the parser, and not claimed: it accepts `{"":1,}`, any token for a
comma after a comment, "-" for 0, and lone surrogates; a document that is not
an object, or nested more than 1000 deep, throws and thereby ends the process.

## 10. What is proved and what is only checked

Proved for all values of the constants: the theorems listed in `PROJECT.json`, in
eight modules; `BytesProofs` holds lemmas only, which the proofs about the robot's
commands and the websocket's wire share.  Every safety property of every passing run
is among them, with one exception below.  They rest on the named assumptions on
constants: types, and of the texts that `stackLimit_g` is at least 4 (it is 1000), that
the wider integer type holds the narrower, and that a speed is a number (`SpeechAssumption`).
Single theorems have these hypotheses besides: `UniquePeers` (`RelayAssertionCorrect`, `SessionOkCorrect`), `UniqueUids` and
`~SendMaySuspend` (the second part of `SignallingProofs`), and `SeqModulus <= 256`
(`CommandsMeantCorrect`; the sequence number is a `uint8_t`).

Model-checked only:

* everything under fairness, with the fairness parts of the refinements of
  `Matchmaker`, `Conveyor` and `MessagePipe` (fairness and ENABLED are out of the
  prover's reach);
* `WritingMeant`: it is about the values of a finite set `Samples`.  For all values it
  would be an induction over what a value is made of, and the set of all JSON values
  cannot be written down without one; `WriteString`, which goes through a value from
  the root down, is well defined for finite values only.

The library's induction theorems take the statement to be proved as a parameter,
which the provers cannot instantiate.  `BytesProofs!Induction` takes the *set* of the
numbers for which it is true instead, so recursive functions (not operators) are
within reach, and so are sequences of every length.  That such a function exists at
all has to be proved first: `BytesProofs!Recursion` does it once, for a function whose
value at x is made of its value at one smaller place (`Recurs`).

`TypeOK` of `DataClient`, `VideoSender`, `VideoReceiver` and `PeerConnection` is
proved and not checked by a run.

## 11. Not modelled

* The contents of descriptions, candidates and packets, beyond what the texts
  of section 9 carry: they are passed on as they are.
* The GStreamer pipelines behind webrtcbin, OpenSSL, usrsctp and libnice: external,
  modelled by what `src/` relies on.
* Incoming media of the video programs: decoding chains, built by a callback that
  looks at no state of the program.
* The HTTP server's file serving and the web pages: I/O and rendering.  (Its
  `do_get` frees a `SoupBuffer` that was not made when the file cannot be
  opened, and looks at an uninitialised `stat` for HEAD.)
* The earlier servers and their test clients: ancestors of the deployed one.
* Of jsoncpp what no program here calls: `OurReader`, the other writers, `Path`.
* Of the robot base `serial::Read` and its timeouts, which have no caller; and
  what the firmware makes of a part of a frame (a short write on the
  non-blocking line, listed among the hazards).
* Command lines, logging and `librtcdcpp.c`, which is a C face of the library
  that no program here uses.

## 12. Plan

1. `VideoCall`: `VideoSender` and `VideoReceiver` through the server's relay - who
   waits for what, and offers of three streams ("offer1".."offer3") against a
   receiver that knows "offer".
2. Proofs: that a text which was cut short outside of a string is never taken for a
   message.  What is left to show is that a function of the parser which reads a part
   of a text well, up to a place before its end, reads the same in the whole text; a
   message ends with its last byte.
3. `DataClient` with short writes on the serial line, once the firmware's reading of
   a partial frame is known.
