--------------------------- MODULE EasyWebSocket ---------------------------
(* examples/easywsclient.cpp and WebSocketWrapper: the client's end of the   *)
(* websocket.  One thread, WebSocketWrapper::Loop, owns the socket and its   *)
(* buffers; the rest of the program fills `send_queue`.                      *)
(*                                                                           *)
(* A frame on the wire is its header and its payload; one unit stands for    *)
(* either the header or a part of the payload.  WebSocketWire says what the *)
(* bytes of a header are.  A header also says which text frame of its sender *)
(* it is (no), and where in which message its payload begins (message,       *)
(* from), and every part of a payload says its place in its message; neither *)
(* program reads this: it is for the properties.                             *)
EXTENDS Naturals, Sequences

CONSTANTS
    MaxFrames,   \* bound on the frames the server sends
    MaxTraffic,  \* bound on these and the messages the client sends
    MaxLength,   \* bound on the units of a payload
    MaxRecv,     \* the size of a recv, 1500 bytes in the code
    Room         \* how much the socket holds of what the client has sent

ASSUME BoundsAssumption == {MaxFrames, MaxTraffic, MaxLength} \subseteq Nat
ASSUME SocketAssumption == {MaxRecv, Room} \subseteq Nat \ {0}

VARIABLES
    readyState,
    rxbuf, txbuf, receivedData,
    at,          \* where Loop is: in recv or send of poll, at the queue, or in
    second,      \* dispatch; is it the second poll of the round?
    send_queue,
    dispatched,  \* the messages onMessage was called with
    said,        \* how many messages the program has sent
    inWire,      \* from the server, not yet received
    outWire,     \* to the server, not yet read there
    peer,        \* the server's end of the connection
    frames,      \* how many frames the server has sent
    texts,       \* the headers of its text frames
    atServer,    \* the messages that the server has read
    closeRead    \* has it read a close frame?

client == <<readyState, rxbuf, txbuf, receivedData, at, second, dispatched>>
server == <<peer, frames, texts, atServer, closeRead>>
vars == <<client, send_queue, said, inWire, outWire, server>>

-----------------------------------------------------------------------------
(* Frames                                                                    *)

Header(op, fin, n, no, message, from) ==
    [op |-> op, fin |-> fin, n |-> n, no |-> no, message |-> message, from |-> from]

Control(op, n) == Header(op, TRUE, n, 0, 0, 0)

\* The k-th part of a message.
Unit(message, k) == Header("payload", FALSE, 0, 0, message, k)

Payload(message, from, n) == [k \in 1 .. n |-> Unit(message, from + k)]
Frame(header) == <<header>> \o Payload(header.message, header.from, header.n)

\* Does a buffer begin with a whole frame?
Whole(buffer) == buffer # <<>> /\ Len(buffer) > Head(buffer).n
FrameLength(buffer) == 1 + Head(buffer).n

-----------------------------------------------------------------------------
(* The server                                                                *)

Transmits(frame) ==
    /\ peer = "open"
    /\ frames < MaxFrames /\ frames + said < MaxTraffic
    /\ frames' = frames + 1
    /\ inWire' = inWire \o frame

\* Is a message begun and not complete?
Latest == texts[Len(texts)]
Partial == texts # <<>> /\ ~Latest.fin

\* The messages of the server that are complete.
Told == IF texts = <<>> THEN 0
        ELSE IF Latest.fin THEN Latest.message ELSE Latest.message - 1

\* The next frame of a message, the first one (a text frame) or another one.
ServerSends(n, fin) ==
    LET header == Header("text", fin, n, Len(texts) + 1, Told + 1,
                         IF Partial THEN Latest.from + Latest.n ELSE 0)
    IN  /\ texts' = Append(texts, header)
        /\ Transmits(Frame(header))
        /\ UNCHANGED <<client, send_queue, said, outWire, peer, atServer, closeRead>>

\* A control frame, which may come between the frames of a message; "other"
\* is an opcode the client does not know.
ServerControls(op, n) ==
    /\ Transmits(Frame(Control(op, n)))
    /\ peer' = IF op = "close" THEN "closing" ELSE "open"
    /\ UNCHANGED <<client, send_queue, said, outWire, texts, atServer, closeRead>>

PayloadOf(buffer) == SubSeq(buffer, 2, FrameLength(buffer))
Rest(buffer) == SubSeq(buffer, FrameLength(buffer) + 1, Len(buffer))

ServerReads ==
    /\ peer \in {"open", "closing"}
    /\ Whole(outWire)
    /\ outWire' = Rest(outWire)
    /\ atServer' = IF Head(outWire).op = "text"
                   THEN Append(atServer, PayloadOf(outWire)) ELSE atServer
    /\ closeRead' = (closeRead \/ Head(outWire).op = "close")
    /\ UNCHANGED <<client, send_queue, said, inWire, peer, frames, texts>>

\* The server closes the connection; what it has sent comes first.
ServerCloses ==
    /\ peer \in {"open", "closing"}
    /\ peer' = "closed"
    /\ UNCHANGED <<client, send_queue, said, inWire, outWire, frames, texts, atServer,
                   closeRead>>

\* The connection is reset; what has not arrived yet is lost.
ConnectionResets ==
    /\ peer # "reset"
    /\ peer' = "reset"
    /\ \E n \in 0 .. Len(inWire) : inWire' = SubSeq(inWire, 1, n)
    /\ UNCHANGED <<client, send_queue, said, outWire, frames, texts, atServer,
                   closeRead>>

-----------------------------------------------------------------------------
(* The program: WebSocketWrapper::Send                                       *)

Send ==
    /\ frames + said < MaxTraffic
    /\ said' = said + 1
    /\ send_queue' = Append(send_queue, said + 1)
    /\ UNCHANGED <<client, inWire, outWire, server>>

-----------------------------------------------------------------------------
(* poll                                                                      *)

AfterPoll == IF second THEN "dispatch" ELSE "queue"

\* A websocket that is closed is not polled.
PollsClosed ==
    /\ at = "recv"
    /\ readyState = "CLOSED"
    /\ at' = AfterPoll
    /\ UNCHANGED <<readyState, rxbuf, txbuf, receivedData, second, dispatched,
                   send_queue, said, inWire, outWire, server>>

Receiving == at = "recv" /\ readyState # "CLOSED"

\* Mutant of Receives: rxbuf is not kept from one poll to the next.
ReceivesAfresh ==
    /\ Receiving
    /\ \E n \in 1 .. (IF Len(inWire) < MaxRecv THEN Len(inWire) ELSE MaxRecv) :
          /\ rxbuf' = SubSeq(inWire, 1, n)
          /\ inWire' = SubSeq(inWire, n + 1, Len(inWire))
    /\ UNCHANGED <<readyState, txbuf, receivedData, at, second, dispatched,
                   send_queue, said, outWire, server>>

\* recv answers with what has arrived, up to its size, and is called again ...
Receives ==
    /\ Receiving
    /\ \E n \in 1 .. (IF Len(inWire) < MaxRecv THEN Len(inWire) ELSE MaxRecv) :
          /\ rxbuf' = rxbuf \o SubSeq(inWire, 1, n)
          /\ inWire' = SubSeq(inWire, n + 1, Len(inWire))
    /\ UNCHANGED <<readyState, txbuf, receivedData, at, second, dispatched,
                   send_queue, said, outWire, server>>

\* ... until nothing more has arrived (EAGAIN) ...
ReceivesNothing ==
    /\ Receiving
    /\ peer \in {"open", "closing"} \/ (peer = "closed" /\ inWire # <<>>)
    /\ at' = "send"
    /\ UNCHANGED <<readyState, rxbuf, txbuf, receivedData, second, dispatched,
                   send_queue, said, inWire, outWire, server>>

\* ... or the connection has ended.  poll goes on to send all the same.
ConnectionEnds ==
    /\ Receiving
    /\ peer \in {"closed", "reset"}
    /\ inWire = <<>>
    /\ readyState' = "CLOSED"
    /\ at' = "send"
    /\ UNCHANGED <<rxbuf, txbuf, receivedData, second, dispatched, send_queue,
                   said, inWire, outWire, server>>

Flushing == at = "send" /\ txbuf # <<>>

\* send takes as much as the socket has room for, and is called again ...
Flushes ==
    /\ Flushing
    /\ readyState # "CLOSED"
    /\ peer # "reset"
    /\ \E n \in 1 .. Len(txbuf) :
          /\ Len(outWire) + n <= Room
          /\ outWire' = outWire \o SubSeq(txbuf, 1, n)
          /\ txbuf' = SubSeq(txbuf, n + 1, Len(txbuf))
    /\ UNCHANGED <<readyState, rxbuf, receivedData, at, second, dispatched,
                   send_queue, said, inWire, server>>

\* ... until the socket is full ...
FlushBlocks ==
    /\ Flushing
    /\ readyState # "CLOSED"
    /\ peer # "reset"
    /\ Len(outWire) = Room
    /\ at' = AfterPoll
    /\ UNCHANGED <<readyState, rxbuf, txbuf, receivedData, second, dispatched,
                   send_queue, said, inWire, outWire, server>>

\* ... or the connection is at its end: broken, or closed here, in the recv
\* loop of this poll.
FlushFails ==
    /\ Flushing
    /\ readyState = "CLOSED" \/ peer \in {"closed", "reset"}
    /\ readyState' = "CLOSED"
    /\ at' = AfterPoll
    /\ UNCHANGED <<rxbuf, txbuf, receivedData, second, dispatched, send_queue,
                   said, inWire, outWire, server>>

\* Everything is sent; if that was the close frame, the socket is closed.
FlushEnds ==
    /\ at = "send"
    /\ txbuf = <<>>
    /\ at' = AfterPoll
    /\ readyState' = IF readyState = "CLOSING" THEN "CLOSED" ELSE readyState
    /\ UNCHANGED <<rxbuf, txbuf, receivedData, second, dispatched, send_queue,
                   said, inWire, outWire, server>>

-----------------------------------------------------------------------------
(* send and close                                                            *)

\* Mutant of sendData: a websocket that is closing still takes messages.
sendDataAnyway(frame) ==
    txbuf' = IF readyState = "CLOSED" THEN txbuf ELSE txbuf \o frame

sendData(frame) ==
    txbuf' = IF readyState = "OPEN" THEN txbuf \o frame ELSE txbuf

close ==
    IF readyState = "OPEN"
      THEN /\ readyState' = "CLOSING"
           /\ txbuf' = txbuf \o Frame(Control("close", 0))
      ELSE UNCHANGED <<readyState, txbuf>>

\* One message of the queue in a round, with a poll of its own ...
SendsQueued ==
    /\ at = "queue"
    /\ send_queue # <<>>
    /\ send_queue' = Tail(send_queue)
    /\ sendData(Frame(Header("text", TRUE, 1, Head(send_queue), Head(send_queue), 0)))
    /\ at' = "recv"
    /\ second' = TRUE
    /\ UNCHANGED <<readyState, rxbuf, receivedData, dispatched, said, inWire,
                   outWire, server>>

\* ... or none.
QueueEmpty ==
    /\ at = "queue"
    /\ send_queue = <<>>
    /\ at' = "dispatch"
    /\ UNCHANGED <<readyState, rxbuf, txbuf, receivedData, second, dispatched,
                   send_queue, said, inWire, outWire, server>>

-----------------------------------------------------------------------------
(* _dispatchBinary                                                           *)

\* The next whole frame is taken from rxbuf.
Dispatches(ops) ==
    /\ at = "dispatch"
    /\ Whole(rxbuf)
    /\ Head(rxbuf).op \in ops
    /\ rxbuf' = Rest(rxbuf)
    /\ UNCHANGED <<at, second, send_queue, said, inWire, outWire, server>>

\* Mutant of DispatchesData: every frame is a message.
DispatchesUnjoined ==
    /\ Dispatches({"text"})
    /\ dispatched' = Append(dispatched, PayloadOf(rxbuf))
    /\ UNCHANGED <<readyState, txbuf, receivedData>>

\* A text, binary or continuation frame; the last one of a message calls
\* onMessage.
DispatchesData ==
    /\ Dispatches({"text"})
    /\ LET received == receivedData \o PayloadOf(rxbuf)
       IN  IF Head(rxbuf).fin
             THEN /\ dispatched' = Append(dispatched, received)
                  /\ receivedData' = <<>>
             ELSE /\ receivedData' = received
                  /\ UNCHANGED dispatched
    /\ UNCHANGED <<readyState, txbuf>>

\* A ping is answered with its payload.
DispatchesPing ==
    /\ Dispatches({"ping"})
    /\ sendData(<<Control("pong", Head(rxbuf).n)>> \o PayloadOf(rxbuf))
    /\ UNCHANGED <<readyState, receivedData, dispatched>>

DispatchesPong ==
    /\ Dispatches({"pong"})
    /\ UNCHANGED <<readyState, txbuf, receivedData, dispatched>>

\* A close frame, or none of these.
DispatchesClose ==
    /\ Dispatches({"close", "other", "payload"})
    /\ close
    /\ UNCHANGED <<receivedData, dispatched>>

\* No whole frame is there: the round is over.
DispatchReturns ==
    /\ at = "dispatch"
    /\ ~Whole(rxbuf)
    /\ at' = "recv"
    /\ second' = FALSE
    /\ UNCHANGED <<readyState, rxbuf, txbuf, receivedData, dispatched,
                   send_queue, said, inWire, outWire, server>>

-----------------------------------------------------------------------------

Init ==
    /\ readyState = "OPEN"
    /\ rxbuf = <<>> /\ txbuf = <<>> /\ receivedData = <<>>
    /\ at = "recv" /\ second = FALSE
    /\ send_queue = <<>>
    /\ dispatched = <<>>
    /\ said = 0
    /\ inWire = <<>> /\ outWire = <<>>
    /\ peer = "open"
    /\ frames = 0
    /\ texts = <<>>
    /\ atServer = <<>>
    /\ closeRead = FALSE

Server ==
    \/ \E n \in 0 .. MaxLength : \E fin \in BOOLEAN : ServerSends(n, fin)
    \/ ServerControls("ping", MaxLength)
    \/ \E op \in {"pong", "close", "other"} : ServerControls(op, 0)
    \/ ServerCloses
    \/ ConnectionResets

Loop ==
    \/ PollsClosed
    \/ Receives \/ ReceivesNothing \/ ConnectionEnds
    \/ Flushes \/ FlushBlocks \/ FlushFails \/ FlushEnds
    \/ SendsQueued \/ QueueEmpty
    \/ DispatchesData \/ DispatchesPing \/ DispatchesPong \/ DispatchesClose
    \/ DispatchReturns

Next == Server \/ ServerReads \/ Send \/ Loop

\* The thread runs; a recv that is repeated finds what has been sent; and the
\* server reads its socket.
Spec ==
    /\ Init /\ [][Next]_vars
    /\ WF_vars(Loop)
    /\ SF_vars(Receives)
    /\ WF_vars(ServerReads)

-----------------------------------------------------------------------------
(* Properties                                                                *)

\* onMessage is called with the server's messages, one after another and
\* whole, however the network and the server cut them up and whatever control
\* frames come in between; and the server reads the program's.
MessagesIntact ==
    /\ \A i \in DOMAIN dispatched :
            \E t \in DOMAIN texts :
                /\ texts[t].fin /\ texts[t].message = i
                /\ dispatched[i] = Payload(i, 0, texts[t].from + texts[t].n)
    /\ \A i \in DOMAIN atServer : atServer[i] = Payload(i, 0, 1)

\* Nothing is sent after the close frame (RFC 6455, 5.5.1).
NothingAfterClose ==
    LET stream == outWire \o txbuf
    IN  /\ closeRead => stream = <<>>
        /\ \A i \in DOMAIN stream : stream[i].op = "close" => i = Len(stream)

\* The two programs see a pipe of messages, open for as long as neither end
\* has closed it.
Pipe == INSTANCE MessagePipe WITH
    told <- Told,
    heard <- Len(dispatched),
    got <- Len(atServer),
    open <- readyState = "OPEN" /\ peer = "open"

ImplementsPipe == Pipe!PipeSpec
=============================================================================
