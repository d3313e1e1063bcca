-------------------------- MODULE MCEasyWebSocket --------------------------
(* The websocket for TLC, with the bytes on its wire.                       *)
EXTENDS EasyWebSocket, WebSocketWire

opcode == [text |-> 1, other |-> 3, close |-> 8, ping |-> 9, pong |-> 10]

HeadersUnderstood ==
    [op \in DOMAIN opcode |-> [useMask \in BOOLEAN |-> TypeUnderstood(opcode[op], useMask)]]

\* Every header on its way is read as it was written, the client's masked and
\* the server's not; and what the client receives begins behind the response
\* to its handshake and not one byte earlier or later.
WireUnderstood ==
    /\ \A i \in DOMAIN outWire :
            outWire[i].op # "payload" => HeadersUnderstood[outWire[i].op][TRUE]
    /\ \A i \in DOMAIN inWire :
            inWire[i].op # "payload" => HeadersUnderstood[inWire[i].op][FALSE]
    /\ readyState # "OPEN" => CloseUnderstood
    /\ rxbuf # <<>> => ResponseUnderstood
=============================================================================
