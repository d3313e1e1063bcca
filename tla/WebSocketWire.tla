--------------------------- MODULE WebSocketWire ---------------------------
(* examples/easywsclient.cpp: what is on the wire.  from_url reads the       *)
(* server's response to the handshake; after it there are frames, as         *)
(* sendData writes and _dispatchBinary reads them.                           *)
EXTENDS Bytes

CONSTANT LineMax   \* the characters of `line` that are used, 255 in the code

ASSUME LineAssumption == LineMax \in Nat /\ LineMax > 2

-----------------------------------------------------------------------------
(* The handshake.  Of the characters of a response CR and LF matter, and a   *)
(* "d" is the first byte of a frame.                                         *)

\* How many characters there are in the line that begins after the first
\* `from` of the response: the loop looks at the last two it has read, and at
\* the room in `line`.  0 says that the response has ended first.
LineEnds(response, from, n) ==
    \/ n = LineMax
    \/ response[from + n - 1] = "CR"
    \/ response[from + n] = "LF"

LineLength(response, from) ==
    LET ends == {n \in 2 .. Len(response) - from : LineEnds(response, from, n)}
    IN  IF ends = {} THEN 0
        ELSE CHOOSE n \in ends : \A m \in ends : n <= m

\* Mutant of Connects: a status line that fills `line` is taken for a whole
\* one.
ConnectsAnyway(response) ==
    LET readTo[from \in 0 .. Len(response)] ==
            LET n == LineLength(response, from)
            IN  IF n = 0 THEN 0
                ELSE IF response[from + 1] = "CR" /\ response[from + 2] = "LF"
                  THEN from + n
                  ELSE readTo[from + n]
        status == LineLength(response, 0)
    IN  IF status = 0 THEN 0 ELSE readTo[status]

\* from_url reads a status line, which must not fill `line`, and lines up to
\* an empty one.  What is read then is the whole response; 0 is NULL.  (The
\* status is that of the websocket protocol.)
Connects(response) ==
    LET readTo[from \in 0 .. Len(response)] ==
            LET n == LineLength(response, from)
            IN  IF n = 0 THEN 0
                ELSE IF response[from + 1] = "CR" /\ response[from + 2] = "LF"
                  THEN from + n
                  ELSE readTo[from + n]
        status == LineLength(response, 0)
    IN  IF status \in {0, LineMax} THEN 0 ELSE readTo[status]

-----------------------------------------------------------------------------
(* Frames                                                                    *)

masking_key == <<18, 52, 86, 120>>

-----------------------------------------------------------------------------
(* sendData                                                                  *)

MaskBit(useMask) == IF useMask THEN 128 ELSE 0

\* Mutant of LengthField: 126 is taken for a length.
LengthFieldOffByOne(size, useMask) ==
    IF size < 127 THEN <<size + MaskBit(useMask)>>
    ELSE IF size < 65536 THEN <<126 + MaskBit(useMask)>> \o BigEndian(size, 2)
    ELSE <<127 + MaskBit(useMask)>> \o BigEndian(size, 8)

LengthField(size, useMask) ==
    IF size < 126 THEN <<size + MaskBit(useMask)>>
    ELSE IF size < 65536 THEN <<126 + MaskBit(useMask)>> \o BigEndian(size, 2)
    ELSE <<127 + MaskBit(useMask)>> \o BigEndian(size, 8)

HeaderOf(type, size, useMask) ==
    <<128 + type>> \o LengthField(size, useMask)
        \o (IF useMask THEN masking_key ELSE <<>>)

Masked(data, key) ==
    [i \in DOMAIN data |-> Xor(<<data[i], key[1 + ((i - 1) % 4)]>>)]

\* close
CloseFrame == <<136, 128, 0, 0, 0, 0>>

-----------------------------------------------------------------------------
(* _dispatchBinary                                                           *)

N0(data) == data[2] % 128
IsMasked(data) == data[2] >= 128

header_size(data) ==
    2 + (IF N0(data) = 126 THEN 2 ELSE 0) + (IF N0(data) = 127 THEN 8 ELSE 0)
      + (IF IsMasked(data) THEN 4 ELSE 0)

\* Is more needed before the header can be read?
Incomplete(data) == Len(data) < 2 \/ Len(data) < header_size(data)

LengthOf(data) ==
    IF N0(data) < 126 THEN N0(data)
    ELSE IF N0(data) = 126 THEN Number(SubSeq(data, 3, 4))
    ELSE Number(SubSeq(data, 3, 10))

KeyOf(data) ==
    IF IsMasked(data) THEN SubSeq(data, header_size(data) - 3, header_size(data))
                      ELSE <<0, 0, 0, 0>>

Read(data) ==
    [fin |-> data[1] >= 128, opcode |-> data[1] % 16, N |-> LengthOf(data),
     key |-> KeyOf(data)]

-----------------------------------------------------------------------------
(* Properties                                                                *)

Sizes == {0, 1, 125, 126, 127, 255, 256, 65535, 65536, 65537, 16777216,
          2147483647}

HeaderUnderstood(type, size, useMask) ==
    LET header == HeaderOf(type, size, useMask)
    IN  /\ header_size(header) = Len(header)
        /\ Read(header) =
              [fin |-> TRUE, opcode |-> type, N |-> size,
               key |-> IF useMask THEN masking_key ELSE <<0, 0, 0, 0>>]
        /\ \A n \in 0 .. Len(header) - 1 : Incomplete(SubSeq(header, 1, n))

\* A header that one end writes is the header that the other end reads, for
\* every length on either side of the places where its field gets longer, and
\* a part of a header is never taken for a header.
TypeUnderstood(type, useMask) ==
    \A size \in Sizes : HeaderUnderstood(type, size, useMask)

\* The frame that closes is one, and masking twice changes nothing.
CloseUnderstood ==
    /\ Read(CloseFrame) =
            [fin |-> TRUE, opcode |-> 8, N |-> 0, key |-> <<0, 0, 0, 0>>]
    /\ Len(CloseFrame) = header_size(CloseFrame)
    /\ \A data \in {<<0>>, <<255, 18>>, <<1, 2, 4, 8, 16, 32>>} :
            Masked(Masked(data, masking_key), masking_key) = data

Line(n) == [i \in 1 .. n |-> "c"] \o <<"CR", "LF">>

Response(status, header, next) ==
    Line(status) \o Line(header) \o Line(next) \o Line(0) \o <<"d", "d", "d">>

\* The frames begin where the response ends: a response is read to its empty
\* line and no further, if its lines fit into `line`.  (A longer line is read
\* in pieces: if it is longer by one character the empty line is missed, if
\* by two its end is taken for the empty line.)
ResponseUnderstood ==
    \A status \in 1 .. LineMax - 2 : \A header, next \in 1 .. LineMax - 2 :
        LET response == Response(status, header, next)
        IN  Connects(response) =
                IF status = LineMax - 2 THEN 0 ELSE Len(response) - 3
=============================================================================
