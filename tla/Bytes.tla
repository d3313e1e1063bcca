------------------------------- MODULE Bytes -------------------------------
(* Bytes and the numbers they stand for, for the modules that model a format *)
(* on a wire.                                                                *)
EXTENDS Integers, Sequences, FiniteSets

Byte == 0 .. 255

Bit(byte, k) == (byte \div 2 ^ k) % 2

Parity(data, k) == Cardinality({i \in DOMAIN data : Bit(data[i], k) = 1}) % 2

\* The exclusive or of bytes, bit by bit.
Xor(data) ==
    LET from[k \in 0 .. 8] ==
            IF k = 8 THEN 0 ELSE Parity(data, k) + 2 * from[k + 1]
    IN  from[0]

\* A number of less than 2^31 in `width` bytes, the high one first.
BigEndian(number, width) ==
    [i \in 1 .. width |->
        IF width - i > 3 THEN 0 ELSE (number \div 256 ^ (width - i)) % 256]

Number(data) ==
    LET upTo[i \in 0 .. Len(data)] ==
            IF i = 0 THEN 0 ELSE 256 * upTo[i - 1] + data[i]
    IN  upTo[Len(data)]
=============================================================================
