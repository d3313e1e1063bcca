----------------------------- MODULE RobotBase -----------------------------
(* autolabor.cpp: the commands to the base of the robot.                     *)
(*                                                                           *)
(* The speeds are doubles in the code; here a wheel's speed is an integer,   *)
(* in Units of the encoder's pulses.                                         *)
EXTENDS Bytes

CONSTANT Units   \* what one pulse per PID period counts

ASSUME UnitsAssumption == Units \in Nat \ {0}

MAXIMUM_ENCODING == 32

-----------------------------------------------------------------------------
(* The wheels' speeds                                                        *)

Magnitude(x) == IF x < 0 THEN -x ELSE x
Larger(x, y) == IF x < y THEN y ELSE x

\* static_cast<short> drops the fraction, on either side of 0.
Quotient(x, y) == IF x < 0 THEN -((-x) \div y) ELSE x \div y

\* left / radio: more than MAXIMUM_ENCODING is scaled down, with the faster
\* wheel as the measure.
Saturated(x, fastest) ==
    IF fastest <= MAXIMUM_ENCODING * Units
      THEN Quotient(x, Units)
      ELSE Quotient(x * MAXIMUM_ENCODING, fastest)

\* Mutant of Wheels: every wheel is scaled by its own speed.
WheelsAlone(left, right) ==
    <<Saturated(left, Magnitude(left)), Saturated(right, Magnitude(right))>>

Wheels(left, right) ==
    LET fastest == Larger(Magnitude(left), Magnitude(right))
    IN  <<Saturated(left, fastest), Saturated(right, fastest)>>

-----------------------------------------------------------------------------
(* The frames                                                                *)

\* The last byte is the exclusive or of the others.
Framed(length, number, payload) ==
    LET data == <<85, 170, length, number>> \o payload
    IN  Append(data, Xor(data))

\* A short, as two's complement.
Short(n) == BigEndian(n % 65536, 2)

ResetCmd(number) == Framed(2, number, <<5, 0>>)

\* Mutant of SpeedCmd: the length counts the bytes of the speeds only.
SpeedCmdShort(number, left, right) ==
    LET w == Wheels(left, right)
    IN  Framed(5, number, <<1>> \o Short(w[1]) \o Short(w[2]) \o <<0, 0, 0, 0>>)

SpeedCmd(number, left, right) ==
    LET w == Wheels(left, right)
    IN  Framed(9, number, <<1>> \o Short(w[1]) \o Short(w[2]) \o <<0, 0, 0, 0>>)

-----------------------------------------------------------------------------
(* The serial line                                                           *)

\* The flags of a termios that Open names.
Flags == {"CREAD", "CLOCAL", "ICANON", "ECHO", "ECHOE", "ISIG", "INPCK", "IXON",
          "IXOFF", "IXANY", "IGNPAR", "ICRNL", "OPOST"}

\* Mutant of SerialOpen: the processing of what is written stays as it was.
SerialOpenCooked(old, baud, bits, parity, stopbit) ==
    [speed |-> IF baud \in {9600, 19200, 38400, 57600, 115200} THEN baud ELSE 9600,
     size |-> IF bits \in 5 .. 8 THEN bits ELSE 8,
     parity |-> IF parity \in {"EVEN", "ODD"} THEN parity ELSE "NO",
     stop |-> IF stopbit = 2 THEN 2 ELSE 1,
     flags |-> {"CREAD", "CLOCAL"} \cup (old \cap {"OPOST"})]

\* Open: the settings of the line, whatever flags it had before.
SerialOpen(old, baud, bits, parity, stopbit) ==
    [speed |-> IF baud \in {9600, 19200, 38400, 57600, 115200} THEN baud ELSE 9600,
     size |-> IF bits \in 5 .. 8 THEN bits ELSE 8,
     parity |-> IF parity \in {"EVEN", "ODD"} THEN parity ELSE "NO",
     stop |-> IF stopbit = 2 THEN 2 ELSE 1,
     flags |-> (old \cup {"CREAD", "CLOCAL"})
               \ {"ICANON", "ECHO", "ECHOE", "ISIG", "INPCK", "IXON", "IXOFF",
                  "IXANY", "IGNPAR", "ICRNL", "OPOST"}]

\* The kernel's line, external: OPOST puts a carriage return before a line
\* feed, and a byte has as many bits as the line was set to.
Carried(data, settings) ==
    LET bytes(b) == IF b = 10 /\ "OPOST" \in settings.flags THEN <<13, 10>>
                    ELSE <<b % 2 ^ settings.size>>
        upTo[k \in 0 .. Len(data)] ==
            IF k = 0 THEN <<>> ELSE upTo[k - 1] \o bytes(data[k])
    IN  upTo[Len(data)]

-----------------------------------------------------------------------------
(* Reference: what the base's firmware reads in a frame.                     *)

FromShort(data) ==
    LET n == Number(data) IN IF n < 32768 THEN n ELSE n - 65536

\* A frame is 0x55 0xAA, the length of what follows the sequence number, and
\* ends with a byte that makes the exclusive or of all of it 0.
WellFramed(f) ==
    /\ SubSeq(f, 1, 2) = <<85, 170>>
    /\ Len(f) = 4 + f[3] + 1
    /\ \A i \in DOMAIN f : f[i] \in Byte
    /\ Xor(f) = 0

SpeedsOf(f) == <<FromShort(SubSeq(f, 6, 7)), FromShort(SubSeq(f, 8, 9))>>

-----------------------------------------------------------------------------
(* Properties                                                                *)

CONSTANT Speeds   \* the speeds of a wheel to look at

ASSUME SpeedsAssumption == Speeds \subseteq Int

Inputs == Speeds \X Speeds

\* No wheel is faster than MAXIMUM_ENCODING, each runs in its direction, and
\* the two are in the proportion p that was asked for (to less than one pulse):
\* the robot keeps to its curve when it cannot keep its speed.
CurveKept(p, s) ==
    /\ \A i \in 1 .. 2 : /\ Magnitude(s[i]) <= MAXIMUM_ENCODING
                          /\ s[i] * p[i] >= 0
    /\ Magnitude(s[1] * p[2] - s[2] * p[1])
          <= Larger(Magnitude(p[1]), Magnitude(p[2]))

\* What the firmware reads in a command with this number is what was meant.
CommandMeant(cmd, number) ==
    IF cmd = "reset" THEN WellFramed(ResetCmd(number))
    ELSE \A p \in Inputs :
            LET f == SpeedCmd(number, p[1], p[2])
            IN  WellFramed(f) /\ CurveKept(p, SpeedsOf(f))

\* The line is left with 115200 8N1 and nothing that works on the bytes, and
\* carries the bytes of a command as they are.
LineKept ==
    \A old \in {{}, Flags} \cup {{flag} : flag \in Flags} :
        LET settings == SerialOpen(old, 115200, 8, "NO", 1)
        IN  /\ settings = [speed |-> 115200, size |-> 8, parity |-> "NO", stop |-> 1,
                           flags |-> {"CREAD", "CLOCAL"}]
            /\ \A number \in {10, 255} : \A f \in {ResetCmd(number), SpeedCmd(number, 20, -20)} :
                    Carried(f, settings) = f
=============================================================================
