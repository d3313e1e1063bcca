------------------------------ MODULE JsonText ------------------------------
(* jsoncpp as testclient.cpp uses it: Reader::parse with the features of     *)
(* Features::all, and writeString with the defaults of StreamWriterBuilder.  *)
(*                                                                           *)
(* A text is a sequence of bytes.  A value is a pair of its kind and what it *)
(* holds; a double is the digits it was written with.  Comments are skipped: *)
(* jsoncpp keeps them with the values, and the program never looks.          *)
EXTENDS Bytes, TLC

CONSTANTS
    StackLimit,  \* stackLimit_g, 1000 in the code
    MaxInt,      \* Value::maxInt, 2^31 - 1
    MaxLargest,  \* Value::maxLargestInt, 2^63 - 1
    Overflowing  \* texts of numbers that are too large for a double, as 1e999

ASSUME StackLimitAssumption == StackLimit \in Nat \ {0}
ASSUME WidthAssumption == MaxInt \in Nat /\ MaxLargest \in Nat /\ MaxInt <= MaxLargest
ASSUME OverflowingAssumption == Overflowing \subseteq Seq(Byte)

TAB == 9
LF == 10
CR == 13
Space == 32
QuoteMark == 34
Plus == 43
Comma == 44
Minus == 45
Dot == 46
Slash == 47
Star == 42
Colon == 58
Open == 91
Backslash == 92
Close == 93
OpenBrace == 123
CloseBrace == 125

Digits == 48 .. 57
Blanks == {Space, TAB, CR, LF}

TrueWord == <<116, 114, 117, 101>>
FalseWord == <<102, 97, 108, 115, 101>>
NullWord == <<110, 117, 108, 108>>

-----------------------------------------------------------------------------
(* Values                                                                    *)

Null == <<"null", 0>>
Bool(b) == <<"bool", b>>
Int64(n) == <<"int", n>>
UInt64(n) == <<"uint", n>>
Double(text) == <<"real", text>>
Text(s) == <<"string", s>>
Array(elements) == <<"array", elements>>
Object(members) == <<"object", members>>

Kind(v) == v[1]
Of(v) == v[2]

\* operator==, with the Value of a string.
IsText(v, s) == v = Text(s)

Compound(v) == Kind(v) \in {"array", "object"}
Empty(v) == DOMAIN Of(v) = {}

\* JSON_ASSERT_MESSAGE and JSON_FAIL_MESSAGE throw.
Throws == <<"throws", 0>>

\* operator[] of a name: a null answers with null; what is no object throws.
Member(v, name) ==
    IF Kind(v) = "object"
      THEN IF name \in DOMAIN Of(v) THEN Of(v)[name] ELSE Null
    ELSE IF v = Null THEN Null ELSE Throws

Bytewise(s, t) ==
    \E k \in 0 .. Len(s) :
        /\ k <= Len(t) /\ SubSeq(s, 1, k) = SubSeq(t, 1, k)
        /\ k < Len(t) /\ (k = Len(s) \/ s[k + 1] < t[k + 1])

\* A std::map is in the order of CZString: memcmp, then the length.
NthName(v, k) ==
    CHOOSE name \in DOMAIN Of(v) :
        Cardinality({other \in DOMAIN Of(v) : Bytewise(other, name)}) = k - 1

\* uintToString
Decimal(n) ==
    LET digits[m \in Nat] ==
            (IF m < 10 THEN <<>> ELSE digits[m \div 10]) \o <<48 + (m % 10)>>
    IN  digits[n]

SignedDecimal(n) == IF n < 0 THEN <<Minus>> \o Decimal(-n) ELSE Decimal(n)

\* valueToString writes the 17 digits that tell a double from every other one:
\* they stand for the same double as the digits it was read from.
AsString(v) ==
    CASE Kind(v) = "null" -> Text(<<>>)
      [] Kind(v) = "bool" -> Text(IF Of(v) THEN TrueWord ELSE FalseWord)
      [] Kind(v) \in {"int", "uint"} -> Text(SignedDecimal(Of(v)))
      [] Kind(v) \in {"real", "string"} -> Text(Of(v))
      [] OTHER -> Throws

-----------------------------------------------------------------------------
(* Tokens                                                                    *)

\* getNextChar answers 0 at the end.
Char(t, i) == IF i <= Len(t) THEN t[i] ELSE 0

\* The first place from i on that holds none of these.
After(t, i, bytes) ==
    CHOOSE j \in i .. Len(t) + 2 :
        /\ Char(t, j) \notin bytes
        /\ \A k \in i .. j - 1 : Char(t, k) \in bytes

\* readString: the place behind the quote, 0 if there is none.
StringEnd(t, i) ==
    LET from[j \in 1 .. Len(t) + 3] ==
            IF j > Len(t) THEN 0
            ELSE IF t[j] = QuoteMark THEN j + 1
            ELSE IF t[j] = Backslash THEN from[j + 2]
            ELSE from[j + 1]
    IN  from[i]

\* readComment, with i at the star or the second slash; 0 if it does not end.
CommentEnd(t, i) ==
    LET places == {j \in i + 1 .. Len(t) :
                      IF Char(t, i) = Star
                        THEN Char(t, j) = Star /\ Char(t, j + 1) = Slash
                        ELSE Char(t, j) \in {LF, CR}}
        first == CHOOSE j \in places : \A k \in places : j <= k
    IN  IF Char(t, i) \notin {Star, Slash} THEN 0
        ELSE IF places = {} THEN (IF Char(t, i) = Slash THEN Len(t) + 1 ELSE 0)
        ELSE IF \/ Char(t, i) = Star
                \/ Char(t, first) = CR /\ Char(t, first + 1) = LF
               THEN first + 2
        ELSE first + 1

\* readNumber: the end of the whole number, of the fraction behind it, and of
\* the exponent behind that.
FractionEnd(t, i) == IF Char(t, i) = Dot THEN After(t, i + 1, Digits) ELSE i

ExponentEnd(t, i) ==
    IF Char(t, i) \in {69, 101}
      THEN After(t, IF Char(t, i + 1) \in {Plus, Minus} THEN i + 2 ELSE i + 1, Digits)
      ELSE i

NumberEnd(t, i) == ExponentEnd(t, FractionEnd(t, After(t, i, Digits)))

Punctuation ==
    [c \in {OpenBrace, CloseBrace, Open, Close, Comma, Colon} |->
        CASE c = OpenBrace -> "{" [] c = CloseBrace -> "}"
          [] c = Open -> "[" [] c = Close -> "]"
          [] c = Comma -> "," [] c = Colon -> ":"]

\* By their first characters.
Words ==
    [c \in {116, 102, 110} |->
        CASE c = 116 -> TrueWord [] c = 102 -> FalseWord [] c = 110 -> NullWord]

Token(type, start, stop) == [type |-> type, start |-> start, stop |-> stop]

\* What went wrong has a place to go on from, too.
TokenIf(type, start, stop, otherwise) ==
    IF stop # 0 THEN Token(type, start, stop) ELSE Token("error", start, otherwise)

\* Where the word that begins with this character ends, 0 if it is another one.
WordEnd(t, s) ==
    LET word == Words[t[s]]
    IN  IF s + Len(word) <= Len(t) + 1 /\ SubSeq(t, s, s + Len(word) - 1) = word
          THEN s + Len(word) ELSE 0

\* readToken, behind the blanks: the type, where it starts, and where the next
\* one is read.
TokenFrom(t, s) ==
    CASE Char(t, s) \in DOMAIN Punctuation -> Token(Punctuation[Char(t, s)], s, s + 1)
      [] Char(t, s) = QuoteMark ->
            TokenIf("string", s, StringEnd(t, s + 1), Len(t) + 1)
      [] Char(t, s) = Slash ->
            TokenIf("comment", s, CommentEnd(t, s + 1),
                    IF Char(t, s + 1) = Star \/ s = Len(t) THEN Len(t) + 1 ELSE s + 2)
      [] Char(t, s) \in Digits \cup {Minus} -> Token("number", s, NumberEnd(t, s + 1))
      [] Char(t, s) \in DOMAIN Words -> TokenIf("word", s, WordEnd(t, s), s + 1)
      [] Char(t, s) = 0 -> Token("end", s, IF s > Len(t) THEN Len(t) + 1 ELSE s + 1)
      [] OTHER -> Token("error", s, s + 1)

TokenAt(t, i) == TokenFrom(t, After(t, i, Blanks))

\* skipCommentTokens
NextToken(t, i) ==
    LET from[j \in 1 .. Len(t) + 2] ==
            LET token == TokenAt(t, j)
            IN  IF token.type = "comment" THEN from[token.stop] ELSE token
    IN  from[i]

-----------------------------------------------------------------------------
(* Numbers                                                                   *)

\* Mutant of Fits: the last digit is not looked at.
FitsTenths(value, last, digit, limit) == value <= limit \div 10 /\ (value = limit \div 10 => last)

\* One more digit, before it is multiplied.
Fits(value, last, digit, limit) ==
    \/ value < limit \div 10
    \/ value = limit \div 10 /\ last /\ digit <= limit % 10

\* decodeNumber: what is no integer, or is too large for one, is a double.
DecodedInteger(number) ==
    LET negative == number[1] = Minus
        limit == IF negative THEN MaxLargest + 1 ELSE 2 * MaxLargest + 1
        first == IF negative THEN 2 ELSE 1
        upTo[k \in 0 .. Len(number)] ==
            IF k < first THEN [fits |-> TRUE, n |-> 0]
            ELSE [fits |-> /\ upTo[k - 1].fits
                           /\ number[k] \in Digits
                           /\ Fits(upTo[k - 1].n, k = Len(number), number[k] - 48, limit),
                  n |-> (10 * upTo[k - 1].n + number[k] - 48) % (2 * MaxLargest + 2)]
        n == upTo[Len(number)].n
    IN  IF ~upTo[Len(number)].fits THEN Double(number)
        ELSE IF negative THEN Int64(-n)
        ELSE IF n <= MaxInt THEN Int64(n)
        ELSE UInt64(n)

\* What the stream takes for a number: digits on one side of the dot, and
\* digits behind an exponent.
DoubleForm(number) ==
    LET places == {k \in DOMAIN number : number[k] \in {69, 101}}
        mantissa == IF places = {} THEN DOMAIN number
                    ELSE {k \in DOMAIN number : \A e \in places : k < e}
    IN  /\ \E k \in mantissa : number[k] \in Digits
        /\ places # {} => number[Len(number)] \in Digits

\* decodeDouble: the stream fails on what overflows, too.
DoubleReads(number) == DoubleForm(number) /\ number \notin Overflowing

-----------------------------------------------------------------------------
(* Strings                                                                   *)

HexDigit(c) ==
    CASE c \in Digits -> c - 48
      [] c \in 97 .. 102 -> c - 87
      [] c \in 65 .. 70 -> c - 55
      [] OTHER -> -1

\* decodeUnicodeEscapeSequence, of four digits from i on; -1 is an error.
Unicode(s, i) ==
    IF i + 3 > Len(s) \/ \E k \in 0 .. 3 : HexDigit(s[i + k]) < 0 THEN -1
    ELSE 4096 * HexDigit(s[i]) + 256 * HexDigit(s[i + 1]) + 16 * HexDigit(s[i + 2])
         + HexDigit(s[i + 3])

\* decodeUnicodeCodePoint: the code point and where to go on.  The second of
\* two surrogates is taken as it comes.
CodePoint(s, i) ==
    LET high == Unicode(s, i)
        low == IF /\ Len(s) >= i + 9 /\ s[i + 4] = Backslash /\ s[i + 5] = 117
                 THEN Unicode(s, i + 6) ELSE -1
    IN  IF high \notin 55296 .. 56319 THEN <<high, i + 4>>
        ELSE IF low < 0 THEN <<-1, i>>
        ELSE <<65536 + 1024 * (high % 1024) + (low % 1024), i + 10>>

UTF8(cp) ==
    LET Tailing(unit) == 128 + ((cp \div unit) % 64)
    IN  IF cp <= 127 THEN <<cp>>
        ELSE IF cp <= 2047 THEN <<192 + (cp \div 64), Tailing(1)>>
        ELSE IF cp <= 65535 THEN <<224 + (cp \div 4096), Tailing(64), Tailing(1)>>
        ELSE <<240 + (cp \div 262144), Tailing(4096), Tailing(64), Tailing(1)>>

\* What is behind a backslash, and the character it stands for.
Escapes ==
    [e \in {QuoteMark, Backslash, Slash, 98, 102, 110, 114, 116} |->
        CASE e = 98 -> 8 [] e = 102 -> 12 [] e = 110 -> LF [] e = 114 -> CR
          [] e = 116 -> TAB [] e \in {QuoteMark, Backslash, Slash} -> e]

\* decodeString, of what is between the quotes: its bytes, and whether they
\* are good.
DecodedString(s) ==
    LET Followed(bytes, rest) == [ok |-> rest.ok, of |-> bytes \o rest.of]
        Bad == [ok |-> FALSE, of |-> <<>>]
        from[i \in 1 .. Len(s) + 1] ==
            IF i > Len(s) THEN [ok |-> TRUE, of |-> <<>>]
            ELSE IF s[i] # Backslash THEN Followed(<<s[i]>>, from[i + 1])
            ELSE IF i = Len(s) THEN Bad
            ELSE IF s[i + 1] \in DOMAIN Escapes
                   THEN Followed(<<Escapes[s[i + 1]]>>, from[i + 2])
            ELSE IF s[i + 1] # 117 \/ CodePoint(s, i + 2)[1] < 0 THEN Bad
            ELSE Followed(UTF8(CodePoint(s, i + 2)[1]), from[CodePoint(s, i + 2)[2]])
    IN  from[1]

Hex(n) == IF n < 10 THEN 48 + n ELSE 55 + n

Escaped(c) ==
    IF \E e \in DOMAIN Escapes \ {Slash} : Escapes[e] = c
      THEN <<Backslash, CHOOSE e \in DOMAIN Escapes \ {Slash} : Escapes[e] = c>>
    ELSE IF c < 32 THEN <<Backslash, 117, 48, 48, Hex(c \div 16), Hex(c % 16)>>
    ELSE <<c>>

Joined(parts) ==
    LET upTo[k \in 0 .. Len(parts)] == IF k = 0 THEN <<>> ELSE upTo[k - 1] \o parts[k]
    IN  upTo[Len(parts)]

\* valueToQuotedStringN
Quoted(s) == <<QuoteMark>> \o Joined([k \in DOMAIN s |-> Escaped(s[k])]) \o <<QuoteMark>>

-----------------------------------------------------------------------------
(* Properties                                                                *)

CONSTANT Numerals   \* integers to read, from below to above the limits

ASSUME NumeralsAssumption == Numerals \subseteq Int

\* An integer is read as itself, or left to decodeDouble when there is no integer
\* for it: it is never wrapped around.
IntegersExact ==
    \A n \in Numerals :
        DecodedInteger(SignedDecimal(n)) =
            IF n > 2 * MaxLargest + 1 \/ n < -(MaxLargest + 1) THEN Double(SignedDecimal(n))
            ELSE IF n <= MaxInt THEN Int64(n)
            ELSE UInt64(n)
=============================================================================
