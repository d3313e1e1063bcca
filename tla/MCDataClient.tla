---------------------------- MODULE MCDataClient ----------------------------
(* The data client for TLC, with the commands of the robot base it drives    *)
(* and the texts of its messages.                                            *)
EXTENDS CarCommands

\* Half pulses, up to and beyond MAXIMUM_ENCODING on either side.
SomeSpeeds == -9 .. 9 \cup 60 .. 70 \cup -70 .. -60 \cup {-300, 141, 300}

\* Every byte that is escaped, line ends as in a description, a text that looks
\* escaped, and bytes of a letter beyond ASCII.
SomeStrings ==
    {<<>>, <<97, CR, LF>>, <<QuoteMark, Backslash>>, <<Backslash, 110>>,
     <<0, 31, 127>>, <<195, 164, Slash>>, <<LF, TAB, 8, 12>>}

\* 0, -1, 0.5, -0.2 and 1e-7
SomeSpeech ==
    {<<48>>, <<Minus, 49>>, <<48, Dot, 53>>, <<Minus, 48, Dot, 50>>,
     <<49, 101, Minus, 55>>}

\* Every kind of value, empty and in another; {"b": "a"} is short enough to be cut
\* in a string.
SomeSamples ==
    {Null, Bool(TRUE), Int64(-8), UInt64(200), Array(<<>>),
     Array(<<Int64(1), Array(<<Null>>), Object(<<QuoteMark>> :> Null)>>),
     Object([name \in {} |-> Null]), Object(<<98>> :> Text(<<97>>)),
     Object((<<>> :> Bool(FALSE)) @@ (<<98>> :> Array(<<Text(<<Close>>), Text(<<>>)>>))
            @@ (<<97, 98>> :> Object(<<>> :> Text(<<CloseBrace>>))))}

\* Around the limits of 8 bits, and with one more digit.
SomeNumerals == -300 .. 300 \cup 2540 .. 2570 \cup -1300 .. -1270

\* 1e999
SomeOverflowing == {<<49, 101, 57, 57, 57>>}

\* What may be left behind a text: the ends of other texts.
SomeResidues ==
    {<<>>, <<QuoteMark, CloseBrace, Close>>, <<48, Comma, QuoteMark>>,
     <<Slash, Star>>, <<255, 0, Colon>>}
=============================================================================
