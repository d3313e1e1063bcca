---------------------------- MODULE CarMessages ----------------------------
(* What testclient.cpp takes the messages of the server and of the data      *)
(* channel for, and what it sends itself.                                    *)
(*                                                                           *)
(* A name or a fixed text of the program is one letter here; of what the     *)
(* program passes on (descriptions, candidates) every byte counts.           *)
EXTENDS JsonDocument

\* The texts that are no JSON, and the strings the program compares with.
hello == <<104, 101>>
HelloCar == <<72, 67>>
SessionData == <<83>>

offer == <<111>>
answer == <<97>>
candidate == <<99>>
publish == <<112>>
cmd_vel == <<Slash, 118>>
aLine == <<97, 61>>

\* The names of the members.
type == <<116>>
msg == <<109>>
sdp == <<100>>
sdpMid == <<105>>
sdpMLineIndex == <<108>>
op == <<112>>
topic == <<113>>
linear == <<108>>
angular == <<97>>
x == <<120>>
z == <<122>>

\* The members of members.
At(v, one, two) == Member(Member(v, one), two)

\* What a step with this value does; asString may throw.
Does(what, v) == IF v = Throws THEN Throws ELSE <<what, Of(v)>>

\* The main loop, of a text and what parse finds in it.
Meaning(text, root) ==
    LET kind == Member(root.of, type)
    IN  CASE text = hello -> <<"hello", 0>>
          [] text = HelloCar -> <<"Hello Car_data", 0>>
          [] text \notin {hello, HelloCar} /\ root.end = "error" -> <<"no JSON", 0>>
          [] text \notin {hello, HelloCar} /\ (root.end = "throws" \/ kind = Throws) -> Throws
          [] OTHER ->
                CASE IsText(kind, offer) -> Does("offer", AsString(At(root.of, msg, sdp)))
                  [] IsText(kind, candidate) ->
                        LET found == AsString(At(root.of, msg, candidate))
                        IN  Does("candidate", IF found = Throws THEN Throws
                                              ELSE Text(aLine \o Of(found)))
                  [] OTHER -> <<"nothing", 0>>

\* onDCRecvStrMsg: the two speeds, as the texts that atof is given, of what parse
\* finds.
Command(root) ==
    LET kind == <<AsString(Member(root.of, op)), AsString(Member(root.of, topic))>>
        speeds == <<AsString(Member(At(root.of, msg, linear), x)),
                    AsString(Member(At(root.of, msg, angular), z))>>
    IN  CASE root.end = "error" -> <<"nothing", 0>>
          [] root.end = "throws" -> Throws
          [] root.end = "ok" ->
                IF kind[1] = Throws THEN Throws
                ELSE IF kind[1] # Text(publish) THEN <<"nothing", 0>>
                ELSE IF kind[2] = Throws THEN Throws
                ELSE IF kind[2] # Text(cmd_vel) THEN <<"nothing", 0>>
                ELSE IF Throws \in {speeds[1], speeds[2]} THEN Throws
                ELSE <<"speeds", <<Of(speeds[1]), Of(speeds[2])>> >>

\* The answer, and onLocalIceCandidate.
AnswerOf(description) ==
    Object((type :> Text(answer)) @@
           (msg :> Object((sdp :> Text(description)) @@ (type :> Text(answer)))))

CandidateOf(attribute, mid, index) ==
    Object((type :> Text(candidate)) @@
           (msg :> Object((candidate :> Text(attribute)) @@ (sdpMid :> Text(mid))
                          @@ (sdpMLineIndex :> Int64(index)))))

-----------------------------------------------------------------------------
(* The pages                                                                 *)

\* JSON.stringify, of an object with these members in this order.
Stringify(members) ==
    <<OpenBrace>> \o
    Joined([k \in DOMAIN members |->
              (IF k > 1 THEN <<Comma>> ELSE <<>>) \o Quoted(members[k][1])
              \o <<Colon>> \o members[k][2]])
    \o <<CloseBrace>>

OfferText(description) ==
    Stringify(<< <<type, Quoted(offer)>>,
                 <<msg, Stringify(<< <<type, Quoted(offer)>>, <<sdp, Quoted(description)>> >>)>> >>)

CandidateText(attribute) ==
    Stringify(<< <<type, Quoted(candidate)>>,
                 <<msg, Stringify(<< <<candidate, Quoted(attribute)>>, <<sdpMid, Quoted(<<48>>)>>,
                                     <<sdpMLineIndex, <<48>> >> >>)>> >>)

\* A speed is sent as a number or as a string: the texts as they are in the message.
CommandText(speed, turn) ==
    Stringify(<< <<op, Quoted(publish)>>, <<topic, Quoted(cmd_vel)>>,
                 <<msg, Stringify(<< <<linear, Stringify(<< <<x, speed>> >>)>>,
                                     <<angular, Stringify(<< <<z, turn>> >>)>> >>)>> >>)

-----------------------------------------------------------------------------
(* Properties                                                                *)

CONSTANTS
    Strings,   \* descriptions and candidates to look at
    Speech,    \* texts of speeds, as JavaScript writes numbers
    Samples    \* values to write and to read again

\* A text that is one number: an integer, or with a fraction or an exponent.
NumberText(w) ==
    /\ w \in Seq(Byte) /\ Len(w) # 0
    /\ w[1] \in Digits \cup {Minus}
    /\ NumberEnd(w, 2) = Len(w) + 1

IntegerText(w) == w \notin Overflowing /\ \E n \in Numerals : w = SignedDecimal(n)

RealText(w) == NumberText(w) /\ DoubleReads(w) /\ \E k \in 2 .. Len(w) : w[k] \notin Digits

ASSUME StringsAssumption == Strings \subseteq Seq(Byte)
ASSUME SpeechAssumption == \A w \in Speech : IntegerText(w) \/ RealText(w)

\* The deepest message is a command, four values deep.
ASSUME DepthAssumption == StackLimit >= 4

\* What parse may find in a text.
Roots(text) == {Parse(document) : document \in Documents(text)}

\* Does the text end inside of a string?
EndsInString(text) ==
    LET PlaceAfter(place, c) ==
            CASE place = "escape" -> "inside"
              [] place = "inside" /\ c = Backslash -> "escape"
              [] place # "escape" /\ c = QuoteMark ->
                    IF place = "inside" THEN "outside" ELSE "inside"
              [] OTHER -> place
        place[k \in 0 .. Len(text)] ==
            IF k = 0 THEN "outside" ELSE PlaceAfter(place[k - 1], text[k])
    IN  place[Len(text)] # "outside"

\* What the car writes is what is read from it, whatever the bytes behind the
\* text are.  A text that was cut short is refused whatever they are, unless it
\* is short and ends in a string, which those bytes may complete.
WritingRead ==
    \A v \in Samples \cup {AnswerOf(s) : s \in Strings}
                     \cup {CandidateOf(s, s, 0) : s \in Strings} :
        \A text \in {WriteString(v)} :
            /\ \A root \in Roots(text) : root.end = "ok" /\ root.of = v
            /\ Compound(v) =>
                \A part \in {SubSeq(text, 1, n) : n \in 0 .. Len(text) - 1} :
                    Len(part) >= ShortText \/ ~EndsInString(part) =>
                        \A root \in Roots(part) : root.end = "error"

\* The texts that the server or a page sends as a message of this kind, and
\* what they mean.
Sent(kind) ==
    CASE kind = "hello" -> {<<hello, <<kind, 0>> >>}
      [] kind = "Hello Car_data" -> {<<HelloCar, <<kind, 0>> >>}
      [] kind = "Session_data" -> {<<SessionData, <<"no JSON", 0>> >>}
      [] kind = "offer" -> {<<OfferText(s), <<kind, s>> >> : s \in Strings}
      [] kind = "candidate" -> {<<CandidateText(s), <<kind, aLine \o s>> >> : s \in Strings}

\* They are taken for it, byte for byte.
Understood(kind) ==
    \A p \in Sent(kind) : \A root \in Roots(p[1]) : Meaning(p[1], root) = p[2]

\* A command has the speeds that the page sent.
CommandsUnderstood ==
    \A v, w \in Speech :
        \A root \in Roots(CommandText(Quoted(v), Quoted(w))) \cup Roots(CommandText(v, w)) :
            Command(root) = <<"speeds", <<v, w>> >>
=============================================================================
