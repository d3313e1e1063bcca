---------------------------- MODULE JsonDocument ----------------------------
(* Whole documents of jsoncpp: Reader::parse and writeString.                *)
EXTENDS JsonText

-----------------------------------------------------------------------------
(* Reading                                                                   *)

\* How a part of a document was read: well, with an error, or not to the end
\* (too deep); what it is, and where to go on.
Good(of, at) == [end |-> "ok", of |-> of, at |-> at]

\* recoverFromError looks for the end of the object or array, and the error
\* makes all of the document bad whatever it finds.
Failed == [end |-> "error", of |-> Null, at |-> 1]
TooDeep == [end |-> "throws", of |-> Null, at |-> 1]

\* What is made of a part if it was read well.
Then(part, made) == IF part.end = "ok" THEN made ELSE part

Scalar(t, token) ==
    LET token_ == SubSeq(t, token.start, token.stop - 1)
        decoded == DecodedString(SubSeq(t, token.start + 1, token.stop - 2))
    IN  CASE token.type = "word" ->
                Good(CASE token_ = TrueWord -> Bool(TRUE)
                       [] token_ = FalseWord -> Bool(FALSE)
                       [] OTHER -> Null, token.stop)
          [] token.type = "number" ->
                LET number == DecodedInteger(token_)
                IN  IF Kind(number) = "real" /\ ~DoubleReads(token_) THEN Failed
                    ELSE Good(number, token.stop)
          [] token.type = "string" ->
                IF decoded.ok THEN Good(Text(decoded.of), token.stop) ELSE Failed
          [] OTHER -> Failed

\* Of the members with one name the last one counts.
ObjectOf(pairs) ==
    LET names == {pairs[k][1] : k \in DOMAIN pairs}
        Last(name) == CHOOSE k \in DOMAIN pairs :
            /\ pairs[k][1] = name
            /\ \A j \in k + 1 .. Len(pairs) : pairs[j][1] # name
    IN  Object([name \in names |-> pairs[Last(name)][2]])

\* The calls of the functions below: where they begin to read and how deep in
\* other values; `named` is a flag of the loop over the members: was there a
\* name that is not empty?
Calls(t) == [what : {"value", "elements", "members"}, at : 1 .. Len(t) + 1,
             depth : 0 .. StackLimit, named : BOOLEAN]

ValueAt(at, depth) == [what |-> "value", at |-> at, depth |-> depth, named |-> FALSE]
ElementsAt(at, depth) == [what |-> "elements", at |-> at, depth |-> depth, named |-> FALSE]
MembersAt(at, depth, named) == [what |-> "members", at |-> at, depth |-> depth, named |-> named]

\* They call each other: `reads` is what each call reads.

\* A value that begins with this token; `next` is the token behind it.
ValueFrom(t, reads, token, next, depth) ==
    LET elements == reads[ElementsAt(token.stop, depth + 1)]
        members == reads[MembersAt(token.stop, depth + 1, FALSE)]
    IN  IF depth >= StackLimit THEN TooDeep
        ELSE IF token.type = "[" /\ next.type = "]" THEN Good(Array(<<>>), next.stop)
        ELSE IF token.type = "[" THEN Then(elements, Good(Array(elements.of), elements.at))
        ELSE IF token.type = "{" THEN Then(members, Good(ObjectOf(members.of), members.at))
        ELSE Scalar(t, token)

ReadsValue(t, reads, at, depth) ==
    LET token == NextToken(t, at)
    IN  ValueFrom(t, reads, token, TokenAt(t, token.stop), depth)

\* Behind the value of a member.  Behind a comment any token passes for the
\* comma.
MembersBehind(t, reads, name, value, depth) ==
    LET last == NextToken(t, value.at)
        rest == reads[MembersAt(last.stop, depth, name # <<>>)]
    IN  IF TokenAt(t, value.at).type \notin {"}", ",", "comment"} THEN Failed
        ELSE IF last.type = "}" THEN Good(<< <<name, value.of>> >>, last.stop)
        ELSE Then(rest, Good(<< <<name, value.of>> >> \o rest.of, rest.at))

\* A member that begins with the name.  No comment may stand before the colon.
MemberFrom(t, reads, name, colon, depth) ==
    LET value == reads[ValueAt(colon.stop, depth)]
    IN  IF name.end # "ok" \/ colon.type # ":" THEN Failed
        ELSE Then(value, MembersBehind(t, reads, Of(name.of), value, depth))

\* The members of an object.
ReadsMembers(t, reads, at, depth, named) ==
    LET token == NextToken(t, at)
    IN  IF token.type = "}" /\ ~named THEN Good(<<>>, token.stop)
        ELSE MemberFrom(t, reads, IF token.type = "string" THEN Scalar(t, token) ELSE Failed,
                        TokenAt(t, token.stop), depth)

\* The elements of an array, of which there is one.
ReadsElements(t, reads, at, depth) ==
    LET value == reads[ValueAt(at, depth)]
        token == NextToken(t, value.at)
        rest == reads[ElementsAt(token.stop, depth)]
    IN  Then(value,
             IF token.type = "]" THEN Good(<<value.of>>, token.stop)
             ELSE IF token.type = ","
                    THEN Then(rest, Good(<<value.of>> \o rest.of, rest.at))
             ELSE Failed)

Reads(t, reads, call) ==
    CASE call.what = "value" -> ReadsValue(t, reads, call.at, call.depth)
      [] call.what = "elements" -> ReadsElements(t, reads, call.at, call.depth)
      [] call.what = "members" -> ReadsMembers(t, reads, call.at, call.depth, call.named)

\* Reader::parse.  What follows the value is not looked at (strictRoot_ is
\* false).
Parse(t) ==
    LET reads[call \in Calls(t)] == Reads(t, reads, call)
    IN  reads[ValueAt(1, 0)]

\* parse(document) copies as many bytes as the string has room for, and a
\* string of less than 16 bytes has room for 15: behind the text are a 0 and
\* whatever is there.
CONSTANTS ShortText, Residues

ASSUME ResidueAssumption == ShortText \in Nat /\ Residues \subseteq Seq(Byte)

Documents(t) ==
    IF Len(t) < ShortText
      THEN {t \o <<0>> \o SubSeq(r, 1, IF Len(r) < ShortText - Len(t) - 1 THEN Len(r)
                                       ELSE ShortText - Len(t) - 1) : r \in Residues}
      ELSE {t}

-----------------------------------------------------------------------------
(* Writing                                                                   *)

\* setDefaults, and what newStreamWriter makes of it.
Indentation == TAB
ColonSymbol == <<Space, Colon, Space>>

\* writeIndent
NewLine(depth) == <<LF>> \o [k \in 1 .. depth |-> Indentation]

Nth(v, k) == IF Kind(v) = "object" THEN Of(v)[NthName(v, k)] ELSE Of(v)[k]

Size(v) == Cardinality(DOMAIN Of(v))

\* Mutant of WrittenScalar: an empty object is written as an empty array.
WrittenAlike(v) ==
    CASE Kind(v) = "null" -> NullWord
      [] Kind(v) = "string" -> Quoted(Of(v))
      [] Kind(v) \in {"array", "object"} -> <<Open, Close>>
      [] OTHER -> Of(AsString(v))

WrittenScalar(v) ==
    CASE Kind(v) = "null" -> NullWord
      [] Kind(v) = "string" -> Quoted(Of(v))
      [] Kind(v) = "array" -> <<Open, Close>>
      [] Kind(v) = "object" -> <<OpenBrace, CloseBrace>>
      [] OTHER -> Of(AsString(v))

\* BuiltStyledStreamWriter.  A part of the value is named by the way to it: the
\* numbers of the elements or members that lead there.
WriteString(root) ==
    LET up(way) == SubSeq(way, 1, Len(way) - 1)
        at[way \in Seq(Nat)] ==
            IF way = <<>> THEN root ELSE Nth(at[up(way)], way[Len(way)])
        \* A member stands on a line with its name; what it holds begins a
        \* line of its own.
        Leads(way) == IF way # <<>> /\ Kind(at[up(way)]) = "object"
                        THEN NewLine(Len(way)) ELSE <<>>
        Names(v, k) == IF Kind(v) = "object"
                         THEN Quoted(NthName(v, k)) \o ColonSymbol ELSE <<>>
        written[way \in Seq(Nat)] ==
            LET v == at[way]
                brackets == IF Kind(v) = "object" THEN <<OpenBrace, CloseBrace>> ELSE <<Open, Close>>
                Line(k) == (IF k > 1 THEN <<Comma>> ELSE <<>>) \o NewLine(Len(way) + 1)
                           \o Names(v, k) \o written[Append(way, k)]
            IN  IF ~Compound(v) \/ Empty(v) THEN WrittenScalar(v)
                ELSE Leads(way) \o <<brackets[1]>> \o Joined([k \in 1 .. Size(v) |-> Line(k)])
                     \o NewLine(Len(way)) \o <<brackets[2]>>
    IN  written[<<>>]
=============================================================================
