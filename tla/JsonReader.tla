----------------------------- MODULE JsonReader -----------------------------
(***************************************************************************)
(* Json::OurReader, with which the server reads its configuration file     *)
(* (operator>> with the default features).  The text is a sequence of      *)
(* tokens, chosen as they are read: brackets, separators, strings, the     *)
(* number "1", a comment and a token that is none of these.                *)
(*                                                                         *)
(* readValue, readObject and readArray call each other: `stack' holds      *)
(* their frames, each with the value it has read so far and the place in   *)
(* its loop.  When the outermost readValue has returned, parse reads one   *)
(* token more and, failIfExtra being off, ignores it: the rest of the text *)
(* is never looked at.                                                     *)
(***************************************************************************)
EXTENDS JsonValue, FiniteSets

CONSTANTS
    Keys,        \* the strings of the text
    MaxTokens,   \* bound: tokens of the text
    StackLimit   \* features_.stackLimit_

ASSUME JsonReaderAssumption == MaxTokens \in Nat /\ StackLimit \in Nat \ {0}

Punctuation == {"{", "}", "[", "]", ":", ","}
Tokens == Keys \union Punctuation \union {"1", "comment", "error"}

VARIABLES
    text,      \* the tokens read so far
    current,   \* the token being looked at
    stack,     \* the calls under way, innermost first
    outcome    \* "reading", "successful", "failed" or "threw"

vars == <<text, current, stack, outcome>>

Frame(call) == [call |-> call, at |-> "start", name |-> "", value |-> Null]

Init ==
    /\ text = <<>> /\ current = "none" /\ outcome = "reading"
    /\ stack = <<Frame("value")>>

Top == Head(stack)

\* The innermost call, at one of these places, has a token to look at.
Looks(call, places) ==
    outcome = "reading" /\ current # "none" /\ Top.call = call /\ Top.at \in places

----------------------------------------------------------------------------
Read == {text[i] : i \in DOMAIN text}

\* One comment will do.  While recoverFromError skips, tokens that close nothing
\* are alike, and so are all tokens behind the value.
Choices ==
    IF Top.at = "skip" THEN {"}", "]", "error"}
    ELSE (IF Top.at \in {"read", "notRead"} THEN {"}", "comment"} ELSE Tokens)
         \ (IF "comment" \in Read THEN {"comment"} ELSE {})

AtEnd == text # <<>> /\ text[Len(text)] = "end"

\* readToken: at the end of the text every further token is the end.
readToken ==
    /\ outcome = "reading" /\ current = "none" /\ Top.at \notin {"done", "false"}
    /\ \/ /\ ~AtEnd /\ Len(text) < MaxTokens
          /\ \E t \in Choices : current' = t /\ text' = Append(text, t)
       \/ current' = "end" /\ text' = IF AtEnd THEN text ELSE Append(text, "end")
    /\ UNCHANGED <<stack, outcome>>

\* The token is used up and the innermost call goes on at `place'.
GoOn(place) ==
    /\ current' = "none"
    /\ stack' = <<[Top EXCEPT !.at = place]>> \o Tail(stack)
    /\ UNCHANGED <<text, outcome>>

\* A call of readValue, which counts the calls under way.
CallReadValue(frames) ==
    IF Cardinality({i \in DOMAIN frames : frames[i].call = "value"}) >= StackLimit
    THEN outcome' = "threw" /\ stack' = frames
    ELSE stack' = <<Frame("value")>> \o frames /\ UNCHANGED outcome

\* readValue returns true with value v: to parse, or to the loop of the
\* object or array that called it, which holds v as a member or an item.
Return(v) ==
    /\ current' = "none" /\ UNCHANGED text
    /\ IF Len(stack) = 1
       THEN stack' = <<[Top EXCEPT !.value = v, !.at = "read"]>> /\ UNCHANGED outcome
       ELSE LET caller == stack[2]
                held == IF caller.call = "object"
                        THEN ObjectValue([k \in DOMAIN caller.value.members \union {caller.name} |->
                                 IF k = caller.name THEN v ELSE caller.value.members[k]])
                        ELSE ArrayValue(Append(caller.value.items, v))
            IN  /\ stack' = <<[caller EXCEPT !.at = "comma", !.value = held]>>
                             \o SubSeq(stack, 3, Len(stack))
                /\ UNCHANGED outcome

\* readObject or readArray returns true: so does the readValue that called it.
ReturnFrom(v) ==
    /\ current' = "none" /\ UNCHANGED text
    /\ stack' = <<[stack[2] EXCEPT !.at = "done", !.value = v]>>
                 \o SubSeq(stack, 3, Len(stack))
    /\ UNCHANGED outcome

\* addErrorAndRecover, recoverFromError: the rest up to the closing token is
\* skipped, then the call returns false.
Recover(place) == GoOn(place)

\* skipCommentTokens and the loops that skip comments.
skipCommentTokens ==
    /\ Looks(Top.call, {"start", "name", "read", "notRead"}) /\ current = "comment"
    /\ GoOn(Top.at)

----------------------------------------------------------------------------
readValue ==
    /\ Looks("value", {"start"}) /\ current # "comment"
    /\ \/ /\ current = "{"
          /\ current' = "none" /\ UNCHANGED <<text, outcome>>
          /\ stack' = <<[Frame("object") EXCEPT !.at = "name",
                                                !.value = ObjectValue(<<>>)]>> \o stack
       \/ /\ current = "["
          /\ current' = "none" /\ UNCHANGED <<text, outcome>>
          /\ stack' = <<[Frame("array") EXCEPT !.at = "first",
                                               !.value = ArrayValue(<<>>)]>> \o stack
       \/ /\ current \in Keys \union {"1"}
          /\ Return(IF current = "1" THEN IntValue(1) ELSE StringValue(current))
       \/ /\ current \in {"}", "]", ":", ",", "error", "end"}
          /\ GoOn("false")

\* The value that readObject or readArray has filled in.
readValueEnds ==
    /\ outcome = "reading" /\ current = "none"
    /\ Top.call = "value" /\ Top.at = "done" /\ Return(Top.value)

\* (A bug: a closing brace is taken where a member name is due.)
NameTakesEnd ==
    /\ Looks("object", {"name"}) /\ current # "comment"
    /\ \/ current = "}" /\ ReturnFrom(Top.value)
       \/ /\ current \in Keys /\ current' = "none"
          /\ stack' = <<[Top EXCEPT !.at = "colon", !.name = current]>> \o Tail(stack)
          /\ UNCHANGED <<text, outcome>>
       \/ current \notin Keys \union {"}"} /\ Recover("skip")

\* The head of readObject's loop.  `name' is the previous member's: an object
\* may end here only while it is empty.
readObjectName ==
    /\ Looks("object", {"name"}) /\ current # "comment"
    /\ \/ current = "}" /\ Top.name = "" /\ ReturnFrom(Top.value)
       \/ /\ current \in Keys /\ current' = "none"
          /\ stack' = <<[Top EXCEPT !.at = "colon", !.name = current]>> \o Tail(stack)
          /\ UNCHANGED <<text, outcome>>
       \/ /\ current \notin Keys /\ ~(current = "}" /\ Top.name = "")
          /\ Recover("skip")

readObjectColon ==
    /\ Looks("object", {"colon"})
    /\ \/ /\ current = ":" /\ current' = "none" /\ UNCHANGED text
          /\ CallReadValue(stack)
       \/ current # ":" /\ Recover("skip")

\* After a member.  Once a comment was skipped here, the token that follows it
\* is not looked at any more: whatever it is, it stands for the comma.
readObjectComma ==
    /\ Looks("object", {"comma", "afterComment"})
    /\ \/ current = "}" /\ ReturnFrom(Top.value)
       \/ current = "comment" /\ GoOn("afterComment")
       \/ /\ current \notin {"}", "comment"}
          /\ IF current = "," \/ Top.at = "afterComment" THEN GoOn("name") ELSE Recover("skip")

readArrayFirst ==
    /\ Looks("array", {"first"})
    /\ \/ current = "]" /\ ReturnFrom(Top.value)
       \/ /\ current # "]" /\ UNCHANGED <<text, current>>
          /\ CallReadValue(<<[Top EXCEPT !.at = "comma"]>> \o Tail(stack))

readArrayComma ==
    /\ Looks("array", {"comma"})
    /\ \/ current = "]" /\ ReturnFrom(Top.value)
       \/ current = "comment" /\ GoOn("comma")
       \/ /\ current = "," /\ current' = "none" /\ UNCHANGED text
          /\ CallReadValue(stack)
       \/ current \notin {"]", ",", "comment"} /\ Recover("skip")

Closing(frame) == IF frame.call = "object" THEN "}" ELSE "]"

\* recoverFromError
recoverFromError ==
    /\ Looks(Top.call, {"skip"})
    /\ IF current \in {Closing(Top), "end"} THEN GoOn("false") ELSE GoOn("skip")

\* A call returned false: readValue to parse or to an object or array, which
\* skips in its turn; readObject and readArray to readValue.
returnFalse ==
    /\ outcome = "reading" /\ Top.at = "false"
    /\ UNCHANGED <<text, current, outcome>>
    /\ stack' = IF Len(stack) = 1 THEN <<[Top EXCEPT !.at = "notRead"]>>
                ELSE <<[stack[2] EXCEPT !.at = IF Top.call = "value" THEN "skip" ELSE "false"]>>
                     \o SubSeq(stack, 3, Len(stack))

\* parse, after readValue: it has one more token and does not look at it
\* (failIfExtra is off).
parseEnds ==
    /\ Looks("value", {"read", "notRead"}) /\ current # "comment"
    /\ outcome' = IF Top.at = "read" THEN "successful" ELSE "failed"
    /\ current' = "none" /\ UNCHANGED <<text, stack>>

\* OurReader::parse returned or an exception left it.
Finished == outcome # "reading" /\ UNCHANGED vars

Next ==
    \/ readToken \/ skipCommentTokens
    \/ readValue \/ readValueEnds
    \/ readObjectName \/ readObjectColon \/ readObjectComma
    \/ readArrayFirst \/ readArrayComma
    \/ recoverFromError \/ returnFalse \/ parseEnds
    \/ Finished

Spec == Init /\ [][Next]_vars

----------------------------------------------------------------------------
\* The reference: which texts are JSON, and what they say.

RECURSIVE Meanings(_), Lists(_), Maps(_)

\* The meanings of a text: one when it is a value, none when it is not.
Meanings(t) ==
    IF t = <<>> THEN {}
    ELSE IF Len(t) = 1
         THEN IF t[1] = "1" THEN {IntValue(1)}
              ELSE IF t[1] \in Keys THEN {StringValue(t[1])} ELSE {}
    ELSE LET inner == SubSeq(t, 2, Len(t) - 1) IN
         CASE t[1] = "{" /\ t[Len(t)] = "}" ->
                IF inner = <<>> THEN {ObjectValue(<<>>)} ELSE {ObjectValue(m) : m \in Maps(inner)}
           [] t[1] = "[" /\ t[Len(t)] = "]" ->
                IF inner = <<>> THEN {ArrayValue(<<>>)} ELSE {ArrayValue(s) : s \in Lists(inner)}
           [] OTHER -> {}

Commas(t) == {i \in DOMAIN t : t[i] = ","}

\* Values separated by commas.
Lists(t) ==
    {<<v>> : v \in Meanings(t)} \union
    UNION {{<<v>> \o rest : v \in Meanings(SubSeq(t, 1, i - 1)),
                            rest \in Lists(SubSeq(t, i + 1, Len(t)))} : i \in Commas(t)}

\* Members separated by commas; of two with the same key the later counts.
Maps(t) ==
    LET pair(s) == IF Len(s) >= 3 /\ s[1] \in Keys /\ s[2] = ":"
                   THEN {[k \in {s[1]} |-> v] : v \in Meanings(SubSeq(s, 3, Len(s)))} ELSE {}
        join(f, g) == [k \in DOMAIN f \union DOMAIN g |-> IF k \in DOMAIN g THEN g[k] ELSE f[k]]
    IN  pair(t) \union
        UNION {{join(f, g) : f \in pair(SubSeq(t, 1, i - 1)),
                             g \in Maps(SubSeq(t, i + 1, Len(t)))} : i \in Commas(t)}

Said == SelectSeq(text, LAMBDA t : t # "end")
Plain == \A i \in DOMAIN text : text[i] \notin {"", "comment"}

----------------------------------------------------------------------------
\* Properties.

\* What the prefixes of a text mean: a file that goes on behind a value has
\* that value as a prefix.
LeadingMeanings(t) == UNION {Meanings(SubSeq(t, 1, n)) : n \in 1 .. Len(t)}

\* A configuration file with neither comments nor empty keys is read exactly
\* when it begins with a JSON value, whatever follows it, and as what that
\* value says, the later of two members with one key replacing the earlier
\* (readObject); a text that fails does not begin with one, however far
\* recoverFromError skipped.
ReadsLeadingValue ==
    Plain => /\ outcome = "successful" => LeadingMeanings(Said) = {Top.value}
             /\ outcome = "failed" => LeadingMeanings(Said) = {}
=============================================================================
