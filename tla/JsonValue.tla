----------------------------- MODULE JsonValue ------------------------------
(***************************************************************************)
(* Json::Value (server/utils/jsoncpp.cpp) as far as the server uses it.  A *)
(* value is a record with its type; an object maps its keys to values.     *)
(* What throws in the code is the result Throws here.                      *)
(***************************************************************************)
EXTENDS Integers, Sequences, FiniteSets

Null == [type |-> "null"]
IntValue(n) == [type |-> "int", int |-> n]
StringValue(s) == [type |-> "string", string |-> s]
ObjectValue(members) == [type |-> "object", members |-> members]
ArrayValue(items) == [type |-> "array", items |-> items]

\* JSON_ASSERT_MESSAGE and JSON_FAIL_MESSAGE throw an exception.
Throws == [type |-> "exception"]

isNull(v) == v.type = "null"

\* Members can be asked of an object or of null.
HasMembers(v) == v.type \in {"null", "object"}

\* operator[](key): the member that resolveReference adds is null, and no
\* caller tells it from one that is absent.
Member(v, key) ==
    IF ~HasMembers(v) THEN Throws
    ELSE IF ~isNull(v) /\ key \in DOMAIN v.members THEN v.members[key] ELSE Null

\* get(key, defaultValue): a member that is null is not absent.
get(v, key, defaultValue) ==
    IF HasMembers(v) /\ (isNull(v) \/ key \notin DOMAIN v.members) THEN defaultValue
    ELSE Member(v, key)

\* Keys are kept in a std::map; order lists all names as it does.
Position(places, n) == CHOOSE i \in places : Cardinality({j \in places : j < i}) = n - 1
getMemberNames(v, order) ==
    LET places == {i \in DOMAIN order : order[i] \in DOMAIN v.members}
    IN  IF isNull(v) THEN <<>>
        ELSE [n \in 1 .. Cardinality(places) |-> order[Position(places, n)]]

\* asInt: null counts as zero.
IsIntLike(v) == v.type \in {"int", "null"}
asInt(v) == IF v.type = "int" THEN v.int ELSE 0

\* asString: null is the empty string; arrays and objects have no text.
IsStringLike(v) == v.type \in {"string", "int", "null"}
asString(v) == CASE v.type = "string" -> v.string
                 [] v.type = "int" -> "number"
                 [] OTHER -> ""

\* asFloat fails on strings as well.
IsFloatLike(v) == v.type \in {"int", "null"}
=============================================================================
