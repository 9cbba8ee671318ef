-------------------------- MODULE PolicyOperators ---------------------------
(***************************************************************************)
(* The operators of a policy rule: policy/src/operator_evaluator.py.       *)
(*                                                                         *)
(* A JSON value is a record of its type and what Python compares: a        *)
(* string is a sequence of letters, an array a sequence of scalars, an     *)
(* object the set of its keys.  A pattern of `matches' is a literal, for   *)
(* which re.search looks for a substring.                                  *)
(***************************************************************************)
EXTENDS Integers, SequencesExt

Null    == [type |-> "null"]
Bool(b) == [type |-> "boolean", val |-> b]
Num(n)  == [type |-> "number", val |-> n]
Str(s)  == [type |-> "string", val |-> s]
Arr(s)  == [type |-> "array", val |-> s]
Obj(s)  == [type |-> "object", val |-> s]

\* The values JSON has.  A number is an integer here.
IsScalar(v) ==
    \/ v = Null
    \/ v.type = "boolean" /\ v.val \in BOOLEAN
    \/ v.type = "number" /\ v.val \in Int
    \/ v.type = "string"

IsValue(v) ==
    \/ IsScalar(v)
    \/ v.type = "array" /\ \A i \in DOMAIN v.val : IsScalar(v.val[i])
    \/ v.type = "object"

OPERATORS ==
    {"eq", "neq", "gt", "gte", "lt", "lte", "between", "in", "not_in",
     "contains", "not_contains", "contains_all", "contains_any",
     "starts_with", "ends_with", "matches", "exists", "not_exists",
     "is_true", "is_false", "is_null", "is_not_null",
     "length_eq", "length_gt", "length_gte", "length_lt", "length_lte",
     "type_is"}

\* Python's bool is an int: True == 1 and False == 0.
AsNumber(v) == IF v.type = "number" THEN v.val ELSE IF v.val THEN 1 ELSE 0

ScalarEqual(a, b) ==
    CASE {a.type, b.type} \subseteq {"boolean", "number"} -> AsNumber(a) = AsNumber(b)
      [] a.type = "null" -> b.type = "null"
      [] OTHER -> a.type = b.type /\ a.val = b.val

\* a == b of two values that json.loads returned.
Equal(a, b) ==
    IF a.type = "array" /\ b.type = "array"
      THEN /\ Len(a.val) = Len(b.val)
           /\ \A i \in 1..Len(a.val) : ScalarEqual(a.val[i], b.val[i])
      ELSE ScalarEqual(a, b)

Member(v, array) == \E i \in 1..Len(array.val) : Equal(v, array.val[i])

\* Mutant: a boolean passes for the int that it is in Python.
_is_number_Int(v) == v.type \in {"number", "boolean"}

_is_number(v) == v.type = "number"
_is_string(v) == v.type = "string"
IsArray(v)    == v.type = "array"

_length(v) == CASE v.type \in {"string", "array"} -> Len(v.val)
                [] v.type = "object" -> Cardinality(v.val)
                [] OTHER -> 0

\* The names of the JSON types, as type_is spells them.
_type_of(v) == Str(<<v.type>>)

HasSubstring(s, t) == \E i \in 0..Len(s) - Len(t) : SubSeq(s, i + 1, i + Len(t)) = t

\* The comparisons by order are False unless both sides are numbers.
Less(a, b)   == _is_number(a) /\ _is_number(b) /\ AsNumber(a) < AsNumber(b)
AtMost(a, b) == _is_number(a) /\ _is_number(b) /\ AsNumber(a) <= AsNumber(b)

BothArrays(a, b)  == IsArray(a) /\ IsArray(b)
BothStrings(a, b) == _is_string(a) /\ _is_string(b)

\* evaluate of a supported operator; it raises ValueError on any other.
evaluate(actual, operator, expected) ==
    CASE operator = "eq"  -> Equal(actual, expected)
      [] operator = "neq" -> ~Equal(actual, expected)
      [] operator = "gt"  -> Less(expected, actual)
      [] operator = "gte" -> AtMost(expected, actual)
      [] operator = "lt"  -> Less(actual, expected)
      [] operator = "lte" -> AtMost(actual, expected)
      [] operator = "between" ->
            /\ IsArray(expected)
            /\ Len(expected.val) = 2
            /\ AtMost(expected.val[1], actual)
            /\ AtMost(actual, expected.val[2])
      [] operator = "in"     -> IsArray(expected) /\ Member(actual, expected)
      [] operator = "not_in" -> IsArray(expected) /\ ~Member(actual, expected)
      [] operator = "contains" ->
            IsArray(actual) /\ expected # Null /\ Member(expected, actual)
      [] operator = "not_contains" ->
            IsArray(actual) /\ expected # Null /\ ~Member(expected, actual)
      [] operator = "contains_all" ->
            /\ BothArrays(actual, expected)
            /\ \A i \in 1..Len(expected.val) : Member(expected.val[i], actual)
      [] operator = "contains_any" ->
            /\ BothArrays(actual, expected)
            /\ \E i \in 1..Len(expected.val) : Member(expected.val[i], actual)
      [] operator = "starts_with" ->
            BothStrings(actual, expected) /\ IsPrefix(expected.val, actual.val)
      [] operator = "ends_with" ->
            BothStrings(actual, expected) /\ IsSuffix(expected.val, actual.val)
      [] operator = "matches" ->
            BothStrings(actual, expected) /\ HasSubstring(actual.val, expected.val)
      [] operator \in {"exists", "is_not_null"} -> actual # Null
      [] operator \in {"not_exists", "is_null"} -> actual = Null
      [] operator = "is_true"  -> actual.type = "boolean" /\ actual.val
      [] operator = "is_false" -> actual.type = "boolean" /\ ~actual.val
      [] operator = "length_eq"  -> _is_number(expected) /\ Equal(Num(_length(actual)), expected)
      [] operator = "length_gt"  -> Less(expected, Num(_length(actual)))
      [] operator = "length_gte" -> AtMost(expected, Num(_length(actual)))
      [] operator = "length_lt"  -> Less(Num(_length(actual)), expected)
      [] operator = "length_lte" -> AtMost(Num(_length(actual)), expected)
      [] operator = "type_is" -> _is_string(expected) /\ _type_of(actual) = expected

=============================================================================
