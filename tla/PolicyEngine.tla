---------------------------- MODULE PolicyEngine ----------------------------
(***************************************************************************)
(* The policy layer at work: a document is loaded and validated            *)
(* (load_policy in policy_loader.py) and its rules are checked one by one  *)
(* against the signals of a transaction (evaluate_policy and its loop in   *)
(* policy_engine.py).                                                      *)
(***************************************************************************)
EXTENDS PolicyRules

\* The policy document on disk and the signals of a transaction, a function to
\* values: the pairs of the two that may meet.
CONSTANT Cases

\* json.load: rules are a list, a rule's condition is one of those at hand, and
\* signals have names for keys and JSON's values.
ASSUME CasesAssumption ==
    \A case \in Cases :
        /\ case[1].rules \in Seq(Range(case[1].rules))
        /\ \A r \in Range(case[1].rules) : r.condition \in Conditions
        /\ \A k \in DOMAIN case[2] : k \notin Unhashable /\ IsValue(case[2][k])

VARIABLES
    document,  \* the document asked for
    signals,   \* the signals of the transaction
    state,     \* "load", "invalid", "match", "done" or "raised"
    trace,     \* matched_path: ids of the rules checked so far
    matched    \* index of the rule that matched, 0 for "none"

vars == <<document, signals, state, trace, matched>>

Rule(i) == document.rules[i]

Init ==
    /\ \E case \in Cases : document = case[1] /\ signals = case[2]
    /\ state = "load"
    /\ trace = <<>>
    /\ matched = 0

-----------------------------------------------------------------------------
LoadPolicy ==
    /\ state = "load"
    /\ state' = IF validate_policy(document) THEN "match" ELSE "invalid"
    /\ UNCHANGED <<document, signals, trace, matched>>

\* Mutant: the loop goes on after a match, and the last match wins.
CheckRule_LastWins ==
    /\ state = "match"
    /\ Len(trace) < Len(document.rules)
    /\ LET i == Len(trace) + 1
           verdict == evaluate_condition(Rule(i).condition, signals)
       IN  /\ trace' = Append(trace, Rule(i).id)
           /\ matched' = IF verdict = "true" THEN i ELSE matched
           /\ state' = IF verdict = "raise" THEN "raised" ELSE "match"
    /\ UNCHANGED <<document, signals>>

\* One turn of the loop of _find_first_match; evaluate_policy then looks up the
\* action of the rule that matched.
CheckRule ==
    /\ state = "match"
    /\ Len(trace) < Len(document.rules)
    /\ LET i == Len(trace) + 1
           verdict == evaluate_condition(Rule(i).condition, signals)
       IN  /\ trace' = Append(trace, Rule(i).id)
           /\ matched' = IF verdict = "true" THEN i ELSE 0
           /\ state' = CASE verdict = "true" ->
                              IF to_outcome(Rule(i).action) = "raise" THEN "raised" ELSE "done"
                         [] verdict = "raise" -> "raised"
                         [] verdict = "false" -> "match"
    /\ UNCHANGED <<document, signals>>

NoRuleMatched ==
    /\ state = "match"
    /\ Len(trace) = Len(document.rules)
    /\ state' = "done"
    /\ UNCHANGED <<document, signals, trace, matched>>

\* The outcome of evaluate_policy, once it has returned.
outcome == to_outcome(IF matched = 0 THEN "none" ELSE Rule(matched).action)

Next == LoadPolicy \/ CheckRule \/ NoRuleMatched

Spec == Init /\ [][Next]_vars

-----------------------------------------------------------------------------
\* What a document says, without loops, short circuits or errors: the rules
\* whose condition the signals satisfy.
Satisfied(c, bag) ==
    LET holds[d \in Conditions] ==
            \/ /\ Has(d, "fact")
               /\ Has(bag, d.fact)
               /\ d.operator \in OPERATORS
               /\ evaluate(bag[d.fact], d.operator, IF Has(d, "value") THEN d.value ELSE Null)
            \/ /\ ~Has(d, "fact")
               /\ \/ Has(d, "always")
                  \/ Has(d, "all") /\ \A e \in Range(d.all) : holds[e]
                  \/ ~Has(d, "all") /\ Has(d, "any") /\ \E e \in Range(d.any) : holds[e]
    IN  holds[c]

Matches(bag) == {i \in 1..Len(document.rules) : Satisfied(Rule(i).condition, bag)}

\* "Ordered rules, first match wins": the result is the first rule that the
\* signals satisfy, and matched_path names exactly the rules up to it, or all
\* of them when none matched (_find_first_match and its short circuits).
FirstMatchWins ==
    state = "done" =>
        /\ matched = (IF Matches(signals) = {} THEN 0 ELSE Min(Matches(signals)))
        /\ trace = [i \in 1..(IF matched = 0 THEN Len(document.rules) ELSE matched)
                        |-> Rule(i).id]

\* "A missing signal is never confused with a present but negative one": taking
\* signals away never makes an earlier rule match (evaluate_leaf has no operator
\* that an absent signal satisfies, and conditions have no negation).
FewerSignalsMatchLater ==
    state = "done" =>
        \A known \in SUBSET DOMAIN signals :
            LET bag == [k \in known |-> signals[k]] IN
            \A i \in 1..Len(document.rules) :
                evaluate_condition(Rule(i).condition, bag) = "true"
                    => matched # 0 /\ matched <= i

\* The facts that a condition names, those of its children included.
Facts(c) ==
    LET facts[d \in Conditions] ==
            IF Has(d, "fact") THEN {d.fact} ELSE UNION {facts[e] : e \in Children(d)}
    IN  facts[c]

\* What the validator lets through is evaluated to the end, a list or an object
\* in the place of a fact or an action apart: no operator reaches evaluate that
\* validate_policy has not seen, however a condition combines its keys
\* (validator and engine look at the keys in different orders).
OnlyUnhashableRaises ==
    state = "raised" =>
        LET rule == Rule(Len(trace)) IN
        rule.action \in Unhashable \/ Facts(rule.condition) \cap Unhashable # {}

\* Only a rule that says approve, and whose condition holds, approves: no
\* match, an unknown action and a failed load never do (_to_outcome).
FailsClosed ==
    state = "done" /\ outcome = "APPROVE" =>
        \E i \in Matches(signals) : Rule(i).action = "approve"

\* How eq, gt and lt put two values in order: for two numbers, one way.
Ordering(x, y) == {op \in {"lt", "eq", "gt"} : evaluate(x, op, y)}

\* "A policy author writing true/false never means compare this as a number",
\* and nothing else is ever ordered either: a rule with an order operator
\* matches numbers only, the four of them and between agree with eq on the
\* same numbers, and two numbers are ordered in exactly one way
\* (_is_number before every comparison in operator_evaluator.py).
OrderIsForNumbers ==
    LET c == Rule(1).condition IN
    state = "done" /\ Has(c, "fact") /\ Has(c, "value") /\ Has(signals, c.fact) =>
        LET x == signals[c.fact]
            y == c.value
            Compares(way) == /\ x.type = "number" /\ y.type = "number"
                                 /\ Ordering(x, y) \subseteq way
        IN  /\ x.type = "number" /\ y.type = "number" => Cardinality(Ordering(x, y)) = 1
            /\ matched = 1 =>
                 CASE c.operator = "gt"  -> Compares({"gt"})
                   [] c.operator = "gte" -> Compares({"gt", "eq"})
                   [] c.operator = "lt"  -> Compares({"lt"})
                   [] c.operator = "lte" -> Compares({"lt", "eq"})
                   [] c.operator = "between" ->
                        /\ x.type = "number"
                        /\ \A i \in 1..2 : y.val[i].type = "number"
                        /\ Ordering(x, y.val[1]) \subseteq {"gt", "eq"}
                        /\ Ordering(x, y.val[2]) \subseteq {"lt", "eq"}
                   [] OTHER -> TRUE

AlwaysIsTrue(c) ==
    LET safe[d \in Conditions] ==
            /\ Has(d, "always") => d.always = TRUE
            /\ \A e \in Children(d) : safe[e]
    IN  safe[c]

\* "'always' must be true" (_validate_condition): no document with a false
\* `always' is loaded.  False when the object also has `all' or `any': the
\* validator looks no further and the engine takes it for true.
LoadedAlwaysIsTrue ==
    state = "match" =>
        \A i \in 1..Len(document.rules) : AlwaysIsTrue(Rule(i).condition)
=============================================================================
