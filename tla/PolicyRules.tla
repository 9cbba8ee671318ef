---------------------------- MODULE PolicyRules -----------------------------
(***************************************************************************)
(* Policy documents: validate_policy (policy_validator.py) and the pure    *)
(* part of evaluate_policy (policy_engine.py).                             *)
(*                                                                         *)
(* A JSON object is a function on the keys it has, so a condition may have *)
(* any of fact, operator, value, all, any, always, in any combination.     *)
(***************************************************************************)
EXTENDS PolicyOperators

CONSTANTS
    Blank,       \* a missing or blank id, fact, action or reason
    Unhashable,  \* what stands for a name and is a list or an object, not empty
    Nesting      \* Nesting[n] holds the conditions at hand that nest n deep

Has(object, k) == k \in DOMAIN object

Conditions == UNION {Nesting[n] : n \in DOMAIN Nesting}

\* The conditions inside a condition.
Children(c) == UNION {Range(c[k]) : k \in {"all", "any"} \cap DOMAIN c}

\* json.load returns trees of finite depth, in which a list holds conditions.
ASSUME RulesAssumption ==
    /\ Unhashable \cap {Blank, "none", "approve", "require_override", "reject"} = {}
    /\ Nesting \in Seq(Range(Nesting))
    /\ \A n \in DOMAIN Nesting : \A c \in Nesting[n] :
          Children(c) \subseteq UNION {Nesting[m] : m \in 1..(n - 1)}
    /\ \A c \in Conditions :
          /\ Has(c, "all") => c.all \in Seq(Conditions)
          /\ Has(c, "any") => c.any \in Seq(Conditions)
          /\ Has(c, "value") => IsValue(c.value)

\* A fact may be anything of which str is not blank, a list too.  A pattern must
\* be a string; every literal compiles.
validate_leaf(c) ==
    /\ c.fact # Blank
    /\ Has(c, "operator") /\ c.operator \in OPERATORS
    /\ c.operator = "matches" => Has(c, "value") /\ _is_string(c.value)

\* Mutant: the children of an `any' are not validated.
validate_condition_Shallow(c) ==
    LET valid[d \in Conditions] ==
            IF Has(d, "fact") THEN validate_leaf(d)
            ELSE IF Has(d, "all")
              THEN d.all # <<>> /\ \A i \in 1..Len(d.all) : valid[d.all[i]]
            ELSE IF Has(d, "any") THEN d.any # <<>>
            ELSE Has(d, "always") /\ d.always = TRUE
    IN  valid[c]

\* _validate_condition accepts: fact, then all, then any, then always.  That a
\* condition is an object and its children are a list holds by construction.
validate_condition(c) ==
    LET valid[d \in Conditions] ==
            IF Has(d, "fact") THEN validate_leaf(d)
            ELSE IF Has(d, "all")
              THEN d.all # <<>> /\ \A i \in 1..Len(d.all) : valid[d.all[i]]
            ELSE IF Has(d, "any")
              THEN d.any # <<>> /\ \A i \in 1..Len(d.any) : valid[d.any[i]]
            ELSE Has(d, "always") /\ d.always = TRUE
    IN  valid[c]

\* An id goes into a set, which a list or an object cannot: TypeError.  An action
\* only has to be true in Python's sense.
validate_rule(r) ==
    /\ r.id # Blank /\ r.id \notin Unhashable
    /\ validate_condition(r.condition)
    /\ r.action # Blank
    /\ r.reason # Blank

\* validate_policy accepts.  `header' says that policyId, policyVersion and
\* schemaVersion are there and boundSignals, if any, is well formed.
validate_policy(doc) ==
    /\ doc.header
    /\ doc.rules # <<>>
    /\ \A i \in 1..Len(doc.rules) : validate_rule(doc.rules[i])
    /\ \A i, j \in 1..Len(doc.rules) :
          doc.rules[i].id = doc.rules[j].id => i = j

\* Mutant: an absent signal is read as None.
evaluate_leaf_Get(c, bag) ==
    LET actual == IF Has(bag, c.fact) THEN bag[c.fact] ELSE Null IN
    IF c.operator \notin OPERATORS \/ c.fact \in Unhashable THEN "raise"
    ELSE IF evaluate(actual, c.operator, IF Has(c, "value") THEN c.value ELSE Null)
      THEN "true" ELSE "false"

\* A leaf: absent signals never satisfy it.  Looking up a list among them is a
\* TypeError, and evaluate may raise ValueError.
evaluate_leaf(c, bag) ==
    CASE c.fact \in Unhashable -> "raise"
      [] c.fact \notin Unhashable /\ ~Has(bag, c.fact) -> "false"
      [] c.fact \notin Unhashable /\ Has(bag, c.fact) ->
            IF c.operator \notin OPERATORS THEN "raise"
            ELSE IF evaluate(bag[c.fact], c.operator,
                             IF Has(c, "value") THEN c.value ELSE Null)
              THEN "true" ELSE "false"

\* Python's all and any stop at the first child that decides.
FirstOther(results, verdict) ==
    LET others == {i \in 1..Len(results) : results[i] # verdict}
    IN  IF others = {} THEN verdict ELSE results[Min(others)]

\* _evaluate_condition: fact, then always, then all, then any.
evaluate_condition(c, bag) ==
    LET verdict[d \in Conditions] ==
            IF Has(d, "fact") THEN evaluate_leaf(d, bag)
            ELSE IF Has(d, "always") THEN "true"
            ELSE IF Has(d, "all")
              THEN FirstOther([i \in 1..Len(d.all) |-> verdict[d.all[i]]], "true")
            ELSE IF Has(d, "any")
              THEN FirstOther([i \in 1..Len(d.any) |-> verdict[d.any[i]]], "false")
            ELSE "false"
    IN  verdict[c]

\* Mutant: what is not known is approved.
to_outcome_Open(action) ==
    CASE action = "require_override" -> "REQUIRE_OVERRIDE"
      [] action = "reject" -> "REJECT"
      [] action \in Unhashable -> "raise"
      [] OTHER -> "APPROVE"

\* _to_outcome: no rule, or an action nobody knows, is REJECT; to look up a list
\* is a TypeError.
to_outcome(action) ==
    CASE action = "approve" -> "APPROVE"
      [] action = "require_override" -> "REQUIRE_OVERRIDE"
      [] action \in Unhashable -> "raise"
      [] OTHER -> "REJECT"

\* evaluate_policy in one piece: what comes of a bag of signals.
evaluate_policy(policy, bag) ==
    LET i == SelectInSeq(policy.rules,
                 LAMBDA r : evaluate_condition(r.condition, bag) # "false")
    IN  IF i # 0 /\ evaluate_condition(policy.rules[i].condition, bag) = "raise"
          THEN "raise"
          ELSE to_outcome(IF i = 0 THEN "none" ELSE policy.rules[i].action)
=============================================================================
