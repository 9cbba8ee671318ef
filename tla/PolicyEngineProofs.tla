------------------------- MODULE PolicyEngineProofs -------------------------
(***************************************************************************)
(* Proofs about PolicyEngine, for any documents that JSON can hold and any *)
(* signals.  On a document that was validated the short circuits of the    *)
(* engine compute what the document says, or raise at a fact that is a     *)
(* list or an object (Truthful), by induction on its conditions; the rest  *)
(* is the loop over the rules.                                             *)
(***************************************************************************)
EXTENDS PolicyEngine, PolicyRulesProofs

-----------------------------------------------------------------------------
\* One level of Satisfied, given which children hold.
HoldsStep(holds, d, bag) ==
    \/ /\ Has(d, "fact")
       /\ Has(bag, d.fact)
       /\ d.operator \in OPERATORS
       /\ evaluate(bag[d.fact], d.operator, IF Has(d, "value") THEN d.value ELSE Null)
    \/ /\ ~Has(d, "fact")
       /\ \/ Has(d, "always")
          \/ Has(d, "all") /\ \A e \in Range(d.all) : holds[e]
          \/ ~Has(d, "all") /\ Has(d, "any") /\ \E e \in Range(d.any) : holds[e]

Holds(holds, bag) == holds = [d \in Conditions |-> HoldsStep(holds, d, bag)]

\* Satisfied, unfolded to the function behind it.
LEMMA SatisfiedDef ==
    ASSUME NEW c, NEW bag
    PROVE  Satisfied(c, bag) = (CHOOSE holds : Holds(holds, bag))[c]
BY Zenon DEF Satisfied, Holds, HoldsStep

\* That function exists.
LEMMA HoldsExists == ASSUME NEW bag PROVE \E holds : Holds(holds, bag)
<1> DEFINE F == [Conditions -> BOOLEAN]
           step == [c \in Conditions |-> [f \in F |-> HoldsStep(f, c, bag)]]
<1>1. ASSUME NEW c \in Conditions, NEW f \in F PROVE HoldsStep(f, c, bag) \in BOOLEAN
  BY Zenon DEF HoldsStep
<1>2. ASSUME NEW c \in Conditions, NEW f \in F, NEW g \in F,
             \A d \in Children(c) : f[d] = g[d]
      PROVE  HoldsStep(f, c, bag) = HoldsStep(g, c, bag)
  <2>1. Has(c, "all") => \A e \in Range(c.all) : f[e] = g[e]
    BY <1>2, ListedAreChildren
  <2>2. Has(c, "any") => \A e \in Range(c.any) : f[e] = g[e]
    BY <1>2, ListedAreChildren
  <2>3. Has(c, "all") => ((\A e \in Range(c.all) : f[e]) <=> (\A e \in Range(c.all) : g[e]))
    BY <2>1
  <2>4. Has(c, "any") => ((\E e \in Range(c.any) : f[e]) <=> (\E e \in Range(c.any) : g[e]))
    BY <2>2
  <2> QED BY <2>3, <2>4 DEF HoldsStep
<1>3. step \in [Conditions -> [F -> BOOLEAN]]
  BY <1>1
<1>4. \A c \in Conditions : \A f, g \in F :
          (\A d \in Children(c) : f[d] = g[d]) => step[c][f] = step[c][g]
  BY <1>2
<1>5. IsStep(step, BOOLEAN)
  BY <1>3, <1>4 DEF IsStep
<1>6. PICK f : Follows(f, step, BOOLEAN)
  <2> HIDE DEF step
  <2>1. TRUE \in BOOLEAN
    OBVIOUS
  <2> QED BY <1>5, <2>1, ConditionRecursion, Zenon
<1>7. f = [c \in Conditions |-> HoldsStep(f, c, bag)]
  <2>1. f = [c \in Conditions |-> f[c]] /\ f \in F
    BY <1>6 DEF Follows
  <2>2. \A c \in Conditions : f[c] = HoldsStep(f, c, bag)
    BY <1>6, <2>1 DEF Follows
  <2> QED BY <2>1, <2>2
<1> QED BY <1>7, Zenon DEF Holds

\* The equation of Satisfied, for a leaf and for the others.
LEMMA SatisfiedIs ==
    ASSUME NEW bag, NEW c \in Conditions
    PROVE  /\ Has(c, "fact") =>
                 (Satisfied(c, bag) <=>
                     /\ Has(bag, c.fact)
                     /\ c.operator \in OPERATORS
                     /\ evaluate(bag[c.fact], c.operator,
                                 IF Has(c, "value") THEN c.value ELSE Null))
           /\ ~Has(c, "fact") =>
                 (Satisfied(c, bag) <=>
                     \/ Has(c, "always")
                     \/ Has(c, "all") /\ \A e \in Range(c.all) : Satisfied(e, bag)
                     \/ ~Has(c, "all") /\ Has(c, "any") /\ \E e \in Range(c.any) : Satisfied(e, bag))
<1> DEFINE holds == CHOOSE v : Holds(v, bag)
<1>1. Holds(holds, bag)
  BY HoldsExists, Zenon
<1>2. \A d : Satisfied(d, bag) = holds[d]
  BY SatisfiedDef, Zenon
<1> HIDE DEF holds
<1>3. Satisfied(c, bag) = HoldsStep(holds, c, bag)
  BY <1>1, <1>2, Zenon DEF Holds
<1> QED BY <1>2, <1>3, Zenon DEF HoldsStep

-----------------------------------------------------------------------------
\* One level of Facts, given the facts of the children.
FactsStep(facts, d) ==
    IF Has(d, "fact") THEN {d.fact} ELSE UNION {facts[e] : e \in Children(d)}

Names(facts) == facts = [d \in Conditions |-> FactsStep(facts, d)]

\* Facts, unfolded to the function behind it.
LEMMA FactsDef ==
    ASSUME NEW c
    PROVE  Facts(c) = (CHOOSE facts : Names(facts))[c]
BY Zenon DEF Facts, Names, FactsStep

\* The conditions inside one at hand are at hand.
LEMMA ChildrenAtHand == \A c \in Conditions : Children(c) \subseteq Conditions
<1>1. Len(Nesting) \in 0..Len(Nesting) /\ Conditions = Upto(Len(Nesting))
  BY NestingIs
<1> QED BY <1>1, UptoCloses

\* That function exists.
LEMMA NamesExists == \E facts : Names(facts)
<1> DEFINE V == SUBSET {d.fact : d \in Conditions}
           F == [Conditions -> V]
           step == [c \in Conditions |-> [f \in F |-> FactsStep(f, c)]]
<1>1. ASSUME NEW c \in Conditions, NEW f \in F PROVE FactsStep(f, c) \in V
  <2>1. \A e \in Children(c) : f[e] \subseteq {d.fact : d \in Conditions}
    BY ChildrenAtHand
  <2>2. UNION {f[e] : e \in Children(c)} \subseteq {d.fact : d \in Conditions}
    BY <2>1, Zenon
  <2>3. {c.fact} \subseteq {d.fact : d \in Conditions}
    BY Zenon
  <2> QED BY <2>2, <2>3 DEF FactsStep
<1>2. ASSUME NEW c \in Conditions, NEW f \in F, NEW g \in F,
             \A d \in Children(c) : f[d] = g[d]
      PROVE  FactsStep(f, c) = FactsStep(g, c)
  <2>1. UNION {f[e] : e \in Children(c)} = UNION {g[e] : e \in Children(c)}
    BY <1>2
  <2> QED BY <2>1, Zenon DEF FactsStep
<1> HIDE DEF V
<1>3. step \in [Conditions -> [F -> V]]
  BY <1>1
<1>4. \A c \in Conditions : \A f, g \in F :
          (\A d \in Children(c) : f[d] = g[d]) => step[c][f] = step[c][g]
  BY <1>2
<1>5. IsStep(step, V)
  BY <1>3, <1>4 DEF IsStep
<1>6. PICK f : Follows(f, step, V)
  <2> HIDE DEF step
  <2>1. {} \in V
    BY DEF V
  <2> QED BY <1>5, <2>1, ConditionRecursion, Zenon
<1>7. f = [c \in Conditions |-> FactsStep(f, c)]
  <2>1. f = [c \in Conditions |-> f[c]] /\ f \in F
    BY <1>6 DEF Follows
  <2>2. \A c \in Conditions : f[c] = FactsStep(f, c)
    BY <1>6, <2>1 DEF Follows
  <2> QED BY <2>1, <2>2
<1> QED BY <1>7, Zenon DEF Names

\* The facts of a leaf, and of what is inside a condition.
LEMMA FactsIs ==
    ASSUME NEW c \in Conditions
    PROVE  /\ Has(c, "fact") => Facts(c) = {c.fact}
           /\ ~Has(c, "fact") => \A e \in Children(c) : Facts(e) \subseteq Facts(c)
<1> DEFINE facts == CHOOSE f : Names(f)
<1>1. Names(facts)
  BY NamesExists, Zenon
<1>2. \A d : Facts(d) = facts[d]
  BY FactsDef, Zenon
<1> HIDE DEF facts
<1>3. Facts(c) = FactsStep(facts, c)
  BY <1>1, <1>2, Zenon DEF Names
<1>4. ~Has(c, "fact") => Facts(c) = UNION {facts[e] : e \in Children(c)}
  BY <1>3, Zenon DEF FactsStep
<1>5. ~Has(c, "fact") => \A e \in Children(c) : Facts(e) \subseteq Facts(c)
  BY <1>2, <1>4
<1>6. Has(c, "fact") => Facts(c) = {c.fact}
  BY <1>3, Zenon DEF FactsStep
<1> QED BY <1>5, <1>6

-----------------------------------------------------------------------------
\* What the engine finds of a condition is what the condition says, and it raises
\* only where a fact is a list or an object.
Agrees(c, bag) ==
    /\ evaluate_condition(c, bag) \in Verdicts
    /\ evaluate_condition(c, bag) = "true" => Satisfied(c, bag)
    /\ evaluate_condition(c, bag) = "false" => ~Satisfied(c, bag)
    /\ evaluate_condition(c, bag) = "raise" => Facts(c) \cap Unhashable # {}

\* A list of which the engine and the document agree child by child, each child
\* one of the condition c.
LEMMA ListAgrees ==
    ASSUME NEW list \in Seq(Conditions), NEW bag, \A i \in 1..Len(list) : Agrees(list[i], bag),
           NEW fs, \A i \in 1..Len(list) : Facts(list[i]) \subseteq fs
    PROVE  LET r == [i \in 1..Len(list) |-> evaluate_condition(list[i], bag)]
               all == FirstOther(r, "true")
               any == FirstOther(r, "false")
           IN  /\ all \in Verdicts /\ any \in Verdicts
               /\ all = "true" => \A e \in Range(list) : Satisfied(e, bag)
               /\ all = "false" => \E e \in Range(list) : ~Satisfied(e, bag)
               /\ any = "true" => \E e \in Range(list) : Satisfied(e, bag)
               /\ any = "false" => \A e \in Range(list) : ~Satisfied(e, bag)
               /\ all = "raise" \/ any = "raise" => fs \cap Unhashable # {}
<1> DEFINE n == Len(list)
           r == [i \in 1..n |-> evaluate_condition(list[i], bag)]
           all == FirstOther(r, "true")
           any == FirstOther(r, "false")
<1>1. n \in Nat /\ DOMAIN list = 1..n
  OBVIOUS
<1>2. Range(list) = {list[i] : i \in 1..n}
  BY <1>1, Zenon DEF Range
<1>3. \A i \in 1..n : /\ r[i] \in Verdicts
                      /\ r[i] = "true" => Satisfied(list[i], bag)
                      /\ r[i] = "false" => ~Satisfied(list[i], bag)
                      /\ r[i] = "raise" => fs \cap Unhashable # {}
  <2> SUFFICES ASSUME NEW i \in 1..n
               PROVE  /\ r[i] \in Verdicts
                      /\ r[i] = "true" => Satisfied(list[i], bag)
                      /\ r[i] = "false" => ~Satisfied(list[i], bag)
                      /\ r[i] = "raise" => fs \cap Unhashable # {}
    OBVIOUS
  <2>1. r[i] = evaluate_condition(list[i], bag) /\ Facts(list[i]) \subseteq fs
    OBVIOUS
  <2> HIDE DEF r
  <2> QED BY <2>1 DEF Agrees
<1>4. IsList(r, n)
  BY <1>1 DEF IsList
<1> HIDE DEF r, n
<1>5. IsFirstOther(all, r, n, "true") /\ IsFirstOther(any, r, n, "false")
  BY <1>4, FirstOtherIs, Zenon
<1>6. "true" \in Verdicts /\ "false" \in Verdicts /\ "true" # "raise" /\ "false" # "raise"
  BY DEF Verdicts
<1>7. all \in Verdicts /\ any \in Verdicts
  BY <1>3, <1>4, <1>6, FirstOtherIn, Zenon
<1> HIDE DEF all, any
<1>8. /\ all = "true" => \A i \in 1..n : Satisfied(list[i], bag)
      /\ all = "false" => \E i \in 1..n : ~Satisfied(list[i], bag)
      /\ all = "raise" => fs \cap Unhashable # {}
  BY <1>3, <1>5 DEF IsFirstOther
<1>9. /\ any = "true" => \E i \in 1..n : Satisfied(list[i], bag)
      /\ any = "false" => \A i \in 1..n : ~Satisfied(list[i], bag)
      /\ any = "raise" => fs \cap Unhashable # {}
  BY <1>3, <1>5 DEF IsFirstOther
<1>10. /\ (\A i \in 1..n : Satisfied(list[i], bag)) => \A e \in Range(list) : Satisfied(e, bag)
       /\ (\E i \in 1..n : ~Satisfied(list[i], bag)) => \E e \in Range(list) : ~Satisfied(e, bag)
       /\ (\E i \in 1..n : Satisfied(list[i], bag)) => \E e \in Range(list) : Satisfied(e, bag)
       /\ (\A i \in 1..n : ~Satisfied(list[i], bag)) => \A e \in Range(list) : ~Satisfied(e, bag)
  BY <1>2, Zenon
<1>11. /\ all \in Verdicts /\ any \in Verdicts
       /\ all = "true" => \A e \in Range(list) : Satisfied(e, bag)
       /\ all = "false" => \E e \in Range(list) : ~Satisfied(e, bag)
       /\ any = "true" => \E e \in Range(list) : Satisfied(e, bag)
       /\ any = "false" => \A e \in Range(list) : ~Satisfied(e, bag)
       /\ all = "raise" \/ any = "raise" => fs \cap Unhashable # {}
  BY <1>7, <1>8, <1>9, <1>10, Zenon
<1> QED BY <1>11 DEF all, any, r, n

\* Of a condition that _validate_condition accepts, _evaluate_condition finds what
\* it says, whatever keys the condition combines and in whatever depth: its short
\* circuits pass over nothing that counts, and it raises only at a fact that is
\* a list or an object.
LEMMA Truthful ==
    ASSUME NEW bag, NEW c \in Conditions, validate_condition(c)
    PROVE  Agrees(c, bag)
<1> DEFINE S == {d \in Conditions : validate_condition(d) => Agrees(d, bag)}
<1>1. ASSUME NEW d \in Conditions, Children(d) \subseteq S, validate_condition(d)
      PROVE  Agrees(d, bag)
  <2>1. CASE Has(d, "fact")
    <3>1. d.operator \in OPERATORS
      BY <1>1, <2>1, ValidIs DEF validate_leaf
    <3>2. evaluate_condition(d, bag) = evaluate_leaf(d, bag)
      BY <2>1, VerdictIs, Zenon
    <3>3. Satisfied(d, bag) <=>
              /\ Has(bag, d.fact)
              /\ evaluate(bag[d.fact], d.operator, IF Has(d, "value") THEN d.value ELSE Null)
      BY <2>1, <3>1, SatisfiedIs, Zenon
    <3>4. d.fact \notin Unhashable =>
              evaluate_leaf(d, bag) = IF Satisfied(d, bag) THEN "true" ELSE "false"
      BY <3>1, <3>3 DEF evaluate_leaf
    <3>5. d.fact \in Unhashable => evaluate_leaf(d, bag) = "raise"
      BY DEF evaluate_leaf
    <3>6. d.fact \in Unhashable => Facts(d) \cap Unhashable # {}
      BY <2>1, FactsIs
    <3> QED BY <3>2, <3>4, <3>5, <3>6 DEF Agrees, Verdicts
  <2>2. CASE ~Has(d, "fact") /\ Has(d, "always")
    <3>1. evaluate_condition(d, bag) = "true"
      BY <2>2, VerdictIs, Zenon
    <3>2. Satisfied(d, bag)
      BY <2>2, SatisfiedIs, Zenon
    <3> QED BY <3>1, <3>2 DEF Agrees, Verdicts
  <2>3. CASE ~Has(d, "fact") /\ ~Has(d, "always") /\ Has(d, "all")
    <3> DEFINE r == [i \in 1..Len(d.all) |-> evaluate_condition(d.all[i], bag)]
    <3>1. /\ d.all \in Seq(Conditions)
          /\ \A i \in 1..Len(d.all) : Agrees(d.all[i], bag) /\ d.all[i] \in Children(d)
      BY <1>1, <2>3, ListedAreChildren, ValidIs
    <3>2. \A i \in 1..Len(d.all) : Facts(d.all[i]) \subseteq Facts(d)
      BY <2>3, <3>1, FactsIs
    <3>3. evaluate_condition(d, bag) = FirstOther(r, "true")
      BY <2>3, VerdictIs, Zenon
    <3>4. /\ FirstOther(r, "true") \in Verdicts
          /\ FirstOther(r, "true") = "true" => \A e \in Range(d.all) : Satisfied(e, bag)
          /\ FirstOther(r, "true") = "false" => \E e \in Range(d.all) : ~Satisfied(e, bag)
          /\ FirstOther(r, "true") = "raise" => Facts(d) \cap Unhashable # {}
      BY <3>1, <3>2, ListAgrees, Zenon
    <3>5. Satisfied(d, bag) <=> \A e \in Range(d.all) : Satisfied(e, bag)
      BY <2>3, SatisfiedIs, Zenon
    <3> QED BY <3>3, <3>4, <3>5, Zenon DEF Agrees
  <2>4. CASE ~Has(d, "fact") /\ ~Has(d, "always") /\ ~Has(d, "all") /\ Has(d, "any")
    <3> DEFINE r == [i \in 1..Len(d.any) |-> evaluate_condition(d.any[i], bag)]
    <3>1. /\ d.any \in Seq(Conditions)
          /\ \A i \in 1..Len(d.any) : Agrees(d.any[i], bag) /\ d.any[i] \in Children(d)
      BY <1>1, <2>4, ListedAreChildren, ValidIs
    <3>2. \A i \in 1..Len(d.any) : Facts(d.any[i]) \subseteq Facts(d)
      BY <2>4, <3>1, FactsIs
    <3>3. evaluate_condition(d, bag) = FirstOther(r, "false")
      BY <2>4, VerdictIs, Zenon
    <3>4. /\ FirstOther(r, "false") \in Verdicts
          /\ FirstOther(r, "false") = "true" => \E e \in Range(d.any) : Satisfied(e, bag)
          /\ FirstOther(r, "false") = "false" => \A e \in Range(d.any) : ~Satisfied(e, bag)
          /\ FirstOther(r, "false") = "raise" => Facts(d) \cap Unhashable # {}
      BY <3>1, <3>2, ListAgrees, Zenon
    <3>5. Satisfied(d, bag) <=> \E e \in Range(d.any) : Satisfied(e, bag)
      BY <2>4, SatisfiedIs, Zenon
    <3> QED BY <3>3, <3>4, <3>5, Zenon DEF Agrees
  <2>5. CASE ~Has(d, "fact") /\ ~Has(d, "always") /\ ~Has(d, "all") /\ ~Has(d, "any")
    BY <1>1, <2>5, ValidIs
  <2> QED BY <2>1, <2>2, <2>3, <2>4, <2>5
<1>2. Conditions \subseteq S
  <2>1. \A d \in Conditions : Children(d) \subseteq S => d \in S
    BY <1>1
  <2> HIDE DEF S
  <2> QED BY <2>1, ConditionInduction
<1> QED BY <1>2

\* Taking signals away never makes a condition hold.
LEMMA SatisfiedMono ==
    ASSUME NEW bag, NEW known \in SUBSET DOMAIN bag, NEW c \in Conditions,
           Satisfied(c, [k \in known |-> bag[k]])
    PROVE  Satisfied(c, bag)
<1> DEFINE few == [k \in known |-> bag[k]]
           S == {d \in Conditions : Satisfied(d, few) => Satisfied(d, bag)}
<1>1. \A k : Has(few, k) => Has(bag, k) /\ few[k] = bag[k]
  BY DEF Has
<1> HIDE DEF few
<1>2. ASSUME NEW d \in Conditions, Children(d) \subseteq S, Satisfied(d, few)
      PROVE  Satisfied(d, bag)
  <2>1. CASE Has(d, "fact")
    <3>1. /\ Has(few, d.fact)
          /\ d.operator \in OPERATORS
          /\ evaluate(few[d.fact], d.operator, IF Has(d, "value") THEN d.value ELSE Null)
      BY <1>2, <2>1, SatisfiedIs, Zenon
    <3>2. /\ Has(bag, d.fact)
          /\ d.operator \in OPERATORS
          /\ evaluate(bag[d.fact], d.operator, IF Has(d, "value") THEN d.value ELSE Null)
      BY <1>1, <3>1, Zenon
    <3> QED BY <2>1, <3>2, SatisfiedIs, Zenon
  <2>2. CASE ~Has(d, "fact")
    <3>1. Has(d, "all") => \A e \in Range(d.all) : Satisfied(e, few) => Satisfied(e, bag)
      BY <1>2, ListedAreChildren
    <3>2. Has(d, "any") => \A e \in Range(d.any) : Satisfied(e, few) => Satisfied(e, bag)
      BY <1>2, ListedAreChildren
    <3>3. \/ Has(d, "always")
          \/ Has(d, "all") /\ \A e \in Range(d.all) : Satisfied(e, few)
          \/ ~Has(d, "all") /\ Has(d, "any") /\ \E e \in Range(d.any) : Satisfied(e, few)
      BY <1>2, <2>2, SatisfiedIs, Zenon
    <3>4. \/ Has(d, "always")
          \/ Has(d, "all") /\ \A e \in Range(d.all) : Satisfied(e, bag)
          \/ ~Has(d, "all") /\ Has(d, "any") /\ \E e \in Range(d.any) : Satisfied(e, bag)
      BY <3>1, <3>2, <3>3, Zenon
    <3> QED BY <2>2, <3>4, SatisfiedIs, Zenon
  <2> QED BY <2>1, <2>2
<1>3. Conditions \subseteq S
  <2>1. \A d \in Conditions : Children(d) \subseteq S => d \in S
    BY <1>2
  <2> HIDE DEF S
  <2> QED BY <2>1, ConditionInduction
<1> QED BY <1>3 DEF few
-----------------------------------------------------------------------------
Verdict(i) == evaluate_condition(Rule(i).condition, signals)

\* The rules are checked in order, from the first: of those that were, the last
\* alone may have matched or raised, and it ends the loop.
EngineInv ==
    /\ \E case \in Cases : document = case[1] /\ signals = case[2]
    /\ state \in {"load", "invalid", "match", "done", "raised"}
    /\ state \in {"match", "done", "raised"} => validate_policy(document)
    /\ Len(trace) \in 0..Len(document.rules)
    /\ trace = [i \in 1..Len(trace) |-> Rule(i).id]
    /\ \A i \in 1..Len(trace) :
          i < Len(trace) \/ state \in {"load", "invalid", "match"} => Verdict(i) = "false"
    /\ state \in {"load", "invalid", "match"} => matched = 0
    /\ state = "done" =>
          \/ /\ matched = 0 /\ Len(trace) = Len(document.rules)
             /\ \A i \in 1..Len(trace) : Verdict(i) = "false"
          \/ /\ matched = Len(trace) /\ matched # 0
             /\ Verdict(matched) = "true" /\ to_outcome(Rule(matched).action) # "raise"
    /\ state = "raised" =>
          /\ Len(trace) # 0
          /\ \/ Verdict(Len(trace)) = "raise"
             \/ /\ Verdict(Len(trace)) = "true"
                /\ to_outcome(Rule(Len(trace)).action) = "raise"

\* What the code knows of a case: the rules are a list, of conditions at hand.
LEMMA CaseIs ==
    ASSUME \E case \in Cases : document = case[1] /\ signals = case[2]
    PROVE  /\ document.rules \in Seq(Range(document.rules))
           /\ Len(document.rules) \in Nat
           /\ \A i \in 1..Len(document.rules) : Rule(i).condition \in Conditions
           /\ \A k \in DOMAIN signals : IsValue(signals[k])
<1>1. /\ document.rules \in Seq(Range(document.rules))
      /\ \A r \in Range(document.rules) : r.condition \in Conditions
      /\ \A k \in DOMAIN signals : IsValue(signals[k])
  BY CasesAssumption
<1>2. Len(document.rules) \in Nat
  BY <1>1
<1>3. \A i \in 1..Len(document.rules) : Rule(i) \in Range(document.rules)
  BY <1>1 DEF Rule
<1> QED BY <1>1, <1>2, <1>3

\* The rules of a document that validate_policy accepts say what they mean.
LEMMA RulesAgree ==
    ASSUME \E case \in Cases : document = case[1] /\ signals = case[2],
           validate_policy(document), NEW i \in 1..Len(document.rules), NEW bag
    PROVE  Agrees(Rule(i).condition, bag)
<1>1. validate_condition(Rule(i).condition)
  BY DEF validate_policy, validate_rule, Rule
<1>2. Rule(i).condition \in Conditions
  BY CaseIs
<1> QED BY <1>1, <1>2, Truthful

LEMMA EngineInit == Init => EngineInv
<1> SUFFICES ASSUME Init PROVE EngineInv
  OBVIOUS
<1>1. /\ \E case \in Cases : document = case[1] /\ signals = case[2]
      /\ state = "load" /\ trace = <<>> /\ matched = 0
  BY DEF Init
<1>2. Len(document.rules) \in Nat
  BY <1>1, CaseIs
<1>3. Len(trace) = 0 /\ trace = [i \in 1..0 |-> Rule(i).id]
  BY <1>1
<1> QED BY <1>1, <1>2, <1>3 DEF EngineInv

LEMMA LoadPolicyKeeps == EngineInv /\ LoadPolicy => EngineInv'
<1> SUFFICES ASSUME EngineInv, LoadPolicy PROVE EngineInv'
  OBVIOUS
<1>1. /\ document' = document /\ signals' = signals /\ trace' = trace /\ matched' = matched
      /\ state = "load"
      /\ state' \in {"match", "invalid"}
      /\ state' = "match" => validate_policy(document)
  BY DEF LoadPolicy
<1>2. matched = 0
  BY <1>1 DEF EngineInv
<1> QED BY <1>1, <1>2 DEF EngineInv, Rule, Verdict

\* A rule is checked: one more verdict is known, and any but "false" ends the loop.
LEMMA CheckRuleKeeps == EngineInv /\ CheckRule => EngineInv'
<1> SUFFICES ASSUME EngineInv, CheckRule PROVE EngineInv'
  OBVIOUS
<1> DEFINE n == Len(trace) + 1
           raises == to_outcome(Rule(n).action) = "raise"
<1>1. /\ document' = document /\ signals' = signals
      /\ state = "match" /\ Len(trace) < Len(document.rules)
      /\ trace' = Append(trace, Rule(n).id)
      /\ matched' = IF Verdict(n) = "true" THEN n ELSE 0
      /\ state' = CASE Verdict(n) = "true" -> IF raises THEN "raised" ELSE "done"
                    [] Verdict(n) = "raise" -> "raised"
                    [] Verdict(n) = "false" -> "match"
  BY DEF CheckRule, Verdict
<1>2. /\ \E case \in Cases : document = case[1] /\ signals = case[2]
      /\ validate_policy(document)
      /\ Len(trace) \in 0..Len(document.rules)
      /\ trace = [i \in 1..Len(trace) |-> Rule(i).id]
      /\ \A i \in 1..Len(trace) : Verdict(i) = "false"
  BY <1>1 DEF EngineInv
<1>3. Len(document.rules) \in Nat /\ Len(trace) \in Nat /\ n \in 1..Len(document.rules)
  BY <1>1, <1>2, CaseIs
<1>4. Verdict(n) \in {"true", "false", "raise"}
  <2>1. Agrees(Rule(n).condition, signals)
    BY <1>2, <1>3, RulesAgree
  <2> QED BY <2>1 DEF Agrees, Verdicts, Verdict
<1>5. /\ Len(trace') = n
      /\ trace' = [i \in 1..n |-> Rule(i).id]
  <2>1. trace \in Seq(Range(trace))
    BY <1>2, <1>3, SeqOfFunction
  <2>2. /\ Len(trace') = n /\ DOMAIN trace' = 1..n
        /\ \A i \in 1..Len(trace) : trace'[i] = trace[i]
        /\ trace'[n] = Rule(n).id
        /\ trace' = [i \in 1..n |-> trace'[i]]
    BY <1>1, <1>3, <2>1
  <2>3. \A i \in 1..n : trace'[i] = Rule(i).id
    BY <1>2, <1>3, <2>2
  <2> QED BY <2>2, <2>3
<1>6. /\ (\E case \in Cases : document = case[1] /\ signals = case[2])'
      /\ validate_policy(document)'
      /\ (trace = [i \in 1..Len(trace) |-> Rule(i).id])'
      /\ (Len(trace) \in 0..Len(document.rules))'
      /\ \A i : Rule(i)' = Rule(i) /\ Verdict(i)' = Verdict(i)
  <2>1. n \in 0..Len(document.rules)
    BY <1>3
  <2> HIDE DEF n
  <2>2. (\E case \in Cases : document = case[1] /\ signals = case[2])' /\ validate_policy(document)'
    BY <1>1, <1>2
  <2>3. (trace = [i \in 1..Len(trace) |-> Rule(i).id])'
    BY <1>1, <1>5 DEF Rule
  <2>4. (Len(trace) \in 0..Len(document.rules))'
    BY <1>1, <1>5, <2>1
  <2>5. \A i : Rule(i)' = Rule(i) /\ Verdict(i)' = Verdict(i)
    BY <1>1 DEF Rule, Verdict
  <2> QED BY <2>2, <2>3, <2>4, <2>5
<1>7. \A i \in 1..n : i < n => Verdict(i) = "false"
  BY <1>2, <1>3
<1>8. n # 0
  BY <1>3
<1> HIDE DEF n, raises
<1>9. CASE Verdict(n) = "true"
  <2>1. matched' = n /\ state' = IF raises THEN "raised" ELSE "done"
    BY <1>1, <1>9
  <2> QED BY <1>5, <1>6, <1>7, <1>8, <1>9, <2>1 DEF EngineInv, raises
<1>10. CASE Verdict(n) = "raise"
  <2>1. state' = "raised"
    BY <1>1, <1>10
  <2> QED BY <1>5, <1>6, <1>7, <1>8, <1>10, <2>1 DEF EngineInv
<1>11. CASE Verdict(n) = "false"
  <2>1. matched' = 0 /\ state' = "match"
    BY <1>1, <1>11
  <2>2. \A i \in 1..n : Verdict(i) = "false"
    <3>1. \A i \in 1..n : i < n \/ i = n
      BY <1>3 DEF n
    <3> QED BY <3>1, <1>7, <1>11
  <2> QED BY <1>5, <1>6, <2>1, <2>2 DEF EngineInv
<1> QED BY <1>4, <1>9, <1>10, <1>11

LEMMA NoRuleMatchedKeeps == EngineInv /\ NoRuleMatched => EngineInv'
<1> SUFFICES ASSUME EngineInv, NoRuleMatched PROVE EngineInv'
  OBVIOUS
<1>1. /\ document' = document /\ signals' = signals /\ trace' = trace /\ matched' = matched
      /\ state = "match" /\ state' = "done" /\ Len(trace) = Len(document.rules)
  BY DEF NoRuleMatched
<1> QED BY <1>1 DEF EngineInv, Rule, Verdict

\* The engine checks the rules of a validated document in order and stops at the
\* first that matches or raises (_find_first_match).
THEOREM EngineChecksInOrder == Spec => []EngineInv
<1>1. EngineInv /\ [Next]_vars => EngineInv'
  <2>1. EngineInv /\ UNCHANGED vars => EngineInv'
    BY DEF EngineInv, vars, Rule, Verdict
  <2> QED BY <2>1, LoadPolicyKeeps, CheckRuleKeeps, NoRuleMatchedKeeps DEF Next
<1> QED BY <1>1, EngineInit, PTL DEF Spec

-----------------------------------------------------------------------------
\* What the loop leaves behind when it ends.
LEMMA DoneIs ==
    ASSUME EngineInv, state = "done"
    PROVE  /\ Len(document.rules) \in Nat
           /\ validate_policy(document)
           /\ \/ /\ matched = 0 /\ Matches(signals) = {}
                 /\ trace = [i \in 1..Len(document.rules) |-> Rule(i).id]
              \/ /\ matched \in Matches(signals) /\ matched # 0
                 /\ \A i \in Matches(signals) : matched <= i
                 /\ trace = [i \in 1..matched |-> Rule(i).id]
<1>1. /\ \E case \in Cases : document = case[1] /\ signals = case[2]
      /\ validate_policy(document)
      /\ Len(trace) \in 0..Len(document.rules)
      /\ trace = [i \in 1..Len(trace) |-> Rule(i).id]
      /\ \A i \in 1..Len(trace) : i < Len(trace) => Verdict(i) = "false"
      /\ \/ /\ matched = 0 /\ Len(trace) = Len(document.rules)
            /\ \A i \in 1..Len(trace) : Verdict(i) = "false"
         \/ matched # 0 /\ matched = Len(trace) /\ Verdict(matched) = "true"
  BY DEF EngineInv
<1>2. Len(document.rules) \in Nat
  BY <1>1, CaseIs
<1> DEFINE Sat(i) == Satisfied(Rule(i).condition, signals)
<1>3. \A i \in 1..Len(document.rules) : /\ Verdict(i) = "false" => ~Sat(i)
                                        /\ Verdict(i) = "true" => Sat(i)
  <2>1. \A i \in 1..Len(document.rules) : Agrees(Rule(i).condition, signals)
    BY <1>1, RulesAgree
  <2> QED BY <2>1, Zenon DEF Agrees, Verdict
<1>4. Matches(signals) = {i \in 1..Len(document.rules) : Sat(i)}
  BY DEF Matches
<1> HIDE DEF Sat
<1>5. CASE /\ matched = 0 /\ Len(trace) = Len(document.rules)
           /\ \A i \in 1..Len(trace) : Verdict(i) = "false"
  <2>1. Matches(signals) = {}
    BY <1>3, <1>4, <1>5
  <2> QED BY <1>1, <1>2, <1>5, <2>1
<1>6. CASE matched # 0 /\ matched = Len(trace) /\ Verdict(matched) = "true"
  <2>1. matched \in Matches(signals)
    <3>1. matched \in 1..Len(document.rules)
      BY <1>1, <1>2, <1>6
    <3> QED BY <1>3, <1>4, <1>6, <3>1, Zenon
  <2>2. ASSUME NEW i \in Matches(signals) PROVE matched <= i
    <3>1. i \in 1..Len(document.rules) /\ Sat(i)
      BY <1>4
    <3>2. Verdict(i) # "false"
      BY <1>3, <3>1
    <3> QED BY <1>1, <1>2, <1>6, <3>1, <3>2
  <2> QED BY <1>1, <1>2, <1>6, <2>1, <2>2
<1> QED BY <1>1, <1>5, <1>6

\* The rule that matched is the first that the signals satisfy.
LEMMA FirstIsMatched ==
    ASSUME EngineInv, state = "done"
    PROVE  matched = (IF Matches(signals) = {} THEN 0 ELSE Min(Matches(signals)))
<1> DEFINE M == Matches(signals)
<1>1. CASE matched = 0
  BY <1>1, DoneIs
<1>2. CASE matched # 0
  <2>1. matched \in M /\ \A i \in M : matched <= i
    BY <1>2, DoneIs
  <2>2. M \in SUBSET Nat
    <3>1. Len(document.rules) \in Nat
      BY DoneIs
    <3> QED BY <3>1 DEF Matches
  <2> HIDE DEF M
  <2>3. Min(M) \in M /\ \A i \in M : Min(M) <= i
    BY <2>1, <2>2, MinIn
  <2>4. matched <= Min(M) /\ Min(M) <= matched /\ matched \in Nat /\ Min(M) \in Nat
    BY <2>1, <2>2, <2>3
  <2>5. matched = Min(M) /\ M # {}
    BY <2>1, <2>4
  <2> QED BY <2>5 DEF M
<1> QED BY <1>1, <1>2

\* "Ordered rules, first match wins": the result is the first rule that the
\* signals satisfy, and matched_path names exactly the rules up to it
\* (_find_first_match and the short circuits of _evaluate_condition).
THEOREM FirstMatch == Spec => []FirstMatchWins
<1>1. EngineInv => FirstMatchWins
  <2> SUFFICES ASSUME EngineInv, state = "done"
               PROVE  trace = [i \in 1..(IF matched = 0 THEN Len(document.rules) ELSE matched)
                                   |-> Rule(i).id]
    BY FirstIsMatched DEF FirstMatchWins
  <2> QED BY DoneIs
<1> QED BY <1>1, EngineChecksInOrder, PTL

\* The loop in one piece: what it returns, or that it raises, is evaluate_policy of
\* the document and the signals, the operator that TransactionPolicy gives the
\* pipeline.
LoopIsEvaluatePolicy ==
    /\ state = "done" => outcome = evaluate_policy(document, signals)
    /\ state = "raised" => evaluate_policy(document, signals) = "raise"

\* The index that evaluate_policy finds is the one at which the loop stopped.
LEMMA FirstHit ==
    ASSUME EngineInv, state \in {"done", "raised"}
    PROVE  LET first == SelectInSeq(document.rules,
                            LAMBDA r : evaluate_condition(r.condition, signals) # "false")
           IN  IF matched = 0 /\ state = "done" THEN first = 0
               ELSE first = Len(trace) /\ first # 0
<1> DEFINE I == {i \in 1..Len(document.rules) : Verdict(i) # "false"}
           first == SelectInSeq(document.rules,
                        LAMBDA r : evaluate_condition(r.condition, signals) # "false")
<1>1. first = IF I # {} THEN Min(I) ELSE 0
  <2>1. I = {i \in 1..Len(document.rules) :
                evaluate_condition(document.rules[i].condition, signals) # "false"}
    BY Zenon DEF Verdict, Rule
  <2> HIDE DEF I
  <2> QED BY <2>1, Zenon DEF SelectInSeq
<1> HIDE DEF first
<1>2. /\ \E case \in Cases : document = case[1] /\ signals = case[2]
      /\ Len(trace) \in 0..Len(document.rules)
      /\ \A i \in 1..Len(trace) : i < Len(trace) => Verdict(i) = "false"
  BY DEF EngineInv
<1>3. Len(document.rules) \in Nat
  BY <1>2, CaseIs
<1>4. CASE matched = 0 /\ state = "done"
  <2>1. Len(trace) = Len(document.rules) /\ \A i \in 1..Len(trace) : Verdict(i) = "false"
    BY <1>4 DEF EngineInv
  <2>2. I = {}
    BY <2>1
  <2> QED BY <1>1, <1>4, <2>2 DEF first
<1>5. CASE ~(matched = 0 /\ state = "done")
  <2>1. Len(trace) # 0 /\ Verdict(Len(trace)) # "false"
    BY <1>5 DEF EngineInv
  <2>2. Len(trace) \in I /\ I \in SUBSET Nat
    BY <1>2, <1>3, <2>1
  <2>3. \A i \in I : Len(trace) <= i
    BY <1>2, <1>3
  <2> HIDE DEF I
  <2>4. Min(I) \in I /\ \A i \in I : Min(I) <= i
    BY <2>2, MinIn
  <2>5. Min(I) = Len(trace)
    <3>1. Min(I) \in Nat /\ Len(trace) \in Nat /\ Min(I) <= Len(trace) /\ Len(trace) <= Min(I)
      BY <2>2, <2>3, <2>4
    <3> QED BY <3>1
  <2>6. first = Len(trace) /\ first # 0
    BY <1>1, <2>1, <2>2, <2>5, Zenon
  <2> QED BY <1>5, <2>6, Zenon DEF first
<1> QED BY <1>4, <1>5

\* So what is proved of decide holds of the loop of policy_engine.py, and what is
\* proved of the loop holds of the decisions of a run.
THEOREM LoopInOnePiece == Spec => []LoopIsEvaluatePolicy
<1>1. EngineInv => LoopIsEvaluatePolicy
  <2> SUFFICES ASSUME EngineInv, state \in {"done", "raised"}
               PROVE  LoopIsEvaluatePolicy
    BY DEF LoopIsEvaluatePolicy
  <2> DEFINE first == SelectInSeq(document.rules,
                          LAMBDA r : evaluate_condition(r.condition, signals) # "false")
  <2>1. evaluate_policy(document, signals) =
          IF first # 0 /\ evaluate_condition(document.rules[first].condition, signals) = "raise"
            THEN "raise"
            ELSE to_outcome(IF first = 0 THEN "none" ELSE document.rules[first].action)
    BY Zenon DEF evaluate_policy
  <2>2. IF matched = 0 /\ state = "done" THEN first = 0 ELSE first = Len(trace) /\ first # 0
    BY FirstHit, Zenon
  <2> HIDE DEF first
  <2>3. evaluate_policy(document, signals) =
          IF first # 0 /\ Verdict(first) = "raise" THEN "raise"
          ELSE to_outcome(IF first = 0 THEN "none" ELSE Rule(first).action)
    BY <2>1, Zenon DEF Verdict, Rule
  <2>4. CASE state = "done" /\ matched = 0
    BY <2>2, <2>3, <2>4 DEF LoopIsEvaluatePolicy, outcome
  <2>5. CASE state = "done" /\ matched # 0
    <3>1. matched = Len(trace) /\ Verdict(matched) = "true"
      BY <2>5 DEF EngineInv
    <3> QED BY <2>2, <2>3, <2>5, <3>1 DEF LoopIsEvaluatePolicy, outcome
  <2>6. CASE state = "raised"
    <3>1. \/ Verdict(Len(trace)) = "raise"
          \/ /\ Verdict(Len(trace)) = "true"
             /\ to_outcome(Rule(Len(trace)).action) = "raise"
      BY <2>6 DEF EngineInv
    <3> QED BY <2>2, <2>3, <2>6, <3>1 DEF LoopIsEvaluatePolicy
  <2> QED BY <2>4, <2>5, <2>6
<1> QED BY <1>1, EngineChecksInOrder, PTL

\* "A missing signal is never confused with a present but negative one": with
\* fewer signals no rule before the one that matched would match (evaluate_leaf).
THEOREM FewerSignals == Spec => []FewerSignalsMatchLater
<1>1. EngineInv => FewerSignalsMatchLater
  <2> SUFFICES ASSUME EngineInv, state = "done", NEW known \in SUBSET DOMAIN signals,
                      NEW i \in 1..Len(document.rules),
                      evaluate_condition(Rule(i).condition, [k \in known |-> signals[k]]) = "true"
               PROVE  matched # 0 /\ matched <= i
    BY DEF FewerSignalsMatchLater
  <2> DEFINE few == [k \in known |-> signals[k]]
  <2>1. \E case \in Cases : document = case[1] /\ signals = case[2]
    BY DEF EngineInv
  <2>2. Rule(i).condition \in Conditions
    BY <2>1, CaseIs
  <2>3. Satisfied(Rule(i).condition, few)
    <3>1. Agrees(Rule(i).condition, few)
      BY <2>1, DoneIs, RulesAgree
    <3> QED BY <3>1 DEF Agrees
  <2>4. Satisfied(Rule(i).condition, signals)
    BY <2>2, <2>3, SatisfiedMono
  <2>5. i \in Matches(signals)
    BY <2>4 DEF Matches
  <2> QED BY <2>5, DoneIs
<1> QED BY <1>1, EngineChecksInOrder, PTL

\* A document that was loaded is evaluated to the end, but for a list or an object
\* that stands for the action of the rule that matched or for a fact of the rule
\* at hand: no operator reaches evaluate that validate_policy has not seen,
\* although the two look at the keys of a condition in different orders.
THEOREM OnlyListsRaise == Spec => []OnlyUnhashableRaises
<1>1. EngineInv => OnlyUnhashableRaises
  <2> SUFFICES ASSUME EngineInv, state = "raised"
               PROVE  \/ Rule(Len(trace)).action \in Unhashable
                      \/ Facts(Rule(Len(trace)).condition) \cap Unhashable # {}
    BY DEF OnlyUnhashableRaises
  <2>1. /\ \E case \in Cases : document = case[1] /\ signals = case[2]
        /\ validate_policy(document)
        /\ Len(trace) \in 0..Len(document.rules) /\ Len(trace) # 0
    BY DEF EngineInv
  <2>2. Len(trace) \in 1..Len(document.rules)
    BY <2>1, CaseIs
  <2>3. Agrees(Rule(Len(trace)).condition, signals)
    BY <2>1, <2>2, RulesAgree
  <2>4. Verdict(Len(trace)) = "raise" => Facts(Rule(Len(trace)).condition) \cap Unhashable # {}
    BY <2>3, Zenon DEF Agrees, Verdict
  <2>5. \A a : to_outcome(a) = "raise" => a \in Unhashable
    BY DEF to_outcome
  <2> QED BY <2>4, <2>5 DEF EngineInv
<1> QED BY <1>1, EngineChecksInOrder, PTL

\* So where every id, fact and action is a string the engine never raises.
THEOREM StringsNeverRaise ==
    ASSUME Unhashable = {}
    PROVE  Spec => [](state # "raised")
<1>1. OnlyUnhashableRaises => state # "raised"
  BY DEF OnlyUnhashableRaises
<1> QED BY <1>1, OnlyListsRaise, PTL

\* Only a rule that says approve, and whose condition holds, approves
\* (_to_outcome): no match, an unknown action and a failed load never do.
THEOREM OnlyRulesApprove == Spec => []FailsClosed
<1>1. EngineInv => FailsClosed
  <2> SUFFICES ASSUME EngineInv, state = "done", outcome = "APPROVE"
               PROVE  \E i \in Matches(signals) : Rule(i).action = "approve"
    BY DEF FailsClosed
  <2>1. \A a : to_outcome(a) = "APPROVE" => a = "approve"
    BY DEF to_outcome
  <2>2. matched # 0 /\ Rule(matched).action = "approve"
    BY <2>1 DEF outcome
  <2> QED BY <2>2, DoneIs
<1> QED BY <1>1, EngineChecksInOrder, PTL

-----------------------------------------------------------------------------
\* What evaluate does with the operators that compare by order.
LEMMA OrderOperators ==
    ASSUME NEW a, NEW b
    PROVE  /\ evaluate(a, "eq", b) <=> Equal(a, b)
           /\ evaluate(a, "gt", b) <=> Less(b, a)
           /\ evaluate(a, "gte", b) <=> AtMost(b, a)
           /\ evaluate(a, "lt", b) <=> Less(a, b)
           /\ evaluate(a, "lte", b) <=> AtMost(a, b)
           /\ evaluate(a, "between", b) <=>
                 /\ IsArray(b) /\ Len(b.val) = 2
                 /\ AtMost(b.val[1], a) /\ AtMost(a, b.val[2])
<1>1. evaluate(a, "eq", b) <=> Equal(a, b)
  BY DEF evaluate
<1>2. evaluate(a, "gt", b) <=> Less(b, a)
  BY DEF evaluate
<1>3. evaluate(a, "gte", b) <=> AtMost(b, a)
  BY DEF evaluate
<1>4. evaluate(a, "lt", b) <=> Less(a, b)
  BY DEF evaluate
<1>5. evaluate(a, "lte", b) <=> AtMost(a, b)
  BY DEF evaluate
<1>6. evaluate(a, "between", b) <=>
          /\ IsArray(b) /\ Len(b.val) = 2
          /\ AtMost(b.val[1], a) /\ AtMost(a, b.val[2])
  BY DEF evaluate
<1> QED BY <1>1, <1>2, <1>3, <1>4, <1>5, <1>6

\* Two numbers are ordered in exactly one way.
LEMMA NumbersAreOrdered ==
    ASSUME NEW x, NEW y, x.type = "number", y.type = "number", x.val \in Int, y.val \in Int
    PROVE  Ordering(x, y) = IF x.val < y.val THEN {"lt"} ELSE IF x.val = y.val THEN {"eq"} ELSE {"gt"}
<1>1. evaluate(x, "lt", y) <=> x.val < y.val
  BY OrderOperators DEF Less, _is_number, AsNumber
<1>2. evaluate(x, "gt", y) <=> y.val < x.val
  BY OrderOperators DEF Less, _is_number, AsNumber
<1>3. evaluate(x, "eq", y) <=> x.val = y.val
  <2>1. Equal(x, y) <=> x.val = y.val
    BY DEF Equal, ScalarEqual, AsNumber
  <2> QED BY <2>1, OrderOperators
<1> QED BY <1>1, <1>2, <1>3 DEF Ordering

\* The comparisons look at numbers only, and agree with the order of them.
LEMMA AtMostIsOrder ==
    ASSUME NEW x, NEW y, IsScalar(x) \/ IsValue(x), IsScalar(y) \/ IsValue(y)
    PROVE  /\ AtMost(x, y) => /\ x.type = "number" /\ y.type = "number"
                              /\ Ordering(x, y) \subseteq {"lt", "eq"}
                              /\ Ordering(y, x) \subseteq {"gt", "eq"}
           /\ Less(x, y) => /\ x.type = "number" /\ y.type = "number"
                            /\ Ordering(x, y) \subseteq {"lt"}
                            /\ Ordering(y, x) \subseteq {"gt"}
<1>1. \A v : (IsScalar(v) \/ IsValue(v)) /\ v.type = "number" => v.val \in Int
  BY DEF IsScalar, IsValue, Null
<1>2. ASSUME x.type = "number", y.type = "number"
      PROVE  /\ AtMost(x, y) <=> x.val <= y.val
             /\ Less(x, y) <=> x.val < y.val
             /\ Ordering(x, y) = IF x.val < y.val THEN {"lt"} ELSE IF x.val = y.val THEN {"eq"} ELSE {"gt"}
             /\ Ordering(y, x) = IF y.val < x.val THEN {"lt"} ELSE IF y.val = x.val THEN {"eq"} ELSE {"gt"}
             /\ x.val \in Int /\ y.val \in Int
  <2>1. x.val \in Int /\ y.val \in Int
    BY <1>1, <1>2
  <2>2. (AtMost(x, y) <=> x.val <= y.val) /\ (Less(x, y) <=> x.val < y.val)
    BY <1>2 DEF AtMost, Less, _is_number, AsNumber
  <2> QED BY <1>2, <2>1, <2>2, NumbersAreOrdered
<1>3. AtMost(x, y) \/ Less(x, y) => x.type = "number" /\ y.type = "number"
  BY DEF AtMost, Less, _is_number
<1> QED BY <1>2, <1>3

\* "A policy author writing true/false never means compare this as a number":
\* only numbers are ever ordered, in one way, and the four operators and between
\* agree with eq on it (_is_number in operator_evaluator.py).
THEOREM OnlyNumbersAreOrdered == Spec => []OrderIsForNumbers
<1>1. EngineInv => OrderIsForNumbers
  <2> DEFINE c == Rule(1).condition
             x == signals[c.fact]
             y == c.value
  <2> SUFFICES ASSUME EngineInv, state = "done", Has(c, "fact"), Has(c, "value"),
                      Has(signals, c.fact)
               PROVE  /\ x.type = "number" /\ y.type = "number" => Cardinality(Ordering(x, y)) = 1
                      /\ matched = 1 =>
                           CASE c.operator = "gt"  -> /\ x.type = "number" /\ y.type = "number"
                                                      /\ Ordering(x, y) \subseteq {"gt"}
                             [] c.operator = "gte" -> /\ x.type = "number" /\ y.type = "number"
                                                      /\ Ordering(x, y) \subseteq {"gt", "eq"}
                             [] c.operator = "lt"  -> /\ x.type = "number" /\ y.type = "number"
                                                      /\ Ordering(x, y) \subseteq {"lt"}
                             [] c.operator = "lte" -> /\ x.type = "number" /\ y.type = "number"
                                                      /\ Ordering(x, y) \subseteq {"lt", "eq"}
                             [] c.operator = "between" ->
                                  /\ x.type = "number"
                                  /\ \A i \in 1..2 : y.val[i].type = "number"
                                  /\ Ordering(x, y.val[1]) \subseteq {"gt", "eq"}
                                  /\ Ordering(x, y.val[2]) \subseteq {"lt", "eq"}
                             [] OTHER -> TRUE
    BY DEF OrderIsForNumbers
  <2>1. \E case \in Cases : document = case[1] /\ signals = case[2]
    BY DEF EngineInv
  <2>2. c \in Conditions
    <3>1. document.rules # <<>> /\ Len(document.rules) \in Nat
      BY DoneIs DEF validate_policy
    <3>2. 1 \in 1..Len(document.rules)
      BY <3>1, <2>1, CaseIs
    <3> QED BY <3>2, <2>1, CaseIs
  <2>3. IsValue(x) /\ IsValue(y)
    BY <2>1, <2>2, CaseIs, RulesAssumption DEF Has
  <2> HIDE DEF c
  <2>4. ASSUME x.type = "number", y.type = "number" PROVE Cardinality(Ordering(x, y)) = 1
    <3> HIDE DEF x, y
    <3>1. x.val \in Int /\ y.val \in Int
      BY <2>3, <2>4 DEF IsScalar, IsValue, Null
    <3>2. \E w : Ordering(x, y) = {w}
      BY <2>4, <3>1, NumbersAreOrdered
    <3> QED BY <3>2, FS_Singleton
  <2>5. ASSUME matched = 1
        PROVE  evaluate(x, c.operator, y)
    <3>1. Satisfied(c, signals)
      BY <2>5, DoneIs DEF Matches, c
    <3> QED BY <2>2, <3>1, SatisfiedIs, Zenon
  <2> HIDE DEF x, y
  <2>6. CASE matched = 1 /\ c.operator = "gt"
    <3>1. Less(y, x)
      BY <2>5, <2>6, OrderOperators
    <3> QED BY <2>3, <2>4, <2>6, <3>1, AtMostIsOrder
  <2>7. CASE matched = 1 /\ c.operator = "gte"
    <3>1. AtMost(y, x)
      BY <2>5, <2>7, OrderOperators
    <3> QED BY <2>3, <2>4, <2>7, <3>1, AtMostIsOrder
  <2>8. CASE matched = 1 /\ c.operator = "lt"
    <3>1. Less(x, y)
      BY <2>5, <2>8, OrderOperators
    <3> QED BY <2>3, <2>4, <2>8, <3>1, AtMostIsOrder
  <2>9. CASE matched = 1 /\ c.operator = "lte"
    <3>1. AtMost(x, y)
      BY <2>5, <2>9, OrderOperators
    <3> QED BY <2>3, <2>4, <2>9, <3>1, AtMostIsOrder
  <2>10. CASE matched = 1 /\ c.operator = "between"
    <3>1. /\ IsArray(y) /\ Len(y.val) = 2
          /\ AtMost(y.val[1], x) /\ AtMost(x, y.val[2])
      BY <2>5, <2>10, OrderOperators
    <3>2. /\ y.val[1].type = "number" /\ x.type = "number" /\ y.val[2].type = "number"
          /\ Ordering(x, y.val[1]) \subseteq {"gt", "eq"}
          /\ Ordering(x, y.val[2]) \subseteq {"lt", "eq"}
      <4>1. IsScalar(y.val[1]) /\ IsScalar(y.val[2])
        BY <2>3, <3>1 DEF IsValue, IsScalar, IsArray, Null
      <4> QED BY <2>3, <3>1, <4>1, AtMostIsOrder
    <3>3. \A i \in 1..2 : y.val[i].type = "number"
      BY <3>2
    <3> QED BY <2>4, <2>10, <3>2, <3>3
  <2> QED BY <2>4, <2>6, <2>7, <2>8, <2>9, <2>10
<1> QED BY <1>1, EngineChecksInOrder, PTL

-----------------------------------------------------------------------------
\* One level of AlwaysIsTrue, given which children are safe.
SafeStep(safe, d) ==
    /\ Has(d, "always") => d.always = TRUE
    /\ \A e \in Children(d) : safe[e]

Safe(safe) == safe = [d \in Conditions |-> SafeStep(safe, d)]

\* AlwaysIsTrue, unfolded to the function behind it.
LEMMA AlwaysDef ==
    ASSUME NEW c
    PROVE  AlwaysIsTrue(c) = (CHOOSE safe : Safe(safe))[c]
BY Zenon DEF AlwaysIsTrue, Safe, SafeStep

\* That function exists.
LEMMA SafeExists == \E safe : Safe(safe)
<1> DEFINE F == [Conditions -> BOOLEAN]
           step == [c \in Conditions |-> [f \in F |-> SafeStep(f, c)]]
<1>1. ASSUME NEW c \in Conditions, NEW f \in F PROVE SafeStep(f, c) \in BOOLEAN
  BY Zenon DEF SafeStep
<1>2. ASSUME NEW c \in Conditions, NEW f \in F, NEW g \in F,
             \A d \in Children(c) : f[d] = g[d]
      PROVE  SafeStep(f, c) = SafeStep(g, c)
  <2>1. (\A e \in Children(c) : f[e]) <=> (\A e \in Children(c) : g[e])
    BY <1>2
  <2> QED BY <2>1 DEF SafeStep
<1>3. step \in [Conditions -> [F -> BOOLEAN]]
  BY <1>1
<1>4. \A c \in Conditions : \A f, g \in F :
          (\A d \in Children(c) : f[d] = g[d]) => step[c][f] = step[c][g]
  BY <1>2
<1>5. IsStep(step, BOOLEAN)
  BY <1>3, <1>4 DEF IsStep
<1>6. PICK f : Follows(f, step, BOOLEAN)
  <2> HIDE DEF step
  <2>1. TRUE \in BOOLEAN
    OBVIOUS
  <2> QED BY <1>5, <2>1, ConditionRecursion, Zenon
<1>7. f = [c \in Conditions |-> SafeStep(f, c)]
  <2>1. f = [c \in Conditions |-> f[c]] /\ f \in F
    BY <1>6 DEF Follows
  <2>2. \A c \in Conditions : f[c] = SafeStep(f, c)
    BY <1>6, <2>1 DEF Follows
  <2> QED BY <2>1, <2>2
<1> QED BY <1>7, Zenon DEF Safe

\* The equation of AlwaysIsTrue.
LEMMA AlwaysIs ==
    ASSUME NEW c \in Conditions
    PROVE  AlwaysIsTrue(c) <=> /\ Has(c, "always") => c.always = TRUE
                               /\ \A e \in Children(c) : AlwaysIsTrue(e)
<1> DEFINE safe == CHOOSE v : Safe(v)
<1>1. Safe(safe)
  BY SafeExists, Zenon
<1>2. \A d : AlwaysIsTrue(d) = safe[d]
  BY AlwaysDef, Zenon
<1> HIDE DEF safe
<1>3. AlwaysIsTrue(c) = SafeStep(safe, c)
  BY <1>1, <1>2, Zenon DEF Safe
<1> QED BY <1>2, <1>3, Zenon DEF SafeStep

\* A condition is a leaf, an `all', an `any' or an `always', as policies are
\* written, and not two of them at once.
OneForm ==
    \A c \in Conditions : \A j, k \in {"fact", "all", "any", "always"} :
        Has(c, j) /\ Has(c, k) => j = k

\* "'always' must be true" (_validate_condition): where every condition has one
\* form, the validator does keep that promise, and no document with a false
\* `always' is loaded.  It takes an object with two of the keys to break it.
THEOREM OneFormIsEnough ==
    ASSUME OneForm
    PROVE  Spec => []LoadedAlwaysIsTrue
<1> DEFINE S == {c \in Conditions : validate_condition(c) => AlwaysIsTrue(c)}
<1>1. ASSUME NEW c \in Conditions, Children(c) \subseteq S, validate_condition(c)
      PROVE  AlwaysIsTrue(c)
  <2> USE DEF OneForm
  <2>1. Has(c, "always") => c.always = TRUE
    <3>1. Has(c, "always") => ~Has(c, "fact") /\ ~Has(c, "all") /\ ~Has(c, "any")
      OBVIOUS
    <3> QED BY <1>1, <3>1, ValidIs
  <2>2. ASSUME NEW e \in Children(c) PROVE AlwaysIsTrue(e)
    <3>1. PICK k \in {"all", "any"} : Has(c, k) /\ e \in Range(c[k])
      BY DEF Children, Has
    <3>2. CASE k = "all"
      <4>1. ~Has(c, "fact") /\ Has(c, "all") /\ e \in Range(c.all)
        BY <3>1, <3>2
      <4>2. \A i \in 1..Len(c.all) : validate_condition(c.all[i])
        BY <1>1, <4>1, ValidIs
      <4>3. validate_condition(e)
        BY <4>1, <4>2, ListedAreChildren
      <4> QED BY <1>1, <4>3
    <3>3. CASE k = "any"
      <4>1. ~Has(c, "fact") /\ ~Has(c, "all") /\ Has(c, "any") /\ e \in Range(c.any)
        BY <3>1, <3>3
      <4>2. \A i \in 1..Len(c.any) : validate_condition(c.any[i])
        BY <1>1, <4>1, ValidIs
      <4>3. validate_condition(e)
        BY <4>1, <4>2, ListedAreChildren
      <4> QED BY <1>1, <4>3
    <3> QED BY <3>1, <3>2, <3>3
  <2> QED BY <2>1, <2>2, AlwaysIs
<1>2. Conditions \subseteq S
  <2>1. \A c \in Conditions : Children(c) \subseteq S => c \in S
    BY <1>1
  <2> HIDE DEF S
  <2> QED BY <2>1, ConditionInduction
<1>3. EngineInv => LoadedAlwaysIsTrue
  <2> SUFFICES ASSUME EngineInv, state = "match", NEW i \in 1..Len(document.rules)
               PROVE  AlwaysIsTrue(Rule(i).condition)
    BY DEF LoadedAlwaysIsTrue
  <2>1. (\E case \in Cases : document = case[1] /\ signals = case[2]) /\ validate_policy(document)
    BY DEF EngineInv
  <2>2. Rule(i).condition \in Conditions
    BY <2>1, CaseIs
  <2>3. validate_condition(Rule(i).condition)
    BY <2>1 DEF validate_policy, validate_rule, Rule
  <2> QED BY <1>2, <2>2, <2>3
<1> QED BY <1>3, EngineChecksInOrder, PTL
=============================================================================
