------------------------- MODULE PolicyRulesProofs --------------------------
(***************************************************************************)
(* Proofs about policy documents: the functions that validate and evaluate *)
(* conditions exist and satisfy their equations, and the shipped document  *)
(* decides as combine_decision says.                                       *)
(***************************************************************************)
EXTENDS TransactionPolicy, FoldLemmas

Upto(n) == UNION {Nesting[m] : m \in 1..n}

\* Conditions nest finitely deep, and what is inside one is less deep.
LEMMA NestingIs ==
    /\ Len(Nesting) \in Nat /\ DOMAIN Nesting = 1..Len(Nesting)
    /\ Conditions = Upto(Len(Nesting))
    /\ \A n \in 1..Len(Nesting) : \A c \in Nesting[n] : Children(c) \subseteq Upto(n - 1)
<1>1. Len(Nesting) \in Nat /\ DOMAIN Nesting = 1..Len(Nesting)
  BY RulesAssumption
<1>2. Conditions = Upto(Len(Nesting))
  BY <1>1 DEF Conditions, Upto
<1> QED BY <1>1, <1>2, RulesAssumption DEF Upto

\* Everything up to a depth has its children there.
LEMMA UptoCloses ==
    ASSUME NEW n \in 0..Len(Nesting)
    PROVE  /\ Upto(n) \subseteq Conditions
           /\ \A c \in Upto(n) : Children(c) \subseteq Upto(n)
           /\ n + 1 \in 1..Len(Nesting) => \A c \in Upto(n + 1) : Children(c) \subseteq Upto(n)
<1>1. \A k \in 0..Len(Nesting) : \A c \in Upto(k) : \E m \in 1..k : c \in Nesting[m]
  BY DEF Upto
<1>2. \A k, m \in 0..Len(Nesting) : m <= k => Upto(m) \subseteq Upto(k)
  BY DEF Upto
<1>3. Len(Nesting) \in Nat
  BY NestingIs
<1>4. Upto(n) \subseteq Conditions
  BY <1>2, <1>3, NestingIs
<1>5. ASSUME NEW k \in 0..Len(Nesting), NEW c \in Upto(k), k > 0
      PROVE  Children(c) \subseteq Upto(k - 1)
  <2>1. PICK m \in 1..k : c \in Nesting[m]
    BY <1>1
  <2>2. Children(c) \subseteq Upto(m - 1)
    BY <2>1, <1>3, NestingIs
  <2>3. m - 1 \in 0..Len(Nesting) /\ k - 1 \in 0..Len(Nesting) /\ m - 1 <= k - 1
    BY <1>3, <1>5
  <2> QED BY <2>2, <2>3, <1>2
<1>6. ASSUME NEW c \in Upto(n) PROVE Children(c) \subseteq Upto(n)
  <2>1. n > 0
    BY <1>1, <1>3
  <2>2. n - 1 \in 0..Len(Nesting) /\ n - 1 <= n
    BY <2>1, <1>3
  <2> QED BY <2>1, <2>2, <1>2, <1>5
<1>7. ASSUME n + 1 \in 1..Len(Nesting), NEW c \in Upto(n + 1)
      PROVE  Children(c) \subseteq Upto(n)
  BY <1>3, <1>5, <1>7
<1> QED BY <1>4, <1>6, <1>7

\* Induction on conditions, for a set: every condition is in it if a condition
\* is that has its children in it.
LEMMA ConditionInduction ==
    ASSUME NEW S, \A c \in Conditions : Children(c) \subseteq S => c \in S
    PROVE  Conditions \subseteq S
<1> DEFINE N == {n \in Nat : n <= Len(Nesting) => Upto(n) \subseteq S}
<1>1. Len(Nesting) \in Nat
  BY NestingIs
<1>2. 0 \in N
  BY DEF Upto
<1>3. ASSUME NEW n \in Nat, n \in N PROVE n + 1 \in N
  <2> SUFFICES ASSUME n + 1 <= Len(Nesting), NEW c \in Upto(n + 1) PROVE c \in S
    OBVIOUS
  <2>1. n \in 0..Len(Nesting) /\ n + 1 \in 0..Len(Nesting) /\ n + 1 \in 1..Len(Nesting)
    BY <1>1
  <2>2. Children(c) \subseteq Upto(n) /\ c \in Conditions
    BY <2>1, UptoCloses
  <2> QED BY <2>1, <2>2, <1>3
<1>4. Nat \subseteq N
  <2> HIDE DEF N
  <2> QED BY <1>2, <1>3, NatSetInduction
<1> QED BY <1>1, <1>4, NestingIs

\* A step on one level of conditions: the values of V it takes depend on what it
\* is given for the children only.
IsStep(step, V) ==
    /\ step \in [Conditions -> [[Conditions -> V] -> V]]
    /\ \A c \in Conditions : \A f, g \in [Conditions -> V] :
          (\A d \in Children(c) : f[d] = g[d]) => step[c][f] = step[c][g]

Follows(f, step, V) == f \in [Conditions -> V] /\ \A c \in Conditions : f[c] = step[c][f]

\* Recursion on conditions: where a step is a function of a condition and of what
\* it is given for the condition's children, some function takes that step
\* everywhere.
LEMMA ConditionRecursion ==
    ASSUME NEW V, NEW v0 \in V, NEW step, IsStep(step, V)
    PROVE  \E f : Follows(f, step, V)
<1> USE DEF IsStep
<1> DEFINE N == {n \in Nat : n <= Len(Nesting) =>
                    \E f \in [Conditions -> V] : \A c \in Upto(n) : f[c] = step[c][f]}
<1>1. Len(Nesting) \in Nat
  BY NestingIs
<1>2. 0 \in N
  <2>1. [c \in Conditions |-> v0] \in [Conditions -> V]
    OBVIOUS
  <2>2. Upto(0) = {}
    BY DEF Upto
  <2> QED BY <2>1, <2>2
<1>3. ASSUME NEW n \in Nat, n \in N PROVE n + 1 \in N
  <2> SUFFICES ASSUME n + 1 <= Len(Nesting)
               PROVE  \E f \in [Conditions -> V] : \A c \in Upto(n + 1) : f[c] = step[c][f]
    OBVIOUS
  <2>1. n \in 0..Len(Nesting) /\ n + 1 \in 0..Len(Nesting) /\ n + 1 \in 1..Len(Nesting)
    BY <1>1
  <2>2. PICK f \in [Conditions -> V] : \A c \in Upto(n) : f[c] = step[c][f]
    BY <1>3, <2>1
  <2> DEFINE g == [c \in Conditions |-> IF c \in Upto(n) THEN f[c] ELSE step[c][f]]
  <2>3. g \in [Conditions -> V]
    <3>1. \A c \in Conditions : step[c] \in [[Conditions -> V] -> V] /\ step[c][f] \in V
      OBVIOUS
    <3> QED BY <3>1
  <2>4. \A c \in Upto(n + 1) : c \in Conditions /\ Children(c) \subseteq Upto(n)
    BY <2>1, UptoCloses
  <2>5. \A c \in Upto(n) : c \in Conditions
    BY <2>1, UptoCloses
  <2>6. \A d \in Upto(n) : g[d] = f[d]
    BY <2>5
  <2>7. ASSUME NEW c \in Upto(n + 1) PROVE g[c] = step[c][g]
    <3>1. c \in Conditions /\ \A d \in Children(c) : f[d] = g[d]
      BY <2>4, <2>6
    <3> HIDE DEF g
    <3>2. step[c][f] = step[c][g]
      BY <3>1, <2>3
    <3>3. g[c] = step[c][f]
      BY <3>1, <2>2 DEF g
    <3> QED BY <3>2, <3>3
  <2> HIDE DEF g
  <2> QED BY <2>3, <2>7
<1>4. Nat \subseteq N
  <2> HIDE DEF N
  <2> QED BY <1>2, <1>3, NatSetInduction
<1> QED BY <1>1, <1>4, NestingIs DEF Follows

\* What a list of a condition holds are conditions, its children.
LEMMA ListedAreChildren ==
    ASSUME NEW c \in Conditions
    PROVE  /\ Has(c, "all") => /\ Len(c.all) \in Nat
                               /\ c.all \in Seq(Conditions)
                               /\ Range(c.all) = {c.all[i] : i \in 1..Len(c.all)}
                               /\ \A i \in 1..Len(c.all) : c.all[i] \in Children(c) \cap Conditions
                               /\ Range(c.all) \subseteq Children(c) \cap Conditions
           /\ Has(c, "any") => /\ Len(c.any) \in Nat
                               /\ c.any \in Seq(Conditions)
                               /\ Range(c.any) = {c.any[i] : i \in 1..Len(c.any)}
                               /\ \A i \in 1..Len(c.any) : c.any[i] \in Children(c) \cap Conditions
                               /\ Range(c.any) \subseteq Children(c) \cap Conditions
<1>1. ASSUME Has(c, "all")
      PROVE  /\ Len(c.all) \in Nat
             /\ c.all \in Seq(Conditions)
             /\ Range(c.all) = {c.all[i] : i \in 1..Len(c.all)}
             /\ \A i \in 1..Len(c.all) : c.all[i] \in Children(c) \cap Conditions
             /\ Range(c.all) \subseteq Children(c) \cap Conditions
  <2>1. c.all \in Seq(Conditions) /\ "all" \in {"all", "any"} \cap DOMAIN c
    BY <1>1, RulesAssumption DEF Has
  <2>2. Len(c.all) \in Nat /\ DOMAIN c.all = 1..Len(c.all)
    BY <2>1
  <2>3. \A i \in 1..Len(c.all) : c.all[i] \in Conditions
    BY <2>1
  <2>4. Range(c.all) = {c.all[i] : i \in 1..Len(c.all)}
    BY <2>2, Zenon DEF Range
  <2>5. Range(c.all) \subseteq Children(c)
    BY <2>1 DEF Children
  <2>6. Range(c.all) \subseteq Conditions
    BY <2>3, <2>4
  <2> QED BY <2>1, <2>2, <2>3, <2>4, <2>5, <2>6
<1>2. ASSUME Has(c, "any")
      PROVE  /\ Len(c.any) \in Nat
             /\ c.any \in Seq(Conditions)
             /\ Range(c.any) = {c.any[i] : i \in 1..Len(c.any)}
             /\ \A i \in 1..Len(c.any) : c.any[i] \in Children(c) \cap Conditions
             /\ Range(c.any) \subseteq Children(c) \cap Conditions
  <2>1. c.any \in Seq(Conditions) /\ "any" \in {"all", "any"} \cap DOMAIN c
    BY <1>2, RulesAssumption DEF Has
  <2>2. Len(c.any) \in Nat /\ DOMAIN c.any = 1..Len(c.any)
    BY <2>1
  <2>3. \A i \in 1..Len(c.any) : c.any[i] \in Conditions
    BY <2>1
  <2>4. Range(c.any) = {c.any[i] : i \in 1..Len(c.any)}
    BY <2>2, Zenon DEF Range
  <2>5. Range(c.any) \subseteq Children(c)
    BY <2>1 DEF Children
  <2>6. Range(c.any) \subseteq Conditions
    BY <2>3, <2>4
  <2> QED BY <2>1, <2>2, <2>3, <2>4, <2>5, <2>6
<1> QED BY <1>1, <1>2

-----------------------------------------------------------------------------
\* One level of validate_condition, given what is said of the children.
ValidStep(valid, d) ==
    IF Has(d, "fact") THEN validate_leaf(d)
    ELSE IF Has(d, "all")
      THEN d.all # <<>> /\ \A i \in 1..Len(d.all) : valid[d.all[i]]
    ELSE IF Has(d, "any")
      THEN d.any # <<>> /\ \A i \in 1..Len(d.any) : valid[d.any[i]]
    ELSE Has(d, "always") /\ d.always = TRUE

Validates(valid) == valid = [d \in Conditions |-> ValidStep(valid, d)]

\* validate_condition, unfolded to the function behind it.
LEMMA ValidDef ==
    ASSUME NEW c
    PROVE  validate_condition(c) = (CHOOSE valid : Validates(valid))[c]
BY Zenon DEF validate_condition, Validates, ValidStep

\* That function exists.
LEMMA ValidExists == \E valid : Validates(valid)
<1> DEFINE F == [Conditions -> BOOLEAN]
           step == [c \in Conditions |-> [f \in F |-> ValidStep(f, c)]]
<1>1. ASSUME NEW c \in Conditions, NEW f \in F PROVE ValidStep(f, c) \in BOOLEAN
  BY DEF ValidStep, validate_leaf, Has
<1>2. ASSUME NEW c \in Conditions, NEW f \in F, NEW g \in F,
             \A d \in Children(c) : f[d] = g[d]
      PROVE  ValidStep(f, c) = ValidStep(g, c)
  <2>1. Has(c, "all") => \A i \in 1..Len(c.all) : f[c.all[i]] = g[c.all[i]]
    BY <1>2, ListedAreChildren
  <2>2. Has(c, "any") => \A i \in 1..Len(c.any) : f[c.any[i]] = g[c.any[i]]
    BY <1>2, ListedAreChildren
  <2> QED BY <2>1, <2>2 DEF ValidStep
<1>3. step \in [Conditions -> [F -> BOOLEAN]]
  BY <1>1
<1>4. \A c \in Conditions : \A f, g \in F :
          (\A d \in Children(c) : f[d] = g[d]) => step[c][f] = step[c][g]
  BY <1>2
<1>5. IsStep(step, BOOLEAN)
  BY <1>3, <1>4 DEF IsStep
<1>6. PICK f : Follows(f, step, BOOLEAN)
  <2> HIDE DEF step
  <2>1. TRUE \in BOOLEAN
    OBVIOUS
  <2> QED BY <1>5, <2>1, ConditionRecursion, Zenon
<1>7. f = [c \in Conditions |-> ValidStep(f, c)]
  <2>1. f = [c \in Conditions |-> f[c]]
    BY <1>6 DEF Follows
  <2>2. \A c \in Conditions : f[c] = ValidStep(f, c)
    BY <1>6 DEF Follows
  <2> QED BY <2>1, <2>2
<1> QED BY <1>7, Zenon DEF Validates

\* The equation of validate_condition, as _validate_condition has it.
LEMMA ValidIs ==
    ASSUME NEW c \in Conditions
    PROVE  /\ Has(c, "fact") => (validate_condition(c) <=> validate_leaf(c))
           /\ ~Has(c, "fact") /\ Has(c, "all") =>
                 (validate_condition(c) <=>
                     c.all # <<>> /\ \A i \in 1..Len(c.all) : validate_condition(c.all[i]))
           /\ ~Has(c, "fact") /\ ~Has(c, "all") /\ Has(c, "any") =>
                 (validate_condition(c) <=>
                     c.any # <<>> /\ \A i \in 1..Len(c.any) : validate_condition(c.any[i]))
           /\ ~Has(c, "fact") /\ ~Has(c, "all") /\ ~Has(c, "any") =>
                 (validate_condition(c) <=> Has(c, "always") /\ c.always = TRUE)
<1> DEFINE valid == CHOOSE v : Validates(v)
<1>1. Validates(valid)
  BY ValidExists, Zenon
<1>2. \A d : validate_condition(d) = valid[d]
  BY ValidDef, Zenon
<1> HIDE DEF valid
<1>3. validate_condition(c) = ValidStep(valid, c)
  BY <1>1, <1>2, Zenon DEF Validates
<1> QED BY <1>2, <1>3 DEF ValidStep

-----------------------------------------------------------------------------
IsList(r, n) == n \in Nat /\ r = [i \in 1..n |-> r[i]]

\* v if all of r are v, else the first other.
IsFirstOther(x, r, n, v) ==
    /\ (\A i \in 1..n : r[i] = v) => x = v
    /\ \/ \A i \in 1..n : r[i] = v
       \/ \E i \in 1..n : /\ r[i] # v
                          /\ x = r[i]
                          /\ \A j \in 1..(i - 1) : r[j] = v

\* That is what all and any return.
LEMMA FirstOtherIs ==
    ASSUME NEW n, NEW r, IsList(r, n), NEW v
    PROVE  IsFirstOther(FirstOther(r, v), r, n, v)
<1> DEFINE others == {i \in 1..n : r[i] # v}
<1>1. Len(r) = n /\ n \in Nat
  BY DEF IsList
<1>2. FirstOther(r, v) = IF others = {} THEN v ELSE r[Min(others)]
  BY <1>1 DEF FirstOther
<1>3. others \in SUBSET Nat
  BY <1>1
<1>4. others # {} => Min(others) \in others /\ \A k \in others : Min(others) <= k
  <2> HIDE DEF others
  <2> QED BY <1>3, MinIn
<1>5. ASSUME others # {}
      PROVE  \E i \in 1..n : /\ r[i] # v
                             /\ FirstOther(r, v) = r[i]
                             /\ \A j \in 1..(i - 1) : r[j] = v
  <2> DEFINE m == Min(others)
  <2>1. m \in 1..n /\ r[m] # v /\ FirstOther(r, v) = r[m]
    BY <1>2, <1>4, <1>5
  <2>2. \A j \in 1..(m - 1) : r[j] = v
    <3> SUFFICES ASSUME NEW j \in 1..(m - 1), r[j] # v PROVE FALSE
      OBVIOUS
    <3>1. j \in others /\ ~(m <= j)
      BY <1>1, <2>1
    <3> QED BY <3>1, <1>4
  <2> HIDE DEF m
  <2> QED BY <2>1, <2>2
<1>6. others = {} => (\A i \in 1..n : r[i] = v) /\ FirstOther(r, v) = v
  BY <1>2
<1> QED BY <1>5, <1>6 DEF IsFirstOther

\* So it is one of the verdicts, if its arguments are.
LEMMA FirstOtherIn ==
    ASSUME NEW n, NEW r, IsList(r, n), NEW v, NEW V,
           v \in V, \A i \in 1..n : r[i] \in V
    PROVE  FirstOther(r, v) \in V
<1>1. IsFirstOther(FirstOther(r, v), r, n, v)
  BY FirstOtherIs, Zenon
<1> QED BY <1>1, Zenon DEF IsFirstOther

\* One level of evaluate_condition, given the verdicts on the children.
VerdictStep(verdict, d, bag) ==
    IF Has(d, "fact") THEN evaluate_leaf(d, bag)
    ELSE IF Has(d, "always") THEN "true"
    ELSE IF Has(d, "all")
      THEN FirstOther([i \in 1..Len(d.all) |-> verdict[d.all[i]]], "true")
    ELSE IF Has(d, "any")
      THEN FirstOther([i \in 1..Len(d.any) |-> verdict[d.any[i]]], "false")
    ELSE "false"

Evaluates(verdict, bag) == verdict = [d \in Conditions |-> VerdictStep(verdict, d, bag)]

\* evaluate_condition, unfolded to the function behind it.
LEMMA VerdictDef ==
    ASSUME NEW c, NEW bag
    PROVE  evaluate_condition(c, bag) = (CHOOSE verdict : Evaluates(verdict, bag))[c]
BY Zenon DEF evaluate_condition, Evaluates, VerdictStep

Verdicts == {"true", "false", "raise"}

\* That function exists.
LEMMA VerdictExists == ASSUME NEW bag PROVE \E verdict : Evaluates(verdict, bag)
<1> DEFINE F == [Conditions -> Verdicts]
           step == [c \in Conditions |-> [f \in F |-> VerdictStep(f, c, bag)]]
<1>1. ASSUME NEW c \in Conditions, NEW f \in F PROVE VerdictStep(f, c, bag) \in Verdicts
  <2>1. CASE Has(c, "fact")
    <3>1. evaluate_leaf(c, bag) \in Verdicts
      BY DEF evaluate_leaf, Verdicts
    <3> QED BY <2>1, <3>1, Zenon DEF VerdictStep
  <2>2. CASE ~Has(c, "fact") /\ Has(c, "always")
    BY <2>2 DEF VerdictStep, Verdicts
  <2>3. CASE ~Has(c, "fact") /\ ~Has(c, "always") /\ Has(c, "all")
    <3> DEFINE r == [i \in 1..Len(c.all) |-> f[c.all[i]]]
    <3>1. Len(c.all) \in Nat /\ \A i \in 1..Len(c.all) : r[i] \in Verdicts
      BY <2>3, ListedAreChildren
    <3>2. IsList(r, Len(c.all))
      BY <3>1 DEF IsList
    <3>3. VerdictStep(f, c, bag) = FirstOther(r, "true")
      BY <2>3, Zenon DEF VerdictStep
    <3> HIDE DEF r
    <3>4. FirstOther(r, "true") \in Verdicts
      <4>1. "true" \in Verdicts
        BY DEF Verdicts
      <4> QED BY <4>1, <3>1, <3>2, FirstOtherIn, Zenon
    <3> QED BY <3>3, <3>4
  <2>4. CASE ~Has(c, "fact") /\ ~Has(c, "always") /\ ~Has(c, "all") /\ Has(c, "any")
    <3> DEFINE r == [i \in 1..Len(c.any) |-> f[c.any[i]]]
    <3>1. Len(c.any) \in Nat /\ \A i \in 1..Len(c.any) : r[i] \in Verdicts
      BY <2>4, ListedAreChildren
    <3>2. IsList(r, Len(c.any))
      BY <3>1 DEF IsList
    <3>3. VerdictStep(f, c, bag) = FirstOther(r, "false")
      BY <2>4, Zenon DEF VerdictStep
    <3> HIDE DEF r
    <3>4. FirstOther(r, "false") \in Verdicts
      <4>1. "false" \in Verdicts
        BY DEF Verdicts
      <4> QED BY <4>1, <3>1, <3>2, FirstOtherIn, Zenon
    <3> QED BY <3>3, <3>4
  <2>5. CASE ~Has(c, "fact") /\ ~Has(c, "always") /\ ~Has(c, "all") /\ ~Has(c, "any")
    BY <2>5 DEF VerdictStep, Verdicts
  <2> QED BY <2>1, <2>2, <2>3, <2>4, <2>5
<1>2. ASSUME NEW c \in Conditions, NEW f \in F, NEW g \in F,
             \A d \in Children(c) : f[d] = g[d]
      PROVE  VerdictStep(f, c, bag) = VerdictStep(g, c, bag)
  <2>1. Has(c, "all") => [i \in 1..Len(c.all) |-> f[c.all[i]]] = [i \in 1..Len(c.all) |-> g[c.all[i]]]
    BY <1>2, ListedAreChildren
  <2>2. Has(c, "any") => [i \in 1..Len(c.any) |-> f[c.any[i]]] = [i \in 1..Len(c.any) |-> g[c.any[i]]]
    BY <1>2, ListedAreChildren
  <2> QED BY <2>1, <2>2, Zenon DEF VerdictStep
<1>3. step \in [Conditions -> [F -> Verdicts]]
  BY <1>1
<1>4. \A c \in Conditions : \A f, g \in F :
          (\A d \in Children(c) : f[d] = g[d]) => step[c][f] = step[c][g]
  BY <1>2
<1>5. IsStep(step, Verdicts)
  BY <1>3, <1>4 DEF IsStep
<1>6. PICK f : Follows(f, step, Verdicts)
  <2> HIDE DEF step
  <2>1. "true" \in Verdicts
    BY DEF Verdicts
  <2> QED BY <1>5, <2>1, ConditionRecursion, Zenon
<1>7. f = [c \in Conditions |-> VerdictStep(f, c, bag)]
  <2>1. f = [c \in Conditions |-> f[c]] /\ f \in F
    BY <1>6 DEF Follows
  <2>2. \A c \in Conditions : f[c] = VerdictStep(f, c, bag)
    BY <1>6, <2>1 DEF Follows
  <2> QED BY <2>1, <2>2
<1> QED BY <1>7, Zenon DEF Evaluates

\* The equation of evaluate_condition, as _evaluate_condition has it.
LEMMA VerdictIs ==
    ASSUME NEW bag, NEW c \in Conditions
    PROVE  evaluate_condition(c, bag) =
               IF Has(c, "fact") THEN evaluate_leaf(c, bag)
               ELSE IF Has(c, "always") THEN "true"
               ELSE IF Has(c, "all")
                 THEN FirstOther([i \in 1..Len(c.all) |-> evaluate_condition(c.all[i], bag)], "true")
               ELSE IF Has(c, "any")
                 THEN FirstOther([i \in 1..Len(c.any) |-> evaluate_condition(c.any[i], bag)], "false")
               ELSE "false"
<1> DEFINE verdict == CHOOSE v : Evaluates(v, bag)
<1>1. Evaluates(verdict, bag)
  BY VerdictExists, Zenon
<1>2. \A d : evaluate_condition(d, bag) = verdict[d]
  BY VerdictDef, Zenon
<1> HIDE DEF verdict
<1>3. evaluate_condition(c, bag) = VerdictStep(verdict, c, bag)
  BY <1>1, <1>2, Zenon DEF Evaluates
<1> QED BY <1>2, <1>3, Zenon DEF VerdictStep

-----------------------------------------------------------------------------
\* The four conditions of the shipped document are conditions at hand.
LEMMA ShippedConditions ==
    /\ Len(DEFAULT_POLICY.rules) = 4
    /\ DEFAULT_POLICY.rules[1] = RejectDetectBlock
    /\ DEFAULT_POLICY.rules[2] = RejectMandateViolation
    /\ DEFAULT_POLICY.rules[3] = RequireOverride
    /\ DEFAULT_POLICY.rules[4] = ApproveDefault
    /\ \A i \in 1..4 : DEFAULT_POLICY.rules[i].condition \in Conditions
<1>1. DEFAULT_POLICY.rules =
        <<RejectDetectBlock, RejectMandateViolation, RequireOverride, ApproveDefault>>
  BY DEF DEFAULT_POLICY
<1>2. DOMAIN DEFAULT_POLICY.rules = 1..4 /\ Len(DEFAULT_POLICY.rules) = 4
  BY <1>1
<1>3. \A i \in 1..4 : DEFAULT_POLICY.rules[i] \in Range(DEFAULT_POLICY.rules)
  BY <1>2, Zenon DEF Range
<1>4. \A i \in 1..4 : DEFAULT_POLICY.rules[i].condition \in Conditions
  BY <1>3, PolicyIsAtHand, Zenon
<1>5. /\ DEFAULT_POLICY.rules[1] = RejectDetectBlock
      /\ DEFAULT_POLICY.rules[2] = RejectMandateViolation
      /\ DEFAULT_POLICY.rules[3] = RequireOverride
      /\ DEFAULT_POLICY.rules[4] = ApproveDefault
  BY <1>1
<1> QED BY <1>2, <1>4, <1>5

IsVerdict(c, bag, yes) == evaluate_condition(c, bag) = IF yes THEN "true" ELSE "false"

\* What they say of the signals that the pipeline builds.
LEMMA ShippedVerdicts ==
    ASSUME NEW d \in {"ALLOW", "FLAG", "BLOCK"}, NEW v, NEW R,
           "detect_decision" \notin R, "mandate_allowed" \notin R
    PROVE  LET bag == build_policy_signals(d, v, R) IN
           /\ IsVerdict(RejectDetectBlock.condition, bag, d = "BLOCK")
           /\ IsVerdict(RejectMandateViolation.condition, bag, v # {})
           /\ IsVerdict(RequireOverride.condition, bag, d = "FLAG")
           /\ IsVerdict(ApproveDefault.condition, bag, TRUE)
<1> DEFINE bag == build_policy_signals(d, v, R)
<1>1. /\ Has(bag, "detect_decision") /\ bag["detect_decision"] = Decision(d)
      /\ Has(bag, "mandate_allowed") /\ bag["mandate_allowed"] = Bool(v = {})
  BY DEF build_policy_signals, Has
<1> HIDE DEF bag
<1>2. ASSUME NEW e \in {"FLAG", "BLOCK"}, NEW c \in Conditions,
             c = [fact |-> "detect_decision", operator |-> "eq", value |-> Decision(e)]
      PROVE  IsVerdict(c, bag, d = e)
  <2>1. /\ Has(c, "fact") /\ c.fact = "detect_decision" /\ c.operator = "eq"
        /\ Has(c, "value") /\ c.value = Decision(e)
    BY <1>2 DEF Has
  <2>2. evaluate_condition(c, bag) = evaluate_leaf(c, bag)
    BY <2>1, VerdictIs, Zenon
  <2>3. "eq" \in OPERATORS
    BY DEF OPERATORS
  <2>4. evaluate_leaf(c, bag) =
            IF evaluate(Decision(d), "eq", Decision(e)) THEN "true" ELSE "false"
    BY <1>1, <2>1, <2>3, PolicyIsAtHand DEF evaluate_leaf
  <2>5. evaluate(Decision(d), "eq", Decision(e)) <=> Equal(Decision(d), Decision(e))
    BY DEF evaluate
  <2>6. Equal(Decision(d), Decision(e)) <=> <<d>> = <<e>>
    BY DEF Equal, ScalarEqual, Decision, Str
  <2>7. <<d>> = <<e>> <=> d = e
    OBVIOUS
  <2> QED BY <2>2, <2>4, <2>5, <2>6, <2>7 DEF IsVerdict
<1>3. ASSUME NEW c \in Conditions, c = [fact |-> "mandate_allowed", operator |-> "is_false"]
      PROVE  IsVerdict(c, bag, v # {})
  <2>1. /\ Has(c, "fact") /\ c.fact = "mandate_allowed" /\ c.operator = "is_false"
        /\ ~Has(c, "value")
    BY <1>3 DEF Has
  <2>2. evaluate_condition(c, bag) = evaluate_leaf(c, bag)
    BY <2>1, VerdictIs, Zenon
  <2>3. "is_false" \in OPERATORS
    BY DEF OPERATORS
  <2>4. evaluate_leaf(c, bag) =
            IF evaluate(Bool(v = {}), "is_false", Null) THEN "true" ELSE "false"
    BY <1>1, <2>1, <2>3, PolicyIsAtHand DEF evaluate_leaf
  <2>5. evaluate(Bool(v = {}), "is_false", Null) <=>
            Bool(v = {}).type = "boolean" /\ ~Bool(v = {}).val
    BY DEF evaluate
  <2>6. Bool(v = {}).type = "boolean" /\ (Bool(v = {}).val <=> v = {})
    BY DEF Bool
  <2> QED BY <2>2, <2>4, <2>5, <2>6 DEF IsVerdict
<1>4. ASSUME NEW c \in Conditions, c = [always |-> TRUE]
      PROVE  IsVerdict(c, bag, TRUE)
  <2>1. ~Has(c, "fact") /\ Has(c, "always")
    BY <1>4 DEF Has
  <2>2. evaluate_condition(c, bag) = "true"
    BY <2>1, VerdictIs, Zenon
  <2> QED BY <2>2 DEF IsVerdict
<1>5. /\ RejectDetectBlock.condition \in Conditions
      /\ RejectMandateViolation.condition \in Conditions
      /\ RequireOverride.condition \in Conditions
      /\ ApproveDefault.condition \in Conditions
  BY ShippedConditions
<1>6. /\ RejectDetectBlock.condition =
            [fact |-> "detect_decision", operator |-> "eq", value |-> Decision("BLOCK")]
      /\ RejectMandateViolation.condition = [fact |-> "mandate_allowed", operator |-> "is_false"]
      /\ RequireOverride.condition =
            [fact |-> "detect_decision", operator |-> "eq", value |-> Decision("FLAG")]
      /\ ApproveDefault.condition = [always |-> TRUE]
  BY DEF RejectDetectBlock, RejectMandateViolation, RequireOverride, ApproveDefault
<1>7. IsVerdict(RejectDetectBlock.condition, bag, d = "BLOCK")
  BY <1>2, <1>5, <1>6, Zenon
<1>8. IsVerdict(RejectMandateViolation.condition, bag, v # {})
  BY <1>3, <1>5, <1>6, Zenon
<1>9. IsVerdict(RequireOverride.condition, bag, d = "FLAG")
  BY <1>2, <1>5, <1>6, Zenon
<1>10. IsVerdict(ApproveDefault.condition, bag, TRUE)
  BY <1>4, <1>5, <1>6, Zenon
<1> QED BY <1>7, <1>8, <1>9, <1>10 DEF bag

\* "BLOCK wins over everything", and a clean mandate changes nothing: the shipped
\* document decides as combine_decision describes its own rules, for any rules
\* of a mandate and any of them violated (decide in run_pipeline.py, through
\* evaluate_policy and _OUTCOME_TO_DECISION).
THEOREM ShippedPolicyCombines ==
    ASSUME NEW d \in {"ALLOW", "FLAG", "BLOCK"}, NEW v, NEW R,
           "detect_decision" \notin R, "mandate_allowed" \notin R
    PROVE  decide(d, v, R, DEFAULT_POLICY) = IF d = "BLOCK" \/ v # {} THEN "BLOCK" ELSE d
<1> DEFINE bag == build_policy_signals(d, v, R)
           Hit(i) == evaluate_condition(DEFAULT_POLICY.rules[i].condition, bag) # "false"
           I == {i \in 1..4 : Hit(i)}
           first == IF I # {} THEN Min(I) ELSE 0
<1>1. /\ Hit(1) <=> d = "BLOCK"
      /\ Hit(2) <=> v # {}
      /\ Hit(3) <=> d = "FLAG"
      /\ Hit(4)
      /\ \A i \in 1..4 : evaluate_condition(DEFAULT_POLICY.rules[i].condition, bag) # "raise"
  <2>1. /\ IsVerdict(RejectDetectBlock.condition, bag, d = "BLOCK")
        /\ IsVerdict(RejectMandateViolation.condition, bag, v # {})
        /\ IsVerdict(RequireOverride.condition, bag, d = "FLAG")
        /\ IsVerdict(ApproveDefault.condition, bag, TRUE)
    BY ShippedVerdicts
  <2> HIDE DEF bag
  <2>2. /\ IsVerdict(DEFAULT_POLICY.rules[1].condition, bag, d = "BLOCK")
        /\ IsVerdict(DEFAULT_POLICY.rules[2].condition, bag, v # {})
        /\ IsVerdict(DEFAULT_POLICY.rules[3].condition, bag, d = "FLAG")
        /\ IsVerdict(DEFAULT_POLICY.rules[4].condition, bag, TRUE)
    BY <2>1, ShippedConditions
  <2>3. /\ Hit(1) <=> d = "BLOCK"
        /\ Hit(2) <=> v # {}
        /\ Hit(3) <=> d = "FLAG"
        /\ Hit(4)
    BY <2>2 DEF IsVerdict
  <2>4. \A i \in 1..4 : evaluate_condition(DEFAULT_POLICY.rules[i].condition, bag) # "raise"
    <3> SUFFICES ASSUME NEW i \in 1..4
                 PROVE  evaluate_condition(DEFAULT_POLICY.rules[i].condition, bag) # "raise"
      OBVIOUS
    <3>1. i = 1 \/ i = 2 \/ i = 3 \/ i = 4
      OBVIOUS
    <3> QED BY <3>1, <2>2 DEF IsVerdict
  <2> QED BY <2>3, <2>4
<1>2. evaluate_policy(DEFAULT_POLICY, bag) =
        IF first # 0 /\ evaluate_condition(DEFAULT_POLICY.rules[first].condition, bag) = "raise"
          THEN "raise"
          ELSE to_outcome(IF first = 0 THEN "none" ELSE DEFAULT_POLICY.rules[first].action)
  <2>1. first = SelectInSeq(DEFAULT_POLICY.rules,
                            LAMBDA r : evaluate_condition(r.condition, bag) # "false")
    BY ShippedConditions, Zenon DEF SelectInSeq
  <2> HIDE DEF first
  <2> QED BY <2>1, Zenon DEF evaluate_policy
<1> HIDE DEF Hit
<1>3. I \in SUBSET Nat /\ I # {} /\ I \subseteq 1..4
  BY <1>1
<1>4. Min(I) \in I /\ \A k \in I : Min(I) <= k
  <2> HIDE DEF I
  <2> QED BY <1>3, MinIn
<1>5. evaluate_policy(DEFAULT_POLICY, bag) = to_outcome(DEFAULT_POLICY.rules[Min(I)].action)
  <2> HIDE DEF I, bag
  <2>1. Min(I) \in 1..4
    BY <1>3, <1>4, Zenon
  <2>2. first = Min(I)
    BY <1>3, Zenon
  <2>3. first # 0 /\ first \in 1..4
    BY <2>1, <2>2
  <2> HIDE DEF first
  <2> QED BY <1>1, <1>2, <2>2, <2>3, Zenon
<1>6. /\ RejectDetectBlock.action = "reject" /\ RejectMandateViolation.action = "reject"
      /\ RequireOverride.action = "require_override" /\ ApproveDefault.action = "approve"
  BY DEF RejectDetectBlock, RejectMandateViolation, RequireOverride, ApproveDefault
<1>7. /\ _OUTCOME_TO_DECISION["APPROVE"] = "ALLOW"
      /\ _OUTCOME_TO_DECISION["REQUIRE_OVERRIDE"] = "FLAG"
      /\ _OUTCOME_TO_DECISION["REJECT"] = "BLOCK"
  BY DEF _OUTCOME_TO_DECISION
<1>8. /\ to_outcome("reject") = "REJECT" /\ to_outcome("approve") = "APPROVE"
      /\ to_outcome("require_override") = "REQUIRE_OVERRIDE"
  BY RulesAssumption DEF to_outcome
<1>9. decide(d, v, R, DEFAULT_POLICY) = _OUTCOME_TO_DECISION[evaluate_policy(DEFAULT_POLICY, bag)]
  BY Zenon DEF decide
<1> HIDE DEF bag
<1>10. CASE d = "BLOCK"
  <2>1. Min(I) = 1
    BY <1>1, <1>3, <1>4, <1>10
  <2> HIDE DEF I
  <2> QED BY <2>1, <1>5, <1>6, <1>7, <1>8, <1>9, <1>10, ShippedConditions
<1>11. CASE d # "BLOCK" /\ v # {}
  <2>1. Min(I) = 2
    BY <1>1, <1>3, <1>4, <1>11
  <2> HIDE DEF I
  <2> QED BY <2>1, <1>5, <1>6, <1>7, <1>8, <1>9, <1>11, ShippedConditions
<1>12. CASE d = "FLAG" /\ v = {}
  <2>1. Min(I) = 3
    BY <1>1, <1>3, <1>4, <1>12
  <2> HIDE DEF I
  <2> QED BY <2>1, <1>5, <1>6, <1>7, <1>8, <1>9, <1>12, ShippedConditions
<1>13. CASE d = "ALLOW" /\ v = {}
  <2>1. Min(I) = 4
    BY <1>1, <1>3, <1>4, <1>13
  <2> HIDE DEF I
  <2> QED BY <2>1, <1>5, <1>6, <1>7, <1>8, <1>9, <1>13, ShippedConditions
<1> QED BY <1>10, <1>11, <1>12, <1>13

\* validate_policy accepts the shipped document, as its loader expects, if none of
\* the strings in it is a blank one, and none of its ids a list.
THEOREM ShippedPolicyValidates ==
    ASSUME Blank \notin {"reject-detect-block", "reject-mandate-violation",
                         "require-override-detect-flag", "approve-default",
                         "reject", "require_override", "approve",
                         "detect", "mandate", "unsure", "clear",
                         "detect_decision", "mandate_allowed"},
           {"reject-detect-block", "reject-mandate-violation",
            "require-override-detect-flag", "approve-default"} \cap Unhashable = {}
    PROVE  validate_policy(DEFAULT_POLICY)
<1>1. \A i \in 1..4 : validate_condition(DEFAULT_POLICY.rules[i].condition)
  <2>1. ASSUME NEW c \in Conditions, Has(c, "fact"), c.fact # Blank, Has(c, "operator"),
               c.operator \in {"eq", "is_false"}
        PROVE  validate_condition(c)
    <3>1. validate_leaf(c)
      BY <2>1 DEF validate_leaf, OPERATORS
    <3> QED BY <2>1, <3>1, ValidIs
  <2>2. ASSUME NEW c \in Conditions, c = [always |-> TRUE] PROVE validate_condition(c)
    <3>1. /\ ~Has(c, "fact") /\ ~Has(c, "all") /\ ~Has(c, "any")
          /\ Has(c, "always") /\ c.always = TRUE
      BY <2>2 DEF Has
    <3> QED BY <3>1, ValidIs
  <2>3. \A i \in 1..3 : LET c == DEFAULT_POLICY.rules[i].condition IN
          /\ Has(c, "fact") /\ c.fact # Blank /\ Has(c, "operator")
          /\ c.operator \in {"eq", "is_false"}
    <3> SUFFICES ASSUME NEW i \in 1..3
                 PROVE  LET c == DEFAULT_POLICY.rules[i].condition IN
                        /\ Has(c, "fact") /\ c.fact # Blank /\ Has(c, "operator")
                        /\ c.operator \in {"eq", "is_false"}
      OBVIOUS
    <3>1. CASE i = 1
      BY <3>1, ShippedConditions DEF Has, RejectDetectBlock
    <3>2. CASE i = 2
      BY <3>2, ShippedConditions DEF Has, RejectMandateViolation
    <3>3. CASE i = 3
      BY <3>3, ShippedConditions DEF Has, RequireOverride
    <3> QED BY <3>1, <3>2, <3>3
  <2>4. DEFAULT_POLICY.rules[4].condition = [always |-> TRUE]
    BY ShippedConditions DEF ApproveDefault
  <2>5. \A i \in 1..4 : DEFAULT_POLICY.rules[i].condition \in Conditions
    BY ShippedConditions
  <2> SUFFICES ASSUME NEW i \in 1..4
               PROVE  validate_condition(DEFAULT_POLICY.rules[i].condition)
    OBVIOUS
  <2>6. CASE i \in 1..3
    BY <2>1, <2>3, <2>5, <2>6
  <2>7. CASE i = 4
    BY <2>2, <2>4, <2>5, <2>7
  <2> QED BY <2>6, <2>7
<1>2. \A i \in 1..4 : validate_rule(DEFAULT_POLICY.rules[i])
  <2>1. \A i \in 1..4 : LET r == DEFAULT_POLICY.rules[i] IN
          r.id # Blank /\ r.id \notin Unhashable /\ r.action # Blank /\ r.reason # Blank
    BY ShippedConditions
       DEF RejectDetectBlock, RejectMandateViolation, RequireOverride, ApproveDefault
  <2> QED BY <1>1, <2>1 DEF validate_rule
<1>3. \A i, j \in 1..4 : DEFAULT_POLICY.rules[i].id = DEFAULT_POLICY.rules[j].id => i = j
  BY ShippedConditions
     DEF RejectDetectBlock, RejectMandateViolation, RequireOverride, ApproveDefault
<1>4. DEFAULT_POLICY.header /\ DEFAULT_POLICY.rules # <<>>
  BY DEF DEFAULT_POLICY
<1> QED BY <1>2, <1>3, <1>4, ShippedConditions DEF validate_policy
=============================================================================
