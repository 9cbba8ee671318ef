--------------------------- MODULE MCPolicyEngine ---------------------------
(***************************************************************************)
(* Two families of cases.  Documents of one and two rules over two signals, *)
(* well formed and not, with every bag of the signals; and one rule for     *)
(* each operator and each pair of values.                                   *)
(***************************************************************************)
EXTENDS PolicyEngine

CONSTANT List  \* a list that stands for a name

Block == Str(<<"B">>)
Allow == Str(<<"A">>)

DetectBlocks  == [fact |-> "detect_decision", operator |-> "eq", value |-> Block]
DetectMissing == [fact |-> "detect_decision", operator |-> "not_exists"]
MandateFails  == [fact |-> "mandate_allowed", operator |-> "is_false"]
NotMandated   == [fact |-> "mandate_allowed", operator |-> "neq", value |-> Bool(TRUE)]
NoSuchOperator == [fact |-> "mandate_allowed", operator |-> "equals", value |-> Bool(TRUE)]
NoPattern     == [fact |-> "mandate_allowed", operator |-> "matches"]
NoFact        == [fact |-> Blank, operator |-> "eq"]
ListOfFacts   == [fact |-> List, operator |-> "eq", value |-> Block]
Always        == [always |-> TRUE]
Never         == [always |-> FALSE]

Leaves == {DetectBlocks, DetectMissing, MandateFails, NotMandated,
           NoSuchOperator, NoFact, ListOfFacts, NoPattern, Always, Never}

Pairs ==
    {<<>>} \cup {<<c, d>> : c, d \in {DetectBlocks, NotMandated, NoSuchOperator,
                                      ListOfFacts, Always}}

\* An object with no key that counts, and objects with two that do.
Odd ==
    {[note |-> TRUE],
     [always |-> FALSE, all |-> <<DetectBlocks>>],
     [always |-> TRUE, any |-> <<NoSuchOperator>>],
     [all |-> <<MandateFails>>, any |-> <<NoSuchOperator>>]}

Listed == Odd \cup {[all |-> p] : p \in Pairs} \cup {[any |-> p] : p \in Pairs}

TwoDeep == {[any |-> <<MandateFails, [all |-> p]>>] : p \in Pairs}

RuleConditions == Leaves \cup Listed \cup TwoDeep

MakeRule(id, c, action) ==
    [id |-> id, condition |-> c, action |-> action, reason |-> "because"]

Doc(rules) == [header |-> TRUE, rules |-> rules]

OneRule ==
    {Doc(<<MakeRule("r1", c, a)>>) :
        c \in RuleConditions, a \in {"approve", "escalate", List}}

TwoRules ==
    {Doc(<<MakeRule("r1", c, "reject"), MakeRule("r2", d, a)>>) :
        c \in RuleConditions, d \in Leaves, a \in {"approve", "require_override"}}

Malformed ==
    {Doc(<<>>),
     [header |-> FALSE, rules |-> <<MakeRule("r1", Always, "approve")>>],
     Doc(<<MakeRule("r1", DetectBlocks, "reject"), MakeRule("r1", Always, "approve")>>),
     Doc(<<MakeRule(Blank, Always, "approve")>>),
     Doc(<<MakeRule(List, Always, "approve")>>),
     Doc(<<MakeRule("r1", Always, Blank)>>)}

Documents == OneRule \cup TwoRules \cup Malformed

\* The two signals, each there or not, with one value that objects and one
\* that does not.
SignalBags ==
    UNION {[S -> {Block, Allow}] : S \in SUBSET {"detect_decision"}}
        \cup UNION {[S -> {Bool(TRUE), Bool(FALSE), Null}] : S \in SUBSET {"mandate_allowed"}}
        \cup {[detect_decision |-> d, mandate_allowed |-> m] :
                  d \in {Block, Allow}, m \in {Bool(TRUE), Bool(FALSE)}}

Scalars ==
    {Null, Bool(TRUE), Bool(FALSE)} \cup {Num(n) : n \in 0..2}
        \cup {Str(s) : s \in {<<>>, <<"b">>, <<"a", "b">>, <<"number">>}}

Values ==
    Scalars \cup {Obj({}), Obj({"k"}), Arr(<<>>), Arr(<<Null>>), Arr(<<Bool(TRUE)>>)}
        \cup {Arr(<<Num(m), Num(n)>>) : m, n \in 0..2}

OperatorLeaf(op, v) == [fact |-> "x", operator |-> op, value |-> v]

OperatorRule(op, v) == Doc(<<MakeRule("r1", OperatorLeaf(op, v), "approve")>>)

MCNesting ==
    <<Leaves \cup {OperatorLeaf(op, v) : op \in OPERATORS, v \in Values}, Listed, TwoDeep>>

OperatorCases ==
    {<<OperatorRule(op, v), [x |-> w]>> : op \in OPERATORS, v, w \in Values}

MCCases == (Documents \X SignalBags) \cup OperatorCases
=============================================================================
