------------------------- MODULE TransactionPolicy --------------------------
(***************************************************************************)
(* The shipped policy (policy/policies/transaction-authorization/1.0.0)    *)
(* and how the pipeline asks it: build_policy_signals, decide and          *)
(* _OUTCOME_TO_DECISION in pipeline/src/run_pipeline.py.                   *)
(***************************************************************************)
EXTENDS PolicyRules

\* A decision is a string of which only equality counts: one letter.
Decision(d) == Str(<<d>>)

RejectDetectBlock ==
    [id |-> "reject-detect-block",
     condition |-> [fact |-> "detect_decision", operator |-> "eq", value |-> Decision("BLOCK")],
     action |-> "reject", reason |-> "detect"]

RejectMandateViolation ==
    [id |-> "reject-mandate-violation",
     condition |-> [fact |-> "mandate_allowed", operator |-> "is_false"],
     action |-> "reject", reason |-> "mandate"]

RequireOverride ==
    [id |-> "require-override-detect-flag",
     condition |-> [fact |-> "detect_decision", operator |-> "eq", value |-> Decision("FLAG")],
     action |-> "require_override", reason |-> "unsure"]

ApproveDefault ==
    [id |-> "approve-default", condition |-> [always |-> TRUE],
     action |-> "approve", reason |-> "clear"]

\* Mutant: the rules are sorted by what they look at.
DEFAULT_POLICY_Sorted ==
    [header |-> TRUE,
     rules |-> <<RejectDetectBlock, RequireOverride, RejectMandateViolation, ApproveDefault>>]

DEFAULT_POLICY ==
    [header |-> TRUE,
     rules |-> <<RejectDetectBlock, RejectMandateViolation, RequireOverride, ApproveDefault>>]

\* Its conditions are among those at hand, and its facts are names.
ASSUME PolicyIsAtHand ==
    /\ \A r \in Range(DEFAULT_POLICY.rules) : r.condition \in Conditions
    /\ {"detect_decision", "mandate_allowed"} \cap Unhashable = {}

\* fraud_score and amount are signals too; no rule of the policies here reads them.
build_policy_signals(detect_decision, violated, RuleNames) ==
    [s \in {"detect_decision", "mandate_allowed"} \cup RuleNames |->
        CASE s = "detect_decision" -> Decision(detect_decision)
          [] s = "mandate_allowed" -> Bool(violated = {})
          [] s \in RuleNames -> Bool(s \notin violated)]

_OUTCOME_TO_DECISION ==
    [o \in {"APPROVE", "REQUIRE_OVERRIDE", "REJECT"} |->
        CASE o = "APPROVE" -> "ALLOW"
          [] o = "REQUIRE_OVERRIDE" -> "FLAG"
          [] o = "REJECT" -> "BLOCK"]

\* decide, followed by the mapping that its caller applies.
decide(detect_decision, violated, RuleNames, policy) ==
    _OUTCOME_TO_DECISION[
        evaluate_policy(policy, build_policy_signals(detect_decision, violated, RuleNames))]
=============================================================================
