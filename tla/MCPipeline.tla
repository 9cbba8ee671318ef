----------------------------- MODULE MCPipeline -----------------------------
(***************************************************************************)
(* Two customers: anna has a history and is attacked, ben has none and     *)
(* gets the default mandate.  Anna's mandate has the limit 12, the hours   *)
(* 8 to 14 and two transactions a day: two good ones and one bad one reach *)
(* each limit, and the other bad one is foreign in merchant and hour.      *)
(***************************************************************************)
EXTENDS Pipeline, TransactionPolicy

Tx(id, customer, amount, merchant, hour) ==
    [id |-> id, customer_id |-> customer, amount |-> amount,
     merchant |-> merchant, hour_of_day |-> hour]

MCGood == {Tx(1, "anna", 3, "grocer", 10), Tx(2, "anna", 5, "cafe", 12)}

MCFraud == {Tx(3, "anna", 6, "grocer", 13), Tx(4, "anna", 1, "casino", 3),
            Tx(5, "ben", 4, "casino", 22)}

Hours == <<6, 23>>

\* No condition of the policy nests.
Flat == <<{r.condition : r \in Range(DEFAULT_POLICY.rules)}>>

ShippedDecide ==
    [q \in DetectDecisions \X SUBSET RuleNames |->
        decide(q[1], q[2], RuleNames, DEFAULT_POLICY)]

\* Another document that validates: what the detector flags is rejected.
StrictOnFlags ==
    [header |-> TRUE,
     rules |-> <<RejectDetectBlock, RejectMandateViolation,
                 [RequireOverride EXCEPT !.action = "reject"], ApproveDefault>>]

StrictDecide ==
    [q \in DetectDecisions \X SUBSET RuleNames |->
        decide(q[1], q[2], RuleNames, StrictOnFlags)]
=============================================================================
