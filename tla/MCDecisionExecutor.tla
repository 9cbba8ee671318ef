------------------------- MODULE MCDecisionExecutor -------------------------
(***************************************************************************)
(* Instances of DecisionExecutor for TLC.  The registry is that of         *)
(* PREDEFINED_CALLERS without the analyst: one caller that may execute     *)
(* ALLOW and FLAG, one that may only read.                                 *)
(***************************************************************************)
EXTENDS DecisionExecutor, TLC

CONSTANTS t1, t2, r1, r2, r3

MCCallers == {"payment-processor", "audit-system"}
MCPermissions == {"ALLOW", "FLAG", "READ"}
MCRegistry == "payment-processor" :> {"ALLOW", "FLAG"} @@ "audit-system" :> {"READ"}

Allow     == [record_id |-> r1, final_decision |-> "ALLOW", signature |-> "valid"]
Tampered  == [record_id |-> r1, final_decision |-> "BLOCK", signature |-> "invalid"]
Garbled   == [record_id |-> r1, final_decision |-> "ALLOW", signature |-> "malformed"]
Flag      == [record_id |-> r2, final_decision |-> "FLAG", signature |-> "valid"]
\* Signed by the authority, but not a pipeline decision (sign_block_decision).
NotFinal  == [record_id |-> r3, final_decision |-> "none", signature |-> "valid"]
Anonymous == [record_id |-> NoRecord, final_decision |-> "ALLOW", signature |-> "invalid"]

AllSubmissions == {Allow, Tampered, Garbled, Flag, NotFinal, Anonymous}

\* Every decision alone, a duplicate, and a good one after each bad one.
MixedBatches ==
    {<<s>> : s \in AllSubmissions}
        \cup {<<s, Allow>> : s \in AllSubmissions \ {NotFinal}}

FewSubmissions == {Allow, Flag}
FewBatches == {<<Allow>>, <<Flag, Allow>>, <<Allow, Allow>>}

Symmetry == Permutations(Threads)
=============================================================================
