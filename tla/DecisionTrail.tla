--------------------------- MODULE DecisionTrail ----------------------------
(***************************************************************************)
(* What the audit trail promises, without files: "decisions are durable,   *)
(* append only, and never silently overwritten" (CLAIMS.md), and no record *)
(* id twice (the docstring of AuditTrail).                                 *)
(***************************************************************************)
EXTENDS SequencesExt

VARIABLES
    stored,   \* the record ids whose decisions the trail holds, in order
    promised  \* those that an append which returned was given

Init == stored = <<>> /\ promised = {}

\* The trail grows at its end by ids that are new, and what is promised, now or
\* before, is in it.
Extend ==
    /\ IsPrefix(stored, stored')
    /\ IsInjective(stored')
    /\ promised \subseteq promised'
    /\ promised' \subseteq Range(stored')

Spec == Init /\ [][Extend]_<<stored, promised>>
=============================================================================
