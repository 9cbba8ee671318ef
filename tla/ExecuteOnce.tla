---------------------------- MODULE ExecuteOnce -----------------------------
(***************************************************************************)
(* What the execution gate promises (sign/src/decision_executor.py, module *)
(* docstring): the payment processor acts at most once on a record, and a  *)
(* record is logged EXECUTED only after it was acted on.                   *)
(***************************************************************************)
EXTENDS Naturals, Sequences

CONSTANTS
    Records,  \* record ids
    Actions   \* what the processor may be asked for, each on a record_id

VARIABLES
    performed,  \* the actions performed, in order
    executed    \* the records logged EXECUTED

onceVars == <<performed, executed>>

Performed(r) == \E i \in 1..Len(performed) : performed[i].record_id = r

Init == performed = <<>> /\ executed = {}

Perform(r) ==
    /\ ~Performed(r)
    /\ \E act \in Actions : /\ act.record_id = r
                            /\ performed' = Append(performed, act)
    /\ UNCHANGED executed

Record(r) ==
    /\ Performed(r)
    /\ r \notin executed
    /\ executed' = executed \cup {r}
    /\ UNCHANGED performed

Next == \E r \in Records : Perform(r) \/ Record(r)

Spec == Init /\ [][Next]_onceVars
=============================================================================
