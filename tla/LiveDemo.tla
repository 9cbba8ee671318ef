------------------------------ MODULE LiveDemo ------------------------------
(***************************************************************************)
(* The interactive demo of the server (web/interactive_demo.py) next to    *)
(* the runs whose files it reads: build_demo_data.py makes two files of    *)
(* the decision log and the customers' histories, and the server decides   *)
(* live transactions with the model that the last run trained.             *)
(*                                                                         *)
(* Flask serves each request on a thread.  The model is loaded once, under *)
(* _model_lock, and kept for the life of the server; a run that trains     *)
(* anew replaces the file meanwhile.  What detect, mandate and policy make *)
(* of one transaction is in Pipeline and LiveDecision.                     *)
(***************************************************************************)
EXTENDS AuditTrail

CONSTANTS
    Threads,  \* threads of the server
    Nobody    \* the lock is free

ASSUME DemoAssumption == Nobody \notin Threads

VARIABLES
    scenarios,  \* attack_scenarios.json: the run its decisions are of, or 0
    lock,       \* the thread that holds _model_lock
    cached,     \* _model: the run it was trained in, 0 if None
    at,         \* where each thread stands in evaluate_transaction
    got,        \* the model _get_model returned to it
    used        \* history: the models of the decisions of this server life

serverVars == <<lock, cached, at, got, used>>
liveVars == <<vars, scenarios, serverVars>>

ServerTypeOK ==
    /\ lock \in Threads \cup {Nobody}
    /\ cached \in Nat
    /\ at \in [Threads -> {"idle", "validated", "locked", "load", "score"}]
    /\ got \in [Threads -> Nat]
    /\ used \subseteq Nat

LiveTypeOK ==
    /\ TypeOK
    /\ scenarios \in 0..Len(RunBatches)
    /\ ServerTypeOK

ServerInit ==
    /\ lock = Nobody
    /\ cached = 0
    /\ at = [t \in Threads |-> "idle"]
    /\ got = [t \in Threads |-> 0]
    /\ used = {}

LiveInit ==
    /\ Init
    /\ scenarios = 0
    /\ ServerInit

-----------------------------------------------------------------------------
\* build_demo_data: the decision log is read, and raises if it cannot be; then
\* the scenarios are written, or a kill leaves a part of them.
BuildDemoData ==
    /\ decisions # 0
    /\ scenarios' \in {decisions} \cup (IF CrashAllowed THEN {0} ELSE {})
    /\ UNCHANGED <<vars, serverVars>>

-----------------------------------------------------------------------------
MoveTo(t, label) == at' = [at EXCEPT ![t] = label]

\* A request whose input passes _validate_inputs.  One that does not, or that
\* finds demo_customers.json torn by a kill of build_demo_data, changes nothing.
Evaluate(t) ==
    /\ at[t] = "idle"
    /\ MoveTo(t, "validated")
    /\ UNCHANGED <<vars, scenarios, lock, cached, got, used>>

\* Mutant: the threads do not wait for each other.
Acquire_Unguarded(t) ==
    /\ at[t] = "validated"
    /\ lock' = t
    /\ MoveTo(t, "locked")
    /\ UNCHANGED <<vars, scenarios, cached, got, used>>

Acquire(t) ==
    /\ at[t] = "validated"
    /\ lock = Nobody
    /\ lock' = t
    /\ MoveTo(t, "locked")
    /\ UNCHANGED <<vars, scenarios, cached, got, used>>

UseCached(t) ==
    /\ at[t] = "locked"
    /\ cached # 0
    /\ got' = [got EXCEPT ![t] = cached]
    /\ lock' = Nobody
    /\ MoveTo(t, "score")
    /\ UNCHANGED <<vars, scenarios, cached, used>>

FindNone(t) ==
    /\ at[t] = "locked"
    /\ cached = 0
    /\ MoveTo(t, "load")
    /\ UNCHANGED <<vars, scenarios, lock, cached, got, used>>

\* load_model: the file of the last run that saved one.
Load(t) ==
    /\ at[t] = "load"
    /\ model # 0
    /\ cached' = model
    /\ got' = [got EXCEPT ![t] = model]
    /\ lock' = Nobody
    /\ MoveTo(t, "score")
    /\ UNCHANGED <<vars, scenarios, used>>

\* Mutant: the lock is released at the end of _get_model only.
LoadRaises_Held(t) ==
    /\ at[t] = "load"
    /\ model = 0
    /\ MoveTo(t, "idle")
    /\ UNCHANGED <<vars, scenarios, lock, cached, got, used>>

\* There is no file, or a run is just filling it: load_model raises, nothing is
\* cached, the with statement releases the lock and the client gets an error.
LoadRaises(t) ==
    /\ at[t] = "load"
    /\ model = 0
    /\ lock' = Nobody
    /\ MoveTo(t, "idle")
    /\ UNCHANGED <<vars, scenarios, cached, got, used>>

\* The decision is taken, signed, verified and sent to the client, and kept
\* nowhere else.
SignDecision(t) ==
    /\ at[t] = "score"
    /\ used' = used \cup {got[t]}
    /\ got' = [got EXCEPT ![t] = 0]
    /\ MoveTo(t, "idle")
    /\ UNCHANGED <<vars, scenarios, lock, cached>>

\* The server is killed and started again, with no model loaded.
Restart ==
    /\ CrashAllowed
    /\ lock' = Nobody
    /\ cached' = 0
    /\ at' = [t \in Threads |-> "idle"]
    /\ got' = [t \in Threads |-> 0]
    /\ used' = {}
    /\ UNCHANGED <<vars, scenarios>>

\* _get_model from the lock on.
GetModel(t) == UseCached(t) \/ FindNone(t) \/ Load(t) \/ LoadRaises(t)

Serve == \E t \in Threads :
    Evaluate(t) \/ Acquire(t) \/ GetModel(t) \/ SignDecision(t)

LiveNext ==
    \/ Next /\ UNCHANGED <<scenarios, serverVars>>
    \/ BuildDemoData
    \/ Serve
    \/ Restart

\* A thread that holds the lock runs straight-line code and waits for nobody.
LiveSpec ==
    /\ LiveInit
    /\ [][LiveNext]_liveVars
    /\ \A t \in Threads : WF_liveVars(GetModel(t))

-----------------------------------------------------------------------------
\* "Same trained model" (the docstring of interactive_demo): all live decisions
\* of one server life are taken with one model, whichever thread loaded it and
\* however often runs replace the file meanwhile or leave it torn.
OneModelPerLife == \A m, n \in used : m = n /\ m # 0

\* A run writes the model first, then the decisions it took with it, and the
\* dashboard last, and the walkthrough is made of the decision log: wherever a
\* run or build_demo_data is killed, no file that can be read is of an earlier
\* run than one derived from it.
Derived(base, file) == base # 0 /\ file # 0 => file <= base

FilesInOrder ==
    /\ Derived(model, decisions)
    /\ \A file \in {dashboard, scenarios} : Derived(model, file) /\ Derived(decisions, file)

\* A model that cannot be loaded makes one request fail and never the next one
\* wait: whoever holds the lock lets it go.
LockIsReleased == lock # Nobody ~> lock = Nobody
=============================================================================
