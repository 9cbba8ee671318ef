-------------------------- MODULE DecisionExecutor --------------------------
(***************************************************************************)
(* The execution gate: sign/src/decision_executor.py behind the routes of  *)
(* web/server.py.                                                          *)
(*                                                                         *)
(* Flask serves every request on a thread of its own, each with a new      *)
(* DecisionExecutor over the one executions.jsonl, and no lock anywhere.   *)
(* A thread runs enforce_decision on the decisions of its batch in order.  *)
(* Its steps are the points where it touches what other threads touch:     *)
(* screening (clock), the idempotency check (log read), the webhook (the   *)
(* payment processor) and the append of the outcome (log write).           *)
(***************************************************************************)
EXTENDS CallerAuth, Sequences

CONSTANTS
    Threads,          \* request threads of the server process
    Submissions,      \* the decisions clients may submit
    Batches,          \* the decision lists clients may send
    NoRecord,         \* a submission without record_id
    NoCaller,         \* enforce_decision(..., caller=None)
    WebhookOutcomes,  \* what the processor may do: see WebhookReturns
    AppendFaults,     \* how an append may fail: see AppendRaises
    CrashAllowed,     \* whether the server process may be killed
    LibraryCalls,     \* whether code in the process calls it without a caller
    MaxRequests       \* bound: the number of requests served

DecisionTypes == {"ALLOW", "FLAG", "BLOCK"}

\* Mutant: FLAG mapped to the name of the check instead of the action.
ACTION_FOR_DECISION_Typo ==
    [d \in DecisionTypes |-> CASE d = "ALLOW" -> "settle"
                               [] d = "FLAG"  -> "step_up"
                               [] d = "BLOCK" -> "deny"]

ACTION_FOR_DECISION ==
    [d \in DecisionTypes |-> CASE d = "ALLOW" -> "settle"
                               [] d = "FLAG"  -> "step_up_auth"
                               [] d = "BLOCK" -> "deny"]

\* A valid signature means the authority signed these very fields: it gives
\* each record one id (sign_record) and never signs two bodies under one id.
ASSUME ExecutorAssumption ==
    /\ \A s \in Submissions :
          /\ s.signature \in {"valid", "invalid", "malformed"}
          /\ s.signature = "valid" => s.record_id # NoRecord
    /\ \A s1, s2 \in Submissions :
          /\ s1.signature = "valid" /\ s2.signature = "valid"
          /\ s1.record_id = s2.record_id
          => s1.final_decision = s2.final_decision
    /\ Batches \subseteq Seq(Submissions) \ {<<>>}
    /\ NoCaller \notin CallerIdentity
    /\ WebhookOutcomes \subseteq {"ok", "raise_before", "raise_after"}
    /\ AppendFaults \subseteq {"lost", "torn"}
    /\ CrashAllowed \in BOOLEAN
    /\ LibraryCalls \in BOOLEAN
    /\ MaxRequests \in Nat

VARIABLES
    log,      \* the entries in executions.jsonl, in file order
    tail,     \* "open": the last line lacks its newline; "torn": some line is a
              \* part of an entry, or two entries; "whole": neither
    ledger,   \* external: the actions the payment processor has performed
    pc,       \* where each thread stands in enforce_decision
    caller,   \* the identity require_auth gave the thread's request
    batch,    \* the decisions the thread has still to enforce, current first
    receipt,  \* webhook_response: the ledger entry the thread's call made
    seen,     \* history: records logged EXECUTED when the item was begun
    served    \* requests served so far

execVars == <<log, tail, ledger, pc, caller, batch, receipt, seen, served>>
vars == <<authVars, execVars>>

RecordIds == {s.record_id : s \in Submissions}
Decisions == {s.final_decision : s \in Submissions}
CallerIds == Callers \cup {NoCaller}

Statuses == {"EXECUTED", "ALREADY_EXECUTED", "REJECTED"}
Reasons  == {"none", "missing_record_id", "invalid_signature",
             "caller_not_permitted", "unknown_final_decision"}

Entries == [record_id : RecordIds, status : Statuses, reason : Reasons,
            final_decision : Decisions, caller_id : CallerIds, receipt : Nat]

Actions == [record_id : RecordIds, final_decision : Decisions,
            action : {"settle", "step_up_auth", "deny"}, caller_id : CallerIds]

TypeOK ==
    /\ AuthTypeOK
    /\ log \in Seq(Entries)
    /\ tail \in {"whole", "open", "torn"}
    /\ ledger \in Seq(Actions)
    /\ pc \in [Threads -> {"idle", "screen", "check", "webhook", "record"}]
    /\ caller \in [Threads -> CallerIdentity \cup {NoCaller}]
    /\ batch \in [Threads -> Seq(Submissions)]
    /\ receipt \in [Threads -> Nat]
    /\ seen \in [Threads -> SUBSET RecordIds]
    /\ served \in Nat

Init ==
    /\ AuthInit
    /\ log = <<>> /\ tail = "whole"
    /\ ledger = <<>>
    /\ pc = [t \in Threads |-> "idle"]
    /\ caller = [t \in Threads |-> NoCaller]
    /\ batch = [t \in Threads |-> <<>>]
    /\ receipt = [t \in Threads |-> 0]
    /\ seen = [t \in Threads |-> {}]
    /\ served = 0

-----------------------------------------------------------------------------
Current(t) == Head(batch[t])

CallerIdOf(t) == IF caller[t] = NoCaller THEN NoCaller ELSE caller[t].caller_id

\* The loop of already_executed over read_all: only EXECUTED entries count.
already_executed(record_id) ==
    \E i \in 1..Len(log) : /\ log[i].record_id = record_id
                           /\ log[i].status = "EXECUTED"

torn == tail = "torn"

ExecutedIds == {r \in RecordIds : already_executed(r)}

Entry(t, status, reason, rcpt) ==
    [record_id      |-> Current(t).record_id,
     status         |-> status,
     reason         |-> reason,
     final_decision |-> Current(t).final_decision,
     caller_id      |-> CallerIdOf(t),
     receipt        |-> rcpt]

\* The thread leaves the current decision and begins the next one, or has
\* none left and sends its response.
Advance(t) ==
    /\ batch' = [batch EXCEPT ![t] = Tail(batch[t])]
    /\ pc' = [pc EXCEPT ![t] = IF Len(batch[t]) = 1 THEN "idle" ELSE "screen"]
    /\ receipt' = [receipt EXCEPT ![t] = 0]
    /\ UNCHANGED <<caller, served>>

\* An exception leaves enforce_decisions: the rest of the batch is dropped and
\* the client sees an HTTP 500.
Abort(t) ==
    /\ batch' = [batch EXCEPT ![t] = <<>>]
    /\ pc' = [pc EXCEPT ![t] = "idle"]
    /\ receipt' = [receipt EXCEPT ![t] = 0]
    /\ UNCHANGED <<caller, served, seen>>

\* An entry is written: behind an open line it shares that line, which no reader
\* gets past.
Write(end) == tail' = IF tail = "whole" THEN end ELSE "torn"

\* self.log.append(result); return result.  Or the append raises when all but
\* the newline is written.  `seen' is history only: what the log says at the
\* moment the thread begins the next decision.
Answer(t, status, reason, rcpt) ==
    /\ log' = Append(log, Entry(t, status, reason, rcpt))
    /\ \/ /\ Write("whole")
          /\ seen' = [seen EXCEPT ![t] =
                         ExecutedIds \cup IF status = "EXECUTED"
                                            THEN {Current(t).record_id} ELSE {}]
          /\ Advance(t)
       \/ /\ "torn" \in AppendFaults
          /\ Write("open")
          /\ Abort(t)

Goto(t, label) ==
    /\ pc' = [pc EXCEPT ![t] = label]
    /\ UNCHANGED <<log, tail, caller, batch, served, seen>>

-----------------------------------------------------------------------------
\* POST /api/enforce/decisions with a token that verifies and a non-empty
\* list.  A request answered 400 or 401 changes nothing and is left out.
StartRequest(t) ==
    /\ pc[t] = "idle"
    /\ served < MaxRequests
    /\ \E token \in issued, b \in Batches :
          /\ verify_token(token)
          /\ caller' = [caller EXCEPT ![t] = token]
          /\ batch' = [batch EXCEPT ![t] = b]
    /\ pc' = [pc EXCEPT ![t] = "screen"]
    /\ seen' = [seen EXCEPT ![t] = ExecutedIds]
    /\ served' = served + 1
    /\ UNCHANGED <<authVars, log, tail, ledger, receipt>>

\* enforce_decision called in process, without a caller, as the tests do.
StartLibraryCall(t) ==
    /\ LibraryCalls
    /\ pc[t] = "idle"
    /\ served < MaxRequests
    /\ \E s \in Submissions : batch' = [batch EXCEPT ![t] = <<s>>]
    /\ caller' = [caller EXCEPT ![t] = NoCaller]
    /\ pc' = [pc EXCEPT ![t] = "screen"]
    /\ seen' = [seen EXCEPT ![t] = ExecutedIds]
    /\ served' = served + 1
    /\ UNCHANGED <<authVars, log, tail, ledger, receipt>>

RejectMissingId(t) ==
    /\ pc[t] = "screen"
    /\ Current(t).record_id = NoRecord
    /\ Answer(t, "REJECTED", "missing_record_id", 0)
    /\ UNCHANGED <<authVars, ledger>>

RejectSignature(t) ==
    /\ pc[t] = "screen"
    /\ Current(t).record_id # NoRecord
    /\ Current(t).signature = "invalid"
    /\ Answer(t, "REJECTED", "invalid_signature", 0)
    /\ UNCHANGED <<authVars, ledger>>

\* bytes.fromhex of a signature that is not hexadecimal raises ValueError,
\* which verify_record does not catch.
AbortMalformed(t) ==
    /\ pc[t] = "screen"
    /\ Current(t).record_id # NoRecord
    /\ Current(t).signature = "malformed"
    /\ Abort(t)
    /\ UNCHANGED <<authVars, log, tail, ledger>>

\* Mutant: the permission is not looked up, only the expiry.
Permitted_AnyType(t) == caller[t] # NoCaller => ~is_expired(caller[t])

Permitted(t) ==
    caller[t] # NoCaller => can_execute(caller[t], Current(t).final_decision)

RejectCaller(t) ==
    /\ pc[t] = "screen"
    /\ Current(t).signature = "valid"
    /\ ~Permitted(t)
    /\ Answer(t, "REJECTED", "caller_not_permitted", 0)
    /\ UNCHANGED <<authVars, ledger>>

\* Mutant: the signature is not verified for a permitted caller.
PassScreening_Unsigned(t) ==
    /\ pc[t] = "screen"
    /\ Current(t).record_id # NoRecord
    /\ Permitted(t)
    /\ Goto(t, "check")
    /\ UNCHANGED <<authVars, ledger, receipt>>

PassScreening(t) ==
    /\ pc[t] = "screen"
    /\ Current(t).signature = "valid"
    /\ Permitted(t)
    /\ Goto(t, "check")
    /\ UNCHANGED <<authVars, ledger, receipt>>

\* Mutant: a record already executed is screened again instead of answered.
AnswerAlreadyExecuted_Retry(t) ==
    /\ pc[t] = "check" /\ ~torn
    /\ already_executed(Current(t).record_id)
    /\ Goto(t, "screen")
    /\ UNCHANGED <<authVars, ledger, receipt>>

AnswerAlreadyExecuted(t) ==
    /\ pc[t] = "check" /\ ~torn
    /\ already_executed(Current(t).record_id)
    /\ Answer(t, "ALREADY_EXECUTED", "none", 0)
    /\ UNCHANGED <<authVars, ledger>>

RejectUnknownDecision(t) ==
    /\ pc[t] = "check" /\ ~torn
    /\ ~already_executed(Current(t).record_id)
    /\ Current(t).final_decision \notin DecisionTypes
    /\ Answer(t, "REJECTED", "unknown_final_decision", 0)
    /\ UNCHANGED <<authVars, ledger>>

\* Mutant: the idempotency check is dropped.
PassCheck_Unchecked(t) ==
    /\ pc[t] = "check"
    /\ Current(t).final_decision \in DecisionTypes
    /\ Goto(t, "webhook")
    /\ UNCHANGED <<authVars, ledger, receipt>>

\* Mutant: the record is logged EXECUTED before the webhook is called.
PassCheck_LogFirst(t) ==
    /\ pc[t] = "check" /\ ~torn
    /\ ~already_executed(Current(t).record_id)
    /\ Current(t).final_decision \in DecisionTypes
    /\ log' = Append(log, Entry(t, "EXECUTED", "none", 0))
    /\ pc' = [pc EXCEPT ![t] = "webhook"]
    /\ Write("whole")
    /\ UNCHANGED <<authVars, ledger, receipt, caller, batch, served, seen>>

PassCheck(t) ==
    /\ pc[t] = "check" /\ ~torn
    /\ ~already_executed(Current(t).record_id)
    /\ Current(t).final_decision \in DecisionTypes
    /\ Goto(t, "webhook")
    /\ UNCHANGED <<authVars, ledger, receipt>>

\* json.loads raises in read_all at a line that is not one entry, so
\* already_executed raises whatever record it is asked about.
RaiseUnreadable(t) ==
    /\ pc[t] = "check" /\ torn
    /\ Abort(t)
    /\ UNCHANGED <<authVars, log, tail, ledger>>

\* The payment processor performs the action once and remembers it.
Perform(t) ==
    ledger' = Append(ledger,
                [record_id      |-> Current(t).record_id,
                 final_decision |-> Current(t).final_decision,
                 action         |-> ACTION_FOR_DECISION[Current(t).final_decision],
                 caller_id      |-> CallerIdOf(t)])

\* The webhook returns, raises before the processor acted, or raises after it
\* did (a lost response).  The code catches neither exception.
WebhookReturns(t) ==
    /\ pc[t] = "webhook"
    /\ "ok" \in WebhookOutcomes
    /\ Perform(t)
    /\ receipt' = [receipt EXCEPT ![t] = Len(ledger) + 1]
    /\ Goto(t, "record")
    /\ UNCHANGED authVars

\* Mutant: the exception is swallowed and the decision logged all the same.
WebhookRaises_Swallowed(t) ==
    /\ pc[t] = "webhook"
    /\ \/ "raise_before" \in WebhookOutcomes /\ UNCHANGED ledger
       \/ "raise_after" \in WebhookOutcomes /\ Perform(t)
    /\ Goto(t, "record")
    /\ UNCHANGED <<authVars, receipt>>

WebhookRaises(t) ==
    /\ pc[t] = "webhook"
    /\ \/ "raise_before" \in WebhookOutcomes /\ UNCHANGED ledger
       \/ "raise_after" \in WebhookOutcomes /\ Perform(t)
    /\ Abort(t)
    /\ UNCHANGED <<authVars, log, tail>>

\* Mutant: the outcome is returned without an entry in the log.
LogExecuted_Unlogged(t) ==
    /\ pc[t] = "record"
    /\ Advance(t)
    /\ UNCHANGED <<authVars, ledger, log, tail, seen>>

LogExecuted(t) ==
    /\ pc[t] = "record"
    /\ Answer(t, "EXECUTED", "none", receipt[t])
    /\ UNCHANGED <<authVars, ledger>>

\* The thread is about to log its answer.
Answering(t) ==
    \/ /\ pc[t] = "screen"
       /\ \/ Current(t).record_id = NoRecord
          \/ Current(t).signature = "invalid"
          \/ Current(t).signature = "valid" /\ ~Permitted(t)
    \/ /\ pc[t] = "check" /\ ~torn
       /\ \/ already_executed(Current(t).record_id)
          \/ Current(t).final_decision \notin DecisionTypes
    \/ pc[t] = "record"

\* The append raises (a full disk): nothing or a part of the entry is in the
\* file, and the file is neither repaired nor truncated.
AppendRaises(t) ==
    /\ Answering(t)
    /\ \/ "lost" \in AppendFaults /\ UNCHANGED tail
       \/ "torn" \in AppendFaults /\ tail' = "torn"
    /\ Abort(t)
    /\ UNCHANGED <<authVars, log, ledger>>

\* The server process is killed and started again: the requests in flight
\* are lost, the log and the tokens (the HMAC secret is a file) survive.
Crash ==
    /\ CrashAllowed
    /\ \E t \in Threads : pc[t] # "idle"
    /\ pc' = [t \in Threads |-> "idle"]
    /\ batch' = [t \in Threads |-> <<>>]
    /\ receipt' = [t \in Threads |-> 0]
    /\ UNCHANGED <<authVars, log, tail, ledger, caller, seen, served>>

Auth ==
    /\ Tick \/ \E c \in Callers : CreateToken(c)
    /\ UNCHANGED execVars

\* All threads idle: the server waits for a request.
Wait ==
    /\ \A t \in Threads : pc[t] = "idle"
    /\ UNCHANGED vars

Step(t) ==
    \/ RejectMissingId(t) \/ RejectSignature(t) \/ AbortMalformed(t)
    \/ RejectCaller(t) \/ PassScreening(t)
    \/ AnswerAlreadyExecuted(t) \/ RejectUnknownDecision(t) \/ PassCheck(t)
    \/ WebhookReturns(t) \/ WebhookRaises(t)
    \/ LogExecuted(t) \/ RaiseUnreadable(t) \/ AppendRaises(t)

Next ==
    \/ \E t \in Threads : StartRequest(t) \/ StartLibraryCall(t) \/ Step(t)
    \/ Crash
    \/ Auth
    \/ Wait

Spec == Init /\ [][Next]_vars

\* Threads are scheduled by the operating system and the webhook returns or
\* raises, so no request that was begun is left standing.
FairSpec == Spec /\ \A t \in Threads : WF_vars(Step(t))
-----------------------------------------------------------------------------
\* Safety.  The first four hold for any number of threads, for every fault.

Performed(r) == \E i \in 1..Len(ledger) : ledger[i].record_id = r

Logged(i) == \E j \in 1..Len(log) :
                log[j].status = "EXECUTED" /\ log[j].receipt = i

\* The processor acts only on what the authority signed, only as the signed
\* decision says, and only for a caller whose registration grants that
\* decision, whatever else is in the batch and however threads interleave
\* (verify_record and can_execute come before the webhook on every path).
AuthorizedExecution ==
    \A i \in 1..Len(ledger) :
        LET act == ledger[i] IN
        /\ \E s \in Submissions : /\ s.signature = "valid"
                                  /\ s.record_id = act.record_id
                                  /\ s.final_decision = act.final_decision
        /\ act.action = ACTION_FOR_DECISION[act.final_decision]
        /\ act.caller_id # NoCaller =>
              act.final_decision \in registry[act.caller_id]

\* Even when a record is acted on more than once, it is never both settled
\* and denied: all its actions are the same one.
OneActionPerRecord ==
    \A i, j \in 1..Len(ledger) :
        ledger[i].record_id = ledger[j].record_id
            => ledger[i].action = ledger[j].action

\* A decision taken up after its record was logged EXECUTED does not reach
\* the webhook: not from a later request, not from a later place in the same
\* batch, not after a restart (already_executed reads the file every time).
SettledRecordsStaySettled ==
    \A t \in Threads :
        pc[t] \in {"webhook", "record"} => Current(t).record_id \notin seen[t]

\* Each EXECUTED entry stands for an action of its own that the processor
\* performed for that record and that caller: the log never claims more
\* executions than there were.
EveryExecutedEntryIsBacked ==
    \A i \in 1..Len(log) : log[i].status = "EXECUTED" =>
        /\ log[i].receipt \in 1..Len(ledger)
        /\ ledger[log[i].receipt].record_id = log[i].record_id
        /\ ledger[log[i].receipt].caller_id = log[i].caller_id
        /\ \A j \in 1..Len(log) :
              /\ log[j].status = "EXECUTED"
              /\ log[j].receipt = log[i].receipt
              => j = i

\* "Never execute the same signed decision twice": the processor acts at most
\* once on a record.  True of one thread without crashes, lost responses and
\* lost appends, a torn append included: either the entry is there and can be
\* read, or already_executed raises from then on and nothing is executed, as it
\* does once an entry shares a line.  False of what the server runs (enforce_decision
\* has no lock between already_executed and the append).
AtMostOnce ==
    \A i, j \in 1..Len(ledger) :
        ledger[i].record_id = ledger[j].record_id => i = j

\* "Log every execution attempt": an action the processor performed is in the
\* log, or the thread that asked for it is about to append it, or its append
\* failed: then it is the last action there is, and the log is unreadable.
EveryActionLogged ==
    \A i \in 1..Len(ledger) :
        \/ Logged(i)
        \/ \E t \in Threads : pc[t] = "record" /\ receipt[t] = i
        \/ torn /\ i = Len(ledger)

\* The gate of a single worker without faults implements ExecuteOnce.
Once == INSTANCE ExecuteOnce WITH
            Records   <- RecordIds,
            performed <- ledger,
            executed  <- ExecutedIds

ExecutesOnce == Once!Spec

\* A request that was begun is answered or aborted (no thread waits for
\* another one, and the webhook returns or raises).
RequestsEnd ==
    \A t \in Threads : pc[t] # "idle" ~> pc[t] = "idle"
=============================================================================
