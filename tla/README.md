# Execution Authority Gate: specification and proofs

TLA+ models of the authorization pipeline in this repository, the TLC runs that
check them on small instances, and TLAPS proofs of the properties that matter
most. `PROJECT.json` maps every definition to the lines it is translated from.

## 1. The system

Transactions are generated (legitimate ones, and fraud made by bounded agents),
scored by a detector, checked against a mandate, decided by a policy document,
signed, written to an audit trail, and at last executed through an HTTP gate.

| Component | State it keeps | Operations | What makes it correct |
|---|---|---|---|
| execution gate, `sign/src/decision_executor.py` | `executions.jsonl` | `enforce_decision` | acts only on signed decisions its caller may execute; at most once per record; logs every attempt |
| HTTP server, `web/server.py` | none of its own; one thread per request | issue a token, enforce a batch, evaluate a live transaction | authenticates before anything, each decision judged on its own |
| caller authentication, `caller_auth.py` | registry, HMAC secret file | load or create the secret, register, create and verify tokens, `can_execute` | a withdrawn permission ends with the tokens that carry it; every process accepts the tokens of every other |
| keys, signer, verifier, `authority_signer.py`, `signature_verifier.py` | two PEM files per signer, a key in memory | load or create the pair, sign, verify | what was signed verifies, now and later |
| audit trail, `pipeline/src/audit_trail.py` | `decisions.jsonl` | `append_many`, `append_decision`, readers | nothing twice, nothing returned is lost, readable |
| decision log and dashboard | two JSON files a run overwrites | `write_log`, `summarize`, `build` | show only what is durable; written in order; counts add up |
| policy layer, `policy/src` | documents on disk | load, validate, evaluate | first match wins, fails closed, validated documents do not raise |
| mandate layer, `mandate/src` | none | derive a mandate, check one | admits the history it was derived from |
| pipeline run, `run_pipeline.py` | running totals per customer | one walk over the test set | what goes through stays within the mandate; BLOCK wins |
| detector, `detect/src` | a pickled model | train, save, load, score, threshold | a model file that cannot be read is an error, never an old model (training and scores are numerical and not modelled) |
| fraud agents, `generate/src` | tokens, logs, data files | nine `run` methods, two entry points | within the token, traceable, logged; the report agrees with the logs |
| language model client | call log | `call_json`, `reset_log` | raises rather than returns nothing; the log has every call of the simulation |
| interactive demo, `web/interactive_demo.py` | the loaded model, a lock | `_get_model`, `evaluate_transaction` | one model per server life; decides as a run does; never hangs |
| demo data builder, `build_demo_data.py` | two JSON files of the demo | one script | not newer than the decisions they are taken from |
| legitimate data generator, walkthrough builder, examples, front end | none that others change | | not modelled |

How they interact. The generator writes `good_transactions.json` and
`fraud_transactions.json`; `run_pipeline.main` reads both, calls detector,
mandate and policy in turn for each transaction, signs, and writes the model, the
decision log, the trail and the dashboard in that order. `build_demo_data` makes
the demo's files of the decision log, and the server, which loads the model once,
decides live transactions with it. Clients take signed decisions to
`/api/enforce/decisions`, where the gate verifies them and calls the payment
processor's webhook. All sharing between processes is through files, and no file is
ever locked; the one lock of the program is `_model_lock` in the server.

What is hard. Flask serves each request on a thread, and every gate method is a
read of a file followed later by an append. Processes may be killed between any
two writes, and between the opening of a file, which empties it, and its filling.
An append may fail, or stop in the middle of a line. The webhook can act and then
lose its response. Tokens expire inside a request. Key files are created by whoever
imports the module first. Policy documents are data: the order of rules, missing signals and JSON's types decide
outcomes. `PROJECT.json` lists these as hazards, each at its line with the
properties that watch it.

## 2. The modules

| Module | Models | Correspondence |
|---|---|---|
| `CallerAuth` | `CallerAuthenticator` | `registry` is `_registry`; `issued` the tokens it signed (the HMAC is membership); one action each for `register_caller`, `create_token`, the clock |
| `DecisionExecutor` (extends `CallerAuth`) | `enforce_decision` on the server's threads | `log` is `executions.jsonl`; `ledger` what the processor did (external); `pc` walks a thread through screening, idempotency check, webhook and append, the points where it touches shared state; every return of the code is an action; `tail` says whether the last line lacks its newline (`open`: it is read, and the next append goes on in it) or some line is a part of an entry or two entries (`torn`: `read_all` raises) |
| `ExecuteOnce` | abstract specification | a record is performed, then recorded; neither twice |
| `AuditTrail` | `append_many`, `append_decision`, and the writes of a run from `save_model` to `build` | `trail` is the file in pieces, three to a line: two of its JSON text and its newline, so that a flush may end inside a text or between a text and its newline. `Row` is a line that `json.loads` accepts, `Text` a text that is whole, on whatever line; `buffer` is the file object; `model`, `decisions` and `dashboard` hold the number of the run that wrote them, 0 while a file is missing or emptied |
| `DecisionTrail` | abstract specification | a sequence of distinct ids, those of the texts that are whole, that grows at its end and holds what was promised |
| `LiveDemo` (extends `AuditTrail`) | the interactive demo on the server's threads, next to the runs; `build_demo_data` | `lock`, `cached`, `got` are `_model_lock`, `_model` and what `_get_model` returned; `at` is where a thread stands; `scenarios` is the file of the demo |
| `SigningKeys` | `_load_or_create_keypair`, `Signer`, `verify_record` | `private` and `public` are the files, `key` the object in each process; keys are numbers, and a file that was opened and not filled is `Torn`; `cut` is history: the keys whose public half a kill cut off |
| `ServerStart` (extends `SigningKeys`) | a process that comes up: the signer's keys, then `_load_or_create_secret`, then tokens | `secret` is the file, `hold` the secret of each process, `tokens` the secrets of the tokens issued |
| `PolicyOperators` | `operator_evaluator.evaluate` | one CASE arm per operator; values carry their JSON type |
| `PolicyRules` | `policy_validator`, the pure part of `policy_engine` | JSON objects are functions on the keys they have; `Nesting` holds the conditions at hand by their depth, and what the code computes by recursion is a recursive function on them; `Unhashable` is what may stand for a fact, an action or an id and is a list or an object |
| `PolicyEngine` | `load_policy`, then the rule loop | `trace` is `matched_path`; one step per rule |
| `TransactionPolicy` | the shipped `policy.json` and `decide` | one definition per rule of the document |
| `Mandate` | `rules.py`, `mandate_checker.py` | same names |
| `Pipeline` (extends `Mandate`) | the walk of `run_pipeline.main` | `month_to_date`, `tx_count_today`, `entries` as in the code; the policy is the constant `Decide`; `evaluate_transaction` is the decision of the live demo |
| `MCPipeline` | `Pipeline` composed with `TransactionPolicy` | gives `Decide` the evaluated policy document |
| `Simulation` | `BoundedAgent`, `_batched`, the `run` methods, both entry points | an agent is where its items come from and how many transactions one yields; `token_files`, `log_files`, `good_file`, `fraud_file`, `report_file`, `call_log` are the files, by the run that wrote them |

`MC*` modules give the constants their values. `*Proofs` modules hold theorems, and
`FoldLemmas` the lemmas on induction, sums and sequences they share.

Outside the source, modelled from how it is used: the payment processor
(`ledger`, and the three ways a webhook call may end), the clock, the language
model (any number of items, or an exception), kills and restarts, and what git
leaves in a checkout.

## 3. What the runs check

Passing runs:

| Run | Question | Instance and why it is enough |
|---|---|---|
| `CallerTokens` | does a withdrawal take effect in time, in every order of registration, issue and expiry? | one predefined caller, one that can register, TTL 2, clock to 4: a token issued before, at and after a change can expire inside the horizon |
| `ExecutorConcurrent` | what holds in spite of the race, the crashes, the lost responses and the appends that fail? | two threads, two requests, batches of one and two decisions out of valid, tampered and malformed ones: two threads can stand between check and append, and one can repeat a record within its batch. Threads are symmetric |
| `ExecutorSequential` | is one worker exact, though an append may tear the log, inside an entry or before its newline? does it implement `ExecuteOnce` and end every request? | one thread, two requests, batches of one and two decisions: a record can be repeated within a batch and by a second request, after success, rejection, an exception or a torn line |
| `AuditOneWriter` | no duplicate, no promised text lost, damage to a torn text and a shared line at most, files in order; one model for all live decisions, and nobody stuck at its lock? | two runs and one direct append, batches of up to three entries, one without id, kills inside a text, between a text and its newline, and between opening and filling a file, with runs and appends after the kill; a server of two threads that may be restarted: both can find no model, one can load while the other waits, and the file can be replaced or emptied meanwhile |
| `KeysOneCreator` | does a record that verified once verify for ever, and do only the records fail that were signed with a key whose public half a kill cut off? do all tokens verify everywhere? | three processes, kills anywhere and inside each of the three files' writes, starting from nothing or from an established pair and secret; one can create, one be killed, one come later |
| `PolicyDocuments` | first match, absent signals, validation, failing closed; does `evaluate` order numbers and nothing else? | documents of one and two rules, including nested, malformed and two-keyed conditions and a list in the place of a fact, an action or an id, with every bag of two signals; and a rule for each of the 28 operators with each pair of 24 values of every JSON type |
| `PipelineRun` | limits, attribution, the equivalence of policy document and docstring; does the live demo decide as a run does? | two customers, five transactions chosen so that each mandate rule is reached and the limits are met exactly, every order and score on and beside the thresholds |
| `SimulationRuns` | tokens, logs, data files, the call log and the probe report | two simulations and a run of the probes, in any order; agents whose demand is below, at and above the grant; two items per call, so `_batched` loops; failures anywhere and kills inside each write |

Runs that show the code departing from what the repository says of it; each is a
finding in `PROJECT.json` with the sentence it contradicts:

| Run | Shown |
|---|---|
| `ExecutorRace` | a record is executed twice, by two threads between check and append |
| `AuditTornLine` | after a kill inside a text no reader and no later run gets past the torn line; after a kill between a text and its newline the next append returns and leaves two decisions on one line, with the same effect |
| `KeysCheckout` | importing the verifier in a checkout replaces the committed public key, and no record signed before verifies |
| `PolicyAlwaysFalse` | a document with `always: false` next to `all` loads, and matches everything |

The abstract specifications say more than the invariants beside them.
`ImplementsTrail` (AuditTrail implements `DecisionTrail`) contains that the text of
each decision a returned `append_many` was given is in the file, whole, for ever
after. It does not say that a reader gets to it: a damaged line hides the file from
every reader, which is what `ReturnedIsReadable` says and `AuditTornLine` refutes.
`ExecutesOnce` (the gate implements `ExecuteOnce`) contains `AtMostOnce`, which is
what the race breaks (`ExecutorRace`) and is proved of one worker. `AuthTypeOK` is a
part of the gate's `TypeOK`.

Why the other passing runs leave out what they do: each of these choices of the
constants makes TLC report the property named, checked alone, violated with a
short trace.

- `ExecutorSequential` with `CrashAllowed = TRUE`: a kill between webhook and
  append, then a retry, breaks `AtMostOnce` and with it `ExecutesOnce`.
- `ExecutorSequential` with `"raise_after"` in `WebhookOutcomes`: an action whose
  response was lost is in no log, which breaks `EveryActionLogged`.
- `ExecutorSequential` with `"lost"` in `AppendFaults`: an append that fails
  without a trace leaves the record open for a second action, which breaks
  `AtMostOnce`. A torn append does not: an entry that lacks only its newline is read,
  and a part of an entry makes every later request fail.
- `AuditOneWriter` with two `Writers`: both replay the same batch and both append
  it, which breaks `NoDuplicates` and with it `ImplementsTrail`; and a run that is
  overtaken by the next leaves its decisions next to a newer dashboard or model,
  which breaks `FilesInOrder`.
- `KeysOneCreator` with `TwoCreators = TRUE`: a process signs with a key whose
  public half was overwritten, which breaks `OnlyACutKeyFails` and
  `SignersAgreeWithFiles`, and two processes hold different token secrets, which
  breaks `TokensVerifyEverywhere`.
- `KeysOneCreator` asked for `EverySignedRecordVerifies`, the property of
  `KeysCheckout`: a kill while the public key is written leaves an empty file, the
  next start signs with the private key, and what it signs does not verify. Hence
  the two properties the run has instead.
- `PipelineRun` with `Decide <- StrictDecide` (a policy document that also rejects
  on FLAG): some blocks are attributed to no layer, which breaks
  `BlocksAreAttributed`.

Observations no run states as a finding. A public key that a kill cut off is never
repaired: `_load_or_create_keypair` only looks whether the file exists, so every later
process signs records that nobody can verify, against
`docs/PRODUCTION_DEPLOYMENT.md:132-136` ("any previously signed decision"). A token
secret that a kill left empty is used as it is. `policy_validator.py:1-7`
is there to make authoring mistakes show when a document is loaded, but asks only that `str(fact)`
is not blank and that `action` is true: a list passes both, and the engine raises
`TypeError` at every transaction that reaches it (`OnlyUnhashableRaises` says that
nothing else makes it raise); a list for a rule's `id` raises
already in the validator. `can_execute` also answers no when the token has
expired since the request was authenticated; the log then says
`caller_not_permitted`, and a retry with a fresh token executes the decision,
although `docs/PRODUCTION_DEPLOYMENT.md:233-236` calls a rejection final. A
simulation that raises half way loses the log of the agent at work:
`write_log` is the last line of its `run`. The gate never reads the audit trail, so
a live decision of the demo, which is signed and kept nowhere, and a decision of a
run that was killed after `write_log`, can be executed without being in the trail.

Bounds are in guards and are named in the CONSTANTS of their modules
(`MaxTime`, `MaxTokens`, `MaxRequests`, `MaxAppends`, `MaxKeys`, `MaxRuns`,
`MaxSimulations`; the pipeline runs are as many as `RunBatches` has). Deadlock is
checked except in the policy, pipeline and simulation runs, whose computations end.

Fairness, always weak and only of steps that wait for nothing outside. `FairSpec`:
each thread's `Step` in the gate (the operating system schedules threads, no thread
waits for another, a webhook call returns or raises). `LiveSpec`: each thread's
`GetModel`, which is what is done under the lock. `Simulation!Spec`: `Step`, since a
run is one process of straight-line code and a call of the language model returns or
raises. Nothing is assumed of clients, clocks, operators, waiting threads or kills.

## 4. What is proved

All for every value of the constants, from the assumptions named in the modules.

*Caller authentication* (`DecisionExecutorProofs`). `WithdrawalTakesEffect` is not
inductive: it says nothing of a token issued just before a registration. The
invariant `AuthInv` adds that a token was issued no later than now, expires exactly
one TTL after, and carries its caller's present entry if it was issued strictly
after that entry was written. Each action keeps this, and expiry does the rest.

*The gate* (`DecisionExecutorProofs`). For any number of threads and every fault,
failing and torn appends included.
The invariant `IInv` adds to the type invariant: a thread past screening holds a
valid signature and a permitted caller; a thread past the check holds a known
decision; a thread at the append holds the receipt of an action the ledger has
for its record and caller, which no log entry and no other thread has; each
entry has a receipt within the ledger; and the log only
grows, so what a thread saw settled stays so. From it follow `TypeCorrect`,
`OnlyAuthorized`, `OneAction`, `SettledStays` and `ExecutedIsBacked`. That a
record has one action rests on `ExecutorAssumption`: the authority signs one body
per id.

*One worker* (`DecisionExecutorProofs`). Under the assumption `SingleFaultless`
(one thread, no kill, no lost response, no append lost without a trace; an append may
be torn), `SequentialAtMostOnce`, `SequentialLogsAll` and the refinement of
`ExecuteOnce`. The invariant says that every action in the ledger is logged EXECUTED,
or is the one whose receipt the thread holds at the append, or is the last one and
the log cannot be read, in which case no thread gets past the check again: exactly what the
race and the crash break. The refinement maps `performed` to the ledger and `executed`
to the records logged EXECUTED; every other step stutters.

*Key files* (`ServerStartProofs`). For any number of processes and kills at
every step, between the opening and the filling of a file too, given that one
process creates the pair and that there was no private-key-less checkout. The
invariant says that at most one process is up while a file is missing, that a file
is torn only while its writer is at it or after that writer was killed, when its key
is in `cut`, and that a key in memory is the key of every file that is whole. From it
follow `OnlyCutKeysFail` and `SignersAgree`; and `RecordsKeepVerifying`, since the
public key is written only where there is none, or by the process that just emptied
the file for it, and an empty file verifies nothing. Without kills `cut` stays empty: `UnkilledRecordsVerify` is the promise of
`CLAIMS.md` under the assumptions it needs. A process that goes on to its token secret
takes no step the key files can tell from a stutter, so `OnlyCutKeysFailStarted`,
`StartedKeepVerifying` and `StartedSignersAgree` say the same of `StartSpec`, the
specification that is run; `StartTypes` needs no assumption on who creates files.

*Token secret* (`ServerStartProofs`). `TokensVerify` for any number of processes and
kills. Until the secret file is filled its creator is alone and no token exists; from
then on every process that is up holds the bytes of the file, and every token was made
with them, be they empty. (That an empty secret can be guessed is not a question of
this model.)

*Audit trail* (`LiveDemoProofs`). For every set of runs and batches and kills at any
flush, with one writer; two writers break it, as said in section 3. `NoDuplicates` and
`DamageIsBounded` say nothing of the buffer, so they are not inductive. `TrailInv`
says of the trail, and of the trail followed by what its writer has still to flush,
how pieces follow each other (`LineShape`: a tail has its own head before it, a
newline a tail; only the head that ends the file may lack its tail), that no two
heads are of one id, that at most one head does not start a line, and that a batch
which returned has its texts in the file.
The step that matters is the start of an append: a trail that can be read has every
text whole and on a line of its own, the last newline perhaps missing, so the ids that
are known are exactly those of the file, and `Fresh` returns each new id of the batch
once. If that newline is missing the first new text is glued, and since the line can
no longer be read, no other append begins. From it follow `NeverTwice`,
`DamageBounded` and, with `StoredIds` the ids of the texts that are whole,
`TrailRefines`: a flush extends the abstract trail or stutters. What readers can get
to is less: `UnkilledIsReadable` has the hypothesis that makes it all of the trail,
that no run is killed. By `TrailIsUndisturbed` no step of the server can be told from a
stutter of the trail, so the three hold of `LiveSpec`, the specification that is run:
`LiveTrail`.

*Runs and the live demo* (`LiveDemoProofs`). `OneModel` for any number of threads,
writers and restarts: the thread at the load holds the lock, only one thread does, and
whatever a thread was given is what is cached. `Backed` for any number of writers: a
run that stands at the build was told that its batch is in the trail. `InOrder` for
one writer: the run at work is the last that began, and no file is of a run later than
its step allows. `LiveTypes` for any number of writers and threads.

*The walk of a run* (`PipelineProofs`). For every finite set of transactions, every
order and score, any registry and thresholds. `PipelineInv` adds to the types that the
totals `main` keeps in two variables are the sum and the number of what went through
(`TotalsAreSums`, over places of the log and over transactions, as both are needed),
that each entry was decided by the policy, and that the violations the live demo finds
are among those of the walk. What depends on the policy has the weakest hypothesis as
an assumption of its own:

| Theorem | Property | Asks of the policy |
|---|---|---|
| `PipelineTypes`, `OwnHistory` | `TypeOK`, `OwnHistoryFits` | nothing |
| `MandateKept` | `WithinMandate` | a violated mandate is a BLOCK |
| `LiveAgrees` | `LiveDecisionAgrees` | more violations never unblock |
| `CountsAddUp` | `BlocksAreAttributed` | no BLOCK without a detector block or a violation |
| `BlockAlwaysWins` | `BlockWins` | the combination `combine_decision` describes |

`CombiningSuffices` shows that the last implies the three before it, and
`ShippedPolicyCombines` (in `PolicyRulesProofs`) proves it of the shipped document,
evaluated rule by rule on the signals `decide` makes. `ShippedRunIsSafe` puts the two
together: a run that asks that document has all four properties. So the theorems say
that the policy that ships is safe, and which change to it would cost which property.

*Policy layer* (`PolicyRulesProofs`, `PolicyEngineProofs`). For every document, every
bag of signals and every depth of conditions. `ConditionInduction` is the induction
over `Nesting`: a set that holds a condition whenever it holds its children holds them
all. `ConditionRecursion` shows by it that a function on conditions exists whose value
follows from the values of the children, so that `validate_condition`,
`evaluate_condition` and `Satisfied` satisfy their own equations (`ValidIs`,
`VerdictIs`, `SatisfiedIs`). The lemma everything rests on is `Truthful`: of a
condition that the validator accepts, the engine, which looks at the keys in another
order and stops at the first child that decides, finds exactly what the condition says
if it answers, and raises only at a list or an object in the place of a fact. With it the invariant `EngineInv` of the loop: the document is
validated unless it was refused, `matched_path` names the rules checked so far, in order,
and of these the last alone may have matched. From it follow

- `FirstMatch`, `OnlyListsRaise` and `OnlyRulesApprove` (the runs' `FirstMatchWins`,
  `OnlyUnhashableRaises` and `FailsClosed`), and `StringsNeverRaise`: where facts and
  actions are strings, as in the document that ships, nothing that validates raises;
- `FewerSignals` (`FewerSignalsMatchLater`), with `SatisfiedMono`: what a condition
  says is monotone in the signals, since no operator is satisfied by an absent one and
  conditions have no negation;
- `LoopInOnePiece`: the loop returns `evaluate_policy` of document and signals, the
  operator the pipeline is given, so both halves speak of one policy layer;
- `OnlyNumbersAreOrdered` (`OrderIsForNumbers`), from the arms of `evaluate`.

`OneFormIsEnough` belongs to the finding of `PolicyAlwaysFalse`: no document with a false
`always` is loaded if every condition has one form, so it takes an object with two of
the keys `fact`, `all`, `any`, `always` to break that promise. `ShippedPolicyValidates`:
the shipped document is one the loader accepts.

*Simulation* (`SimulationProofs`). For every grant, demand and number of runs, with
kills and failures anywhere. `TokenInv` is why no limit is hit: what an agent has done
and has pending is within the smaller of grant and demand, and the feedback loop,
whose operations are not cut beforehand, looks at its limit before each. `TraceInv`
walks along the plan: the agents before the one at work have token and log of this run
and a log that covers what they made, those after it have made nothing. `ReportInv`
and `CallInv` say how old report and call log may be. From them `WithinTokens`,
`LogsAreTrue`, `Traceable`, `CallsAreLogged` and `ReportAgrees`.

*Lemmas* (`FoldLemmas`). The prover cannot take an induction theorem whose predicate
is an operator, so induction is stated over sets (`NatSetInduction`,
`SubsetInduction`): the set of numbers, or of subsets, for which the claim holds is all
of them; `ConditionInduction` has the same form. The function behind a fold is shown to
exist and to be unique, which gives the recursion equations of `SumFunctionOnSet`
(`SumAdd`, `SumRemove`, `SumMono`) and, in `LiveDemoProofs`, of `Fresh`.

Only model-checked: the liveness properties `RequestsEnd`, `LockIsReleased` and
`RunsEnd`, because fairness and ENABLED are not within the prover's reach. Every other
property of a passing run is stated by a theorem.

## 5. Abstractions

Signatures, HMACs, scores and money are data that the properties tell apart, no
more: a signature is valid, invalid or malformed; a score is a percentage; an amount
a whole number of dollars, so the rounding of a derived limit to cents does not
occur. Numbers in a policy document and its signals are whole ones too: the NaN that
Python's `json` also reads, which is in no order with any number, is not among them,
nor are infinities and fractions. What stands for a fact, an action or an id is a
string or something `Unhashable`, a list or an object that is not empty: a number or
true in their place, which Python looks up without complaint, is like a string that
nothing else is equal to. A regular expression is a literal. That a
condition is an object, and that `all` and `any` hold a list of them, is taken as
given: `_validate_condition` refuses anything else wherever the engine will look. A
file that one action reads as a whole is read at once. The model keeps one signer;
AUTHORITY and REVIEWER do not interact. Requests that the server answers 400 or 401
change nothing and are left out, and whether a live input passes `_validate_inputs`
is a free choice. `build_demo_data` is one step that may be killed: it reads a log
and writes files that nobody else writes. Training is the choice of a test set; a
later training is a model with a later number. The private data of a request in the
demo (transaction, mandate, reasons) is in `Pipeline!evaluate_transaction`, its
steps on shared state in `LiveDemo`.

Not modelled, and why:

- training, scores and metrics of the detector, and `check_results.py`, which trains
  the same model from the same data and seed: numerical code without states;
- `data_generator.py` and the feature values of the agents' transactions: random
  draws from fixed ranges (`Pipeline` takes the transactions as a constant);
- `inject_realistic_confusion`, which exchanges such features;
- `build_walkthrough.py` and `run_examples.py`: they format and print;
- the front end: it shows `dashboard.json` and posts what the user typed.

## 6. Plan

Done: the gate with its authentication, abstract specification, torn and failing
appends; keys and server start; runs, trail and live demo with the abstract trail;
policy layer; mandate, pipeline walk and live decision; simulation with probes, call
log and report. Every safety property that a passing run checks is a theorem, both
refinements too, and the walk of a run is proved together with the document that ships.

Left: a gate that shares the trail with the runs, should the code ever link the two.
