----------------------------- MODULE Simulation -----------------------------
(***************************************************************************)
(* The bounded fraud agents (generate/src/fraud_agents.py) as the two      *)
(* entry points run them one after the other: main of run_simulation.py,   *)
(* which writes the transactions the pipeline reads, and main of           *)
(* probe_agents.py, which only tests the trained detector.                 *)
(*                                                                         *)
(* An item is what one operation works on: an identity, a conversation, a  *)
(* probe, a variant.  Items that come from the language model may be any   *)
(* number up to what was asked for, and may be malformed.  Every call of   *)
(* the model is appended to a call log (generate/src/llm_client.py) by     *)
(* rewriting the file as a whole.                                          *)
(*                                                                         *)
(* write_text opens and fills a file: a kill in between leaves a part.  A  *)
(* token, log, report or data file of which there is a part is, like one   *)
(* that is missing, a file nobody can read.                                *)
(***************************************************************************)
EXTENDS Naturals, SequencesExt, FiniteSetsExt

CONSTANTS
    Granted,    \* max_operations of each agent, by agent id
    Demand,     \* how many items its run method asks for, by agent id
    BatchSize,  \* items asked of the language model in one call
    Rounds,     \* how many blocked transactions the feedback loop is given at most
    Failures,   \* whether calls may raise, items be malformed, runs be killed
    MaxRuns,        \* bound: the number of simulation and probe runs
    MaxSimulations  \* bound: a simulation is one of the first so many runs

\* Where the items come from and how many transactions, or test results in the
\* case of agents 3 and 7, one may give; 4 and 8 stand for the 4 to 8 of an
\* identity.
FakeIdentityAgent      == [id |-> "agent1", source |-> "llm",   yields |-> {4, 8}]
SocialEngineerAgent    == [id |-> "agent2", source |-> "llm",   yields |-> {0, 1}]
LimitProberAgent       == [id |-> "agent3", source |-> "local", yields |-> {1}]
KYCForgerAgent         == [id |-> "agent4", source |-> "llm",   yields |-> {1}]
PatternReplicatorAgent == [id |-> "agent5", source |-> "local", yields |-> {1}]
InjectionGeneratorAgent == [id |-> "agent6", source |-> "local", yields |-> {1}]
FeedbackLoopAgent      == [id |-> "agent7", source |-> "feedback", yields |-> {1}]
BustOutAgent           == [id |-> "agent8", source |-> "local", yields |-> {1}]
VendorBECAgent         == [id |-> "agent9", source |-> "llm",   yields |-> {0, 1}]

\* The order in which run_simulation.main runs its agents.
SimulationPlan ==
    <<FakeIdentityAgent, SocialEngineerAgent, KYCForgerAgent, PatternReplicatorAgent,
      InjectionGeneratorAgent, BustOutAgent, VendorBECAgent>>

\* The order in which probe_agents.main runs its two.
ProbePlan == <<LimitProberAgent, FeedbackLoopAgent>>

AgentIds == {a.id : a \in Range(SimulationPlan) \cup Range(ProbePlan)}

ASSUME SimulationAssumption ==
    /\ Granted \in [AgentIds -> Nat]
    /\ Demand \in [AgentIds -> Nat]
    /\ BatchSize \in Nat \ {0}
    /\ Rounds \in Nat
    /\ Failures \in BOOLEAN
    /\ MaxRuns \in Nat
    /\ MaxSimulations \in Nat

VARIABLES
    run,          \* number of the run that began last; its tokens carry it
    plan,         \* the agents of this run
    agent,        \* index in plan of the agent at work
    stage,        \* where the run stands
    pending,      \* items the agent has still to work on
    rounds,       \* blocked transactions the feedback loop has still to take up
    executed,     \* operations the agent has counted against its token
    events,       \* length of its log in memory
    made,         \* transactions, or test results, of each agent of this run
    calls,        \* _session_calls: the calls that this process was billed for
    token_files,  \* <agent>_auth_token.json: the run it was issued in, 0 if none
    log_files,    \* <agent>_execution_log.json
    good_file,    \* good_transactions.json: the run that wrote it, 0 if none
    fraud_file,   \* fraud_transactions.json
    report_file,  \* probe_report.json
    call_log,     \* api_call_log.json: its records, and whether it is "torn"
    finished,     \* history: the simulation run that finished last
    limit_hit     \* history: TokenLimitExceeded was raised

dataVars == <<good_file, fraud_file, report_file>>
diskVars == <<token_files, log_files, dataVars, call_log>>
agentVars == <<pending, rounds, executed, events>>
procVars == <<agentVars, made, calls>>
histVars == <<finished, limit_hit>>
vars == <<run, plan, agent, stage, procVars, diskVars, histVars>>

NoLog == [run |-> 0, executed |-> 0, events |-> 0]
NoTransactions == [a \in AgentIds |-> 0]
NoResults == [run |-> 0, made |-> NoTransactions]

TypeOK ==
    /\ run \in 0..MaxRuns
    /\ plan \in {<<>>, SimulationPlan, ProbePlan}
    /\ agent \in 0..Len(plan)
    /\ stage \in {"idle", "reset", "save_legitimate", "issue", "collect", "answered",
                  "act", "save_good", "save_fraud", "save_report"}
    /\ pending \in Nat /\ rounds \in Nat
    /\ executed \in Nat /\ events \in Nat /\ calls \in Nat
    /\ made \in [AgentIds -> Nat]
    /\ token_files \in [AgentIds -> 0..MaxRuns]
    /\ log_files \in [AgentIds -> [run : 0..MaxRuns, executed : Nat, events : Nat]]
    /\ good_file \in 0..MaxRuns
    /\ fraud_file \in [run : 0..MaxRuns, made : [AgentIds -> Nat]]
    /\ report_file \in [run : 0..MaxRuns, made : [AgentIds -> Nat]]
    /\ call_log \in [records : Nat, state : {"whole", "torn"}]
    /\ finished \in 0..MaxRuns
    /\ limit_hit \in BOOLEAN

Init ==
    /\ run = 0 /\ plan = <<>> /\ agent = 0 /\ stage = "idle"
    /\ pending = 0 /\ rounds = 0 /\ executed = 0 /\ events = 0 /\ calls = 0
    /\ made = NoTransactions
    /\ token_files = [a \in AgentIds |-> 0]
    /\ log_files = [a \in AgentIds |-> NoLog]
    /\ good_file = 0 /\ fraud_file = NoResults /\ report_file = NoResults
    /\ call_log = [records |-> 0, state |-> "whole"]
    /\ finished = 0 /\ limit_hit = FALSE

-----------------------------------------------------------------------------
Agent == plan[agent]
MaxOperations == Granted[Agent.id]
Wanted == Min({Demand[Agent.id], MaxOperations})

Begin(order, label) ==
    /\ stage = "idle"
    /\ run < MaxRuns
    /\ run' = run + 1
    /\ plan' = order /\ agent' = 1 /\ stage' = label
    /\ made' = NoTransactions
    /\ calls' = 0
    /\ UNCHANGED <<agentVars, diskVars, histVars>>

\* main of run_simulation.
BeginSimulation ==
    /\ run < MaxSimulations
    /\ Begin(SimulationPlan, "reset")

\* main of probe_agents: it needs both data files.
BeginProbe ==
    /\ good_file # 0 /\ fraud_file.run # 0
    /\ Begin(ProbePlan, "issue")

\* Mutant: the calls of the runs before are left in the log.
ResetLog_Kept ==
    /\ stage = "reset"
    /\ stage' = "save_legitimate"
    /\ UNCHANGED <<run, plan, agent, procVars, diskVars, histVars>>

\* reset_log: whatever the file holds is replaced by an empty list.
ResetLog ==
    /\ stage = "reset"
    /\ call_log' = [records |-> 0, state |-> "whole"]
    /\ stage' = "save_legitimate"
    /\ UNCHANGED <<run, plan, agent, procVars, token_files, log_files, dataVars, histVars>>

SaveLegitimate ==
    /\ stage = "save_legitimate"
    /\ good_file' = run
    /\ stage' = "issue"
    /\ UNCHANGED <<run, plan, agent, procVars, token_files, log_files, fraud_file,
                   report_file, call_log, histVars>>

\* build_blocked_sample: the detector may have blocked any number.
BlockedSample == 0..Rounds

\* The first lines of run: the items that are there without a call.
StartRun ==
    /\ executed' = 0 /\ events' = 0
    /\ pending' = IF Agent.source = "local" THEN Wanted ELSE 0
    /\ rounds' \in IF Agent.source = "feedback" THEN BlockedSample ELSE {0}
    /\ stage' = IF Agent.source = "llm" /\ Wanted > 0 THEN "collect" ELSE "act"

\* Mutant: the token is signed and the old file left in place.
IssueToken_NotWritten ==
    /\ stage = "issue"
    /\ StartRun
    /\ UNCHANGED <<run, plan, agent, made, calls, diskVars, histVars>>

\* BoundedAgent.__init__ and issue_agent_token.
IssueToken ==
    /\ stage = "issue"
    /\ token_files' = [token_files EXCEPT ![Agent.id] = run]
    /\ StartRun
    /\ UNCHANGED <<run, plan, agent, made, calls, log_files, dataVars, call_log, histVars>>

\* call_json up to the answer of the model, which is billed.  _batched calls
\* while items are wanting; FeedbackLoopAgent calls for each blocked transaction,
\* also when its operations are used up.
CallModel ==
    /\ \/ stage = "collect" /\ rounds' = rounds
       \/ stage = "act" /\ pending = 0 /\ rounds > 0 /\ rounds' = rounds - 1
    /\ calls' = calls + 1
    /\ stage' = "answered"
    /\ UNCHANGED <<run, plan, agent, pending, executed, events, made, diskVars, histVars>>

\* Mutant: neither the batch nor the total is cut to what was asked for.
TakeItems_Uncut ==
    \E n \in 0..BatchSize :
        /\ pending' = pending + n
        /\ stage' = IF Agent.source = "feedback" \/ n = 0 \/ pending + n >= Wanted
                      THEN "act" ELSE "collect"

\* The feedback loop takes the variants as they come; _batched collects at most
\* what was asked for, and stops when it has it or when a batch is empty.
TakeItems ==
    \E n \in 0..BatchSize :
        IF Agent.source = "feedback"
          THEN pending' = n /\ stage' = "act"
          ELSE /\ n <= Wanted - pending
               /\ pending' = pending + n
               /\ stage' = IF n = 0 \/ pending + n = Wanted THEN "act" ELSE "collect"

\* _append_to_log and the end of call_json.
LogCall ==
    /\ stage = "answered"
    /\ call_log.state = "whole"
    /\ call_log' = [call_log EXCEPT !.records = @ + 1]
    /\ TakeItems
    /\ UNCHANGED <<run, plan, agent, rounds, executed, events, made, calls, token_files,
                   log_files, dataVars, histVars>>

\* The inner break of FeedbackLoopAgent.run.
DropVariants ==
    /\ stage = "act"
    /\ pending > 0
    /\ Agent.source = "feedback"
    /\ executed >= MaxOperations
    /\ pending' = 0
    /\ UNCHANGED <<run, plan, agent, stage, rounds, executed, events, made, calls, diskVars,
                   histVars>>

\* An exception or a kill ends the process: what was in memory is gone.
Abort ==
    /\ stage' = "idle"
    /\ plan' = <<>> /\ agent' = 0
    /\ pending' = 0 /\ rounds' = 0 /\ executed' = 0 /\ events' = 0 /\ calls' = 0
    /\ made' = NoTransactions
    /\ UNCHANGED <<run, finished>>

\* Mutant: the log is read again until it can be read.
LogRaises_Retry ==
    /\ stage = "answered"
    /\ call_log.state = "torn"
    /\ UNCHANGED vars

\* json.loads raises at a torn log: the answer that was paid for is lost.
LogRaises ==
    /\ stage = "answered"
    /\ call_log.state = "torn"
    /\ Abort
    /\ UNCHANGED <<diskVars, limit_hit>>

\* Mutant: an operation that gives no transaction is not recorded.
Work_Silent ==
    /\ executed' = executed + 1
    /\ \E n \in Agent.yields :
          /\ made' = [made EXCEPT ![Agent.id] = @ + n]
          /\ events' = IF n = 0 /\ Agent.source = "llm" THEN events ELSE events + 1
    /\ pending' = pending - 1
    /\ UNCHANGED <<run, plan, agent, stage, rounds, calls, finished, limit_hit>>

\* One turn of the loop in run: the operation is counted, done and recorded.
Work ==
    /\ executed' = executed + 1
    /\ events' = events + 1
    /\ \E n \in Agent.yields : made' = [made EXCEPT ![Agent.id] = @ + n]
    /\ pending' = pending - 1
    /\ UNCHANGED <<run, plan, agent, stage, rounds, calls, finished, limit_hit>>

\* _check_and_count raises TokenLimitExceeded or lets the operation through; the
\* feedback loop has looked at the limit itself before.
Operate ==
    /\ stage = "act"
    /\ pending > 0
    /\ Agent.source = "feedback" => executed < MaxOperations
    /\ IF executed >= MaxOperations
         THEN limit_hit' = TRUE /\ Abort
         ELSE Work
    /\ UNCHANGED diskVars

\* Mutant: a malformed variant is reported as tested.
SkipVariant_Reported ==
    /\ Failures
    /\ stage = "act"
    /\ pending > 0
    /\ Agent.source = "feedback"
    /\ executed < MaxOperations
    /\ executed' = executed + 1
    /\ pending' = pending - 1
    /\ made' = [made EXCEPT ![Agent.id] = @ + 1]
    /\ UNCHANGED <<run, plan, agent, stage, rounds, events, calls, diskVars, histVars>>

\* A malformed variant is counted and skipped before _record.
SkipVariant ==
    /\ Failures
    /\ stage = "act"
    /\ pending > 0
    /\ Agent.source = "feedback"
    /\ executed < MaxOperations
    /\ executed' = executed + 1
    /\ pending' = pending - 1
    /\ UNCHANGED <<run, plan, agent, stage, rounds, events, made, calls, diskVars, histVars>>

AfterAgents == IF plan = SimulationPlan THEN "save_good" ELSE "save_report"

\* Mutant: the last agent of the plan is looked for one place too far.
FinishAgent_OffByOne ==
    /\ stage = "act"
    /\ pending = 0 /\ rounds = 0
    /\ log_files' = [log_files EXCEPT ![Agent.id] =
                        [run |-> run, executed |-> executed, events |-> events]]
    /\ agent' = agent + 1
    /\ stage' = IF agent <= Len(plan) THEN "issue" ELSE AfterAgents
    /\ UNCHANGED <<run, plan, procVars, token_files, dataVars, call_log, histVars>>

\* write_log, the last line of run, and on to the next agent.
FinishAgent ==
    /\ stage = "act"
    /\ pending = 0 /\ rounds = 0
    /\ log_files' = [log_files EXCEPT ![Agent.id] =
                        [run |-> run, executed |-> executed, events |-> events]]
    /\ agent' = IF agent < Len(plan) THEN agent + 1 ELSE agent
    /\ stage' = IF agent < Len(plan) THEN "issue" ELSE AfterAgents
    /\ UNCHANGED <<run, plan, procVars, token_files, dataVars, call_log, histVars>>

\* The legitimate transactions are written again, with the confusion injected.
SaveGood ==
    /\ stage = "save_good"
    /\ good_file' = run
    /\ stage' = "save_fraud"
    /\ UNCHANGED <<run, plan, agent, procVars, token_files, log_files, fraud_file,
                   report_file, call_log, histVars>>

SaveFraud ==
    /\ stage = "save_fraud"
    /\ fraud_file' = [run |-> run, made |-> made]
    /\ finished' = run
    /\ stage' = "idle"
    /\ UNCHANGED <<run, plan, agent, procVars, token_files, log_files, good_file,
                   report_file, call_log, limit_hit>>

\* The end of probe_agents: the results of both agents, signed, in one file.
SaveReport ==
    /\ stage = "save_report"
    /\ report_file' = [run |-> run, made |-> made]
    /\ stage' = "idle"
    /\ UNCHANGED <<run, plan, agent, procVars, token_files, log_files, good_file, fraud_file,
                   call_log, histVars>>

\* A call of the model raises, or its answer is not JSON; an item makes float or
\* get raise after it was counted; or the process is killed.
Fail ==
    /\ Failures
    /\ stage # "idle"
    /\ Abort
    /\ UNCHANGED <<diskVars, limit_hit>>

\* The process is killed between opening and filling the file it writes.
KilledWriting ==
    /\ Failures
    /\ \/ /\ stage \in {"reset", "answered"}
          /\ call_log' = [records |-> 0, state |-> "torn"]
          /\ UNCHANGED <<token_files, log_files, dataVars>>
       \/ /\ stage \in {"save_legitimate", "save_good"}
          /\ good_file' = 0
          /\ UNCHANGED <<token_files, log_files, fraud_file, report_file, call_log>>
       \/ /\ stage = "issue"
          /\ token_files' = [token_files EXCEPT ![Agent.id] = 0]
          /\ UNCHANGED <<log_files, dataVars, call_log>>
       \/ /\ stage = "act" /\ pending = 0 /\ rounds = 0
          /\ log_files' = [log_files EXCEPT ![Agent.id] = NoLog]
          /\ UNCHANGED <<token_files, dataVars, call_log>>
       \/ /\ stage = "save_fraud"
          /\ fraud_file' = NoResults
          /\ UNCHANGED <<token_files, log_files, good_file, report_file, call_log>>
       \/ /\ stage = "save_report"
          /\ report_file' = NoResults
          /\ UNCHANGED <<token_files, log_files, good_file, fraud_file, call_log>>
    /\ Abort
    /\ UNCHANGED limit_hit

Step ==
    \/ ResetLog \/ SaveLegitimate
    \/ IssueToken \/ CallModel \/ LogCall \/ LogRaises
    \/ DropVariants \/ Operate \/ SkipVariant \/ FinishAgent
    \/ SaveGood \/ SaveFraud \/ SaveReport

Next == BeginSimulation \/ BeginProbe \/ Step \/ Fail \/ KilledWriting

\* A run is straight-line code; the model's client answers or times out.
Spec == Init /\ [][Next]_vars /\ WF_vars(Step)

-----------------------------------------------------------------------------
\* No agent ever runs into its own limit, whatever the language model returns:
\* every run method asks for no more than its token grants (Wanted, and the
\* cuts to [:n] in _batched and in each _generate method).
AgentsStayWithinTokens == ~limit_hit

\* A log on disk tells the truth about its token: the operations counted are
\* within the grant, and each of them is an event of the log, malformed
\* variants of the feedback loop apart (_check_and_count against _record).
LogsTellTheTruth ==
    \A a \in AgentIds :
        LET entry == log_files[a] IN
        /\ entry.executed <= Granted[a]
        /\ entry.events <= entry.executed
        /\ a # FeedbackLoopAgent.id => entry.events = entry.executed

\* "Every fraudulent transaction is traceable to a signed token that bounded how
\* many its agent could make": when the run that finished last is the last that
\* began, the data files are of one run, and every transaction is of an agent
\* whose token and log on disk are of that run too and account for it.
FinishedRunIsTraceable ==
    stage = "idle" /\ finished = run /\ run # 0 =>
        /\ good_file = run /\ fraud_file.run = run
        /\ \A a \in Range(SimulationPlan) :
              /\ token_files[a.id] = run
              /\ log_files[a.id].run = run
              /\ fraud_file.made[a.id] <= log_files[a.id].executed * Max(a.yields)

\* "Append a real record" for each call, "a fresh call log for a new pipeline
\* run": while a simulation runs, and when it has finished, the log holds every
\* call that was billed since it began and no call of a run before, whatever
\* that run left, the call just answered apart.  It holds because each record
\* is appended before the answer is looked at, and because a log torn by a kill
\* lasts until the next reset only.
CallLogIsComplete ==
    plan = SimulationPlan /\ stage # "reset" =>
        /\ call_log.state = "whole"
        /\ calls = call_log.records + (IF stage = "answered" THEN 1 ELSE 0)

\* The signed report of the probes and the logs of their agents are files written
\* at different moments: where they are of one run, the report has one result
\* for each event, malformed variants in neither.
ReportMatchesLogs ==
    \A a \in Range(ProbePlan) :
        report_file.run # 0 /\ log_files[a.id].run = report_file.run =>
            report_file.made[a.id] = log_files[a.id].events

\* Every run ends, well or with an exception, whatever the model answers: an
\* empty batch ends _batched, and a log that nobody can read raises.
RunsEnd == stage # "idle" ~> stage = "idle"
=============================================================================
