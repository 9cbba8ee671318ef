-------------------------- MODULE SimulationProofs --------------------------
(***************************************************************************)
(* Proofs about Simulation, for any numbers of runs, grants and demands,   *)
(* with kills and failures at any step: what agents may do, and what their *)
(* logs, the call log and the report say of it afterwards.                 *)
(***************************************************************************)
EXTENDS Simulation, TLAPS

Plans == {SimulationPlan, ProbePlan}

\* An element that no other exceeds is the maximum.
LEMMA MaxIs ==
    ASSUME NEW S \in SUBSET Nat, NEW m \in S, \A n \in S : n <= m
    PROVE  Max(S) = m
<1>1. \A n \in S : (\A k \in S : n >= k) => n = m
  OBVIOUS
<1>2. \A k \in S : m >= k
  OBVIOUS
<1> QED BY <1>1, <1>2 DEF Max

\* The lesser of two naturals is at most either.
LEMMA MinOfTwo ==
    ASSUME NEW m \in Nat, NEW n \in Nat
    PROVE  Min({m, n}) \in Nat /\ Min({m, n}) <= m /\ Min({m, n}) <= n
<1>1. \E x \in {m, n} : \A y \in {m, n} : x <= y
  OBVIOUS
<1> QED BY <1>1 DEF Min

\* Seven agents simulate and two probe.
LEMMA PlanLengths ==
    /\ Len(SimulationPlan) = 7 /\ Len(ProbePlan) = 2 /\ Len(<<>>) = 0
    /\ DOMAIN SimulationPlan = 1..7 /\ DOMAIN ProbePlan = 1..2
BY DEF SimulationPlan, ProbePlan

\* The two plans can be told apart, and from no plan.
LEMMA PlansDiffer ==
    /\ SimulationPlan # ProbePlan
    /\ <<>> \notin Plans
BY PlanLengths DEF Plans

\* The agents of the simulation have ids of their own and no feedback loop.
LEMMA SimulationAgents ==
    ASSUME NEW i \in 1..7
    PROVE  LET a == SimulationPlan[i] IN
           /\ a.id \in AgentIds \ {"agent3", "agent7"}
           /\ \A j \in 1..7 : SimulationPlan[j].id = a.id => j = i
           /\ a.source \in {"llm", "local"}
           /\ a.yields \in {{4, 8}, {0, 1}, {1}}
<1>1. SimulationPlan[i] \in Range(SimulationPlan)
  BY PlanLengths DEF Range
<1>2. SimulationPlan[i].id \in AgentIds
  BY <1>1 DEF AgentIds
<1> QED BY <1>2 DEF SimulationPlan, FakeIdentityAgent, SocialEngineerAgent,
     KYCForgerAgent, PatternReplicatorAgent, InjectionGeneratorAgent, BustOutAgent,
     VendorBECAgent

\* The two agents that probe.
LEMMA ProbeAgents ==
    ASSUME NEW i \in 1..2
    PROVE  LET a == ProbePlan[i] IN
           /\ a.id \in AgentIds
           /\ a.id = (IF i = 1 THEN "agent3" ELSE "agent7")
           /\ a.source = (IF i = 1 THEN "local" ELSE "feedback")
           /\ a.yields = {1}
<1>1. ProbePlan[i] \in Range(ProbePlan)
  BY PlanLengths DEF Range
<1>2. ProbePlan[i].id \in AgentIds
  BY <1>1 DEF AgentIds
<1> QED BY <1>2 DEF ProbePlan, LimitProberAgent, FeedbackLoopAgent

\* What holds of every agent of either plan.
LEMMA PlanAgents ==
    ASSUME NEW p \in Plans, NEW i \in 1..Len(p)
    PROVE  /\ p[i].id \in AgentIds
           /\ \A j \in 1..Len(p) : p[j].id = p[i].id => j = i
           /\ p[i].source \in {"llm", "local", "feedback"}
           /\ p[i].source = "feedback" <=> p[i].id = FeedbackLoopAgent.id
           /\ p[i].yields \subseteq Nat
           /\ Max(p[i].yields) \in Nat
           /\ \A n \in p[i].yields : n <= Max(p[i].yields)
<1>1. Max({4, 8}) = 8 /\ Max({0, 1}) = 1 /\ Max({1}) = 1
  BY MaxIs
<1>2. p[i].yields \in {{4, 8}, {0, 1}, {1}}
  BY SimulationAgents, ProbeAgents, PlanLengths DEF Plans
<1>3. /\ p[i].yields \subseteq Nat
      /\ Max(p[i].yields) \in Nat
      /\ \A n \in p[i].yields : n <= Max(p[i].yields)
  <2>1. CASE p[i].yields = {4, 8}
    BY <1>1, <2>1
  <2>2. CASE p[i].yields = {0, 1}
    BY <1>1, <2>2
  <2>3. CASE p[i].yields = {1}
    BY <1>1, <2>3
  <2> QED BY <1>2, <2>1, <2>2, <2>3
<1>4. CASE p = SimulationPlan
  BY <1>3, <1>4, SimulationAgents, PlanLengths DEF FeedbackLoopAgent
<1>5. CASE p = ProbePlan
  BY <1>3, <1>5, ProbeAgents, PlanLengths DEF FeedbackLoopAgent
<1> QED BY <1>4, <1>5 DEF Plans

-----------------------------------------------------------------------------
AtWork == stage \in {"collect", "answered", "act"}

\* Where a run stands, and that it began after the run that finished last.
ControlInv ==
    /\ stage # "idle" => plan \in Plans /\ agent \in 1..Len(plan) /\ finished < run
    /\ stage \in {"reset", "save_legitimate"} =>
          plan = SimulationPlan /\ agent = 1 /\ made = NoTransactions
    /\ stage \in {"save_good", "save_fraud"} => plan = SimulationPlan
    /\ stage = "save_report" => plan = ProbePlan
    /\ finished <= run

\* What an agent has done and what it has still to do are within what it wants,
\* but for the feedback loop, which looks at its limit before each operation.
TokenInv ==
    AtWork =>
        /\ events <= executed
        /\ executed <= MaxOperations
        /\ Agent.source # "feedback" =>
              /\ events = executed
              /\ executed + pending <= Wanted
              /\ rounds = 0
              /\ stage \in {"collect", "answered"} => executed = 0

\* The files of the agent in place i of this run account for what it made.
Accounted(i) ==
    LET id == plan[i].id IN
    /\ token_files[id] = run
    /\ log_files[id].run = run
    /\ made[id] <= log_files[id].executed * Max(plan[i].yields)
    /\ plan = ProbePlan => made[id] = log_files[id].events

\* The agents before the one at work are accounted for, those after it have made
\* nothing, and its own counts are in memory.
TraceInv ==
    /\ stage = "issue" \/ AtWork =>
          /\ \A i \in 1..(agent - 1) : Accounted(i)
          /\ \A i \in (agent + 1)..Len(plan) : made[plan[i].id] = 0
    /\ stage = "issue" => made[Agent.id] = 0
    /\ AtWork =>
          /\ token_files[Agent.id] = run
          /\ made[Agent.id] <= executed * Max(Agent.yields)
          /\ plan = ProbePlan => made[Agent.id] = events
    /\ stage \in {"save_good", "save_fraud", "save_report"} =>
          \A i \in 1..Len(plan) : Accounted(i)
    /\ stage = "save_fraud" => good_file = run

ReportInv ==
    /\ report_file.run <= run
    /\ stage # "idle" => report_file.run < run
    /\ ReportMatchesLogs

CallInv ==
    /\ CallLogIsComplete
    /\ stage = "reset" => calls = 0

-----------------------------------------------------------------------------
\* The agent at work is one of the plan, and its limits are naturals.
LEMMA AgentTypes ==
    ASSUME TypeOK, ControlInv, stage # "idle"
    PROVE  /\ Agent = plan[agent] /\ agent \in 1..Len(plan) /\ plan \in Plans
           /\ Len(plan) \in Nat
           /\ Agent.id \in AgentIds
           /\ MaxOperations = Granted[Agent.id]
           /\ MaxOperations \in Nat /\ Wanted \in Nat /\ Wanted <= MaxOperations
           /\ Agent.source \in {"llm", "local", "feedback"}
           /\ Agent.source = "feedback" <=> Agent.id = FeedbackLoopAgent.id
           /\ Agent.yields \subseteq Nat
           /\ Max(Agent.yields) \in Nat
           /\ \A n \in Agent.yields : n <= Max(Agent.yields)
<1>1. /\ Agent = plan[agent] /\ agent \in 1..Len(plan) /\ plan \in Plans
      /\ Len(plan) \in Nat
  BY PlanLengths DEF ControlInv, Agent, Plans
<1>2. Granted[Agent.id] \in Nat /\ Demand[Agent.id] \in Nat
  BY <1>1, PlanAgents, SimulationAssumption
<1> QED BY <1>1, <1>2, PlanAgents, MinOfTwo DEF MaxOperations, Wanted

BaseInv == TypeOK /\ ControlInv

\* What Init and a kill leave in the files has their types.
LEMMA EmptyFiles ==
    /\ 0 \in 0..MaxRuns
    /\ NoTransactions \in [AgentIds -> Nat]
    /\ NoResults \in [run : 0..MaxRuns, made : [AgentIds -> Nat]]
    /\ NoLog \in [run : 0..MaxRuns, executed : Nat, events : Nat]
<1>1. NoTransactions \in [AgentIds -> Nat] /\ 0 \in 0..MaxRuns
  BY SimulationAssumption DEF NoTransactions
<1> QED BY <1>1 DEF NoResults, NoLog

LEMMA BaseInit == Init => BaseInv
<1> SUFFICES ASSUME Init PROVE BaseInv
  OBVIOUS
<1>1. ControlInv
  BY SimulationAssumption DEF Init, ControlInv
<1>2. /\ token_files \in [AgentIds -> 0..MaxRuns]
      /\ log_files \in [AgentIds -> [run : 0..MaxRuns, executed : Nat, events : Nat]]
      /\ call_log \in [records : Nat, state : {"whole", "torn"}]
  BY EmptyFiles DEF Init
<1>3. /\ plan \in {<<>>, SimulationPlan, ProbePlan} /\ agent \in 0..Len(plan)
      /\ stage = "idle" /\ limit_hit \in BOOLEAN
  <2>1. plan = <<>> /\ agent = 0 /\ Len(plan) = 0 /\ stage = "idle" /\ limit_hit = FALSE
    BY PlanLengths DEF Init
  <2>2. agent \in 0..Len(plan)
    BY <2>1
  <2> QED BY <2>1, <2>2, Zenon
<1> QED BY <1>1, <1>2, <1>3, EmptyFiles DEF Init, BaseInv, TypeOK

\* The end of a process, whatever the files are then.
LEMMA AbortTypes ==
    ASSUME BaseInv, Abort
    PROVE  /\ ControlInv'
           /\ run' \in 0..MaxRuns /\ plan' = <<>> /\ agent' \in 0..Len(plan')
           /\ stage' = "idle"
           /\ pending' \in Nat /\ rounds' \in Nat
           /\ executed' \in Nat /\ events' \in Nat /\ calls' \in Nat
           /\ made' \in [AgentIds -> Nat]
           /\ finished' \in 0..MaxRuns
BY PlanLengths DEF BaseInv, TypeOK, ControlInv, Abort, NoTransactions

\* Every step keeps the types and the control state.
LEMMA BaseStep == BaseInv /\ [Next]_vars => BaseInv'
<1> SUFFICES ASSUME BaseInv, [Next]_vars PROVE BaseInv'
  OBVIOUS
<1> USE PlanLengths, PlansDiffer, SimulationAssumption
<1>t. TypeOK /\ ControlInv
  BY DEF BaseInv
<1>1. CASE BeginSimulation
  BY <1>1, <1>t DEF BaseInv, TypeOK, ControlInv, BeginSimulation, Begin, Plans, NoTransactions,
     agentVars, diskVars, dataVars, histVars
<1>2. CASE BeginProbe
  BY <1>2, <1>t DEF BaseInv, TypeOK, ControlInv, BeginProbe, Begin, Plans, NoTransactions,
     agentVars, diskVars, dataVars, histVars
<1>3. CASE ResetLog
  BY <1>3, <1>t DEF BaseInv, TypeOK, ControlInv, ResetLog, procVars, agentVars, dataVars, histVars
<1>4. CASE SaveLegitimate
  BY <1>4, <1>t DEF BaseInv, TypeOK, ControlInv, SaveLegitimate, procVars, agentVars, histVars
<1>5. CASE IssueToken
  <2>1. token_files' \in [AgentIds -> 0..MaxRuns]
    BY <1>5, <1>t DEF IssueToken, TypeOK
  <2>2. /\ executed' = 0 /\ events' = 0 /\ pending' \in Nat /\ rounds' \in Nat
        /\ stage' \in {"collect", "act"}
    BY <1>5, <1>t, AgentTypes DEF IssueToken, StartRun, BlockedSample
  <2> QED BY <1>5, <1>t, <2>1, <2>2 DEF BaseInv, TypeOK, ControlInv, IssueToken, dataVars, histVars
<1>6. CASE CallModel
  BY <1>6, <1>t DEF BaseInv, TypeOK, ControlInv, CallModel, diskVars, dataVars, histVars
<1>7. CASE LogCall
  <2>1. call_log' \in [records : Nat, state : {"whole", "torn"}]
    <3>1. call_log' = [records |-> call_log.records + 1, state |-> call_log.state]
      BY <1>7, <1>t DEF LogCall, TypeOK
    <3> QED BY <3>1, <1>t DEF TypeOK
  <2>2. pending' \in Nat /\ stage' \in {"collect", "act"}
    <3>1. pending \in Nat /\ BatchSize \in Nat
      BY <1>t, SimulationAssumption DEF TypeOK
    <3>2. PICK n \in 0..BatchSize : \/ pending' = n /\ stage' = "act"
                                    \/ /\ pending' = pending + n
                                       /\ stage' \in {"collect", "act"}
      BY <1>7 DEF LogCall, TakeItems
    <3> QED BY <3>1, <3>2
  <2> QED BY <1>7, <1>t, <2>1, <2>2 DEF BaseInv, TypeOK, ControlInv, LogCall, dataVars, histVars
<1>8. CASE LogRaises
  BY <1>8, <1>t, AbortTypes DEF BaseInv, TypeOK, LogRaises, diskVars, dataVars
<1>9. CASE DropVariants
  BY <1>9, <1>t DEF BaseInv, TypeOK, ControlInv, DropVariants, diskVars, dataVars, histVars
<1>10. CASE Operate
  <2>1. CASE executed >= MaxOperations
    BY <1>10, <2>1, <1>t, AbortTypes DEF BaseInv, TypeOK, Operate, diskVars, dataVars
  <2>2. CASE ~(executed >= MaxOperations)
    <3>1. Work /\ stage = "act" /\ pending > 0 /\ UNCHANGED diskVars
      BY <1>10, <2>2 DEF Operate
    <3>2. made' \in [AgentIds -> Nat]
      <4>1. PICK n \in Agent.yields : made' = [made EXCEPT ![Agent.id] = @ + n]
        BY <3>1 DEF Work
      <4>2. n \in Nat /\ Agent.id \in AgentIds
        BY <3>1, <1>t, AgentTypes
      <4>3. made \in [AgentIds -> Nat]
        BY <1>t DEF TypeOK
      <4> QED BY <4>1, <4>2, <4>3
    <3>3. executed' \in Nat /\ events' \in Nat /\ pending' \in Nat
      BY <3>1, <1>t DEF Work, TypeOK
    <3> QED BY <3>1, <3>2, <3>3, <1>t DEF BaseInv, TypeOK, ControlInv, Work, diskVars, dataVars
  <2> QED BY <2>1, <2>2
<1>11. CASE SkipVariant
  BY <1>11, <1>t DEF BaseInv, TypeOK, ControlInv, SkipVariant, diskVars, dataVars, histVars
<1>12. CASE FinishAgent
  <2>1. log_files' \in [AgentIds -> [run : 0..MaxRuns, executed : Nat, events : Nat]]
    BY <1>12, <1>t DEF FinishAgent, TypeOK
  <2>2. agent' \in 1..Len(plan)
    BY <1>12, <1>t, AgentTypes DEF FinishAgent
  <2>3. stage' = "issue" \/ stage' = AfterAgents
    BY <1>12 DEF FinishAgent
  <2>4. ControlInv'
    BY <1>12, <1>t, <2>2, <2>3 DEF ControlInv, FinishAgent, AfterAgents, Plans, histVars
  <2>5. stage' \in {"issue", "save_good", "save_report"}
    BY <2>3 DEF AfterAgents
  <2>6. plan' = plan /\ agent' \in 0..Len(plan')
    BY <1>12, <1>t, <2>2, AgentTypes DEF FinishAgent
  <2> QED BY <1>12, <1>t, <2>1, <2>4, <2>5, <2>6 DEF BaseInv, TypeOK, FinishAgent,
     procVars, agentVars, dataVars, histVars
<1>13. CASE SaveGood
  BY <1>13, <1>t DEF BaseInv, TypeOK, ControlInv, SaveGood, procVars, agentVars, histVars
<1>14. CASE SaveFraud
  BY <1>14, <1>t DEF BaseInv, TypeOK, ControlInv, SaveFraud, procVars, agentVars
<1>15. CASE SaveReport
  BY <1>15, <1>t DEF BaseInv, TypeOK, ControlInv, SaveReport, procVars, agentVars, histVars
<1>16. CASE Fail
  BY <1>16, <1>t, AbortTypes DEF BaseInv, TypeOK, Fail, diskVars, dataVars
<1>17. CASE KilledWriting
  <2>1. Abort /\ limit_hit' = limit_hit
    BY <1>17 DEF KilledWriting
  <2>2. /\ token_files' \in [AgentIds -> 0..MaxRuns]
        /\ log_files' \in [AgentIds -> [run : 0..MaxRuns, executed : Nat, events : Nat]]
        /\ good_file' \in 0..MaxRuns
        /\ fraud_file' \in [run : 0..MaxRuns, made : [AgentIds -> Nat]]
        /\ report_file' \in [run : 0..MaxRuns, made : [AgentIds -> Nat]]
        /\ call_log' \in [records : Nat, state : {"whole", "torn"}]
    <3>1. [token_files EXCEPT ![Agent.id] = 0] \in [AgentIds -> 0..MaxRuns]
      BY <1>t, EmptyFiles DEF TypeOK
    <3>2. [log_files EXCEPT ![Agent.id] = NoLog]
             \in [AgentIds -> [run : 0..MaxRuns, executed : Nat, events : Nat]]
      BY <1>t, EmptyFiles DEF TypeOK
    <3>3. [records |-> 0, state |-> "torn"] \in [records : Nat, state : {"whole", "torn"}]
      OBVIOUS
    <3> QED BY <1>17, <1>t, <3>1, <3>2, <3>3, EmptyFiles DEF KilledWriting, TypeOK, dataVars
  <2> QED BY <2>1, <2>2, <1>t, AbortTypes DEF BaseInv, TypeOK
<1>18. CASE UNCHANGED vars
  BY <1>18, <1>t DEF BaseInv, TypeOK, ControlInv, vars, procVars, agentVars, diskVars, dataVars,
     histVars
<1> QED BY <1>1, <1>2, <1>3, <1>4, <1>5, <1>6, <1>7, <1>8, <1>9, <1>10, <1>11, <1>12, <1>13,
           <1>14, <1>15, <1>16, <1>17, <1>18 DEF Next, Step

-----------------------------------------------------------------------------
\* Which steps write the logs of the agents, and which raise TokenLimitExceeded.
LEMMA LogWrites ==
    ASSUME [Next]_vars
    PROVE  \/ UNCHANGED log_files
           \/ FinishAgent
           \/ /\ stage = "act" /\ stage' = "idle"
              /\ log_files' = [log_files EXCEPT ![Agent.id] = NoLog]
BY DEF Next, Step, vars, diskVars, dataVars, BeginSimulation, BeginProbe, Begin, ResetLog,
   SaveLegitimate, IssueToken, CallModel, LogCall, LogRaises, DropVariants, Operate,
   SkipVariant, SaveGood, SaveFraud, SaveReport, Fail, KilledWriting, Abort

\* Only an operation beyond the limit sets limit_hit.
LEMMA Limits ==
    ASSUME [Next]_vars
    PROVE  \/ UNCHANGED limit_hit
           \/ Operate /\ executed >= MaxOperations /\ limit_hit' = TRUE
BY DEF Next, Step, vars, histVars, BeginSimulation, BeginProbe, Begin, ResetLog,
   SaveLegitimate, IssueToken, CallModel, LogCall, LogRaises, DropVariants, Operate, Work,
   SkipVariant, FinishAgent, SaveGood, SaveFraud, SaveReport, Fail, KilledWriting

\* The steps after which an agent is at work.
LEMMA WorkSteps ==
    ASSUME [Next]_vars, AtWork'
    PROVE  \/ IssueToken \/ CallModel \/ LogCall \/ DropVariants \/ (Operate /\ Work)
           \/ SkipVariant \/ UNCHANGED vars
<1>1. ~(BeginSimulation \/ BeginProbe)
  BY DEF AtWork, BeginSimulation, BeginProbe, Begin
<1>2. ~(ResetLog \/ SaveLegitimate \/ SaveGood \/ SaveFraud \/ SaveReport)
  BY DEF AtWork, ResetLog, SaveLegitimate, SaveGood, SaveFraud, SaveReport
<1>3. ~FinishAgent
  BY DEF AtWork, FinishAgent, AfterAgents
<1>4. ~Abort
  BY DEF AtWork, Abort
<1>5. /\ LogRaises \/ Fail \/ KilledWriting => Abort
      /\ Operate => Work \/ Abort
  BY DEF LogRaises, Fail, KilledWriting, Operate
<1> QED BY <1>1, <1>2, <1>3, <1>4, <1>5 DEF Next, Step

\* No step takes an agent beyond the operations its token grants.
LEMMA TokenStep ==
    ASSUME BaseInv, TokenInv, [Next]_vars
    PROVE  TokenInv'
<1> SUFFICES ASSUME AtWork' PROVE TokenInv'
  BY DEF TokenInv
<1>t. TypeOK /\ ControlInv
  BY DEF BaseInv
<1>a. /\ executed \in Nat /\ events \in Nat /\ pending \in Nat /\ rounds \in Nat
  BY <1>t DEF TypeOK
<1>1. CASE IssueToken
  BY <1>1, <1>t, AgentTypes DEF IssueToken, StartRun, TokenInv, AtWork, Agent, MaxOperations, Wanted
<1>2. CASE CallModel
  BY <1>2, <1>t, <1>a, AgentTypes DEF CallModel, TokenInv, AtWork, Agent, MaxOperations, Wanted
<1>3. CASE LogCall
  BY <1>3, <1>t, <1>a, AgentTypes DEF LogCall, TakeItems, TokenInv, AtWork, Agent, MaxOperations, Wanted
<1>4. CASE DropVariants
  BY <1>4, <1>t, <1>a, AgentTypes DEF DropVariants, TokenInv, AtWork, Agent, MaxOperations, Wanted
<1>5. CASE Operate /\ Work
  BY <1>5, <1>t, <1>a, AgentTypes DEF Operate, Work, TokenInv, AtWork, Agent, MaxOperations, Wanted
<1>6. CASE SkipVariant
  BY <1>6, <1>t, <1>a, AgentTypes DEF SkipVariant, TokenInv, AtWork, Agent, MaxOperations, Wanted
<1>7. CASE UNCHANGED vars
  BY <1>7 DEF vars, procVars, agentVars, TokenInv, AtWork, Agent, MaxOperations, Wanted
<1> QED BY <1>1, <1>2, <1>3, <1>4, <1>5, <1>6, <1>7, WorkSteps

\* So no operation ever meets the limit.
LEMMA NoLimitStep ==
    ASSUME BaseInv, TokenInv, AgentsStayWithinTokens, [Next]_vars
    PROVE  AgentsStayWithinTokens'
<1> SUFFICES ASSUME Operate, executed >= MaxOperations PROVE FALSE
  BY Limits DEF AgentsStayWithinTokens
<1>1. TypeOK /\ ControlInv /\ stage = "act" /\ pending > 0 /\ Agent.source # "feedback"
  <2>1. /\ TypeOK /\ ControlInv /\ stage = "act" /\ pending > 0
        /\ Agent.source = "feedback" => executed < MaxOperations
    BY DEF BaseInv, Operate
  <2>2. MaxOperations \in Nat /\ executed \in Nat
    BY <2>1, AgentTypes DEF TypeOK
  <2> QED BY <2>1, <2>2
<1>2. executed + pending <= Wanted
  BY <1>1 DEF TokenInv, AtWork
<1> QED BY <1>1, <1>2, AgentTypes DEF TypeOK

\* A log that is saved tells what its agent did, and one that stays still does.
LEMMA LogsStep ==
    ASSUME BaseInv, TokenInv, LogsTellTheTruth, [Next]_vars
    PROVE  LogsTellTheTruth'
<1>t. TypeOK /\ ControlInv
  BY DEF BaseInv
<1> SUFFICES ASSUME NEW a \in AgentIds
             PROVE  LET entry == log_files'[a] IN
                    /\ entry.executed <= Granted[a]
                    /\ entry.events <= entry.executed
                    /\ a # FeedbackLoopAgent.id => entry.events = entry.executed
  BY DEF LogsTellTheTruth
<1>1. CASE log_files'[a] = log_files[a]
  BY <1>1 DEF LogsTellTheTruth
<1>2. CASE FinishAgent /\ a = Agent.id
  <2>1. log_files'[a] = [run |-> run, executed |-> executed, events |-> events]
    BY <1>2, <1>t DEF FinishAgent, TypeOK
  <2> QED BY <1>2, <2>1, <1>t, AgentTypes DEF FinishAgent, TokenInv, AtWork
<1>3. CASE log_files'[a] = NoLog
  BY <1>3, SimulationAssumption DEF NoLog
<1> QED BY <1>1, <1>2, <1>3, <1>t, LogWrites DEF FinishAgent, TypeOK

-----------------------------------------------------------------------------
\* Every call to the language model is logged once, or the run ends.
LEMMA CallStep ==
    ASSUME BaseInv, CallInv, [Next]_vars
    PROVE  CallInv'
<1>t. TypeOK /\ ControlInv
  BY DEF BaseInv
<1>a. calls \in Nat /\ call_log.records \in Nat
  BY <1>t DEF TypeOK
<1>1. CASE BeginSimulation \/ BeginProbe
  BY <1>1, PlansDiffer DEF CallInv, CallLogIsComplete, BeginSimulation, BeginProbe, Begin
<1>2. CASE ResetLog
  BY <1>2 DEF CallInv, CallLogIsComplete, ResetLog, procVars
<1>3. CASE CallModel
  <2>1. /\ plan' = plan /\ call_log' = call_log /\ calls' = calls + 1 /\ stage' = "answered"
        /\ stage \in {"collect", "act"}
    BY <1>3 DEF CallModel, diskVars
  <2> QED BY <2>1, <1>a DEF CallInv, CallLogIsComplete
<1>4. CASE LogCall
  <2>1. /\ call_log'.records = call_log.records + 1 /\ call_log'.state = call_log.state
        /\ plan' = plan /\ calls' = calls /\ stage = "answered"
    BY <1>4, <1>t DEF LogCall, TypeOK
  <2>2. stage' \in {"collect", "act"}
    BY <1>4 DEF LogCall, TakeItems
  <2> QED BY <2>1, <2>2, <1>a DEF CallInv, CallLogIsComplete
<1>5. CASE Abort
  BY <1>5, PlansDiffer DEF CallInv, CallLogIsComplete, Abort, Plans
<1>6. CASE /\ UNCHANGED <<plan, calls, call_log>>
           /\ stage # "answered" /\ stage' \notin {"reset", "answered"}
           /\ stage # "reset"
  BY <1>6 DEF CallInv, CallLogIsComplete
<1>7. CASE SaveLegitimate \/ IssueToken \/ DropVariants \/ SkipVariant \/ (Operate /\ Work)
  BY <1>6, <1>7 DEF SaveLegitimate, IssueToken, StartRun, DropVariants, SkipVariant, Operate,
     Work, procVars, diskVars
<1>8. CASE FinishAgent \/ SaveGood \/ SaveFraud \/ SaveReport
  BY <1>6, <1>8 DEF FinishAgent, AfterAgents, SaveGood, SaveFraud, SaveReport, procVars
<1>9. CASE UNCHANGED vars
  BY <1>9 DEF vars, procVars, diskVars, CallInv, CallLogIsComplete
<1>10. /\ LogRaises \/ Fail \/ KilledWriting => Abort
       /\ Operate => Abort \/ (Operate /\ Work)
  BY DEF LogRaises, Fail, KilledWriting, Operate
<1> QED BY <1>1, <1>2, <1>3, <1>4, <1>5, <1>7, <1>8, <1>9, <1>10 DEF Next, Step

\* Only SaveReport and a kill in it change the report.
LEMMA ReportWrites ==
    ASSUME [Next]_vars
    PROVE  \/ UNCHANGED report_file
           \/ SaveReport
           \/ stage = "save_report" /\ report_file' = NoResults /\ Abort
BY DEF Next, Step, vars, diskVars, dataVars, BeginSimulation, BeginProbe, Begin, ResetLog,
   SaveLegitimate, IssueToken, CallModel, LogCall, LogRaises, DropVariants, Operate,
   SkipVariant, FinishAgent, SaveGood, SaveFraud, Fail, KilledWriting

\* Only the start of a run takes the next number.
LEMMA RunNumbers ==
    ASSUME [Next]_vars
    PROVE  \/ run' = run /\ (stage = "idle" => stage' = "idle")
           \/ run' = run + 1 /\ stage = "idle"
BY DEF Next, Step, vars, BeginSimulation, BeginProbe, Begin, ResetLog,
   SaveLegitimate, IssueToken, CallModel, LogCall, LogRaises, DropVariants, Operate, Work,
   SkipVariant, FinishAgent, SaveGood, SaveFraud, SaveReport, Fail, KilledWriting, Abort

\* The report that is saved is of the files next to it.
LEMMA ReportStep ==
    ASSUME BaseInv, TraceInv, ReportInv, [Next]_vars
    PROVE  ReportInv'
<1>t. TypeOK /\ ControlInv
  BY DEF BaseInv
<1>a. run \in Nat /\ report_file.run \in Nat
  BY <1>t, SimulationAssumption DEF TypeOK
<1>1. /\ report_file'.run <= run'
      /\ stage' # "idle" => report_file'.run < run'
  <2>1. CASE UNCHANGED report_file
    BY <2>1, <1>a, RunNumbers DEF ReportInv
  <2>2. CASE SaveReport
    BY <2>2, <1>a DEF SaveReport
  <2>3. CASE report_file' = NoResults /\ Abort
    BY <2>3, <1>a DEF NoResults, Abort
  <2> QED BY <2>1, <2>2, <2>3, ReportWrites
<1>2. ReportMatchesLogs'
  <2> SUFFICES ASSUME NEW a \in Range(ProbePlan),
                      report_file'.run # 0, log_files'[a.id].run = report_file'.run
               PROVE  report_file'.made[a.id] = log_files'[a.id].events
    BY DEF ReportMatchesLogs
  <2>1. PICK i \in 1..Len(ProbePlan) : a = ProbePlan[i]
    BY PlanLengths DEF Range
  <2>2. a.id \in AgentIds
    BY <2>1, PlanAgents DEF Plans
  <2>3. CASE UNCHANGED report_file
    <3>1. CASE log_files'[a.id] = log_files[a.id]
      BY <2>3, <3>1 DEF ReportInv, ReportMatchesLogs
    <3>2. CASE FinishAgent /\ log_files'[a.id].run = run
      BY <2>3, <3>2, <1>a DEF ReportInv, FinishAgent
    <3>3. CASE log_files'[a.id] = NoLog
      BY <3>3 DEF NoLog
    <3>4. log_files \in [AgentIds -> [run : 0..MaxRuns, executed : Nat, events : Nat]]
      BY <1>t DEF TypeOK
    <3>5. CASE FinishAgent
      <4>1. log_files' = [log_files EXCEPT ![Agent.id] =
                             [run |-> run, executed |-> executed, events |-> events]]
        BY <3>5 DEF FinishAgent
      <4>2. log_files'[a.id] = log_files[a.id] \/ log_files'[a.id].run = run
        BY <4>1, <3>4, <2>2
      <4> QED BY <4>2, <3>1, <3>2, <3>5
    <3>6. CASE log_files' = [log_files EXCEPT ![Agent.id] = NoLog]
      BY <3>6, <3>4, <2>2, <3>1, <3>3
    <3> QED BY <3>1, <3>5, <3>6, LogWrites
  <2>4. CASE SaveReport
    <3>1. Accounted(i)
      BY <2>4, <2>1, <1>t DEF SaveReport, TraceInv, ControlInv
    <3> QED BY <3>1, <2>1, <2>4, <1>t DEF SaveReport, Accounted, ControlInv
  <2>5. CASE report_file' = NoResults
    BY <2>5 DEF NoResults
  <2> QED BY <2>3, <2>4, <2>5, ReportWrites
<1> QED BY <1>1, <1>2 DEF ReportInv

-----------------------------------------------------------------------------
\* One more operation within the limit adds at most the most one yields.
LEMMA OneMore ==
    ASSUME NEW m \in Nat, NEW n \in Nat, NEW made0 \in Nat, NEW k \in Nat,
           made0 <= n * m, k <= m
    PROVE  n * m \in Nat /\ made0 + k <= (n + 1) * m
OBVIOUS

\* An agent whose files and transactions stay is still accounted for.
LEMMA AccountedStays ==
    ASSUME NEW i, Accounted(i), UNCHANGED <<run, plan>>,
           token_files'[plan[i].id] = token_files[plan[i].id],
           log_files'[plan[i].id] = log_files[plan[i].id],
           made'[plan[i].id] = made[plan[i].id]
    PROVE  Accounted(i)'
BY DEF Accounted

\* Every agent that has finished in this run is accounted for.
LEMMA TraceStep ==
    ASSUME BaseInv, TraceInv, [Next]_vars
    PROVE  TraceInv'
<1>t. TypeOK /\ ControlInv
  BY DEF BaseInv
<1>1. CASE stage' = "idle" \/ stage' = "reset" \/ stage' = "save_legitimate"
  BY <1>1 DEF TraceInv, AtWork
<1>2. CASE BeginSimulation \/ ResetLog
  BY <1>1, <1>2 DEF BeginSimulation, Begin, ResetLog
<1>3. CASE BeginProbe
  <2>1. /\ stage' = "issue" /\ plan' = ProbePlan /\ agent' = 1 /\ made' = NoTransactions
    BY <1>3 DEF BeginProbe, Begin
  <2>2. \A i \in 1..Len(ProbePlan) : made'[ProbePlan[i].id] = 0
    BY <2>1, PlanAgents DEF NoTransactions, Plans
  <2> QED BY <2>1, <2>2, PlanLengths DEF TraceInv, AtWork, Agent
<1>4. CASE SaveLegitimate
  <2>1. /\ stage' = "issue" /\ plan' = SimulationPlan /\ agent' = 1 /\ made' = NoTransactions
    BY <1>4, <1>t DEF SaveLegitimate, ControlInv, procVars
  <2>2. \A i \in 1..Len(SimulationPlan) : made'[SimulationPlan[i].id] = 0
    BY <2>1, PlanAgents DEF NoTransactions, Plans
  <2> QED BY <2>1, <2>2, PlanLengths DEF TraceInv, AtWork, Agent
<1>5. CASE IssueToken
  <2>1. /\ UNCHANGED <<run, plan, agent, made, log_files>>
        /\ token_files' = [token_files EXCEPT ![Agent.id] = run]
        /\ executed' = 0 /\ events' = 0 /\ stage = "issue" /\ AtWork'
        /\ stage' \in {"collect", "act"}
    BY <1>5 DEF IssueToken, StartRun, AtWork, dataVars
  <2>2. /\ Agent' = Agent /\ Agent.id \in AgentIds /\ Max(Agent.yields) \in Nat
        /\ Agent = plan[agent] /\ agent \in 1..Len(plan) /\ plan \in Plans /\ Len(plan) \in Nat
    BY <2>1, <1>t, AgentTypes DEF Agent
  <2>3. \A i \in 1..(agent - 1) : Accounted(i)'
    <3> TAKE i \in 1..(agent - 1)
    <3>1. plan[i].id # Agent.id
      BY <2>2, PlanAgents
    <3> QED BY <3>1, <2>1, AccountedStays, <1>t DEF TraceInv, TypeOK
  <2>4. token_files'[Agent.id] = run
    BY <2>1, <2>2, <1>t DEF TypeOK
  <2>5. made[Agent.id] = 0 /\ 0 * Max(Agent.yields) = 0
    BY <2>1, <2>2 DEF TraceInv
  <2> QED BY <2>1, <2>2, <2>3, <2>4, <2>5 DEF TraceInv
<1>6. CASE CallModel \/ LogCall \/ DropVariants
  <2>1. /\ UNCHANGED <<run, plan, agent, made, log_files, token_files, executed, events>>
        /\ AtWork /\ AtWork' /\ stage' \in {"collect", "answered", "act"}
    BY <1>6 DEF CallModel, LogCall, TakeItems, DropVariants, AtWork, diskVars
  <2>2. Agent' = Agent
    BY <2>1 DEF Agent
  <2> QED BY <2>1, <2>2 DEF TraceInv, Accounted
<1>7. CASE SkipVariant \/ (Operate /\ Work)
  <2>1. /\ UNCHANGED <<run, plan, agent, stage, log_files, token_files>>
        /\ stage = "act" /\ AtWork /\ AtWork'
        /\ executed' = executed + 1
    BY <1>7 DEF SkipVariant, Operate, Work, AtWork, diskVars
  <2>2. /\ Agent' = Agent /\ Agent.id \in AgentIds /\ Max(Agent.yields) \in Nat
        /\ Agent = plan[agent] /\ agent \in 1..Len(plan) /\ plan \in Plans /\ Len(plan) \in Nat
        /\ \A n \in Agent.yields : n \in Nat /\ n <= Max(Agent.yields)
        /\ made \in [AgentIds -> Nat] /\ executed \in Nat /\ events \in Nat
    BY <2>1, <1>t, AgentTypes DEF Agent, TypeOK
  <2>3. PICK n \in Agent.yields \cup {0} :
            /\ made' = [made EXCEPT ![Agent.id] = @ + n]
            /\ plan = ProbePlan => events' = events + n
    <3>1. CASE SkipVariant
      <4>1. made' = [made EXCEPT ![Agent.id] = @ + 0]
        BY <3>1, <2>2 DEF SkipVariant
      <4>2. 0 \in Agent.yields \cup {0} /\ events' = events + 0
        BY <3>1, <2>2 DEF SkipVariant
      <4> QED BY <4>1, <4>2
    <3>2. CASE Work
      <4>1. PICK n \in Agent.yields : made' = [made EXCEPT ![Agent.id] = @ + n]
        BY <3>2 DEF Work
      <4>2. plan = ProbePlan => n = 1
        <5> SUFFICES ASSUME plan = ProbePlan PROVE n = 1
          OBVIOUS
        <5>1. agent \in 1..2 /\ Agent = ProbePlan[agent]
          BY <2>2, PlanLengths
        <5> QED BY <4>1, <5>1, ProbeAgents
      <4> QED BY <4>1, <4>2, <3>2 DEF Work
    <3> QED BY <3>1, <3>2, <1>7
  <2>4. /\ n \in Nat /\ n <= Max(Agent.yields)
    BY <2>2
  <2>5. made'[Agent.id] = made[Agent.id] + n /\ made[Agent.id] \in Nat
    BY <2>2, <2>3
  <2>6. made'[Agent.id] <= executed' * Max(Agent.yields)
    BY <2>1, <2>2, <2>4, <2>5, OneMore DEF TraceInv
  <2>7. \A i \in 1..Len(plan) : i # agent => made'[plan[i].id] = made[plan[i].id]
    BY <2>2, <2>3, PlanAgents
  <2>8. \A i \in 1..(agent - 1) : Accounted(i)'
    BY <2>1, <2>2, <2>7, AccountedStays DEF TraceInv
  <2> QED BY <2>1, <2>2, <2>3, <2>5, <2>6, <2>7, <2>8 DEF TraceInv
<1>8. CASE FinishAgent
  <2>1. /\ UNCHANGED <<run, plan, made, token_files>>
        /\ stage = "act" /\ AtWork /\ ~AtWork'
        /\ log_files' = [log_files EXCEPT ![Agent.id] =
                             [run |-> run, executed |-> executed, events |-> events]]
    BY <1>8 DEF FinishAgent, AtWork, AfterAgents, procVars
  <2>2. /\ Agent.id \in AgentIds
        /\ Agent = plan[agent] /\ agent \in 1..Len(plan) /\ plan \in Plans /\ Len(plan) \in Nat
    BY <2>1, <1>t, AgentTypes
  <2>3. \A i \in 1..Len(plan) : i = agent => Accounted(i)'
    <3>1. log_files'[Agent.id] = [run |-> run, executed |-> executed, events |-> events]
      BY <2>1, <2>2, <1>t DEF TypeOK
    <3>2. /\ token_files[Agent.id] = run
          /\ made[Agent.id] <= executed * Max(Agent.yields)
          /\ plan = ProbePlan => made[Agent.id] = events
      BY <2>1 DEF TraceInv
    <3> QED BY <2>1, <2>2, <3>1, <3>2 DEF Accounted
  <2>4. \A i \in 1..(agent - 1) : Accounted(i)'
    <3> TAKE i \in 1..(agent - 1)
    <3>1. plan[i].id # Agent.id
      BY <2>2, PlanAgents
    <3> QED BY <3>1, <2>1, AccountedStays, <1>t DEF TraceInv, TypeOK
  <2>5. CASE agent < Len(plan)
    <3>1. stage' = "issue" /\ agent' = agent + 1
      BY <1>8, <2>5 DEF FinishAgent
    <3>2. /\ \A i \in (agent + 1)..Len(plan) : made[plan[i].id] = 0
          /\ Agent' = plan[agent + 1]
      BY <2>1, <3>1 DEF TraceInv, Agent
    <3> QED BY <2>1, <2>2, <2>3, <2>4, <2>5, <3>1, <3>2 DEF TraceInv
  <2>6. CASE ~(agent < Len(plan))
    <3>1. stage' \in {"save_good", "save_report"} /\ agent = Len(plan)
      BY <1>8, <2>2, <2>6 DEF FinishAgent, AfterAgents
    <3>2. \A i \in 1..Len(plan) : Accounted(i)'
      BY <2>2, <2>3, <2>4, <3>1
    <3> QED BY <2>1, <3>1, <3>2 DEF TraceInv
  <2> QED BY <2>5, <2>6
<1>9. CASE SaveGood
  <2>1. /\ UNCHANGED <<run, plan, made, token_files, log_files>>
        /\ stage = "save_good" /\ stage' = "save_fraud" /\ good_file' = run
    BY <1>9 DEF SaveGood, procVars
  <2> QED BY <2>1 DEF TraceInv, AtWork, Accounted
<1>10. CASE SaveFraud \/ SaveReport \/ Abort
  BY <1>1, <1>10 DEF SaveFraud, SaveReport, Abort
<1>11. CASE UNCHANGED vars
  BY <1>11 DEF vars, procVars, agentVars, diskVars, dataVars, TraceInv, AtWork, Accounted, Agent
<1>12. /\ LogRaises \/ Fail \/ KilledWriting => Abort
       /\ Operate => Abort \/ (Operate /\ Work)
  BY DEF LogRaises, Fail, KilledWriting, Operate
<1> QED BY <1>2, <1>3, <1>4, <1>5, <1>6, <1>7, <1>8, <1>9, <1>10, <1>11, <1>12 DEF Next, Step

\* A run ends when it has saved the fraud file, or unfinished.
LEMMA RunEnds ==
    ASSUME [Next]_vars, stage' = "idle"
    PROVE  \/ UNCHANGED vars
           \/ SaveFraud
           \/ stage # "idle" /\ UNCHANGED <<run, finished>>
<1>1. CASE BeginSimulation \/ BeginProbe \/ ResetLog \/ SaveLegitimate \/ IssueToken \/ CallModel
  BY <1>1 DEF BeginSimulation, BeginProbe, Begin, ResetLog, SaveLegitimate, IssueToken, StartRun,
     CallModel
<1>2. CASE LogCall \/ DropVariants \/ SkipVariant \/ FinishAgent \/ SaveGood
  BY <1>2 DEF LogCall, TakeItems, DropVariants, SkipVariant, FinishAgent, AfterAgents, SaveGood
<1>3. CASE LogRaises \/ Operate \/ SaveReport \/ Fail \/ KilledWriting
  BY <1>3 DEF LogRaises, Operate, Work, SaveReport, Fail, KilledWriting, Abort, histVars
<1> QED BY <1>1, <1>2, <1>3 DEF Next, Step

\* A run that finishes has every agent accounted for.
LEMMA FinishedStep ==
    ASSUME BaseInv, TraceInv, FinishedRunIsTraceable, [Next]_vars
    PROVE  FinishedRunIsTraceable'
<1>t. TypeOK /\ ControlInv
  BY DEF BaseInv
<1> SUFFICES ASSUME stage' = "idle", finished' = run', run' # 0
             PROVE  /\ good_file' = run' /\ fraud_file'.run = run'
                    /\ \A a \in Range(SimulationPlan) :
                          /\ token_files'[a.id] = run'
                          /\ log_files'[a.id].run = run'
                          /\ fraud_file'.made[a.id] <= log_files'[a.id].executed * Max(a.yields)
  BY DEF FinishedRunIsTraceable
<1>1. CASE UNCHANGED vars
  BY <1>1 DEF vars, diskVars, dataVars, histVars, FinishedRunIsTraceable
<1>2. CASE SaveFraud
  <2>1. /\ UNCHANGED <<run, token_files, log_files, good_file>>
        /\ fraud_file' = [run |-> run, made |-> made]
        /\ good_file = run /\ plan = SimulationPlan
        /\ \A i \in 1..Len(SimulationPlan) : Accounted(i)
    BY <1>2, <1>t DEF SaveFraud, TraceInv, ControlInv
  <2>2. \A a \in Range(SimulationPlan) : \E i \in 1..Len(SimulationPlan) : a = SimulationPlan[i]
    BY PlanLengths DEF Range
  <2> QED BY <2>1, <2>2 DEF Accounted
<1>3. CASE stage # "idle" /\ UNCHANGED <<run, finished>>
  BY <1>3, <1>t DEF ControlInv, TypeOK
<1> QED BY <1>1, <1>2, <1>3, RunEnds

-----------------------------------------------------------------------------
SimulationInv ==
    /\ BaseInv
    /\ TokenInv
    /\ TraceInv
    /\ ReportInv
    /\ CallInv
    /\ AgentsStayWithinTokens
    /\ LogsTellTheTruth
    /\ FinishedRunIsTraceable

LEMMA SimulationInit == Init => SimulationInv
<1> SUFFICES ASSUME Init PROVE SimulationInv
  OBVIOUS
<1>1. stage = "idle" /\ plan = <<>> /\ run = 0 /\ ~limit_hit /\ report_file.run = 0
  BY Zenon DEF Init, NoResults
<1>2. TokenInv /\ TraceInv
  BY <1>1 DEF TokenInv, TraceInv, AtWork
<1>3. ReportInv /\ FinishedRunIsTraceable
  BY <1>1 DEF ReportInv, ReportMatchesLogs, FinishedRunIsTraceable
<1>4. CallInv
  BY <1>1, PlansDiffer DEF CallInv, CallLogIsComplete, Plans
<1>5. LogsTellTheTruth
  BY SimulationAssumption DEF Init, LogsTellTheTruth, NoLog
<1> QED BY <1>1, <1>2, <1>3, <1>4, <1>5, BaseInit DEF SimulationInv, AgentsStayWithinTokens

\* Every step of a run keeps the invariant.
LEMMA SimulationStep == SimulationInv /\ [Next]_vars => SimulationInv'
BY BaseStep, TokenStep, TraceStep, ReportStep, CallStep, NoLimitStep, LogsStep, FinishedStep
   DEF SimulationInv

\* The invariant of all runs of the agents, whatever is granted, asked for and
\* returned, and wherever a run raises or is killed.
THEOREM SimulationInvariant == Spec => []SimulationInv
<1> QED BY SimulationInit, SimulationStep, PTL DEF Spec

\* Types.
THEOREM SimulationTypes == Spec => []TypeOK
BY SimulationInvariant, PTL DEF SimulationInv, BaseInv

\* No agent ever raises TokenLimitExceeded: what a run method asks for is cut to
\* what its token grants before the first operation (Wanted in _batched and in
\* each _generate method), and the feedback loop looks at its limit itself.
THEOREM WithinTokens == Spec => []AgentsStayWithinTokens
BY SimulationInvariant, PTL DEF SimulationInv

\* Every log on disk is within the grant of its agent and counts what it did.
THEOREM LogsAreTrue == Spec => []LogsTellTheTruth
BY SimulationInvariant, PTL DEF SimulationInv

\* The files of the run that finished last account for every transaction.
THEOREM Traceable == Spec => []FinishedRunIsTraceable
BY SimulationInvariant, PTL DEF SimulationInv

\* The call log holds the calls of this simulation, all of them and no others.
THEOREM CallsAreLogged == Spec => []CallLogIsComplete
BY SimulationInvariant, PTL DEF SimulationInv, CallInv

\* A probe report and the logs of the same run agree.
THEOREM ReportAgrees == Spec => []ReportMatchesLogs
BY SimulationInvariant, PTL DEF SimulationInv, ReportInv
=============================================================================
