----------------------- MODULE DecisionExecutorProofs -----------------------
(***************************************************************************)
(* Proofs about CallerAuth and, on top of it, DecisionExecutor.  First     *)
(* what a token grants.  Then the safety of the gate that holds for any    *)
(* number of threads and every fault.  Then when the gate does execute at  *)
(* most once: one thread, no crash, no lost response and no lost append    *)
(* suffice (an append may be torn), and it then implements ExecuteOnce.    *)
(***************************************************************************)
EXTENDS DecisionExecutor, SequenceTheorems, TLAPS

\* Why an unchanged entry wins after one TTL: a token issued after the last
\* change carries the entry, one issued before it has expired by then.
TokensFollowRegistry ==
    \A token \in issued :
        /\ token.caller_id \in DOMAIN registry
        /\ token.expires_at = token.issued_at + TTL
        /\ token.issued_at > changed_at[token.caller_id] =>
              token.permissions = registry[token.caller_id]

ClockIsLatest ==
    /\ \A token \in issued : token.issued_at <= now
    /\ \A c \in Callers : changed_at[c] <= now

AuthInv == AuthTypeOK /\ TokensFollowRegistry /\ ClockIsLatest

\* A registry is a function on some of the callers (register_caller).
LEMMA RegistryFacts ==
    ASSUME NEW reg \in Registries
    PROVE  /\ DOMAIN reg \subseteq Callers
           /\ \A c \in DOMAIN reg : reg[c] \in SUBSET Permissions
  BY DEF Registries

\* The invariant holds before the first caller registers or asks for a token.
LEMMA AuthInitHolds == AuthInit => AuthInv
  BY CallerAuthAssumption
  DEF AuthInit, AuthInv, AuthTypeOK, TokensFollowRegistry, ClockIsLatest

\* register_caller keeps the invariant: the tokens already out are not newer
\* than the entry it writes.
LEMMA RegisterCallerKeeps ==
    ASSUME AuthInv, NEW c \in Callers, NEW p \in SUBSET Permissions,
           RegisterCaller(c, p)
    PROVE  AuthInv'
<1> USE DEF AuthInv, RegisterCaller
<1>1. registry' \in [DOMAIN registry \cup {c} -> SUBSET Permissions]
  BY RegistryFacts DEF AuthTypeOK
<1>2. AuthTypeOK'
  <2>1. DOMAIN registry \cup {c} \in SUBSET Callers
    BY RegistryFacts DEF AuthTypeOK
  <2>2. registry' \in Registries
    BY <1>1, <2>1 DEF Registries
  <2> QED
    BY <2>2 DEF AuthTypeOK
<1>3. ClockIsLatest'
  BY DEF ClockIsLatest, AuthTypeOK
<1>4. TokensFollowRegistry'
  <2> SUFFICES ASSUME NEW token \in issued
               PROVE  /\ token.caller_id \in DOMAIN registry'
                      /\ token.expires_at = token.issued_at + TTL
                      /\ token.issued_at > changed_at'[token.caller_id] =>
                            token.permissions = registry'[token.caller_id]
    BY DEF TokensFollowRegistry
  <2>1. /\ token.caller_id \in Callers
        /\ token.issued_at \in Nat
        /\ token.issued_at <= now
        /\ now \in Nat
    BY DEF AuthTypeOK, CallerIdentity, ClockIsLatest
  <2>2. CASE token.caller_id = c
    BY <1>1, <2>1, <2>2 DEF TokensFollowRegistry, AuthTypeOK
  <2>3. CASE token.caller_id # c
    BY <2>1, <2>3 DEF TokensFollowRegistry, AuthTypeOK
  <2> QED
    BY <2>2, <2>3
<1> QED
  BY <1>2, <1>3, <1>4

\* create_token keeps the invariant: the new token carries the entry.
LEMMA CreateTokenKeeps ==
    ASSUME AuthInv, NEW c \in Callers, CreateToken(c)
    PROVE  AuthInv'
<1> USE CallerAuthAssumption DEF AuthInv, CreateToken
<1>1. /\ NewToken(c) \in CallerIdentity
      /\ NewToken(c).caller_id = c
      /\ NewToken(c).issued_at = now
      /\ NewToken(c).expires_at = now + TTL
      /\ NewToken(c).permissions = registry[c]
  BY RegistryFacts DEF NewToken, CallerIdentity, AuthTypeOK
<1>2. AuthTypeOK'
  BY <1>1 DEF AuthTypeOK
<1>3. ClockIsLatest'
  BY <1>1 DEF ClockIsLatest, AuthTypeOK
<1>4. TokensFollowRegistry'
  BY <1>1 DEF TokensFollowRegistry
<1> QED
  BY <1>2, <1>3, <1>4

\* The passing of time keeps the invariant.
LEMMA TickKeeps ==
    ASSUME AuthInv, Tick
    PROVE  AuthInv'
  BY DEF AuthInv, Tick, AuthTypeOK, TokensFollowRegistry, ClockIsLatest, CallerIdentity

\* Every step of the authenticator keeps the invariant.
LEMMA AuthStepKeeps == AuthInv /\ [AuthNext]_authVars => AuthInv'
<1> SUFFICES ASSUME AuthInv, [AuthNext]_authVars PROVE AuthInv'
  OBVIOUS
<1>1. ASSUME NEW c \in Callers, NEW p \in SUBSET Permissions, RegisterCaller(c, p)
      PROVE  AuthInv'
  BY <1>1, RegisterCallerKeeps
<1>2. ASSUME NEW c \in Callers, CreateToken(c) PROVE AuthInv'
  BY <1>2, CreateTokenKeeps
<1>3. CASE Tick
  BY <1>3, TickKeeps
<1>4. CASE UNCHANGED authVars
  BY <1>4 DEF authVars, AuthInv, AuthTypeOK, TokensFollowRegistry, ClockIsLatest
<1> QED
  BY <1>1, <1>2, <1>3, <1>4 DEF AuthNext

\* The inductive invariant of tokens and registry.
THEOREM AuthInvariant == AuthSpec => []AuthInv
  BY AuthInitHolds, AuthStepKeeps, PTL DEF AuthSpec

\* One TTL after the last change of a caller's entry, every token that still
\* verifies grants that entry (register_caller, create_token, verify_token).
THEOREM WithdrawalHolds == AuthSpec => []WithdrawalTakesEffect
<1>1. AuthInv => WithdrawalTakesEffect
  <2> SUFFICES ASSUME AuthInv, NEW token \in issued, verify_token(token),
                      now >= changed_at[token.caller_id] + TTL
               PROVE  /\ token.caller_id \in DOMAIN registry
                      /\ token.permissions = registry[token.caller_id]
    BY DEF WithdrawalTakesEffect
  <2>1. /\ token.caller_id \in Callers
        /\ token.issued_at \in Nat
        /\ changed_at[token.caller_id] \in Nat
        /\ now \in Nat
        /\ TTL \in Nat
    BY CallerAuthAssumption DEF AuthInv, AuthTypeOK, CallerIdentity
  <2>2. now < token.issued_at + TTL
    BY <2>1 DEF verify_token, is_expired, AuthInv, TokensFollowRegistry
  <2>3. token.issued_at > changed_at[token.caller_id]
    BY <2>1, <2>2
  <2> QED
    BY <2>3 DEF AuthInv, TokensFollowRegistry
<1> QED
  BY <1>1, AuthInvariant, PTL

-----------------------------------------------------------------------------
\* The routes never register a caller, so a token's permissions are those of
\* the registry; a request's identity is a token that was issued.
GrantedByRegistry ==
    /\ \A token \in issued : token.permissions = registry[token.caller_id]
    /\ \A t \in Threads : caller[t] # NoCaller => caller[t] \in issued

\* What a thread has established about its current decision at each label.
Screened ==
    \A t \in Threads :
        /\ pc[t] # "idle" => batch[t] # <<>>
        /\ pc[t] \in {"check", "webhook", "record"} =>
              /\ Current(t).signature = "valid"
              /\ caller[t] # NoCaller =>
                    Current(t).final_decision \in caller[t].permissions
        /\ pc[t] \in {"webhook", "record"} =>
              Current(t).final_decision \in DecisionTypes

SeenIsLogged == \A t \in Threads : \A r \in seen[t] : already_executed(r)

\* The action a thread is about to log is its own, and not logged yet.
ReceiptsInFlight ==
    \A t \in Threads : pc[t] = "record" =>
        /\ receipt[t] \in 1..Len(ledger)
        /\ ledger[receipt[t]].record_id = Current(t).record_id
        /\ ledger[receipt[t]].caller_id = CallerIdOf(t)
        /\ ~Logged(receipt[t])
        /\ \A u \in Threads : pc[u] = "record" /\ receipt[u] = receipt[t] => u = t

IInv ==
    /\ TypeOK
    /\ GrantedByRegistry
    /\ Screened
    /\ SeenIsLogged
    /\ SettledRecordsStaySettled
    /\ AuthorizedExecution
    /\ EveryExecutedEntryIsBacked
    /\ ReceiptsInFlight
-----------------------------------------------------------------------------
\* The decision a busy thread works on, and what is left of its batch.
LEMMA CurrentFacts ==
    ASSUME TypeOK, Screened, NEW t \in Threads, pc[t] # "idle"
    PROVE  /\ batch[t] \in Seq(Submissions)
           /\ batch[t] # <<>>
           /\ Current(t) \in Submissions
           /\ Tail(batch[t]) \in Seq(Submissions)
           /\ Len(batch[t]) # 1 => Tail(batch[t]) # <<>>
           /\ CallerIdOf(t) \in CallerIds
<1>1. batch[t] \in Seq(Submissions) /\ batch[t] # <<>>
  BY DEF TypeOK, Screened
<1>2. CallerIdOf(t) \in CallerIds
  BY DEF TypeOK, CallerIdOf, CallerIds, CallerIdentity
<1>3. /\ Head(batch[t]) \in Submissions
      /\ Tail(batch[t]) \in Seq(Submissions)
      /\ Len(Tail(batch[t])) = Len(batch[t]) - 1
  BY <1>1, HeadTailProperties
<1>4. Len(batch[t]) # 1 => Tail(batch[t]) # <<>>
  <2>1. Len(batch[t]) \in Nat
    BY <1>1, LenProperties
  <2>2. Tail(batch[t]) = <<>> => Len(Tail(batch[t])) = 0
    BY <1>3, EmptySeq
  <2> QED
    BY <1>3, <2>1, <2>2
<1> QED
  BY <1>1, <1>2, <1>3, <1>4 DEF Current

\* Appending an entry to the log (ExecutionLog.append) adds its record to the
\* executed ones exactly if it says EXECUTED, and takes none away.
LEMMA AppendedLog ==
    ASSUME log \in Seq(Entries), NEW e \in Entries, log' = Append(log, e)
    PROVE  /\ Len(log') = Len(log) + 1
           /\ log'[Len(log) + 1] = e
           /\ \A i \in 1..Len(log) : log'[i] = log[i]
           /\ \A r : already_executed(r)' <=>
                      \/ already_executed(r)
                      \/ e.status = "EXECUTED" /\ e.record_id = r
           /\ \A i : Logged(i)' <=>
                      \/ Logged(i)
                      \/ e.status = "EXECUTED" /\ e.receipt = i
<1>1. /\ Len(log) \in Nat
      /\ Len(log') = Len(log) + 1
      /\ log'[Len(log) + 1] = e
      /\ \A i \in 1..Len(log) : log'[i] = log[i]
  OBVIOUS
<1>2. \A i : i \in 1..Len(log') <=> i \in 1..Len(log) \/ i = Len(log) + 1
  BY <1>1
<1>3. \A r : already_executed(r)' <=>
             \/ already_executed(r)
             \/ e.status = "EXECUTED" /\ e.record_id = r
  BY <1>1, <1>2 DEF already_executed
<1>4. \A i : Logged(i)' <=> Logged(i) \/ (e.status = "EXECUTED" /\ e.receipt = i)
  BY <1>1, <1>2 DEF Logged
<1> QED
  BY <1>1, <1>3, <1>4

\* The entry a thread logs is well formed.
LEMMA EntryType ==
    ASSUME TypeOK, Screened, NEW t \in Threads, pc[t] # "idle",
           NEW status \in Statuses, NEW reason \in Reasons, NEW rcpt \in Nat
    PROVE  /\ Entry(t, status, reason, rcpt) \in Entries
           /\ Entry(t, status, reason, rcpt).status = status
           /\ Entry(t, status, reason, rcpt).receipt = rcpt
           /\ Entry(t, status, reason, rcpt).record_id = Current(t).record_id
           /\ Entry(t, status, reason, rcpt).caller_id = CallerIdOf(t)
  BY CurrentFacts DEF Entry, Entries, RecordIds, Decisions

\* What an answer does to the threads: this one goes on or drops its batch, and no
\* other moves.
LEMMA AnswerMoves ==
    ASSUME TypeOK, Screened, NEW t \in Threads, pc[t] # "idle",
           NEW status \in Statuses, NEW reason \in Reasons, NEW rcpt \in Nat,
           Answer(t, status, reason, rcpt)
    PROVE  /\ log' = Append(log, Entry(t, status, reason, rcpt))
           /\ tail' \in {"whole", "open", "torn"} /\ (torn => torn')
           /\ UNCHANGED <<caller, served>>
           /\ batch' \in [Threads -> Seq(Submissions)]
           /\ pc' \in [Threads -> {"idle", "screen", "check", "webhook", "record"}]
           /\ receipt' \in [Threads -> Nat]
           /\ seen' \in [Threads -> SUBSET RecordIds]
           /\ pc'[t] \in {"idle", "screen"}
           /\ pc'[t] # "idle" => batch'[t] # <<>>
           /\ \A r \in seen'[t] : \/ r \in seen[t] \/ already_executed(r)
                                  \/ status = "EXECUTED" /\ Current(t).record_id = r
           /\ \A u \in Threads : u # t =>
                 /\ pc'[u] = pc[u] /\ batch'[u] = batch[u] /\ receipt'[u] = receipt[u]
                 /\ seen'[u] = seen[u] /\ caller'[u] = caller[u]
<1>1. /\ Current(t) \in Submissions
      /\ Tail(batch[t]) \in Seq(Submissions)
      /\ Len(batch[t]) # 1 => Tail(batch[t]) # <<>>
  BY CurrentFacts
<1>2. log' = Append(log, Entry(t, status, reason, rcpt)) /\ UNCHANGED <<caller, served>>
  BY DEF Answer, Advance, Abort
<1>3. tail' \in {"whole", "open", "torn"} /\ (torn => torn')
  BY DEF Answer, Write, torn, TypeOK
<1>4. CASE /\ Advance(t)
           /\ seen' = [seen EXCEPT ![t] = ExecutedIds \cup IF status = "EXECUTED"
                                                            THEN {Current(t).record_id} ELSE {}]
  <2>1. /\ batch' \in [Threads -> Seq(Submissions)]
        /\ pc' \in [Threads -> {"idle", "screen", "check", "webhook", "record"}]
        /\ receipt' \in [Threads -> Nat]
        /\ pc'[t] \in {"idle", "screen"}
        /\ pc'[t] # "idle" => batch'[t] # <<>>
    BY <1>1, <1>4 DEF Advance, TypeOK
  <2>2. /\ seen' \in [Threads -> SUBSET RecordIds]
        /\ \A r \in seen'[t] : \/ r \in seen[t] \/ already_executed(r)
                               \/ status = "EXECUTED" /\ Current(t).record_id = r
    BY <1>1, <1>4 DEF TypeOK, ExecutedIds, RecordIds
  <2>3. \A u \in Threads : u # t =>
           /\ pc'[u] = pc[u] /\ batch'[u] = batch[u] /\ receipt'[u] = receipt[u]
           /\ seen'[u] = seen[u] /\ caller'[u] = caller[u]
    BY <1>4 DEF Advance, TypeOK
  <2> QED BY <1>2, <1>3, <2>1, <2>2, <2>3
<1>5. CASE Abort(t)
  <2>1. \A u \in Threads : u # t =>
           /\ pc'[u] = pc[u] /\ batch'[u] = batch[u] /\ receipt'[u] = receipt[u]
           /\ seen'[u] = seen[u] /\ caller'[u] = caller[u]
    BY <1>5 DEF Abort, TypeOK
  <2> QED BY <1>2, <1>3, <1>5, <2>1 DEF Abort, TypeOK
<1> QED BY <1>4, <1>5 DEF Answer

\* Logging an answer and moving on keeps all of the invariant but what
\* concerns receipts, whatever the answer.
LEMMA AnswerBasics ==
    ASSUME IInv, NEW t \in Threads, pc[t] # "idle",
           NEW status \in Statuses, NEW reason \in Reasons, NEW rcpt \in Nat,
           Answer(t, status, reason, rcpt), UNCHANGED <<authVars, ledger>>
    PROVE  /\ TypeOK' /\ GrantedByRegistry' /\ Screened'
           /\ SeenIsLogged' /\ SettledRecordsStaySettled' /\ AuthorizedExecution'
<1> USE DEF IInv
<1> DEFINE e == Entry(t, status, reason, rcpt)
<1>1. /\ e \in Entries /\ e.status = status /\ e.record_id = Current(t).record_id
      /\ log' = Append(log, e)
  <2>1. TypeOK /\ Screened
    OBVIOUS
  <2>2. log' = Append(log, e)
    BY <2>1, AnswerMoves, Zenon
  <2> QED BY <2>1, <2>2, EntryType
<1> HIDE DEF e
<1>2. UNCHANGED caller
  BY AnswerMoves
<1>3. /\ \A r : already_executed(r)' <=>
               already_executed(r) \/ (status = "EXECUTED" /\ Current(t).record_id = r)
  BY <1>1, AppendedLog DEF TypeOK
<1>4. TypeOK'
  <2>1. log' \in Seq(Entries)
    BY <1>1 DEF TypeOK
  <2>2. AuthTypeOK'
    BY DEF TypeOK, AuthTypeOK, authVars
  <2> QED
    BY <2>1, <2>2, AnswerMoves DEF TypeOK
<1>5. GrantedByRegistry' /\ AuthorizedExecution'
  BY <1>2 DEF GrantedByRegistry, AuthorizedExecution, authVars
<1>6. \A u \in Threads : u # t => /\ pc'[u] = pc[u] /\ batch'[u] = batch[u]
                                  /\ seen'[u] = seen[u] /\ caller'[u] = caller[u]
  BY AnswerMoves
<1>7. /\ pc'[t] \in {"idle", "screen"}
      /\ pc'[t] # "idle" => batch'[t] # <<>>
  BY AnswerMoves
<1>8. Screened' /\ SettledRecordsStaySettled'
  BY <1>6, <1>7 DEF Screened, SettledRecordsStaySettled, Current
<1>9. SeenIsLogged'
  <2> SUFFICES ASSUME NEW u \in Threads, NEW r \in seen'[u]
               PROVE  already_executed(r)'
    BY DEF SeenIsLogged
  <2>1. CASE u = t
    BY <1>3, <2>1, AnswerMoves DEF SeenIsLogged
  <2>2. CASE u # t
    BY <1>3, <1>6, <2>2 DEF SeenIsLogged
  <2> QED
    BY <2>1, <2>2
<1> QED
  BY <1>4, <1>5, <1>8, <1>9
\* An answer that is not EXECUTED leaves every receipt as it was.
LEMMA RejectIInv ==
    ASSUME IInv, NEW t \in Threads, pc[t] \in {"screen", "check"},
           NEW status \in Statuses \ {"EXECUTED"}, NEW reason \in Reasons,
           Answer(t, status, reason, 0), UNCHANGED <<authVars, ledger>>
    PROVE  IInv'
<1> USE DEF IInv
<1> DEFINE e == Entry(t, status, reason, 0)
<1>1. /\ e \in Entries /\ e.status # "EXECUTED"
      /\ log' = Append(log, e)
  BY EntryType DEF Answer
<1> HIDE DEF e
<1>2. /\ Len(log) \in Nat
      /\ Len(log') = Len(log) + 1
      /\ log'[Len(log) + 1] = e
      /\ \A i \in 1..Len(log) : log'[i] = log[i]
      /\ \A i : Logged(i)' <=> Logged(i)
  BY <1>1, AppendedLog DEF TypeOK
<1>3. EveryExecutedEntryIsBacked'
  <2>1. \A i \in 1..Len(log') : log'[i].status = "EXECUTED" =>
            i \in 1..Len(log) /\ log'[i] = log[i]
    BY <1>1, <1>2
  <2> QED
    BY <2>1 DEF EveryExecutedEntryIsBacked
<1>4. \A u \in Threads : pc'[u] = "record" =>
         /\ u # t /\ pc[u] = "record" /\ receipt'[u] = receipt[u]
         /\ batch'[u] = batch[u] /\ caller'[u] = caller[u]
  BY AnswerMoves
<1>5. ReceiptsInFlight'
  BY <1>2, <1>4 DEF ReceiptsInFlight, Current, CallerIdOf
<1> QED
  BY <1>3, <1>5, AnswerBasics

\* The entry of an executed decision takes over the receipt of its thread.
LEMMA LogExecutedIInv ==
    ASSUME IInv, NEW t \in Threads, LogExecuted(t)
    PROVE  IInv'
<1> USE DEF IInv
<1> DEFINE e == Entry(t, "EXECUTED", "none", receipt[t])
<1>1. /\ receipt[t] \in Nat
      /\ pc[t] = "record"
      /\ Answer(t, "EXECUTED", "none", receipt[t])
      /\ UNCHANGED <<authVars, ledger>>
  BY DEF LogExecuted, TypeOK
<1>2. /\ e \in Entries /\ e.status = "EXECUTED" /\ e.receipt = receipt[t]
      /\ e.record_id = Current(t).record_id /\ e.caller_id = CallerIdOf(t)
      /\ log' = Append(log, e)
  BY <1>1, EntryType DEF Answer, Statuses, Reasons
<1> HIDE DEF e
<1>3. /\ Len(log) \in Nat
      /\ Len(log') = Len(log) + 1
      /\ log'[Len(log) + 1] = e
      /\ \A i \in 1..Len(log) : log'[i] = log[i]
      /\ \A i : Logged(i)' <=> Logged(i) \/ i = receipt[t]
  BY <1>2, AppendedLog DEF TypeOK
<1>4. EveryExecutedEntryIsBacked'
  <2> SUFFICES ASSUME NEW i \in 1..Len(log'), log'[i].status = "EXECUTED"
               PROVE  /\ log'[i].receipt \in 1..Len(ledger)
                      /\ ledger[log'[i].receipt].record_id = log'[i].record_id
                      /\ ledger[log'[i].receipt].caller_id = log'[i].caller_id
                      /\ \A j \in 1..Len(log') :
                            /\ log'[j].status = "EXECUTED"
                            /\ log'[j].receipt = log'[i].receipt
                            => j = i
    BY <1>1 DEF EveryExecutedEntryIsBacked
  <2>1. \A j \in 1..Len(log') : j \in 1..Len(log) \/ j = Len(log) + 1
    BY <1>3
  <2>2. CASE i = Len(log) + 1
    <3>1. \A j \in 1..Len(log) : log[j].status = "EXECUTED" => log[j].receipt # receipt[t]
      BY <1>1 DEF ReceiptsInFlight, Logged
    <3> QED
      BY <1>1, <1>2, <1>3, <2>1, <2>2, <3>1 DEF ReceiptsInFlight
  <2>3. CASE i \in 1..Len(log)
    <3>1. log[i].receipt # receipt[t]
      BY <1>1, <1>3, <2>3 DEF ReceiptsInFlight, Logged
    <3> QED
      BY <1>2, <1>3, <2>1, <2>3, <3>1 DEF EveryExecutedEntryIsBacked
  <2> QED
    BY <2>1, <2>2, <2>3
<1>5. \A u \in Threads : pc'[u] = "record" =>
         /\ u # t /\ pc[u] = "record" /\ receipt'[u] = receipt[u]
         /\ batch'[u] = batch[u] /\ caller'[u] = caller[u]
  BY <1>1, AnswerMoves DEF Statuses, Reasons
<1>6. ReceiptsInFlight'
  BY <1>1, <1>3, <1>5 DEF ReceiptsInFlight, Current, CallerIdOf
<1> QED
  BY <1>1, <1>4, <1>6, AnswerBasics DEF Statuses, Reasons

\* What the processor performs for a thread that passed the checks.
LEMMA PerformFacts ==
    ASSUME IInv, NEW t \in Threads, pc[t] = "webhook", Perform(t),
           UNCHANGED authVars
    PROVE  /\ ledger' \in Seq(Actions)
           /\ Len(ledger) \in Nat
           /\ Len(ledger') = Len(ledger) + 1
           /\ \A i \in 1..Len(ledger) : ledger'[i] = ledger[i]
           /\ ledger'[Len(ledger) + 1].record_id = Current(t).record_id
           /\ ledger'[Len(ledger) + 1].caller_id = CallerIdOf(t)
           /\ AuthorizedExecution'
<1> USE DEF IInv
<1> DEFINE act == [record_id      |-> Current(t).record_id,
                   final_decision |-> Current(t).final_decision,
                   action         |-> ACTION_FOR_DECISION[Current(t).final_decision],
                   caller_id      |-> CallerIdOf(t)]
<1>1. /\ Current(t) \in Submissions
      /\ Current(t).signature = "valid"
      /\ Current(t).final_decision \in DecisionTypes
      /\ CallerIdOf(t) \in CallerIds
  BY CurrentFacts DEF Screened
<1>2. ACTION_FOR_DECISION[Current(t).final_decision] \in {"settle", "step_up_auth", "deny"}
  BY <1>1 DEF ACTION_FOR_DECISION, DecisionTypes
<1>3. act \in Actions
  BY <1>1, <1>2 DEF Actions, RecordIds, Decisions
<1>4. CallerIdOf(t) # NoCaller =>
        Current(t).final_decision \in registry[CallerIdOf(t)]
  BY DEF CallerIdOf, Screened, GrantedByRegistry
<1>5. /\ act.record_id = Current(t).record_id
      /\ act.final_decision = Current(t).final_decision
      /\ act.action = ACTION_FOR_DECISION[act.final_decision]
      /\ act.caller_id = CallerIdOf(t)
      /\ ledger' = Append(ledger, act)
  BY DEF Perform
<1> HIDE DEF act
<1>6. /\ ledger' \in Seq(Actions)
      /\ Len(ledger) \in Nat
      /\ Len(ledger') = Len(ledger) + 1
      /\ \A i \in 1..Len(ledger) : ledger'[i] = ledger[i]
      /\ ledger'[Len(ledger) + 1] = act
  BY <1>3, <1>5 DEF TypeOK
<1>7. AuthorizedExecution'
  <2> SUFFICES ASSUME NEW i \in 1..Len(ledger')
               PROVE  /\ \E s \in Submissions :
                             /\ s.signature = "valid"
                             /\ s.record_id = ledger'[i].record_id
                             /\ s.final_decision = ledger'[i].final_decision
                      /\ ledger'[i].action = ACTION_FOR_DECISION[ledger'[i].final_decision]
                      /\ ledger'[i].caller_id # NoCaller =>
                            ledger'[i].final_decision \in registry'[ledger'[i].caller_id]
    BY DEF AuthorizedExecution
  <2>1. registry' = registry
    BY DEF authVars
  <2>2. CASE i = Len(ledger) + 1
    BY <1>1, <1>4, <1>5, <1>6, <2>1, <2>2
  <2>3. CASE i \in 1..Len(ledger)
    BY <1>6, <2>1, <2>3 DEF AuthorizedExecution
  <2> QED
    BY <1>6, <2>2, <2>3
<1> QED
  BY <1>5, <1>6, <1>7
\* The webhook returns: the thread holds the receipt of a new action.
LEMMA WebhookReturnsIInv ==
    ASSUME IInv, NEW t \in Threads, WebhookReturns(t)
    PROVE  IInv'
<1> USE DEF IInv
<1>1. /\ pc[t] = "webhook" /\ Perform(t) /\ Goto(t, "record")
      /\ UNCHANGED authVars
      /\ receipt' = [receipt EXCEPT ![t] = Len(ledger) + 1]
  BY DEF WebhookReturns
<1>2. /\ ledger' \in Seq(Actions)
      /\ Len(ledger) \in Nat
      /\ Len(ledger') = Len(ledger) + 1
      /\ \A i \in 1..Len(ledger) : ledger'[i] = ledger[i]
      /\ ledger'[Len(ledger) + 1].record_id = Current(t).record_id
      /\ ledger'[Len(ledger) + 1].caller_id = CallerIdOf(t)
      /\ AuthorizedExecution'
  BY <1>1, PerformFacts
<1>3. /\ UNCHANGED <<log, tail, caller, batch, served, seen>>
      /\ pc' = [pc EXCEPT ![t] = "record"]
      /\ UNCHANGED <<now, registry, issued, changed_at>>
  BY <1>1 DEF Goto, authVars
<1>4. TypeOK'
  BY <1>1, <1>2, <1>3 DEF TypeOK, AuthTypeOK
<1>5. GrantedByRegistry' /\ SeenIsLogged'
  BY <1>3 DEF GrantedByRegistry, SeenIsLogged, already_executed
<1>6. Screened' /\ SettledRecordsStaySettled'
  BY <1>1, <1>3 DEF Screened, SettledRecordsStaySettled, Current, TypeOK
<1>7. EveryExecutedEntryIsBacked'
  BY <1>2, <1>3 DEF EveryExecutedEntryIsBacked
<1>8. ReceiptsInFlight'
  <2>1. \A i : Logged(i)' <=> Logged(i)
    BY <1>3 DEF Logged
  <2>2. ~Logged(Len(ledger) + 1)
    BY <1>2 DEF Logged, EveryExecutedEntryIsBacked
  <2>3. \A u \in Threads : u # t /\ pc'[u] = "record" =>
            pc[u] = "record" /\ receipt'[u] = receipt[u]
    BY <1>1, <1>3 DEF TypeOK
  <2>4. receipt'[t] = Len(ledger) + 1
    BY <1>1 DEF TypeOK
  <2>5. \A u \in Threads : /\ Current(u)' = Current(u)
                           /\ CallerIdOf(u)' = CallerIdOf(u)
    BY <1>3 DEF Current, CallerIdOf
  <2> QED
    BY <1>2, <2>1, <2>2, <2>3, <2>4, <2>5 DEF ReceiptsInFlight
<1> QED
  BY <1>2, <1>4, <1>5, <1>6, <1>7, <1>8

\* An aborted batch leaves the thread idle and the entries of the log as they
\* were; the ledger may have grown (WebhookRaises).
LEMMA AbortIInv ==
    ASSUME IInv, NEW t \in Threads,
           \/ AbortMalformed(t) \/ WebhookRaises(t)
           \/ RaiseUnreadable(t) \/ AppendRaises(t)
    PROVE  IInv'
<1> USE DEF IInv
<1>1. Abort(t) /\ UNCHANGED authVars /\ UNCHANGED log /\ tail' \in {"whole", "open", "torn"}
  BY DEF AbortMalformed, WebhookRaises, RaiseUnreadable, AppendRaises, TypeOK
<1>2. /\ ledger' \in Seq(Actions)
      /\ Len(ledger) \in Nat
      /\ Len(ledger') >= Len(ledger) /\ Len(ledger') \in Nat
      /\ \A i \in 1..Len(ledger) : ledger'[i] = ledger[i]
      /\ AuthorizedExecution'
  <2>1. CASE UNCHANGED ledger
    BY <1>1, <2>1 DEF TypeOK, AuthorizedExecution, authVars
  <2>2. CASE WebhookRaises(t) /\ Perform(t)
    BY <1>1, <2>2, PerformFacts DEF WebhookRaises
  <2> QED
    BY <2>1, <2>2 DEF AbortMalformed, WebhookRaises, RaiseUnreadable, AppendRaises
<1>3. /\ UNCHANGED <<log, caller, served, seen>>
      /\ UNCHANGED <<now, registry, issued, changed_at>>
      /\ pc' = [pc EXCEPT ![t] = "idle"]
      /\ batch' = [batch EXCEPT ![t] = <<>>]
      /\ receipt' = [receipt EXCEPT ![t] = 0]
  BY <1>1 DEF Abort, authVars
<1>4. TypeOK'
  BY <1>1, <1>2, <1>3 DEF TypeOK, AuthTypeOK
<1>5. GrantedByRegistry' /\ SeenIsLogged'
  BY <1>3 DEF GrantedByRegistry, SeenIsLogged, already_executed
<1>6. \A u \in Threads : pc'[u] # "idle" =>
         /\ u # t /\ pc'[u] = pc[u] /\ batch'[u] = batch[u]
         /\ receipt'[u] = receipt[u]
  BY <1>3 DEF TypeOK
<1>7. Screened' /\ SettledRecordsStaySettled'
  BY <1>3, <1>6 DEF Screened, SettledRecordsStaySettled, Current
<1>8. EveryExecutedEntryIsBacked'
  <2> SUFFICES ASSUME NEW i \in 1..Len(log), log[i].status = "EXECUTED"
               PROVE  /\ log[i].receipt \in 1..Len(ledger')
                      /\ ledger'[log[i].receipt] = ledger[log[i].receipt]
    BY <1>3 DEF EveryExecutedEntryIsBacked
  <2>1. log[i].receipt \in 1..Len(ledger)
    BY DEF EveryExecutedEntryIsBacked
  <2> QED
    BY <1>2, <2>1
<1>9. ReceiptsInFlight'
  <2>1. \A i : Logged(i)' <=> Logged(i)
    BY <1>3 DEF Logged
  <2>2. \A u \in Threads : pc'[u] # "idle" =>
            /\ Current(u)' = Current(u)
            /\ CallerIdOf(u)' = CallerIdOf(u)
    BY <1>3, <1>6 DEF Current, CallerIdOf
  <2> QED
    BY <1>2, <1>6, <2>1, <2>2 DEF ReceiptsInFlight
<1> QED
  BY <1>2, <1>4, <1>5, <1>7, <1>8, <1>9

\* Passing a check: what was checked is what the next label relies on.
LEMMA PassIInv ==
    ASSUME IInv, NEW t \in Threads, PassScreening(t) \/ PassCheck(t)
    PROVE  IInv'
<1> USE DEF IInv
<1>1. PICK label \in {"check", "webhook"} :
         /\ pc' = [pc EXCEPT ![t] = label]
         /\ pc[t] = IF label = "check" THEN "screen" ELSE "check"
         /\ label = "check" => Current(t).signature = "valid" /\ Permitted(t)
         /\ label = "webhook" => /\ ~already_executed(Current(t).record_id)
                                 /\ Current(t).final_decision \in DecisionTypes
         /\ UNCHANGED <<log, tail, ledger, caller, batch, receipt, seen, served>>
         /\ UNCHANGED <<now, registry, issued, changed_at>>
  BY DEF PassScreening, PassCheck, Goto, authVars
<1>2. TypeOK'
  BY <1>1 DEF TypeOK, AuthTypeOK
<1>3. /\ GrantedByRegistry' /\ SeenIsLogged' /\ AuthorizedExecution'
      /\ EveryExecutedEntryIsBacked'
  BY <1>1 DEF GrantedByRegistry, SeenIsLogged, already_executed,
              AuthorizedExecution, EveryExecutedEntryIsBacked
<1>4. \A u \in Threads : u # t => pc'[u] = pc[u]
  BY <1>1 DEF TypeOK
<1>5. pc'[t] = label
  BY <1>1 DEF TypeOK
<1>6. \A u \in Threads : Current(u)' = Current(u) /\ CallerIdOf(u)' = CallerIdOf(u)
  BY <1>1 DEF Current, CallerIdOf
<1>7. Screened'
  BY <1>1, <1>4, <1>5, <1>6 DEF Screened, Permitted, can_execute
<1>8. SettledRecordsStaySettled'
  BY <1>1, <1>4, <1>5, <1>6 DEF SettledRecordsStaySettled, SeenIsLogged
<1>9. ReceiptsInFlight'
  BY <1>1, <1>4, <1>5, <1>6 DEF ReceiptsInFlight, Logged
<1> QED
  BY <1>2, <1>3, <1>7, <1>8, <1>9

\* A thread that begins a request has checked nothing and holds no receipt.
LEMMA StartIInv ==
    ASSUME IInv, NEW t \in Threads, StartRequest(t) \/ StartLibraryCall(t)
    PROVE  IInv'
<1> USE DEF IInv
<1>1. PICK c \in issued \cup {NoCaller}, b \in Seq(Submissions) \ {<<>>} :
         /\ caller' = [caller EXCEPT ![t] = c]
         /\ batch' = [batch EXCEPT ![t] = b]
         /\ pc' = [pc EXCEPT ![t] = "screen"]
         /\ seen' = [seen EXCEPT ![t] = ExecutedIds]
         /\ served' = served + 1
         /\ UNCHANGED <<log, tail, ledger, receipt, now, registry, issued, changed_at>>
  <2>1. CASE StartRequest(t)
    BY <2>1, ExecutorAssumption DEF StartRequest, authVars
  <2>2. CASE StartLibraryCall(t)
    <3>1. PICK s \in Submissions : batch' = [batch EXCEPT ![t] = <<s>>]
      BY <2>2 DEF StartLibraryCall
    <3>2. <<s>> \in Seq(Submissions) \ {<<>>}
      OBVIOUS
    <3> QED
      BY <2>2, <3>1, <3>2 DEF StartLibraryCall, authVars
  <2> QED
    BY <2>1, <2>2
<1>2. TypeOK'
  <2>1. c \in CallerIdentity \cup {NoCaller}
    BY DEF TypeOK, AuthTypeOK
  <2>2. ExecutedIds \in SUBSET RecordIds
    BY DEF ExecutedIds
  <2> QED
    BY <1>1, <2>1, <2>2 DEF TypeOK, AuthTypeOK
<1>3. AuthorizedExecution' /\ EveryExecutedEntryIsBacked'
  BY <1>1 DEF AuthorizedExecution, EveryExecutedEntryIsBacked
<1>4. GrantedByRegistry'
  BY <1>1 DEF GrantedByRegistry, TypeOK
<1>5. SeenIsLogged'
  BY <1>1 DEF SeenIsLogged, ExecutedIds, already_executed, TypeOK
<1>6. /\ pc'[t] = "screen" /\ batch'[t] # <<>>
      /\ \A u \in Threads : u # t =>
            /\ pc'[u] = pc[u] /\ batch'[u] = batch[u] /\ caller'[u] = caller[u]
            /\ seen'[u] = seen[u] /\ receipt'[u] = receipt[u]
  BY <1>1 DEF TypeOK
<1>7. Screened' /\ SettledRecordsStaySettled'
  BY <1>6 DEF Screened, SettledRecordsStaySettled, Current
<1>8. ReceiptsInFlight'
  BY <1>1, <1>6 DEF ReceiptsInFlight, Logged, Current, CallerIdOf
<1> QED
  BY <1>2, <1>3, <1>4, <1>5, <1>7, <1>8

\* A crash forgets the requests in flight and nothing else.
LEMMA CrashIInv == ASSUME IInv, Crash PROVE IInv'
<1> USE DEF IInv, Crash
<1>1. \A t \in Threads : pc'[t] = "idle"
  OBVIOUS
<1>2. TypeOK'
  BY DEF TypeOK, AuthTypeOK, authVars
<1>3. /\ GrantedByRegistry' /\ SeenIsLogged' /\ AuthorizedExecution'
      /\ EveryExecutedEntryIsBacked'
  BY DEF GrantedByRegistry, SeenIsLogged, already_executed, authVars,
         AuthorizedExecution, EveryExecutedEntryIsBacked
<1>4. Screened' /\ SettledRecordsStaySettled' /\ ReceiptsInFlight'
  BY <1>1 DEF Screened, SettledRecordsStaySettled, ReceiptsInFlight
<1> QED
  BY <1>2, <1>3, <1>4

\* Time passes or a token is issued.
LEMMA AuthIInv == ASSUME IInv, Auth PROVE IInv'
<1> USE DEF IInv
<1>1. /\ UNCHANGED <<log, tail, ledger, pc, caller, batch, receipt, seen, served>>
      /\ UNCHANGED <<registry, changed_at>>
      /\ now' \in Nat
      /\ issued' = issued \/ \E c \in DOMAIN registry \cap Callers :
                               issued' = issued \cup {NewToken(c)}
  BY DEF Auth, Tick, CreateToken, execVars, TypeOK, AuthTypeOK
<1>2. \A c \in DOMAIN registry \cap Callers :
         /\ NewToken(c) \in CallerIdentity
         /\ NewToken(c).permissions = registry[NewToken(c).caller_id]
  BY CallerAuthAssumption
  DEF NewToken, CallerIdentity, TypeOK, AuthTypeOK, Registries
<1>3. TypeOK'
  BY <1>1, <1>2 DEF TypeOK, AuthTypeOK
<1>4. GrantedByRegistry'
  BY <1>1, <1>2 DEF GrantedByRegistry
<1>5. /\ SeenIsLogged' /\ AuthorizedExecution' /\ EveryExecutedEntryIsBacked'
      /\ Screened' /\ SettledRecordsStaySettled' /\ ReceiptsInFlight'
  BY <1>1 DEF SeenIsLogged, already_executed, AuthorizedExecution,
              EveryExecutedEntryIsBacked, Screened, SettledRecordsStaySettled,
              ReceiptsInFlight, Logged, Current, CallerIdOf
<1> QED
  BY <1>3, <1>4, <1>5

\* The log, the ledger and the threads start empty.
LEMMA InitIInv == Init => IInv
<1> SUFFICES ASSUME Init PROVE IInv
  OBVIOUS
<1>1. TypeOK
  BY CallerAuthAssumption DEF Init, AuthInit, TypeOK, AuthTypeOK
<1> QED
  BY <1>1 DEF Init, AuthInit, IInv, GrantedByRegistry, Screened, SeenIsLogged,
              SettledRecordsStaySettled, AuthorizedExecution,
              EveryExecutedEntryIsBacked, ReceiptsInFlight

\* Every step keeps the invariant.
LEMMA NextIInv == IInv /\ [Next]_vars => IInv'
<1> SUFFICES ASSUME IInv, [Next]_vars PROVE IInv'
  OBVIOUS
<1>1. ASSUME NEW t \in Threads, Step(t) PROVE IInv'
  <2>1. CASE RejectMissingId(t) \/ RejectSignature(t) \/ RejectCaller(t)
             \/ RejectUnknownDecision(t) \/ AnswerAlreadyExecuted(t)
    <3>1. PICK status \in Statuses \ {"EXECUTED"}, reason \in Reasons :
             /\ pc[t] \in {"screen", "check"}
             /\ Answer(t, status, reason, 0)
             /\ UNCHANGED <<authVars, ledger>>
      BY <2>1 DEF RejectMissingId, RejectSignature, RejectCaller,
                  RejectUnknownDecision, AnswerAlreadyExecuted, Statuses, Reasons
    <3> QED
      BY <3>1, RejectIInv
  <2>2. CASE \/ AbortMalformed(t) \/ WebhookRaises(t)
             \/ RaiseUnreadable(t) \/ AppendRaises(t)
    BY <2>2, AbortIInv
  <2>3. CASE PassScreening(t) \/ PassCheck(t)
    BY <2>3, PassIInv
  <2>4. CASE WebhookReturns(t)
    BY <2>4, WebhookReturnsIInv
  <2>5. CASE LogExecuted(t)
    BY <2>5, LogExecutedIInv
  <2> QED
    BY <1>1, <2>1, <2>2, <2>3, <2>4, <2>5 DEF Step
<1>2. ASSUME NEW t \in Threads, StartRequest(t) \/ StartLibraryCall(t) PROVE IInv'
  BY <1>2, StartIInv
<1>3. CASE Crash
  BY <1>3, CrashIInv
<1>4. CASE Auth
  BY <1>4, AuthIInv
<1>5. CASE UNCHANGED vars
  BY <1>5 DEF vars, authVars, execVars, IInv, TypeOK, AuthTypeOK,
              GrantedByRegistry, SeenIsLogged, already_executed,
              AuthorizedExecution, EveryExecutedEntryIsBacked, Screened,
              SettledRecordsStaySettled, ReceiptsInFlight, Logged, Current, CallerIdOf
<1> QED
  BY <1>1, <1>2, <1>3, <1>4, <1>5 DEF Next, Wait

\* The inductive invariant of the execution gate.
THEOREM Invariant == Spec => []IInv
  BY InitIInv, NextIInv, PTL DEF Spec

\* Every variable keeps its type.
THEOREM TypeCorrect == Spec => []TypeOK
  BY Invariant, PTL DEF IInv

\* Whatever threads, faults and batches there are, the processor performs only
\* signed decisions, as signed, for callers registered to execute them.
THEOREM OnlyAuthorized == Spec => []AuthorizedExecution
  BY Invariant, PTL DEF IInv

\* A decision taken up after its record was logged EXECUTED never reaches the
\* webhook again.
THEOREM SettledStays == Spec => []SettledRecordsStaySettled
  BY Invariant, PTL DEF IInv

\* Each EXECUTED entry has an action of its own behind it.
THEOREM ExecutedIsBacked == Spec => []EveryExecutedEntryIsBacked
  BY Invariant, PTL DEF IInv

\* All actions on one record are the same action: follows from what the
\* authority signs (one body per record id).
THEOREM OneAction == Spec => []OneActionPerRecord
<1>1. IInv => OneActionPerRecord
  BY ExecutorAssumption DEF IInv, AuthorizedExecution, OneActionPerRecord
<1> QED
  BY <1>1, Invariant, PTL

-----------------------------------------------------------------------------
SingleFaultless ==
    /\ \A t, u \in Threads : t = u
    /\ ~CrashAllowed
    /\ "raise_after" \notin WebhookOutcomes
    /\ "lost" \notin AppendFaults

\* With nobody else logging, what already_executed said still holds when the
\* webhook is called and when its outcome is logged: the log is readable, the
\* record is not in it, and the action in flight is the latest.
CheckStillHolds ==
    \A t \in Threads :
        /\ pc[t] \in {"webhook", "record"} =>
              ~torn /\ ~already_executed(Current(t).record_id)
        /\ pc[t] = "record" => receipt[t] = Len(ledger)

OnceInv == IInv /\ CheckStillHolds /\ EveryActionLogged /\ AtMostOnce

\* A thread about to call the webhook acts on a record nothing was done for.
LEMMA WebhookIsFirst ==
    ASSUME SingleFaultless, OnceInv, NEW t \in Threads, pc[t] = "webhook"
    PROVE  ~Performed(Current(t).record_id)
<1> SUFFICES ASSUME NEW i \in 1..Len(ledger),
                    ledger[i].record_id = Current(t).record_id
             PROVE  FALSE
  BY DEF Performed
<1>1. Logged(i)
  BY DEF OnceInv, EveryActionLogged, CheckStillHolds, SingleFaultless
<1>2. already_executed(Current(t).record_id)
  BY <1>1 DEF Logged, already_executed, OnceInv, IInv, EveryExecutedEntryIsBacked
<1> QED
  BY <1>2 DEF OnceInv, CheckStillHolds

\* Steps that neither call the webhook nor log an execution, begin no webhook
\* call without a check, and tear the log only when they end the request.
LEMMA QuietStep ==
    ASSUME SingleFaultless, OnceInv, IInv', UNCHANGED ledger, NEW t \in Threads,
           pc[t] # "record",
           \A r : already_executed(r)' <=> already_executed(r),
           \A i : Logged(i)' <=> Logged(i),
           torn => torn',
           pc'[t] # "record",
           pc'[t] = "webhook" => /\ ~already_executed(Current(t).record_id)'
                                 /\ Current(t)' = Current(t)
                                 /\ ~torn'
    PROVE  OnceInv'
<1>1. CheckStillHolds'
  BY DEF CheckStillHolds, SingleFaultless
<1>2. EveryActionLogged'
  BY DEF OnceInv, EveryActionLogged, SingleFaultless
<1>3. AtMostOnce'
  BY DEF OnceInv, AtMostOnce
<1> QED
  BY <1>1, <1>2, <1>3 DEF OnceInv

\* The webhook returns: one more action, on a record without one.
LEMMA ReturnsOnce ==
    ASSUME SingleFaultless, OnceInv, IInv', NEW t \in Threads, WebhookReturns(t)
    PROVE  OnceInv'
<1>1. /\ pc[t] = "webhook"
      /\ Len(ledger) \in Nat
      /\ Len(ledger') = Len(ledger) + 1
      /\ \A i \in 1..Len(ledger) : ledger'[i] = ledger[i]
      /\ ledger'[Len(ledger) + 1].record_id = Current(t).record_id
  BY PerformFacts DEF WebhookReturns, OnceInv
<1>2. /\ pc'[t] = "record" /\ receipt'[t] = Len(ledger) + 1
      /\ UNCHANGED <<log, tail, batch>>
  BY DEF WebhookReturns, Goto, OnceInv, IInv, TypeOK
<1>3. CheckStillHolds'
  BY <1>1, <1>2
  DEF OnceInv, CheckStillHolds, SingleFaultless, Current, already_executed, torn
<1>4. EveryActionLogged'
  <2>1. \A i \in 1..Len(ledger) : Logged(i)'
    BY <1>1, <1>2
    DEF OnceInv, EveryActionLogged, CheckStillHolds, SingleFaultless, Logged
  <2> QED
    BY <1>1, <1>2, <2>1 DEF EveryActionLogged
<1>5. AtMostOnce'
  <2>1. \A i \in 1..Len(ledger) : ledger[i].record_id # Current(t).record_id
    BY <1>1, WebhookIsFirst DEF Performed
  <2> QED
    BY <1>1, <2>1 DEF OnceInv, AtMostOnce
<1> QED
  BY <1>3, <1>4, <1>5 DEF OnceInv

\* The outcome is logged: the action in flight becomes a logged one.
LEMMA LogsOnce ==
    ASSUME SingleFaultless, OnceInv, IInv', NEW t \in Threads, LogExecuted(t)
    PROVE  OnceInv'
<1>1. /\ pc[t] = "record" /\ UNCHANGED ledger
      /\ Answer(t, "EXECUTED", "none", receipt[t])
  BY DEF LogExecuted
<1>2. /\ receipt[t] \in Nat
      /\ Entry(t, "EXECUTED", "none", receipt[t]) \in Entries
      /\ Entry(t, "EXECUTED", "none", receipt[t]).status = "EXECUTED"
      /\ Entry(t, "EXECUTED", "none", receipt[t]).receipt = receipt[t]
  <2>1. TypeOK /\ Screened /\ receipt[t] \in Nat
    BY DEF OnceInv, IInv, TypeOK
  <2>2. "EXECUTED" \in Statuses /\ "none" \in Reasons
    BY DEF Statuses, Reasons
  <2> QED
    BY <1>1, <2>1, <2>2, EntryType
<1>3. \A i : Logged(i)' <=> Logged(i) \/ i = receipt[t]
  BY <1>1, <1>2, AppendedLog DEF Answer, OnceInv, IInv, TypeOK
<1>4. pc'[t] \in {"idle", "screen"}
  BY <1>1, <1>2, AnswerMoves DEF OnceInv, IInv, Statuses, Reasons
<1>5. CheckStillHolds'
  BY <1>4 DEF CheckStillHolds, SingleFaultless
<1>6. EveryActionLogged'
  BY <1>1, <1>3 DEF OnceInv, EveryActionLogged, CheckStillHolds, SingleFaultless
<1> QED
  BY <1>1, <1>5, <1>6 DEF OnceInv, AtMostOnce

\* An answer other than EXECUTED, an abort before the processor acted, and a
\* request that begins are quiet steps, and so is passing a check.
LEMMA OtherStepsOnce ==
    ASSUME SingleFaultless, OnceInv, IInv', NEW t \in Threads,
           Step(t) \/ StartRequest(t) \/ StartLibraryCall(t),
           ~WebhookReturns(t), ~LogExecuted(t)
    PROVE  OnceInv'
<1> USE DEF OnceInv, IInv
<1>1. CASE \/ RejectMissingId(t) \/ RejectSignature(t) \/ RejectCaller(t)
           \/ RejectUnknownDecision(t) \/ AnswerAlreadyExecuted(t)
  <2>1. PICK status \in Statuses \ {"EXECUTED"}, reason \in Reasons :
           /\ pc[t] \in {"screen", "check"}
           /\ Answer(t, status, reason, 0)
           /\ UNCHANGED ledger
    BY <1>1 DEF RejectMissingId, RejectSignature, RejectCaller,
                RejectUnknownDecision, AnswerAlreadyExecuted, Statuses, Reasons
  <2>2. /\ Entry(t, status, reason, 0) \in Entries
        /\ Entry(t, status, reason, 0).status # "EXECUTED"
    BY <2>1, EntryType
  <2>3. /\ \A r : already_executed(r)' <=> already_executed(r)
        /\ \A i : Logged(i)' <=> Logged(i)
    BY <2>1, <2>2, AppendedLog DEF Answer, TypeOK
  <2>4. pc'[t] \in {"idle", "screen"} /\ (torn => torn')
    BY <2>1, AnswerMoves
  <2> QED
    BY <2>1, <2>3, <2>4, QuietStep
<1>2. CASE \/ AbortMalformed(t) \/ WebhookRaises(t) \/ RaiseUnreadable(t)
           \/ AppendRaises(t) /\ pc[t] # "record"
  <2>1. /\ pc[t] # "record" /\ pc'[t] = "idle" /\ UNCHANGED <<log, ledger>>
        /\ torn => torn'
    BY <1>2 DEF AbortMalformed, WebhookRaises, RaiseUnreadable, AppendRaises,
                Abort, SingleFaultless, TypeOK, torn
  <2> QED
    BY <2>1, QuietStep DEF already_executed, Logged
<1>6. CASE AppendRaises(t) /\ pc[t] = "record"
  <2>1. /\ pc'[t] = "idle" /\ UNCHANGED <<log, ledger>> /\ torn'
    BY <1>6 DEF AppendRaises, Abort, SingleFaultless, TypeOK, torn
  <2>2. CheckStillHolds'
    BY <2>1 DEF CheckStillHolds, SingleFaultless
  <2>3. EveryActionLogged'
    BY <1>6, <2>1
    DEF EveryActionLogged, CheckStillHolds, SingleFaultless, Logged
  <2> QED
    BY <2>1, <2>2, <2>3 DEF AtMostOnce
<1>3. CASE PassScreening(t)
  <2>1. /\ pc[t] # "record" /\ pc'[t] = "check" /\ UNCHANGED <<log, tail, ledger>>
    BY <1>3 DEF PassScreening, Goto, TypeOK
  <2> QED
    BY <2>1, QuietStep DEF already_executed, Logged, torn
<1>4. CASE PassCheck(t)
  <2>1. /\ pc[t] # "record" /\ pc'[t] = "webhook"
        /\ UNCHANGED <<log, tail, ledger, batch>>
        /\ ~already_executed(Current(t).record_id) /\ ~torn
    BY <1>4 DEF PassCheck, Goto, TypeOK
  <2> QED
    BY <2>1, QuietStep DEF already_executed, Logged, Current, torn
<1>5. CASE StartRequest(t) \/ StartLibraryCall(t)
  <2>1. /\ pc[t] # "record" /\ pc'[t] = "screen" /\ UNCHANGED <<log, tail, ledger>>
    BY <1>5 DEF StartRequest, StartLibraryCall, TypeOK
  <2> QED
    BY <2>1, QuietStep DEF already_executed, Logged, torn
<1> QED
  BY <1>1, <1>2, <1>3, <1>4, <1>5, <1>6 DEF Step

\* Steps outside of the threads change nothing OnceInv speaks of.
LEMMA IdleStepsOnce ==
    ASSUME OnceInv, IInv', UNCHANGED execVars
    PROVE  OnceInv'
  BY DEF OnceInv, execVars, CheckStillHolds, EveryActionLogged, AtMostOnce,
         Logged, already_executed, Current, torn

\* The stronger invariant of the single faultless worker.
LEMMA OnceInvariant ==
    ASSUME SingleFaultless
    PROVE  Spec => []OnceInv
<1>1. Init => OnceInv
  BY InitIInv DEF OnceInv, Init, CheckStillHolds, EveryActionLogged, AtMostOnce
<1>2. OnceInv /\ [Next]_vars => OnceInv'
  <2> SUFFICES ASSUME OnceInv, [Next]_vars PROVE OnceInv'
    OBVIOUS
  <2>1. IInv'
    BY NextIInv DEF OnceInv
  <2>2. ASSUME NEW t \in Threads, StartRequest(t) \/ StartLibraryCall(t) \/ Step(t)
        PROVE  OnceInv'
    <3>1. CASE WebhookReturns(t)
      BY <2>1, <3>1, ReturnsOnce, SingleFaultless
    <3>2. CASE LogExecuted(t)
      BY <2>1, <3>2, LogsOnce, SingleFaultless
    <3>3. CASE ~WebhookReturns(t) /\ ~LogExecuted(t)
      BY <2>1, <2>2, <3>3, OtherStepsOnce, SingleFaultless
    <3> QED
      BY <3>1, <3>2, <3>3
  <2>3. CASE Crash
    BY <2>3, SingleFaultless DEF Crash, SingleFaultless
  <2>4. CASE Auth \/ UNCHANGED vars
    BY <2>1, <2>4, IdleStepsOnce DEF Auth, vars
  <2> QED
    BY <2>2, <2>3, <2>4 DEF Next, Wait
<1> QED
  BY <1>1, <1>2, PTL DEF Spec

\* "Never execute the same signed decision twice" (enforce_decision), for one
\* thread without crashes, lost responses and lost appends.
THEOREM SequentialAtMostOnce ==
    ASSUME SingleFaultless
    PROVE  Spec => []AtMostOnce
<1>1. Spec => []OnceInv
  BY OnceInvariant, SingleFaultless
<1> QED
  BY <1>1, PTL DEF OnceInv

\* "Log every execution attempt": so does the one worker for every action.
THEOREM SequentialLogsAll ==
    ASSUME SingleFaultless
    PROVE  Spec => []EveryActionLogged
<1>1. Spec => []OnceInv
  BY OnceInvariant, SingleFaultless
<1> QED
  BY <1>1, PTL DEF OnceInv
-----------------------------------------------------------------------------
\* The refinement.  Calling the webhook is the abstract Perform.
LEMMA PerformedMap ==
    ASSUME SingleFaultless, OnceInv, NEW t \in Threads, WebhookReturns(t),
           NEW r \in RecordIds, r = Current(t).record_id
    PROVE  Once!Perform(r)
<1>1. /\ pc[t] = "webhook" /\ UNCHANGED log
      /\ Perform(t) /\ UNCHANGED authVars
  BY DEF WebhookReturns, Goto
<1>2. PICK act : ledger' = Append(ledger, act) /\ act.record_id = r
  BY <1>1 DEF Perform
<1>3. act \in Actions
  <2>1. /\ ledger' \in Seq(Actions) /\ Len(ledger') = Len(ledger) + 1
        /\ Len(ledger) \in Nat
    BY <1>1, PerformFacts DEF OnceInv
  <2>2. ledger'[Len(ledger) + 1] = act
    BY <1>2 DEF OnceInv, IInv, TypeOK
  <2> QED
    BY <2>1, <2>2
<1>4. ~Once!Performed(r)
  BY <1>1, WebhookIsFirst DEF Once!Performed, Performed
<1>5. UNCHANGED ExecutedIds
  BY <1>1 DEF ExecutedIds, already_executed
<1> QED
  BY <1>2, <1>3, <1>4, <1>5 DEF Once!Perform

\* Logging EXECUTED is the abstract Record.
LEMMA ExecutedMap ==
    ASSUME SingleFaultless, OnceInv, NEW t \in Threads, LogExecuted(t),
           NEW r \in RecordIds, r = Current(t).record_id
    PROVE  Once!Record(r)
<1>1. /\ pc[t] = "record" /\ UNCHANGED ledger
      /\ Answer(t, "EXECUTED", "none", receipt[t])
  BY DEF LogExecuted
<1>2. TypeOK /\ Screened /\ receipt[t] \in Nat
  BY DEF OnceInv, IInv, TypeOK
<1>3. /\ Entry(t, "EXECUTED", "none", receipt[t]) \in Entries
      /\ Entry(t, "EXECUTED", "none", receipt[t]).status = "EXECUTED"
      /\ Entry(t, "EXECUTED", "none", receipt[t]).record_id = r
  <2>1. "EXECUTED" \in Statuses /\ "none" \in Reasons
    BY DEF Statuses, Reasons
  <2> QED
    BY <1>1, <1>2, <2>1, EntryType
<1>4. \A x : already_executed(x)' <=> already_executed(x) \/ x = r
  BY <1>1, <1>2, <1>3, AppendedLog DEF Answer, TypeOK
<1>5. ExecutedIds' = ExecutedIds \cup {r}
  BY <1>4 DEF ExecutedIds
<1>6. r \notin ExecutedIds
  BY <1>1 DEF ExecutedIds, OnceInv, CheckStillHolds
<1>7. Once!Performed(r)
  BY <1>1 DEF OnceInv, IInv, ReceiptsInFlight, Once!Performed
<1> QED
  BY <1>1, <1>5, <1>6, <1>7 DEF Once!Record

\* Every other step of the gate is a stutter of ExecuteOnce.
LEMMA OtherMap ==
    ASSUME SingleFaultless, OnceInv, [Next]_vars,
           \A t \in Threads : ~WebhookReturns(t) /\ ~LogExecuted(t)
    PROVE  UNCHANGED Once!onceVars
<1>1. UNCHANGED ledger /\ UNCHANGED ExecutedIds
  <2>1. ASSUME NEW t \in Threads,
               \/ RejectMissingId(t) \/ RejectSignature(t) \/ RejectCaller(t)
               \/ RejectUnknownDecision(t) \/ AnswerAlreadyExecuted(t)
        PROVE  UNCHANGED ledger /\ UNCHANGED ExecutedIds
    <3>1. PICK status \in Statuses \ {"EXECUTED"}, reason \in Reasons :
             /\ pc[t] \in {"screen", "check"}
             /\ Answer(t, status, reason, 0)
             /\ UNCHANGED ledger
      BY <2>1 DEF RejectMissingId, RejectSignature, RejectCaller,
                  RejectUnknownDecision, AnswerAlreadyExecuted, Statuses, Reasons
    <3>2. TypeOK /\ Screened
      BY DEF OnceInv, IInv
    <3>3. /\ Entry(t, status, reason, 0) \in Entries
          /\ Entry(t, status, reason, 0).status # "EXECUTED"
      BY <3>1, <3>2, EntryType
    <3>4. \A r : already_executed(r)' <=> already_executed(r)
      BY <3>1, <3>2, <3>3, AppendedLog DEF Answer, TypeOK
    <3> QED
      BY <3>1, <3>4 DEF ExecutedIds
  <2>2. ASSUME UNCHANGED <<log, ledger>>
        PROVE  UNCHANGED ledger /\ UNCHANGED ExecutedIds
    BY <2>2 DEF ExecutedIds, already_executed
  <2>3. ASSUME NEW t \in Threads, StartRequest(t) \/ StartLibraryCall(t) \/ Step(t)
        PROVE  UNCHANGED ledger /\ UNCHANGED ExecutedIds
    BY <2>1, <2>2, <2>3 DEF Step, StartRequest, StartLibraryCall, AbortMalformed,
       WebhookRaises, RaiseUnreadable, AppendRaises, Abort, PassScreening,
       PassCheck, Goto, SingleFaultless
  <2>4. CASE Crash \/ Auth \/ UNCHANGED vars
    BY <2>2, <2>4 DEF Crash, Auth, vars, execVars
  <2> QED
    BY <2>3, <2>4 DEF Next, Wait
<1> QED
  BY <1>1 DEF Once!onceVars

\* The single faultless worker implements ExecuteOnce.
THEOREM Refinement ==
    ASSUME SingleFaultless
    PROVE  Spec => ExecutesOnce
<1>1. Init => Once!Init
  BY DEF Init, Once!Init, ExecutedIds, already_executed
<1>2. OnceInv /\ [Next]_vars => [Once!Next]_(Once!onceVars)
  <2> SUFFICES ASSUME OnceInv, [Next]_vars
               PROVE  [Once!Next]_(Once!onceVars)
    OBVIOUS
  <2>1. ASSUME NEW t \in Threads, WebhookReturns(t) \/ LogExecuted(t)
        PROVE  Once!Next
    <3>1. PICK r \in RecordIds : r = Current(t).record_id
      BY <2>1, CurrentFacts
      DEF WebhookReturns, LogExecuted, OnceInv, IInv, RecordIds
    <3>2. Once!Perform(r) \/ Once!Record(r)
      BY <2>1, <3>1, PerformedMap, ExecutedMap, SingleFaultless
    <3> QED
      BY <3>1, <3>2 DEF Once!Next
  <2>2. CASE \A t \in Threads : ~WebhookReturns(t) /\ ~LogExecuted(t)
    BY <2>2, OtherMap, SingleFaultless
  <2> QED
    BY <2>1, <2>2
<1>3. Spec => []OnceInv
  BY OnceInvariant, SingleFaultless
<1> QED
  BY <1>1, <1>2, <1>3, PTL DEF Spec, ExecutesOnce, Once!Spec
=============================================================================
