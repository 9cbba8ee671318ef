------------------------------ MODULE Pipeline ------------------------------
(***************************************************************************)
(* One run of the pipeline: main in pipeline/src/run_pipeline.py, with     *)
(* decision_for_score (detect/src/detector.py), the mandates, the policy   *)
(* and the counts of decision_log.summarize and dashboard_builder.build.   *)
(*                                                                         *)
(* The detector is trained on some of the transactions and the rest, the   *)
(* test set, is walked in an order train_test_split shuffles: any subset,  *)
(* in any order.  A score is what the model says, in percent: any number.  *)
(***************************************************************************)
EXTENDS Mandate

CONSTANTS
    GoodTransactions,   \* good_transactions.json
    FraudTransactions,  \* fraud_transactions.json
    Scores,             \* the scores the model may give
    Decide,             \* decide: detect decision and violated rules to decision
    RegisteredCallers,  \* the keys of AUTHENTICATOR._registry
    CallerArguments,    \* values of --caller-id, NoCallerId when it is absent
    NoCallerId

DetectDecisions == {"ALLOW", "FLAG", "BLOCK"}
AllTransactions == GoodTransactions \cup FraudTransactions
Customers == {t.customer_id : t \in AllTransactions}

ASSUME PipelineAssumption ==
    /\ \A t \in AllTransactions : t.amount \in Nat /\ t.hour_of_day \in 0..23
    /\ \A t, u \in AllTransactions : t.id = u.id => t = u
    /\ GoodTransactions \cap FraudTransactions = {}
    /\ IsFiniteSet(GoodTransactions)
    /\ Scores \subseteq 0..100
    /\ Decide \in [DetectDecisions \X SUBSET RuleNames -> DetectDecisions]

VARIABLES
    stage,           \* where main stands
    caller_id,       \* whom the run is signed for
    month_to_date,   \* spent by each customer in this run
    tx_count_today,  \* transactions of each customer in this run
    entries,         \* the signed decisions, in order
    summary          \* what summarize and the dashboard count

vars == <<stage, caller_id, month_to_date, tx_count_today, entries, summary>>

Entry == [tx : AllTransactions, detect_decision : DetectDecisions,
          violated_rules : SUBSET RuleNames, final_decision : DetectDecisions,
          caller_id : RegisteredCallers \cup {NoCallerId}]

NoSummary == [total |-> 0, BLOCK |-> 0, FLAG |-> 0, ALLOW |-> 0,
              both |-> 0, detect_only |-> 0, mandate_only |-> 0]

TypeOK ==
    /\ stage \in {"start", "walk", "done", "refused"}
    /\ caller_id \in CallerArguments
    /\ month_to_date \in [Customers -> Nat]
    /\ tx_count_today \in [Customers -> Nat]
    /\ entries \in Seq(Entry)
    /\ summary \in [DOMAIN NoSummary -> Nat]

Init ==
    /\ stage = "start"
    /\ caller_id \in CallerArguments
    /\ month_to_date = [c \in Customers |-> 0]
    /\ tx_count_today = [c \in Customers |-> 0]
    /\ entries = <<>>
    /\ summary = NoSummary

-----------------------------------------------------------------------------
decision_for_score(score) ==
    CASE score >= 80 -> "BLOCK"
      [] score >= 50 /\ score < 80 -> "FLAG"
      [] score < 50 -> "ALLOW"

History(c) == {t \in GoodTransactions : t.customer_id = c}

\* mandates.get(cust_id) or default_mandate: no history gives the same default.
MandateOf(c) == derive_mandate_from_history(History(c))

Walked == {entries[i].tx : i \in 1..Len(entries)}

\* main refuses a caller id that is not registered, before anything else.
RefuseCaller ==
    /\ stage = "start"
    /\ caller_id \notin RegisteredCallers \cup {NoCallerId}
    /\ stage' = "refused"
    /\ UNCHANGED <<caller_id, month_to_date, tx_count_today, entries, summary>>

\* Mutant: an unknown --caller-id is not refused.
Begin_AnyCaller ==
    /\ stage = "start"
    /\ stage' = "walk"
    /\ UNCHANGED <<caller_id, month_to_date, tx_count_today, entries, summary>>

Begin ==
    /\ stage = "start"
    /\ caller_id \in RegisteredCallers \cup {NoCallerId}
    /\ stage' = "walk"
    /\ UNCHANGED <<caller_id, month_to_date, tx_count_today, entries, summary>>

\* Mutants: what is flagged for review is not counted as spent; what is blocked is.
Counts_AllowOnly(final) == final = "ALLOW"

Counts_All(final) == final \in DetectDecisions

\* "A blocked transaction shouldn't count against the budget or daily count."
Counts(final) == final # "BLOCK"

\* The body of the loop over the test set: score, check the mandate, decide,
\* count what was not blocked, sign.
DecideTransaction(tx, score) ==
    LET c        == tx.customer_id
        detect   == decision_for_score(score)
        violated == violated_rules(tx, MandateOf(c), month_to_date[c], tx_count_today[c])
        final    == Decide[<<detect, violated>>]
    IN
    /\ stage = "walk"
    /\ tx \notin Walked
    /\ month_to_date' = IF Counts(final)
                         THEN [month_to_date EXCEPT ![c] = @ + tx.amount]
                         ELSE month_to_date
    /\ tx_count_today' = IF Counts(final)
                          THEN [tx_count_today EXCEPT ![c] = @ + 1]
                          ELSE tx_count_today
    /\ entries' = Append(entries, [tx |-> tx, detect_decision |-> detect,
                      violated_rules |-> violated, final_decision |-> final,
                      caller_id |-> caller_id])
    /\ UNCHANGED <<stage, caller_id, summary>>

\* evaluate_transaction of the live demo: the same layers on one transaction, as
\* if the customer had spent nothing, once the detector has spoken.
evaluate_transaction(tx, detect) ==
    LET violated == violated_rules(tx, MandateOf(tx.customer_id), 0, 0) IN
    [violated_rules |-> violated, final_decision |-> Decide[<<detect, violated>>]]

\* The entries with a final decision, and those a layer asked to block.
Decided(decision) == {i \in DOMAIN entries : entries[i].final_decision = decision}
DetectBlocked  == {i \in DOMAIN entries : entries[i].detect_decision = "BLOCK"}
MandateBlocked == {i \in DOMAIN entries : entries[i].violated_rules # {}}

\* Mutant: a block of both layers is counted for each of them as well.
summarize_Twice ==
    [total |-> Len(entries),
     BLOCK |-> Cardinality(Decided("BLOCK")),
     FLAG  |-> Cardinality(Decided("FLAG")),
     ALLOW |-> Cardinality(Decided("ALLOW")),
     both  |-> Cardinality(Decided("BLOCK") \cap DetectBlocked \cap MandateBlocked),
     detect_only  |-> Cardinality(Decided("BLOCK") \cap DetectBlocked),
     mandate_only |-> Cardinality(Decided("BLOCK") \cap MandateBlocked)]

\* summarize, and the same counts once more in dashboard_builder.build.
summarize ==
    [total |-> Len(entries),
     BLOCK |-> Cardinality(Decided("BLOCK")),
     FLAG  |-> Cardinality(Decided("FLAG")),
     ALLOW |-> Cardinality(Decided("ALLOW")),
     both  |-> Cardinality(Decided("BLOCK") \cap DetectBlocked \cap MandateBlocked),
     detect_only  |-> Cardinality((Decided("BLOCK") \cap DetectBlocked) \ MandateBlocked),
     mandate_only |-> Cardinality((Decided("BLOCK") \cap MandateBlocked) \ DetectBlocked)]

\* The test set ends here: what is left was in the training set.
Finish ==
    /\ stage = "walk"
    /\ summary' = summarize
    /\ stage' = "done"
    /\ UNCHANGED <<caller_id, month_to_date, tx_count_today, entries>>

Next ==
    \/ RefuseCaller
    \/ Begin
    \/ \E tx \in AllTransactions, score \in Scores : DecideTransaction(tx, score)
    \/ Finish

Spec == Init /\ [][Next]_vars

-----------------------------------------------------------------------------
\* The entries of a customer that went through, and what each entry moves.
Passed(c) == {i \in DOMAIN entries : /\ entries[i].final_decision # "BLOCK"
                                     /\ entries[i].tx.customer_id = c}

Amounts == [i \in DOMAIN entries |-> entries[i].tx.amount]

\* Whatever the order of the walk and the scores, what goes through for a
\* customer, allowed or flagged, stays within the mandate: the sum within the
\* monthly limit, the number within the daily one (the running totals of main
\* against check_spending_limit and check_velocity).  It takes a policy that
\* rejects every mandate violation.
WithinMandate ==
    \A c \in Customers :
        /\ SumFunctionOnSet(Amounts, Passed(c)) <= MandateOf(c).monthly_limit_usd
        /\ Cardinality(Passed(c)) <= MandateOf(c).max_tx_per_day

\* A customer's own good transactions never look foreign to the mandate made
\* of them: only what others spent in the customer's name, or too many of
\* them, is ever held against one (derive_mandate_from_history against the
\* rules of check_mandate).
OwnHistoryFits ==
    \A i \in 1..Len(entries) :
        LET e == entries[i]
            frauds == {j \in 1..(i - 1) :
                          /\ entries[j].tx \in FraudTransactions
                          /\ entries[j].tx.customer_id = e.tx.customer_id
                          /\ entries[j].final_decision # "BLOCK"}
        IN  e.tx \in GoodTransactions =>
                /\ e.violated_rules \subseteq {"spending_limit", "velocity"}
                /\ "spending_limit" \in e.violated_rules => frauds # {}

\* "The real thing, not a simulation" (the docstring of interactive_demo, which
\* assumes zero totals): the walk holds at least as much against a transaction as
\* the live demo does at the same detect decision, and just as much as long as
\* nothing of the customer went through, blocked transactions notwithstanding.
LiveDecisionAgrees ==
    \A i \in 1..Len(entries) :
        LET e == entries[i]
            live == evaluate_transaction(e.tx, e.detect_decision)
        IN  /\ live.violated_rules \subseteq e.violated_rules
            /\ live.final_decision = "BLOCK" => e.final_decision = "BLOCK"
            /\ \/ \E j \in 1..(i - 1) : /\ entries[j].tx.customer_id = e.tx.customer_id
                                         /\ entries[j].final_decision # "BLOCK"
               \/ live.final_decision = e.final_decision

\* combine_decision: "BLOCK wins over everything", a clean mandate does not
\* downgrade a detect BLOCK, FLAG needs an unsure detector and no objection.
\* The shipped policy document reproduces exactly that.
BlockWins ==
    \A i \in 1..Len(entries) :
        LET e == entries[i] IN
        e.final_decision = (IF i \in DetectBlocked \cup MandateBlocked THEN "BLOCK"
                            ELSE e.detect_decision)

\* Every decision is counted once, and every block is put down to the detect
\* layer, the mandate layer or both.  It takes a policy that blocks for no
\* other reason (summarize has no branch for one).
BlocksAreAttributed ==
    stage = "done" =>
        /\ summary.BLOCK + summary.FLAG + summary.ALLOW = summary.total
        /\ summary.both + summary.detect_only + summary.mandate_only = summary.BLOCK
=============================================================================
