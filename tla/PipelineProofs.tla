--------------------------- MODULE PipelineProofs ---------------------------
(***************************************************************************)
(* Proofs about Pipeline, for any customers, mandates, transactions, risk  *)
(* scores and policy.  What a customer has spent, and how often, is a sum  *)
(* and a count over the entries so far; the rest follows from that, and,   *)
(* where it depends on the policy document, from what that has to do.      *)
(***************************************************************************)
EXTENDS Pipeline, PolicyRulesProofs

\* What a policy document has to do for the properties that rest on it.  The
\* first: a violated mandate is rejected, whatever the detector says.
PolicyRejectsViolations ==
    \A d \in DetectDecisions, v \in SUBSET RuleNames :
        v # {} => Decide[<<d, v>>] = "BLOCK"

\* More violations never turn a block into something milder.
PolicyIsMonotone ==
    \A d \in DetectDecisions, v, w \in SUBSET RuleNames :
        v \subseteq w /\ Decide[<<d, v>>] = "BLOCK" => Decide[<<d, w>>] = "BLOCK"

\* Nothing is blocked unless the detector or a mandate rule asks for it.
PolicyBlocksForAReason ==
    \A d \in DetectDecisions : Decide[<<d, {}>>] = "BLOCK" => d = "BLOCK"

\* The behaviour that combine_decision promises of the default policy.
PolicyCombines ==
    \A d \in DetectDecisions, v \in SUBSET RuleNames :
        Decide[<<d, v>>] = IF d = "BLOCK" \/ v # {} THEN "BLOCK" ELSE d

\* The transactions of a customer that went through, and what each moves.
Spent(c) == {entries[i].tx : i \in Passed(c)}
AmountOf == [t \in AllTransactions |-> t.amount]

TotalsAreSums ==
    \A c \in Customers :
        /\ IsFiniteSet(Spent(c))
        /\ month_to_date[c] = SumFunctionOnSet(Amounts, Passed(c))
        /\ month_to_date[c] = SumFunctionOnSet(AmountOf, Spent(c))
        /\ tx_count_today[c] = Cardinality(Passed(c))

DecidedByPolicy ==
    \A i \in 1..Len(entries) :
        entries[i].final_decision =
            Decide[<<entries[i].detect_decision, entries[i].violated_rules>>]

\* What the live demo holds against a transaction, the walk holds against it too,
\* and nothing else unless something of the customer went through before.
ViolationsAgree ==
    \A i \in 1..Len(entries) :
        LET e == entries[i]
            live == violated_rules(e.tx, MandateOf(e.tx.customer_id), 0, 0)
        IN  /\ live \subseteq e.violated_rules
            /\ \/ \E j \in 1..(i - 1) : /\ entries[j].tx.customer_id = e.tx.customer_id
                                         /\ entries[j].final_decision # "BLOCK"
               \/ live = e.violated_rules

SummaryIsCount == stage = "done" => summary = summarize

\* Only for an accepted caller does the walk begin.
CallerAccepted ==
    stage \in {"walk", "done"} => caller_id \in RegisteredCallers \cup {NoCallerId}

PipelineInv ==
    /\ TypeOK
    /\ CallerAccepted
    /\ TotalsAreSums
    /\ DecidedByPolicy
    /\ ViolationsAgree
    /\ OwnHistoryFits
    /\ SummaryIsCount

-----------------------------------------------------------------------------
\* What a mandate made of a history promises.
LEMMA MandateIs ==
    ASSUME NEW c \in Customers
    PROVE  /\ MandateOf(c).monthly_limit_usd \in Nat
           /\ MandateOf(c).max_tx_per_day \in Nat
           /\ \A t \in History(c) :
                /\ check_merchant_whitelist(t.merchant, MandateOf(c).allowed_merchants)
                /\ check_time_restriction(t.hour_of_day, MandateOf(c).allowed_hours)
           /\ SumFunctionOnSet(AmountOf, History(c)) \in Nat
           /\ History(c) # {} =>
                SumFunctionOnSet(AmountOf, History(c)) <= MandateOf(c).monthly_limit_usd
<1> DEFINE H == History(c)
           S == SumFunctionOnSet([t \in H |-> t.amount], H)
           hours == {t.hour_of_day : t \in H}
<1>1. IsFiniteSet(H) /\ H \subseteq AllTransactions
  BY PipelineAssumption, FS_Subset DEF History, AllTransactions
<1>2. S \in Nat
  BY <1>1, SumType, PipelineAssumption
<1>3. SumFunctionOnSet(AmountOf, H) = S
  BY <1>1, SumCong DEF AmountOf
<1>4. CASE H = {}
  BY <1>2, <1>3, <1>4, MandateAssumption
     DEF MandateOf, derive_mandate_from_history, default_mandate
<1>5. CASE H # {}
  <2>1. MandateOf(c) = [monthly_limit_usd |-> (3 * S) \div 2,
                        allowed_merchants |-> {t.merchant : t \in H},
                        allowed_hours     |-> HoursAround(hours),
                        max_tx_per_day    |-> Max({DEFAULT_MAX_TX_PER_DAY, Cardinality(H) \div 4 + 2})]
    BY <1>5, Zenon DEF MandateOf, derive_mandate_from_history
  <2>2. (3 * S) \div 2 \in Nat /\ S <= (3 * S) \div 2
    BY <1>2
  <2>3. Cardinality(H) \div 4 + 2 \in Nat
    BY <1>1, FS_CardinalityType
  <2>4. Max({DEFAULT_MAX_TX_PER_DAY, Cardinality(H) \div 4 + 2}) \in Nat
    <3> DEFINE m == Cardinality(H) \div 4 + 2
    <3> HIDE DEF m
    <3>1. m \in Nat
      BY <2>3 DEF m
    <3>2. \E x \in {DEFAULT_MAX_TX_PER_DAY, m} : \A y \in {DEFAULT_MAX_TX_PER_DAY, m} : x >= y
      BY <3>1, MandateAssumption
    <3>3. Max({DEFAULT_MAX_TX_PER_DAY, m}) \in Nat
      BY <3>1, <3>2, MandateAssumption DEF Max
    <3> QED BY <3>3 DEF m
  <2>5. /\ hours \in SUBSET Nat /\ hours # {} /\ \A h \in hours : h <= 23
        /\ \A h \in hours : h \in 0..23
    BY <1>1, <1>5, PipelineAssumption
  <2>6. ASSUME NEW t \in H
        PROVE  check_time_restriction(t.hour_of_day, HoursAround(hours))
    <3>1. Min(hours) \in hours /\ Max(hours) \in hours
      BY <2>5, MinIn, MaxIn
    <3>2. Min(hours) <= t.hour_of_day /\ t.hour_of_day <= Max(hours)
      BY <2>5, <2>6, MinIn, MaxIn
    <3>3. t.hour_of_day \in hours
      BY <2>6
    <3> HIDE DEF hours
    <3>4. Min(hours) \in 0..23 /\ Max(hours) \in 0..23 /\ t.hour_of_day \in 0..23
      BY <2>5, <3>1, <3>3
    <3> QED BY <3>2, <3>4 DEF check_time_restriction, HoursAround
  <2>7. \A t \in H : check_merchant_whitelist(t.merchant, {u.merchant : u \in H})
    BY DEF check_merchant_whitelist
  <2>8. \A t \in H :
          /\ check_merchant_whitelist(t.merchant, MandateOf(c).allowed_merchants)
          /\ check_time_restriction(t.hour_of_day, MandateOf(c).allowed_hours)
    <3>1. /\ MandateOf(c).allowed_merchants = {t.merchant : t \in H}
          /\ MandateOf(c).allowed_hours = HoursAround(hours)
      <4> HIDE DEF hours
      <4> QED BY <2>1
    <3> HIDE DEF hours
    <3> QED BY <3>1, <2>6, <2>7
  <2> HIDE DEF S
  <2>9. MandateOf(c).monthly_limit_usd = (3 * S) \div 2
        /\ MandateOf(c).max_tx_per_day \in Nat
    <3> HIDE DEF hours, H
    <3> QED BY <2>1, <2>4
  <2> QED BY <1>2, <1>3, <2>2, <2>8, <2>9
<1> QED BY <1>4, <1>5

\* Which rules violated_rules names.
LEMMA ViolatedRules ==
    ASSUME NEW tx, NEW mandate, NEW total, NEW count
    PROVE  LET v == violated_rules(tx, mandate, total, count) IN
           /\ v \in SUBSET RuleNames
           /\ "spending_limit" \in v <=>
                ~check_spending_limit(tx.amount, total, mandate.monthly_limit_usd)
           /\ "merchant_whitelist" \in v <=>
                ~check_merchant_whitelist(tx.merchant, mandate.allowed_merchants)
           /\ "time_restriction" \in v <=>
                ~check_time_restriction(tx.hour_of_day, mandate.allowed_hours)
           /\ "velocity" \in v <=> ~check_velocity(count, mandate.max_tx_per_day)
BY DEF violated_rules, RuleNames

-----------------------------------------------------------------------------
\* The entry that a transaction is signed with.
EntryFor(tx, score) ==
    LET c        == tx.customer_id
        detect   == decision_for_score(score)
        violated == violated_rules(tx, MandateOf(c), month_to_date[c], tx_count_today[c])
    IN  [tx |-> tx, detect_decision |-> detect, violated_rules |-> violated,
         final_decision |-> Decide[<<detect, violated>>], caller_id |-> caller_id]

\* Every score has a detect decision.
LEMMA DetectDecided ==
    ASSUME NEW score \in Scores
    PROVE  decision_for_score(score) \in DetectDecisions
BY PipelineAssumption DEF decision_for_score, DetectDecisions

\* The policy has a decision for every case.
LEMMA DecideType ==
    ASSUME NEW d \in DetectDecisions, NEW v \in SUBSET RuleNames
    PROVE  Decide[<<d, v>>] \in DetectDecisions
BY PipelineAssumption

\* The entry of a transaction is one.
LEMMA EntryType ==
    ASSUME PipelineInv, NEW tx \in AllTransactions, NEW score \in Scores, stage = "walk"
    PROVE  EntryFor(tx, score) \in Entry
<1> DEFINE c == tx.customer_id
           d == decision_for_score(score)
           v == violated_rules(tx, MandateOf(c), month_to_date[c], tx_count_today[c])
<1>1. v \in SUBSET RuleNames
  BY ViolatedRules
<1>2. d \in DetectDecisions
  BY DetectDecided
<1>3. Decide[<<d, v>>] \in DetectDecisions
  BY <1>1, <1>2, DecideType
<1>4. caller_id \in RegisteredCallers \cup {NoCallerId}
  BY DEF PipelineInv, CallerAccepted
<1>5. EntryFor(tx, score) = [tx |-> tx, detect_decision |-> d, violated_rules |-> v,
         final_decision |-> Decide[<<d, v>>], caller_id |-> caller_id]
  BY DEF EntryFor
<1> HIDE DEF d, v
<1> QED BY <1>1, <1>2, <1>3, <1>4, <1>5 DEF Entry

\* What a step of the loop does, in terms of the entry it appends.
LEMMA WalkStep ==
    ASSUME PipelineInv, NEW tx \in AllTransactions, NEW score \in Scores,
           DecideTransaction(tx, score)
    PROVE  LET e == EntryFor(tx, score)
               n == Len(entries) + 1
           IN  /\ stage = "walk" /\ tx \notin Walked
               /\ e \in Entry /\ e.tx = tx
               /\ month_to_date' = IF e.final_decision # "BLOCK"
                     THEN [month_to_date EXCEPT ![tx.customer_id] = @ + tx.amount]
                     ELSE month_to_date
               /\ tx_count_today' = IF e.final_decision # "BLOCK"
                     THEN [tx_count_today EXCEPT ![tx.customer_id] = @ + 1]
                     ELSE tx_count_today
               /\ entries' = Append(entries, e)
               /\ Len(entries) \in Nat /\ Len(entries') = n
               /\ \A i \in 1..Len(entries) : entries'[i] = entries[i]
               /\ entries'[n] = e
               /\ UNCHANGED <<stage, caller_id, summary>>
<1>1. stage = "walk"
  BY DEF DecideTransaction
<1>2. EntryFor(tx, score) \in Entry /\ EntryFor(tx, score).tx = tx
  BY <1>1, EntryType DEF EntryFor
<1>3. entries' = Append(entries, EntryFor(tx, score))
  BY DEF DecideTransaction, EntryFor
<1>4. entries \in Seq(Entry)
  BY DEF PipelineInv, TypeOK
<1> DEFINE e == EntryFor(tx, score)
<1>5. /\ month_to_date' = IF e.final_decision # "BLOCK"
                     THEN [month_to_date EXCEPT ![tx.customer_id] = @ + tx.amount]
                     ELSE month_to_date
      /\ tx_count_today' = IF e.final_decision # "BLOCK"
                     THEN [tx_count_today EXCEPT ![tx.customer_id] = @ + 1]
                     ELSE tx_count_today
  BY DEF DecideTransaction, EntryFor, Counts
<1>6. tx \notin Walked /\ UNCHANGED <<stage, caller_id, summary>>
  BY DEF DecideTransaction
<1> HIDE DEF e
<1>7. /\ Len(entries) \in Nat /\ Len(entries') = Len(entries) + 1
      /\ \A i \in 1..Len(entries) : entries'[i] = entries[i]
      /\ entries'[Len(entries) + 1] = e
  BY <1>2, <1>3, <1>4 DEF e
<1> QED BY <1>1, <1>2, <1>3, <1>5, <1>6, <1>7 DEF e

\* The transactions of a customer that passed are entries, finitely many, and
\* each has an amount.
LEMMA PassedIs ==
    ASSUME TypeOK, NEW c
    PROVE  /\ DOMAIN entries = 1..Len(entries) /\ Len(entries) \in Nat
           /\ Passed(c) \subseteq 1..Len(entries)
           /\ IsFiniteSet(Passed(c))
           /\ \A i \in 1..Len(entries) : /\ entries[i] \in Entry
                                         /\ Amounts[i] = entries[i].tx.amount
                                         /\ Amounts[i] \in Nat
<1>1. entries \in Seq(Entry)
  BY DEF TypeOK
<1>2. DOMAIN entries = 1..Len(entries) /\ Len(entries) \in Nat
  BY <1>1
<1>3. Passed(c) \subseteq 1..Len(entries)
  BY <1>2 DEF Passed
<1>4. IsFiniteSet(1..Len(entries))
  BY <1>2, FS_Interval
<1>5. IsFiniteSet(Passed(c))
  BY <1>3, <1>4, FS_Subset
<1>6. ASSUME NEW i \in 1..Len(entries)
      PROVE  /\ entries[i] \in Entry
             /\ Amounts[i] = entries[i].tx.amount
             /\ Amounts[i] \in Nat
  <2>1. entries[i] \in Entry
    BY <1>1
  <2>2. entries[i].tx \in AllTransactions
    BY <2>1 DEF Entry
  <2> QED BY <1>2, <2>1, <2>2, PipelineAssumption DEF Amounts
<1> QED BY <1>2, <1>3, <1>5, <1>6

\* What passed after a step of the loop.
LEMMA PassedStep ==
    ASSUME PipelineInv, NEW tx \in AllTransactions, NEW score \in Scores,
           DecideTransaction(tx, score), NEW c
    PROVE  LET e == EntryFor(tx, score)
               n == Len(entries) + 1
               goes == e.final_decision # "BLOCK" /\ c = tx.customer_id
           IN  /\ Passed(c)' = IF goes THEN Passed(c) \cup {n} ELSE Passed(c)
               /\ Spent(c)' = IF goes THEN Spent(c) \cup {tx} ELSE Spent(c)
               /\ n \notin Passed(c) /\ tx \notin Spent(c)
               /\ \A i \in Passed(c) : Amounts'[i] = Amounts[i]
               /\ goes => Amounts'[n] = tx.amount
<1> DEFINE e == EntryFor(tx, score)
           n == Len(entries) + 1
           goes == e.final_decision # "BLOCK" /\ c = tx.customer_id
<1>1. /\ DOMAIN entries = 1..Len(entries) /\ Len(entries) \in Nat
      /\ Passed(c) \subseteq 1..Len(entries)
      /\ \A i \in 1..Len(entries) : Amounts[i] = entries[i].tx.amount
  BY PassedIs DEF PipelineInv
<1>2. /\ tx \notin Walked
      /\ entries' = Append(entries, e)
      /\ \A i \in 1..Len(entries) : entries'[i] = entries[i]
      /\ entries'[n] = e /\ e.tx = tx
  BY WalkStep
<1> HIDE DEF e
<1>3. entries \in Seq(Entry)
  BY DEF PipelineInv, TypeOK
<1>4. DOMAIN entries' = 1..n
  BY <1>2, <1>3
<1>5. Passed(c)' = {i \in 1..n : /\ entries'[i].final_decision # "BLOCK"
                                 /\ entries'[i].tx.customer_id = c}
  BY <1>4 DEF Passed
<1>6. Passed(c) = {i \in 1..Len(entries) : /\ entries[i].final_decision # "BLOCK"
                                           /\ entries[i].tx.customer_id = c}
  BY <1>1 DEF Passed
<1>7. 1..n = 1..Len(entries) \cup {n} /\ n \notin 1..Len(entries)
  BY <1>1
<1>8. Passed(c)' = IF goes THEN Passed(c) \cup {n} ELSE Passed(c)
  <2>1. \A i \in 1..Len(entries) : i \in Passed(c)' <=> i \in Passed(c)
    BY <1>2, <1>5, <1>6, <1>7
  <2>2. n \in Passed(c)' <=> goes
    BY <1>2, <1>5, <1>7
  <2> HIDE DEF n, goes
  <2> QED BY <2>1, <2>2, <1>1, <1>5, <1>7
<1>9. Spent(c)' = {entries'[i].tx : i \in Passed(c)'} /\ Spent(c) = {entries[i].tx : i \in Passed(c)}
  BY DEF Spent
<1>10. Spent(c)' = IF goes THEN Spent(c) \cup {tx} ELSE Spent(c)
  <2>1. \A i \in Passed(c) : entries'[i].tx = entries[i].tx
    BY <1>1, <1>2
  <2>2. entries'[n].tx = tx
    BY <1>2
  <2> HIDE DEF n, goes
  <2> QED BY <1>8, <1>9, <2>1, <2>2
<1>11. tx \notin Spent(c)
  BY <1>1, <1>2 DEF Spent, Walked
<1>12. \A i \in 1..n : Amounts'[i] = entries'[i].tx.amount
  BY <1>4 DEF Amounts
<1>13. \A i \in Passed(c) : Amounts'[i] = Amounts[i]
  BY <1>1, <1>2, <1>7, <1>12
<1>14. Amounts'[n] = tx.amount
  BY <1>2, <1>7, <1>12
<1>15. n \notin Passed(c)
  BY <1>1, <1>7
<1> QED BY <1>8, <1>10, <1>11, <1>13, <1>14, <1>15 DEF e

\* What main has counted for the customer is still the sum over the entries.
LEMMA TotalsStep ==
    ASSUME PipelineInv, NEW tx \in AllTransactions, NEW score \in Scores,
           DecideTransaction(tx, score)
    PROVE  TotalsAreSums'
<1> DEFINE e == EntryFor(tx, score)
           n == Len(entries) + 1
           x == tx.customer_id
<1> SUFFICES ASSUME NEW c \in Customers
             PROVE  /\ IsFiniteSet(Spent(c)')
                    /\ month_to_date'[c] = SumFunctionOnSet(Amounts', Passed(c)')
                    /\ month_to_date'[c] = SumFunctionOnSet(AmountOf, Spent(c)')
                    /\ tx_count_today'[c] = Cardinality(Passed(c)')
  BY DEF TotalsAreSums
<1> DEFINE goes == e.final_decision # "BLOCK" /\ c = x
<1>1. /\ Passed(c)' = IF goes THEN Passed(c) \cup {n} ELSE Passed(c)
      /\ Spent(c)' = IF goes THEN Spent(c) \cup {tx} ELSE Spent(c)
      /\ n \notin Passed(c) /\ tx \notin Spent(c)
      /\ \A i \in Passed(c) : Amounts'[i] = Amounts[i]
      /\ goes => Amounts'[n] = tx.amount
  BY PassedStep
<1>2. /\ month_to_date' = IF e.final_decision # "BLOCK"
                     THEN [month_to_date EXCEPT ![x] = @ + tx.amount] ELSE month_to_date
      /\ tx_count_today' = IF e.final_decision # "BLOCK"
                     THEN [tx_count_today EXCEPT ![x] = @ + 1] ELSE tx_count_today
  BY WalkStep
<1>3. /\ month_to_date \in [Customers -> Nat]
      /\ tx_count_today \in [Customers -> Nat]
  BY DEF PipelineInv, TypeOK
<1>4. /\ IsFiniteSet(Passed(c)) /\ IsFiniteSet(Spent(c))
      /\ month_to_date[c] = SumFunctionOnSet(Amounts, Passed(c))
      /\ month_to_date[c] = SumFunctionOnSet(AmountOf, Spent(c))
      /\ tx_count_today[c] = Cardinality(Passed(c))
      /\ \A i \in Passed(c) : Amounts[i] \in Nat
  BY PassedIs DEF PipelineInv, TotalsAreSums
<1>5. SumFunctionOnSet(Amounts', Passed(c)) = SumFunctionOnSet(Amounts, Passed(c))
  <2> DEFINE f == Amounts'
             g == Amounts
  <2>1. \A i \in Passed(c) : f[i] = g[i]
    BY <1>1
  <2> HIDE DEF f, g
  <2>2. SumFunctionOnSet(f, Passed(c)) = SumFunctionOnSet(g, Passed(c))
    BY <1>4, <2>1, SumCong
  <2> QED BY <2>2 DEF f, g
<1>6. tx.amount \in Nat /\ AmountOf[tx] = tx.amount
  BY PipelineAssumption DEF AmountOf
<1>7. CASE ~goes
  <2>1. Passed(c)' = Passed(c) /\ Spent(c)' = Spent(c)
    BY <1>1, <1>7
  <2>2. month_to_date'[c] = month_to_date[c] /\ tx_count_today'[c] = tx_count_today[c]
    BY <1>2, <1>3, <1>7
  <2> QED BY <2>1, <2>2, <1>4, <1>5
<1>8. CASE goes
  <2>1. Passed(c)' = Passed(c) \cup {n} /\ Spent(c)' = Spent(c) \cup {tx}
    BY <1>1, <1>8
  <2>2. /\ month_to_date'[c] = month_to_date[c] + tx.amount
        /\ tx_count_today'[c] = tx_count_today[c] + 1
    BY <1>2, <1>3, <1>8
  <2>3. IsFiniteSet(Spent(c) \cup {tx}) /\ Cardinality(Passed(c) \cup {n}) = Cardinality(Passed(c)) + 1
    BY <1>1, <1>4, FS_AddElement
  <2>4. SumFunctionOnSet(Amounts', Passed(c) \cup {n}) = Amounts'[n] + SumFunctionOnSet(Amounts', Passed(c))
    <3> DEFINE f == Amounts'
    <3>1. n \notin Passed(c) /\ \A i \in Passed(c) \cup {n} : f[i] \in Nat
      BY <1>1, <1>4, <1>6, <1>8
    <3> HIDE DEF f, n
    <3>2. SumFunctionOnSet(f, Passed(c) \cup {n}) = f[n] + SumFunctionOnSet(f, Passed(c))
      BY <1>4, <3>1, SumAdd
    <3> QED BY <3>2 DEF f
  <2>5. SumFunctionOnSet(AmountOf, Spent(c) \cup {tx}) = tx.amount + SumFunctionOnSet(AmountOf, Spent(c))
    <3>1. Spent(c) \subseteq AllTransactions
      <4>1. \A i \in Passed(c) : entries[i] \in Entry
        BY PassedIs DEF PipelineInv
      <4> QED BY <4>1 DEF Spent, Entry
    <3>2. \A t \in Spent(c) \cup {tx} : AmountOf[t] \in Nat
      BY <3>1, PipelineAssumption DEF AmountOf
    <3>3. SumFunctionOnSet(AmountOf, Spent(c) \cup {tx}) = AmountOf[tx] + SumFunctionOnSet(AmountOf, Spent(c))
      BY <1>1, <1>4, <3>2, SumAdd
    <3> QED BY <3>3, <1>6
  <2>6. Amounts'[n] = tx.amount
    BY <1>1, <1>8
  <2>7. month_to_date[c] \in Nat /\ tx_count_today[c] \in Nat
    BY <1>3
  <2> HIDE DEF e, n, x, goes
  <2>8. SumFunctionOnSet(Amounts', Passed(c) \cup {n}) = tx.amount + month_to_date[c]
    BY <2>4, <2>6, <1>4, <1>5
  <2>9. SumFunctionOnSet(AmountOf, Spent(c) \cup {tx}) = tx.amount + month_to_date[c]
    BY <2>5, <1>4
  <2> QED BY <2>1, <2>2, <2>3, <2>7, <2>8, <2>9, <1>4, <1>6
<1> QED BY <1>7, <1>8

\* A good transaction of a customer of whom only good ones went through fits.
LEMMA OwnFits ==
    ASSUME PipelineInv, NEW tx \in GoodTransactions, tx \notin Walked,
           \A i \in Passed(tx.customer_id) : entries[i].tx \notin FraudTransactions
    PROVE  LET c == tx.customer_id IN
           check_spending_limit(tx.amount, month_to_date[c], MandateOf(c).monthly_limit_usd)
<1> DEFINE c == tx.customer_id
<1>1. c \in Customers /\ tx \in AllTransactions
  BY DEF Customers, AllTransactions
<1>2. tx \in History(c) /\ tx \notin Spent(c)
  <2>1. Passed(c) \subseteq 1..Len(entries)
    BY PassedIs DEF PipelineInv
  <2> QED BY <2>1 DEF History, Spent, Walked
<1>3. Spent(c) \cup {tx} \in SUBSET History(c)
  <2>1. ASSUME NEW i \in Passed(c) PROVE entries[i].tx \in History(c)
    <3>1. entries[i] \in Entry
      BY <2>1, PassedIs DEF PipelineInv
    <3>2. entries[i].tx \in AllTransactions
      BY <3>1 DEF Entry
    <3>3. entries[i].tx.customer_id = c
      BY <2>1 DEF Passed
    <3>4. entries[i].tx \notin FraudTransactions
      BY <2>1
    <3> QED BY <3>2, <3>3, <3>4 DEF History, AllTransactions
  <2> QED BY <2>1, <1>2 DEF Spent
<1>4. IsFiniteSet(History(c)) /\ \A t \in History(c) : AmountOf[t] \in Nat /\ AmountOf[t] = t.amount
  <2>1. History(c) \in SUBSET GoodTransactions
    BY DEF History
  <2> QED BY <2>1, PipelineAssumption, FS_Subset DEF AmountOf, AllTransactions
<1>5. IsFiniteSet(Spent(c)) /\ month_to_date[c] = SumFunctionOnSet(AmountOf, Spent(c))
  BY <1>1 DEF PipelineInv, TotalsAreSums
<1>6. SumFunctionOnSet(AmountOf, Spent(c) \cup {tx}) = AmountOf[tx] + SumFunctionOnSet(AmountOf, Spent(c))
  <2>1. \A t \in Spent(c) \cup {tx} : AmountOf[t] \in Nat
    BY <1>3, <1>4
  <2> HIDE DEF c
  <2> QED BY <2>1, <1>2, <1>5, SumAdd
<1>7. SumFunctionOnSet(AmountOf, Spent(c) \cup {tx}) <= SumFunctionOnSet(AmountOf, History(c))
  <2> HIDE DEF c
  <2> QED BY <1>3, <1>4, SumMono
<1>8. /\ SumFunctionOnSet(AmountOf, History(c)) <= MandateOf(c).monthly_limit_usd
      /\ SumFunctionOnSet(AmountOf, History(c)) \in Nat
      /\ MandateOf(c).monthly_limit_usd \in Nat
  BY <1>1, <1>2, MandateIs
<1>9. month_to_date[c] \in Nat /\ AmountOf[tx] \in Nat /\ AmountOf[tx] = tx.amount
  BY <1>1, <1>2, <1>4 DEF PipelineInv, TypeOK
<1> HIDE DEF c
<1>10. month_to_date[c] + tx.amount <= MandateOf(c).monthly_limit_usd
  BY <1>5, <1>6, <1>7, <1>8, <1>9
<1> QED BY <1>10 DEF check_spending_limit, c

\* An entry that is appended fits the history that its customer has then.
LEMMA OwnStep ==
    ASSUME PipelineInv, NEW tx \in AllTransactions, NEW score \in Scores,
           DecideTransaction(tx, score)
    PROVE  OwnHistoryFits'
<1> DEFINE e == EntryFor(tx, score)
           n == Len(entries) + 1
           c == tx.customer_id
<1>1. /\ Len(entries) \in Nat /\ Len(entries') = n
      /\ \A i \in 1..Len(entries) : entries'[i] = entries[i]
      /\ entries'[n] = e /\ e.tx = tx /\ tx \notin Walked
  BY WalkStep
<1>2. e.violated_rules = violated_rules(tx, MandateOf(c), month_to_date[c], tx_count_today[c])
  BY DEF EntryFor
<1> HIDE DEF e
<1> DEFINE Frauds(es, i) == {j \in 1..(i - 1) :
                          /\ es[j].tx \in FraudTransactions
                          /\ es[j].tx.customer_id = es[i].tx.customer_id
                          /\ es[j].final_decision # "BLOCK"}
           Fits(es, i) == es[i].tx \in GoodTransactions =>
                /\ es[i].violated_rules \subseteq {"spending_limit", "velocity"}
                /\ "spending_limit" \in es[i].violated_rules => Frauds(es, i) # {}
<1>3. ASSUME NEW i \in 1..Len(entries) PROVE Fits(entries', i)
  <2>1. Fits(entries, i)
    BY DEF PipelineInv, OwnHistoryFits
  <2>2. entries'[i] = entries[i] /\ \A j \in 1..(i - 1) : entries'[j] = entries[j]
    BY <1>1
  <2>3. Frauds(entries', i) = Frauds(entries, i)
    BY <2>2
  <2> QED BY <2>1, <2>2, <2>3
<1>4. Fits(entries', n)
  <2> SUFFICES ASSUME tx \in GoodTransactions
               PROVE  /\ e.violated_rules \subseteq {"spending_limit", "velocity"}
                      /\ "spending_limit" \in e.violated_rules => Frauds(entries', n) # {}
    BY <1>1
  <2>1. tx \in History(c) /\ c \in Customers
    BY DEF History, Customers
  <2>2. /\ check_merchant_whitelist(tx.merchant, MandateOf(c).allowed_merchants)
        /\ check_time_restriction(tx.hour_of_day, MandateOf(c).allowed_hours)
    BY <2>1, MandateIs
  <2>3. e.violated_rules \in SUBSET RuleNames
    BY <1>2, ViolatedRules DEF RuleNames
  <2>4. "merchant_whitelist" \notin e.violated_rules /\ "time_restriction" \notin e.violated_rules
    BY <1>2, <2>2, ViolatedRules
  <2>5. ASSUME "spending_limit" \in e.violated_rules PROVE Frauds(entries', n) # {}
    <3>1. ~check_spending_limit(tx.amount, month_to_date[c], MandateOf(c).monthly_limit_usd)
      BY <1>2, <2>5, ViolatedRules
    <3>2. PICK i \in Passed(c) : entries[i].tx \in FraudTransactions
      BY <3>1, <1>1, OwnFits
    <3>3. i \in 1..Len(entries) /\ entries[i].final_decision # "BLOCK" /\ entries[i].tx.customer_id = c
      BY PassedIs DEF PipelineInv, Passed
    <3>4. i \in 1..(n - 1) /\ entries'[i] = entries[i] /\ entries'[n].tx.customer_id = c
      BY <1>1, <3>3
    <3> QED BY <3>2, <3>3, <3>4
  <2> QED BY <2>3, <2>4, <2>5 DEF RuleNames
<1>5. \A i \in 1..n : Fits(entries', i)
  <2>1. \A i \in 1..n : i \in 1..Len(entries) \/ i = n
    BY <1>1
  <2> HIDE DEF Fits, n
  <2> QED BY <1>3, <1>4, <2>1
<1> QED BY <1>1, <1>5 DEF OwnHistoryFits

\* Totals of a customer of whom nothing went through are those of the live demo.
LEMMA ViolationsStep ==
    ASSUME PipelineInv, NEW tx \in AllTransactions, NEW score \in Scores,
           DecideTransaction(tx, score)
    PROVE  ViolationsAgree'
<1> DEFINE e == EntryFor(tx, score)
           n == Len(entries) + 1
           c == tx.customer_id
           Before(es, i) == \E j \in 1..(i - 1) : /\ es[j].tx.customer_id = es[i].tx.customer_id
                                                  /\ es[j].final_decision # "BLOCK"
           Live(x) == violated_rules(x, MandateOf(x.customer_id), 0, 0)
           Agree(es, i) == /\ Live(es[i].tx) \subseteq es[i].violated_rules
                           /\ Before(es, i) \/ Live(es[i].tx) = es[i].violated_rules
<1>1. /\ Len(entries) \in Nat /\ Len(entries') = n
      /\ \A i \in 1..Len(entries) : entries'[i] = entries[i]
      /\ entries'[n] = e /\ e.tx = tx
  BY WalkStep
<1>2. e.violated_rules = violated_rules(tx, MandateOf(c), month_to_date[c], tx_count_today[c])
  BY DEF EntryFor
<1> HIDE DEF e
<1>3. ASSUME NEW i \in 1..Len(entries) PROVE Agree(entries', i)
  <2>1. Agree(entries, i)
    BY DEF PipelineInv, ViolationsAgree
  <2>2. entries'[i] = entries[i] /\ \A j \in 1..(i - 1) : entries'[j] = entries[j]
    BY <1>1
  <2>3. Before(entries', i) <=> Before(entries, i)
    BY <2>2
  <2> HIDE DEF Before
  <2> QED BY <2>1, <2>2, <2>3
<1>4. Agree(entries', n)
  <2>1. c \in Customers
    BY DEF Customers
  <2>2. /\ month_to_date[c] \in Nat /\ tx_count_today[c] \in Nat
        /\ MandateOf(c).monthly_limit_usd \in Nat /\ MandateOf(c).max_tx_per_day \in Nat
        /\ tx.amount \in Nat
    BY <2>1, MandateIs, PipelineAssumption DEF PipelineInv, TypeOK
  <2>3. Live(tx) \subseteq e.violated_rules
    <3> DEFINE m == MandateOf(c)
               total == month_to_date[c]
               count == tx_count_today[c]
    <3>1. /\ ~check_spending_limit(tx.amount, 0, m.monthly_limit_usd)
                => ~check_spending_limit(tx.amount, total, m.monthly_limit_usd)
          /\ ~check_velocity(0, m.max_tx_per_day) => ~check_velocity(count, m.max_tx_per_day)
      BY <2>2 DEF check_spending_limit, check_velocity
    <3> HIDE DEF m, total, count
    <3>2. \A r \in RuleNames : r \in violated_rules(tx, m, 0, 0) => r \in violated_rules(tx, m, total, count)
      BY <3>1, ViolatedRules DEF RuleNames
    <3>3. violated_rules(tx, m, 0, 0) \subseteq RuleNames
      BY ViolatedRules
    <3> QED BY <1>2, <3>2, <3>3 DEF m, total, count
  <2>4. ASSUME ~Before(entries', n) PROVE Live(tx) = e.violated_rules
    <3>1. Passed(c) = {}
      <4> SUFFICES ASSUME NEW i \in Passed(c) PROVE FALSE
        OBVIOUS
      <4>1. i \in 1..Len(entries) /\ entries[i].final_decision # "BLOCK" /\ entries[i].tx.customer_id = c
        BY PassedIs DEF PipelineInv, Passed
      <4>2. i \in 1..(n - 1) /\ entries'[i] = entries[i] /\ entries'[n].tx.customer_id = c
        BY <1>1, <4>1
      <4> QED BY <2>4, <4>1, <4>2
    <3>2. month_to_date[c] = 0 /\ tx_count_today[c] = 0
      BY <2>1, <3>1, SumEmpty, FS_EmptySet DEF PipelineInv, TotalsAreSums
    <3> QED BY <1>2, <3>2
  <2> HIDE DEF Before, Live
  <2> QED BY <1>1, <2>3, <2>4
<1>5. \A i \in 1..n : Agree(entries', i)
  <2>1. \A i \in 1..n : i \in 1..Len(entries) \/ i = n
    BY <1>1
  <2> HIDE DEF Agree, n
  <2> QED BY <1>3, <1>4, <2>1
<1> QED BY <1>1, <1>5 DEF ViolationsAgree

-----------------------------------------------------------------------------
LEMMA PipelineInit == Init => PipelineInv
<1> SUFFICES ASSUME Init PROVE PipelineInv
  OBVIOUS
<1>1. entries = <<>> /\ stage = "start" /\ Len(entries) = 0 /\ 1..Len(entries) = {}
  BY DEF Init
<1>2. TypeOK
  <2>1. summary \in [DOMAIN NoSummary -> Nat]
    BY DEF Init, NoSummary
  <2>2. entries \in Seq(Entry)
    BY <1>1
  <2> QED BY <2>1, <2>2 DEF Init, TypeOK
<1>3. TotalsAreSums
  <2>1. \A c \in Customers : Passed(c) = {} /\ Spent(c) = {}
    BY <1>1 DEF Passed, Spent
  <2> QED BY <2>1, SumEmpty, FS_EmptySet DEF Init, TotalsAreSums
<1> QED BY <1>1, <1>2, <1>3 DEF PipelineInv, CallerAccepted, DecidedByPolicy, ViolationsAgree,
                                OwnHistoryFits, SummaryIsCount

\* summarize counts.
LEMMA SummaryType ==
    ASSUME TypeOK
    PROVE  summarize \in [DOMAIN NoSummary -> Nat]
<1>1. \A S \in SUBSET (DOMAIN entries) : Cardinality(S) \in Nat
  <2>1. IsFiniteSet(DOMAIN entries)
    BY PassedIs, FS_Interval
  <2> QED BY <2>1, FS_Subset, FS_CardinalityType
<1>2. /\ \A d : Decided(d) \in SUBSET (DOMAIN entries)
      /\ Len(entries) \in Nat
  BY PassedIs DEF Decided
<1> QED BY <1>1, <1>2 DEF summarize, NoSummary

\* The steps around the walk leave its totals and its entries alone.
LEMMA QuietStep ==
    ASSUME PipelineInv, UNCHANGED <<entries, month_to_date, tx_count_today>>
    PROVE  /\ TotalsAreSums' /\ DecidedByPolicy' /\ ViolationsAgree' /\ OwnHistoryFits'
           /\ summarize' = summarize
<1>1. \A c : Passed(c)' = Passed(c) /\ Spent(c)' = Spent(c)
  BY DEF Passed, Spent
<1>2. Amounts' = Amounts
  BY DEF Amounts
<1>3. TotalsAreSums'
  BY <1>1, <1>2 DEF PipelineInv, TotalsAreSums
<1>4. DecidedByPolicy' /\ ViolationsAgree' /\ OwnHistoryFits'
  BY DEF PipelineInv, DecidedByPolicy, ViolationsAgree, OwnHistoryFits
<1>5. summarize' = summarize
  BY DEF summarize, Decided, DetectBlocked, MandateBlocked
<1> QED BY <1>3, <1>4, <1>5

\* Every step of main keeps the invariant.
LEMMA PipelineStep == PipelineInv /\ [Next]_vars => PipelineInv'
<1> SUFFICES ASSUME PipelineInv, [Next]_vars PROVE PipelineInv'
  OBVIOUS
<1>1. CASE RefuseCaller
  <2>1. TypeOK' /\ CallerAccepted' /\ SummaryIsCount'
    BY <1>1 DEF RefuseCaller, PipelineInv, TypeOK, CallerAccepted, SummaryIsCount
  <2> QED BY <1>1, <2>1, QuietStep DEF RefuseCaller, PipelineInv
<1>2. CASE Begin
  <2>1. TypeOK' /\ CallerAccepted' /\ SummaryIsCount'
    BY <1>2 DEF Begin, PipelineInv, TypeOK, CallerAccepted, SummaryIsCount
  <2> QED BY <1>2, <2>1, QuietStep DEF Begin, PipelineInv
<1>3. ASSUME NEW tx \in AllTransactions, NEW score \in Scores, DecideTransaction(tx, score)
      PROVE  PipelineInv'
  <2> DEFINE e == EntryFor(tx, score)
  <2>1. /\ stage = "walk" /\ e \in Entry
        /\ month_to_date' = IF e.final_decision # "BLOCK"
              THEN [month_to_date EXCEPT ![tx.customer_id] = @ + tx.amount]
              ELSE month_to_date
        /\ tx_count_today' = IF e.final_decision # "BLOCK"
              THEN [tx_count_today EXCEPT ![tx.customer_id] = @ + 1]
              ELSE tx_count_today
        /\ entries' = Append(entries, e)
        /\ Len(entries) \in Nat /\ Len(entries') = Len(entries) + 1
        /\ \A i \in 1..Len(entries) : entries'[i] = entries[i]
        /\ entries'[Len(entries) + 1] = e
        /\ UNCHANGED <<stage, caller_id, summary>>
    BY <1>3, WalkStep
  <2>2. e.final_decision = Decide[<<e.detect_decision, e.violated_rules>>]
    BY DEF EntryFor
  <2> HIDE DEF e
  <2>3. TypeOK'
    <3>1. tx.amount \in Nat /\ tx.customer_id \in Customers
      BY PipelineAssumption DEF Customers
    <3>2. month_to_date' \in [Customers -> Nat] /\ tx_count_today' \in [Customers -> Nat]
      BY <2>1, <3>1 DEF PipelineInv, TypeOK
    <3>3. entries' \in Seq(Entry)
      BY <2>1 DEF PipelineInv, TypeOK
    <3> QED BY <2>1, <3>2, <3>3 DEF PipelineInv, TypeOK
  <2>4. CallerAccepted' /\ SummaryIsCount'
    BY <2>1 DEF PipelineInv, CallerAccepted, SummaryIsCount
  <2>5. DecidedByPolicy'
    BY <2>1, <2>2 DEF PipelineInv, DecidedByPolicy
  <2>6. TotalsAreSums' /\ OwnHistoryFits' /\ ViolationsAgree'
    BY <1>3, TotalsStep, OwnStep, ViolationsStep
  <2> QED BY <2>3, <2>4, <2>5, <2>6 DEF PipelineInv
<1>4. CASE Finish
  <2>1. TypeOK' /\ CallerAccepted'
    BY <1>4, SummaryType DEF Finish, PipelineInv, TypeOK, CallerAccepted
  <2>2. UNCHANGED <<entries, month_to_date, tx_count_today>> /\ summary' = summarize
    BY <1>4 DEF Finish
  <2> QED BY <2>1, <2>2, QuietStep DEF PipelineInv, SummaryIsCount
<1>5. CASE UNCHANGED vars
  <2>1. TypeOK' /\ CallerAccepted'
    BY <1>5 DEF vars, PipelineInv, TypeOK, CallerAccepted
  <2>2. UNCHANGED <<entries, month_to_date, tx_count_today, stage, summary>>
    BY <1>5 DEF vars
  <2> QED BY <2>1, <2>2, QuietStep DEF PipelineInv, SummaryIsCount
<1> QED BY <1>1, <1>2, <1>3, <1>4, <1>5 DEF Next

\* The invariant of the walk, for every set of transactions, every order, every
\* score and every policy.
THEOREM PipelineInvariant == Spec => []PipelineInv
BY PipelineInit, PipelineStep, PTL DEF Spec

\* Types.
THEOREM PipelineTypes == Spec => []TypeOK
<1>1. PipelineInv => TypeOK
  BY DEF PipelineInv
<1> QED BY <1>1, PipelineInvariant, PTL

\* A customer's own history fits the mandate made of it, under every policy.
THEOREM OwnHistory == Spec => []OwnHistoryFits
<1>1. PipelineInv => OwnHistoryFits
  BY DEF PipelineInv
<1> QED BY <1>1, PipelineInvariant, PTL

-----------------------------------------------------------------------------
\* A step that lets a transaction through found room for it in the mandate.
LEMMA MandateStep ==
    ASSUME PolicyRejectsViolations, PipelineInv, PipelineInv', WithinMandate, [Next]_vars
    PROVE  WithinMandate'
<1> SUFFICES ASSUME NEW c \in Customers
             PROVE  /\ month_to_date'[c] <= MandateOf(c).monthly_limit_usd
                    /\ tx_count_today'[c] <= MandateOf(c).max_tx_per_day
  BY DEF WithinMandate, PipelineInv, TotalsAreSums
<1>1. /\ month_to_date[c] <= MandateOf(c).monthly_limit_usd
      /\ tx_count_today[c] <= MandateOf(c).max_tx_per_day
  BY DEF WithinMandate, PipelineInv, TotalsAreSums
<1>2. CASE UNCHANGED <<month_to_date, tx_count_today>>
  BY <1>1, <1>2
<1>3. ASSUME NEW tx \in AllTransactions, NEW score \in Scores, DecideTransaction(tx, score)
      PROVE  /\ month_to_date'[c] <= MandateOf(c).monthly_limit_usd
             /\ tx_count_today'[c] <= MandateOf(c).max_tx_per_day
  <2> DEFINE e == EntryFor(tx, score)
             x == tx.customer_id
  <2>1. /\ month_to_date' = IF e.final_decision # "BLOCK"
              THEN [month_to_date EXCEPT ![x] = @ + tx.amount] ELSE month_to_date
        /\ tx_count_today' = IF e.final_decision # "BLOCK"
              THEN [tx_count_today EXCEPT ![x] = @ + 1] ELSE tx_count_today
        /\ e \in Entry
    BY <1>3, WalkStep
  <2>2. /\ e.violated_rules = violated_rules(tx, MandateOf(x), month_to_date[x], tx_count_today[x])
        /\ e.final_decision = Decide[<<e.detect_decision, e.violated_rules>>]
    BY DEF EntryFor
  <2> HIDE DEF e
  <2>3. month_to_date \in [Customers -> Nat] /\ tx_count_today \in [Customers -> Nat]
    BY DEF PipelineInv, TypeOK
  <2>4. CASE e.final_decision # "BLOCK" /\ x = c
    <3>1. e.detect_decision \in DetectDecisions /\ e.violated_rules \in SUBSET RuleNames
      BY <2>1 DEF Entry
    <3>2. e.violated_rules = {}
      BY <2>2, <2>4, <3>1 DEF PolicyRejectsViolations
    <3>3. /\ check_spending_limit(tx.amount, month_to_date[c], MandateOf(c).monthly_limit_usd)
          /\ check_velocity(tx_count_today[c], MandateOf(c).max_tx_per_day)
      BY <2>2, <2>4, <3>2, ViolatedRules
    <3>4. /\ month_to_date'[c] = month_to_date[c] + tx.amount
          /\ tx_count_today'[c] = tx_count_today[c] + 1
      BY <2>1, <2>3, <2>4
    <3>5. MandateOf(c).max_tx_per_day \in Nat /\ tx_count_today[c] \in Nat
      BY <2>3, MandateIs
    <3> QED BY <3>3, <3>4, <3>5 DEF check_spending_limit, check_velocity
  <2>5. CASE ~(e.final_decision # "BLOCK" /\ x = c)
    <3>1. month_to_date'[c] = month_to_date[c] /\ tx_count_today'[c] = tx_count_today[c]
      BY <2>1, <2>3, <2>5
    <3> QED BY <3>1, <1>1
  <2> QED BY <2>4, <2>5
<1> QED BY <1>2, <1>3 DEF Next, vars, RefuseCaller, Begin, Finish

\* Under a policy that rejects every violation, whatever goes through for a
\* customer stays within the mandate, in every order and at every score.
THEOREM MandateKept ==
    ASSUME PolicyRejectsViolations
    PROVE  Spec => []WithinMandate
<1>1. Init => WithinMandate
  <2> SUFFICES ASSUME Init, NEW c \in Customers
               PROVE  /\ SumFunctionOnSet(Amounts, Passed(c)) <= MandateOf(c).monthly_limit_usd
                      /\ Cardinality(Passed(c)) <= MandateOf(c).max_tx_per_day
    BY DEF WithinMandate
  <2>1. Passed(c) = {}
    BY DEF Init, Passed
  <2> QED BY <2>1, SumEmpty, FS_EmptySet, MandateIs
<1>2. PipelineInv /\ PipelineInv' /\ WithinMandate /\ [Next]_vars => WithinMandate'
  BY MandateStep
<1> QED BY <1>1, <1>2, PipelineInvariant, PTL DEF Spec

\* Under a policy that never turns a block milder for more violations, the
\* live demo and the walk of a run agree as LiveDecisionAgrees says.
THEOREM LiveAgrees ==
    ASSUME PolicyIsMonotone
    PROVE  Spec => []LiveDecisionAgrees
<1>1. PipelineInv => LiveDecisionAgrees
  <2> SUFFICES ASSUME PipelineInv, NEW i \in 1..Len(entries)
               PROVE  LET e == entries[i]
                          live == evaluate_transaction(e.tx, e.detect_decision)
                      IN  /\ live.violated_rules \subseteq e.violated_rules
                          /\ live.final_decision = "BLOCK" => e.final_decision = "BLOCK"
                          /\ \/ \E j \in 1..(i - 1) : /\ entries[j].tx.customer_id = e.tx.customer_id
                                                       /\ entries[j].final_decision # "BLOCK"
                             \/ live.final_decision = e.final_decision
    BY DEF LiveDecisionAgrees
  <2> DEFINE e == entries[i]
             v == violated_rules(e.tx, MandateOf(e.tx.customer_id), 0, 0)
             live == evaluate_transaction(e.tx, e.detect_decision)
  <2>1. live.violated_rules = v /\ live.final_decision = Decide[<<e.detect_decision, v>>]
    BY DEF evaluate_transaction
  <2>2. /\ v \subseteq e.violated_rules
        /\ \/ \E j \in 1..(i - 1) : /\ entries[j].tx.customer_id = e.tx.customer_id
                                     /\ entries[j].final_decision # "BLOCK"
           \/ v = e.violated_rules
    BY DEF PipelineInv, ViolationsAgree
  <2>3. e.final_decision = Decide[<<e.detect_decision, e.violated_rules>>]
    BY DEF PipelineInv, DecidedByPolicy
  <2>4. e.detect_decision \in DetectDecisions /\ e.violated_rules \in SUBSET RuleNames
    <3>1. e \in Entry
      BY PassedIs DEF PipelineInv
    <3> QED BY <3>1 DEF Entry
  <2>5. v \in SUBSET RuleNames
    BY ViolatedRules
  <2>6. live.final_decision = "BLOCK" => e.final_decision = "BLOCK"
    <3> HIDE DEF v, live, e
    <3> QED BY <2>1, <2>2, <2>3, <2>4, <2>5 DEF PolicyIsMonotone
  <2> HIDE DEF v
  <2> QED BY <2>1, <2>2, <2>3, <2>6
<1> QED BY <1>1, PipelineInvariant, PTL

\* Under a policy that combines as the default one does, BLOCK wins over all.
THEOREM BlockAlwaysWins ==
    ASSUME PolicyCombines
    PROVE  Spec => []BlockWins
<1>1. PipelineInv => BlockWins
  <2> SUFFICES ASSUME PipelineInv, NEW i \in 1..Len(entries)
               PROVE  entries[i].final_decision =
                        (IF i \in DetectBlocked \cup MandateBlocked THEN "BLOCK"
                         ELSE entries[i].detect_decision)
    BY DEF BlockWins
  <2>1. entries[i] \in Entry /\ i \in DOMAIN entries
    BY PassedIs DEF PipelineInv
  <2>2. entries[i].detect_decision \in DetectDecisions /\ entries[i].violated_rules \in SUBSET RuleNames
    BY <2>1 DEF Entry
  <2>3. entries[i].final_decision = Decide[<<entries[i].detect_decision, entries[i].violated_rules>>]
    BY DEF PipelineInv, DecidedByPolicy
  <2>4. i \in DetectBlocked \cup MandateBlocked
          <=> entries[i].detect_decision = "BLOCK" \/ entries[i].violated_rules # {}
    BY <2>1 DEF DetectBlocked, MandateBlocked
  <2> QED BY <2>2, <2>3, <2>4 DEF PolicyCombines
<1> QED BY <1>1, PipelineInvariant, PTL

\* The size of the union of two finite sets that share nothing.
LEMMA DisjointUnion ==
    ASSUME NEW S, NEW T, IsFiniteSet(S), IsFiniteSet(T), S \cap T = {}
    PROVE  /\ Cardinality(S \cup T) = Cardinality(S) + Cardinality(T)
           /\ IsFiniteSet(S \cup T)
           /\ Cardinality(S) \in Nat /\ Cardinality(T) \in Nat
<1>1. Cardinality(S \cap T) = 0
  BY FS_EmptySet
<1>2. Cardinality(S) \in Nat /\ Cardinality(T) \in Nat
  BY FS_CardinalityType
<1>3. IsFiniteSet(S \cup T) /\ Cardinality(S \cup T) = Cardinality(S) + Cardinality(T) - Cardinality(S \cap T)
  BY FS_Union
<1> QED BY <1>1, <1>2, <1>3

\* Under a policy that blocks for no other reason, the counts of a finished run
\* add up and every block is put down to a layer.
THEOREM CountsAddUp ==
    ASSUME PolicyBlocksForAReason
    PROVE  Spec => []BlocksAreAttributed
<1>1. PipelineInv => BlocksAreAttributed
  <2> SUFFICES ASSUME PipelineInv, stage = "done"
               PROVE  /\ summarize.BLOCK + summarize.FLAG + summarize.ALLOW = summarize.total
                      /\ summarize.both + summarize.detect_only + summarize.mandate_only = summarize.BLOCK
    BY DEF BlocksAreAttributed, PipelineInv, SummaryIsCount
  <2> DEFINE D == 1..Len(entries)
             B == Decided("BLOCK")
             F == Decided("FLAG")
             A == Decided("ALLOW")
             both == B \cap DetectBlocked \cap MandateBlocked
             detect == (B \cap DetectBlocked) \ MandateBlocked
             mandate == (B \cap MandateBlocked) \ DetectBlocked
  <2>1. DOMAIN entries = D /\ Len(entries) \in Nat
    BY PassedIs DEF PipelineInv
  <2>2. IsFiniteSet(D) /\ Cardinality(D) = Len(entries)
    <3> DEFINE k == Len(entries)
    <3>1. k \in Nat
      BY <2>1
    <3> HIDE DEF k
    <3>2. IsFiniteSet(1..k) /\ Cardinality(1..k) = (IF 1 > k THEN 0 ELSE k - 1 + 1)
      BY <3>1, FS_Interval
    <3>3. IsFiniteSet(1..k) /\ Cardinality(1..k) = k
      BY <3>1, <3>2
    <3> QED BY <3>3 DEF k
  <2>3. \A i \in D : /\ entries[i].final_decision \in DetectDecisions
                    /\ entries[i].detect_decision \in DetectDecisions
                    /\ entries[i].violated_rules \in SUBSET RuleNames
                    /\ entries[i].final_decision =
                         Decide[<<entries[i].detect_decision, entries[i].violated_rules>>]
    <3>1. \A i \in D : entries[i] \in Entry
      BY PassedIs DEF PipelineInv
    <3> QED BY <3>1 DEF Entry, PipelineInv, DecidedByPolicy
  <2>4. /\ B \cup F \cup A = D /\ B \cap F = {} /\ (B \cup F) \cap A = {}
        /\ B \subseteq D /\ F \subseteq D /\ A \subseteq D
    BY <2>1, <2>3 DEF Decided, DetectDecisions
  <2>5. B \subseteq DetectBlocked \cup MandateBlocked
    <3> SUFFICES ASSUME NEW i \in D, entries[i].final_decision = "BLOCK"
                 PROVE  entries[i].detect_decision = "BLOCK" \/ entries[i].violated_rules # {}
      BY <2>1 DEF Decided, DetectBlocked, MandateBlocked
    <3> QED BY <2>3 DEF PolicyBlocksForAReason
  <2>6. IsFiniteSet(B) /\ IsFiniteSet(F) /\ IsFiniteSet(A)
    BY <2>2, <2>4, FS_Subset
  <2>7. both \cup detect \cup mandate = B /\ both \cap detect = {} /\ (both \cup detect) \cap mandate = {}
    BY <2>5
  <2>8. IsFiniteSet(both) /\ IsFiniteSet(detect) /\ IsFiniteSet(mandate)
    BY <2>6, FS_Subset
  <2>9. /\ summarize.total = Len(entries) /\ summarize.BLOCK = Cardinality(B)
        /\ summarize.FLAG = Cardinality(F) /\ summarize.ALLOW = Cardinality(A)
        /\ summarize.both = Cardinality(both) /\ summarize.detect_only = Cardinality(detect)
        /\ summarize.mandate_only = Cardinality(mandate)
    BY DEF summarize
  <2> HIDE DEF D, B, F, A, both, detect, mandate
  <2>10. Cardinality(D) = Cardinality(B) + Cardinality(F) + Cardinality(A)
    <3>1. /\ Cardinality(B \cup F) = Cardinality(B) + Cardinality(F)
          /\ IsFiniteSet(B \cup F)
      BY <2>4, <2>6, DisjointUnion
    <3>2. Cardinality((B \cup F) \cup A) = Cardinality(B \cup F) + Cardinality(A)
      BY <2>4, <2>6, <3>1, DisjointUnion
    <3> QED BY <2>4, <3>1, <3>2
  <2>11. Cardinality(B) = Cardinality(both) + Cardinality(detect) + Cardinality(mandate)
    <3>1. /\ Cardinality(both \cup detect) = Cardinality(both) + Cardinality(detect)
          /\ IsFiniteSet(both \cup detect)
      BY <2>7, <2>8, DisjointUnion
    <3>2. Cardinality((both \cup detect) \cup mandate) = Cardinality(both \cup detect) + Cardinality(mandate)
      BY <2>7, <2>8, <3>1, DisjointUnion
    <3> QED BY <2>7, <3>1, <3>2
  <2> QED BY <2>2, <2>9, <2>10, <2>11
<1> QED BY <1>1, PipelineInvariant, PTL

\* A policy that combines as the default one does has the three others.
LEMMA CombiningSuffices ==
    PolicyCombines => PolicyRejectsViolations /\ PolicyIsMonotone /\ PolicyBlocksForAReason
<1>1. PolicyCombines => PolicyRejectsViolations
  BY DEF PolicyCombines, PolicyRejectsViolations
<1>2. PolicyCombines => PolicyIsMonotone
  BY DEF PolicyCombines, PolicyIsMonotone, DetectDecisions
<1>3. PolicyCombines => PolicyBlocksForAReason
  BY DEF PolicyCombines, PolicyBlocksForAReason
<1> QED BY <1>1, <1>2, <1>3

-----------------------------------------------------------------------------
\* main asks the shipped document.
DecidedByShippedPolicy ==
    Decide = [q \in DetectDecisions \X SUBSET RuleNames |->
                 decide(q[1], q[2], RuleNames, DEFAULT_POLICY)]

\* Pipeline and document put together, evaluate_policy and all: in a run that asks
\* the shipped document, whatever goes through stays within the mandate, BLOCK
\* wins over all, live demo and walk agree and every block has its layer.
THEOREM ShippedRunIsSafe ==
    ASSUME DecidedByShippedPolicy
    PROVE  Spec => [](WithinMandate /\ BlockWins /\ LiveDecisionAgrees /\ BlocksAreAttributed)
<1>1. PolicyCombines
  <2> SUFFICES ASSUME NEW d \in DetectDecisions, NEW v \in SUBSET RuleNames
               PROVE  Decide[<<d, v>>] = IF d = "BLOCK" \/ v # {} THEN "BLOCK" ELSE d
    BY DEF PolicyCombines
  <2>1. Decide[<<d, v>>] = decide(d, v, RuleNames, DEFAULT_POLICY)
    BY DEF DecidedByShippedPolicy
  <2>2. "detect_decision" \notin RuleNames /\ "mandate_allowed" \notin RuleNames
    BY DEF RuleNames
  <2>3. d \in {"ALLOW", "FLAG", "BLOCK"}
    BY DEF DetectDecisions
  <2> QED BY <2>1, <2>2, <2>3, ShippedPolicyCombines
<1>2. PolicyRejectsViolations /\ PolicyIsMonotone /\ PolicyBlocksForAReason
  BY <1>1, CombiningSuffices
<1>3. Spec => []WithinMandate
  BY <1>2, MandateKept
<1>4. Spec => []BlockWins
  BY <1>1, BlockAlwaysWins
<1>5. Spec => []LiveDecisionAgrees
  BY <1>2, LiveAgrees
<1>6. Spec => []BlocksAreAttributed
  BY <1>2, CountsAddUp
<1> QED BY <1>3, <1>4, <1>5, <1>6, PTL
=============================================================================
