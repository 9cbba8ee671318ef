------------------------------ MODULE Mandate -------------------------------
(***************************************************************************)
(* Mandates: mandate/src/rules.py and mandate_checker.py.  Amounts are     *)
(* whole numbers of the smallest unit; a mandate without an allow list     *)
(* (None or empty) has the empty set of merchants.                         *)
(***************************************************************************)
EXTENDS Integers, SequencesExt, FiniteSetsExt

CONSTANTS
    DEFAULT_MONTHLY_LIMIT_USD,
    DEFAULT_ALLOWED_HOURS,   \* <<first, last>>, both included
    DEFAULT_MAX_TX_PER_DAY

ASSUME MandateAssumption ==
    DEFAULT_MONTHLY_LIMIT_USD \in Nat /\ DEFAULT_MAX_TX_PER_DAY \in Nat

RuleNames == {"spending_limit", "merchant_whitelist", "time_restriction", "velocity"}

check_spending_limit(amount, month_to_date_total, monthly_limit_usd) ==
    month_to_date_total + amount <= monthly_limit_usd

check_merchant_whitelist(merchant, allowed_merchants) ==
    allowed_merchants = {} \/ merchant \in allowed_merchants

check_time_restriction(hour_of_day, allowed_hours) ==
    allowed_hours[1] <= hour_of_day /\ hour_of_day <= allowed_hours[2]

check_velocity(tx_count_today, max_tx_per_day) ==
    tx_count_today < max_tx_per_day

default_mandate ==
    [monthly_limit_usd |-> DEFAULT_MONTHLY_LIMIT_USD,
     allowed_merchants |-> {},
     allowed_hours     |-> DEFAULT_ALLOWED_HOURS,
     max_tx_per_day    |-> DEFAULT_MAX_TX_PER_DAY]

\* Mutant: the margin around the hours is taken off instead of added.
HoursAround_Inward(hours) == <<Min(hours) + 2, Max(hours) - 2>>

\* The hours of the history with two on either side, within the day.
HoursAround(hours) ==
    <<IF Min(hours) < 2 THEN 0 ELSE Min(hours) - 2,
      IF Max(hours) > 21 THEN 23 ELSE Max(hours) + 2>>

\* avg_amount * n * 1.5 is one and a half times the sum; of an odd sum
\* half a unit is left, which is dropped here and rounded either way there.
derive_mandate_from_history(txs) ==
    IF txs = {} THEN default_mandate
    ELSE [monthly_limit_usd |-> (3 * SumFunctionOnSet([t \in txs |-> t.amount], txs)) \div 2,
          allowed_merchants |-> {t.merchant : t \in txs},
          allowed_hours     |-> HoursAround({t.hour_of_day : t \in txs}),
          max_tx_per_day    |-> Max({DEFAULT_MAX_TX_PER_DAY, Cardinality(txs) \div 4 + 2})]

\* check_mandate: the rules the transaction violates, none if it is allowed.
violated_rules(tx, mandate, month_to_date_total, tx_count_today) ==
    {r \in RuleNames :
        CASE r = "spending_limit" ->
                ~check_spending_limit(tx.amount, month_to_date_total, mandate.monthly_limit_usd)
          [] r = "merchant_whitelist" ->
                ~check_merchant_whitelist(tx.merchant, mandate.allowed_merchants)
          [] r = "time_restriction" ->
                ~check_time_restriction(tx.hour_of_day, mandate.allowed_hours)
          [] r = "velocity" ->
                ~check_velocity(tx_count_today, mandate.max_tx_per_day)}
=============================================================================
