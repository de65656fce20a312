--------------------------- MODULE BillingRules ---------------------------
(***************************************************************************)
(* The arithmetic of billing, as pure operators: what kind of charge a     *)
(* contract's wording makes (billing/frequency.py), the fee item a term    *)
(* projects to (config_builder.py), the monthly dues of a configuration    *)
(* (estimate.py), the fleet they are multiplied by (fleet.py) and the      *)
(* dated schedule of payments (schedule.py).                               *)
(***************************************************************************)
EXTENDS Nothing, Integers, Sequences, FiniteSets, FiniteSetsExt

-----------------------------------------------------------------------------
(* What a charge is.                                                       *)

Classes == {"recurring", "recurring_per_driver", "usage", "one_time", "credit"}

\* The patterns in the order they are tried.  A wording is the set of the
\* patterns it matches.
Rules ==
  << [words |-> "rebate",         basis |-> "percent_of_proceeds",   class |-> "credit"],
     [words |-> "per vehicle per month", basis |-> "per_vehicle_per_month", class |-> "recurring"],
     [words |-> "per driver per month",  basis |-> "per_driver_per_month",
      class |-> "recurring_per_driver"],
     [words |-> "per card",       basis |-> "per_card_per_month",    class |-> "usage"],
     [words |-> "per claim",      basis |-> "per_claim",             class |-> "usage"],
     [words |-> "per incident",   basis |-> "per_incident",          class |-> "usage"],
     [words |-> "per transaction", basis |-> "per_transaction",      class |-> "usage"],
     [words |-> "of proceeds",    basis |-> "percent_of_proceeds",   class |-> "usage"],
     [words |-> "percent of",     basis |-> "percent_of_cost",       class |-> "usage"],
     [words |-> "at cost",        basis |-> "percent_of_cost",       class |-> "usage"],
     [words |-> "one-time",       basis |-> "one_time",              class |-> "one_time"],
     [words |-> "monthly",        basis |-> "per_unit_per_month",    class |-> "recurring"],
     [words |-> "per unit",       basis |-> "per_unit",              class |-> "usage"] >>

Wordings == {Rules[i].words : i \in DOMAIN Rules}
UnknownCharge == [words |-> "", basis |-> "other", class |-> "usage"]

\* classify: the first rule that matches.
Classify(wording) ==
  LET matching == {i \in DOMAIN Rules : Rules[i].words \in wording}
  IN  IF matching = {} THEN UnknownCharge ELSE Rules[Min(matching)]

\* What an auditor's class makes the charge bill on.
BasisForClass ==
  [recurring |-> "per_vehicle_per_month", recurring_per_driver |-> "per_driver_per_month",
   one_time |-> "one_time", usage |-> "per_transaction", credit |-> "percent_of_proceeds"]

-----------------------------------------------------------------------------
(* Fee items.  A pricing term as read: an amount or none, tier bands, a    *)
(* rate or none, the wording of its frequency, and what the audit put      *)
(* beside it.                                                              *)

NoOverride == [amount |-> None, class |-> None]
PricingTerm(amount, tiers, rated, wording, override) ==
  [amount |-> amount, tiers |-> tiers, rated |-> rated, wording |-> wording,
   override |-> override]

\* Which charges bill anything at all, and the override wins over the reading.
Amount(t) == IF t.override.amount # None THEN t.override.amount ELSE t.amount
IsPriced(t) == Amount(t) # None \/ t.tiers # <<>> \/ t.rated

\* An overridden class takes its basis along, or the two would disagree.
Basis(t) ==
  IF t.override.class # None THEN BasisForClass[t.override.class]
  ELSE Classify(t.wording).basis

\* _fee_item
FeeItem(t) ==
  [amount |-> Amount(t), tiers |-> t.tiers, basis |-> Basis(t),
   class |-> IF t.override.class # None THEN t.override.class ELSE Classify(t.wording).class]

\* The fee items of a configuration: what the terms, by record id, price.
FeeItems(terms) == [id \in {x \in DOMAIN terms : IsPriced(terms[x])} |-> FeeItem(terms[id])]

-----------------------------------------------------------------------------
(* The monthly dues.                                                       *)

\* The sum of what f says of the members of a set.
SumOver(f, S) == MapThenSumSet(LAMBDA x : f[x], S)

IsPerUnitMonth(basis) == basis \in {"per_vehicle_per_month", "per_unit_per_month"}

\* The first band the fleet falls in, if any.
BandAmount(tiers, fleet) ==
  LET fits == {i \in DOMAIN tiers :
                 tiers[i].lo <= fleet /\ (tiers[i].hi = None \/ fleet <= tiers[i].hi)}
  IN  IF fits = {} \/ tiers[Min(fits)].amount = None THEN 0 ELSE tiers[Min(fits)].amount

PerUnit(item, fleet) ==
  (IF item.amount # None /\ IsPerUnitMonth(item.basis) THEN item.amount ELSE 0)
    + BandAmount(item.tiers, fleet)

\* compute_monthly_recurring, over the items of a configuration by record id.
MonthlyRecurring(items, fleet) ==
  IF fleet <= 0 THEN 0
  ELSE fleet * SumOver([id \in DOMAIN items |-> PerUnit(items[id], fleet)], DOMAIN items)

-----------------------------------------------------------------------------
(* The fleet: a provider's number, or what the inventory counts.           *)

AtLeast(low, n) == IF n < low THEN low ELSE n
EffectiveFleet(assigned, override) ==
  IF override # None THEN AtLeast(1, override) ELSE AtLeast(0, assigned)

-----------------------------------------------------------------------------
(* Dates and the schedule.                                                 *)

AtMost(high, n) == IF n > high THEN high ELSE n

DaysIn(year, month) ==
  CASE month \in {4, 6, 9, 11} -> 30
    [] month = 2 -> IF year % 4 = 0 /\ (year % 100 # 0 \/ year % 400 = 0) THEN 29 ELSE 28
    [] OTHER -> 31

Date(y, m, d) == [year |-> y, month |-> m, day |-> d]

\* Only the order of dates is used: a number that orders them.
Ordinal(d) == (d.year * 12 + d.month) * 31 + d.day

\* _add_months clamps the day to the month it lands in.
AddMonths(d, months) ==
  LET total == d.month - 1 + months
      year  == d.year + total \div 12
      month == (total % 12) + 1
  IN  Date(year, month, AtMost(DaysIn(year, month), d.day))

\* set_contract_term derives the end the same way, unless one was negotiated.
ContractEnd(given, start, months) ==
  IF given # None THEN given
  ELSE IF start # None /\ months # None THEN AddMonths(start, months)
  ELSE None

\* Months in a period, and how many rows a fresh schedule gets.
Cadence ==
  [monthly   |-> [months |-> 1,  rows |-> 12],
   quarterly |-> [months |-> 3,  rows |-> 4],
   annual    |-> [months |-> 12, rows |-> 3]]

\* normalize_frequency, of the set of words the configuration's text contains.
NormalizeFrequency(words) ==
  IF "quarter" \in words THEN "quarterly"
  ELSE IF words \cap {"year", "annual"} # {} THEN "annual"
  ELSE "monthly"

\* Every row counts from the start, never from the row before it, whose day may
\* have been clamped.
DueDate(start, frequency, i) == AddMonths(start, i * Cadence[frequency].months)

\* generate_rows: the due dates of a fresh schedule, by sequence number.
GenerateRows(start, frequency) ==
  [i \in 0..Cadence[frequency].rows - 1 |-> DueDate(start, frequency, i)]

-----------------------------------------------------------------------------
(* enrich: what each row is today.  Rows are a function from sequence      *)
(* numbers to [due, paid]; length is that of the last row's period.        *)

PeriodEnd(rows, i, length) ==
  LET later == {j \in DOMAIN rows : j > i}
  IN  IF later = {} THEN rows[i].due + length ELSE rows[Min(later)].due

PaymentStatus(rows, i, today, length) ==
  CASE rows[i].paid                          -> "paid"
    [] today < rows[i].due                   -> "upcoming"
    [] today < PeriodEnd(rows, i, length)    -> "due"
    [] OTHER                                 -> "overdue"

\* The one row that may be paid early.
IsNextEarly(rows, i, today) ==
  LET early == {j \in DOMAIN rows : ~rows[j].paid /\ rows[j].due > today}
  IN  early # {} /\ i = Min(early)

IsPayable(rows, i, today, length) ==
  \/ PaymentStatus(rows, i, today, length) \in {"due", "overdue"}
  \/ IsNextEarly(rows, i, today)
=============================================================================
