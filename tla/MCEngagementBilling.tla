----------------------- MODULE MCEngagementBilling -----------------------
(***************************************************************************)
(* EngagementBilling on a small instance.                                  *)
(***************************************************************************)
EXTENDS EngagementBilling, TLC

CONSTANTS r1, r2, lease, toll

Flat(amount, wording) == PricingTerm(amount, <<>>, FALSE, wording, NoOverride)
Reading(a, frequency) ==
  [lines |-> lease :> Flat(a, {"per vehicle per month"}) @@ toll :> Flat(2, {"per transaction"}),
   frequency |-> frequency]

TwoReadings == << {Reading(1, {})}, {Reading(3, {"annual"})} >>

Correction(amount, class) == [amount |-> amount, class |-> class]
TwoCorrections == {Correction(None, "recurring"), Correction(4, None)}

NoOrOne == {None, 1}

\* Two requests at a time: the audit against readers, movers of vehicles
\* against each other and a signature, and payers against both.
BillingShifts ==
  { (r1 :> {"sign", "correct"}) @@ (r2 :> {"sign", "correct", "heal"}),
    (r1 :> {"sign", "vehicle"}) @@ (r2 :> {"vehicle", "fleet", "heal"}),
    (r1 :> {"sign", "pay"}) @@ (r2 :> {"view", "pay"}),
    (r1 :> {"sign", "fleet"}) @@ (r2 :> {"pay"}) }

-----------------------------------------------------------------------------
(* The calendar, which no run moves through.                               *)

Days == {d \in [year : {2027, 2028}, month : 1..12, day : 1..31] :
           d.day <= DaysIn(d.year, d.month)}

\* The month n months on, counted one by one.
NextMonth(m) == IF m[2] = 12 THEN <<m[1] + 1, 1>> ELSE <<m[1], m[2] + 1>>
MonthOn(d, n) ==
  LET on[i \in 0..n] == IF i = 0 THEN <<d.year, d.month>> ELSE NextMonth(on[i - 1])
  IN  on[n]

\* From any day of a common and a leap year every schedule falls in the months
\* of its cadence, on the day it started or the last of the month; and so does
\* the end of a contract (generate_rows, set_contract_term).
ASSUME SchedulesKeepTheirDay ==
  \A d \in Days, frequency \in DOMAIN Cadence :
    LET months == Cadence[frequency].months
        rows   == GenerateRows(d, frequency)
    IN  \A i \in DOMAIN rows :
          /\ <<rows[i].year, rows[i].month>> = MonthOn(d, i * months)
          /\ rows[i].day = CHOOSE n \in {d.day, DaysIn(rows[i].year, rows[i].month)} :
                             n <= d.day /\ n <= DaysIn(rows[i].year, rows[i].month)
          /\ ContractEnd(None, d, i * months) = rows[i]

\* Monthly from the middle of January, in the middle of March, as in
\* tests/test_schedule.py: two overdue, one due, one that may be paid early.
ASSUME WindowsOfMarch ==
  LET dates == GenerateRows(Date(2026, 1, 15), "monthly")
      rows  == [i \in DOMAIN dates |-> [due |-> Ordinal(dates[i]), paid |-> FALSE]]
      march == Ordinal(Date(2026, 3, 20))
  IN  /\ DOMAIN rows = 0..11
      /\ \A i \in DOMAIN rows : PaymentStatus(rows, i, march, 31) =
           IF i < 2 THEN "overdue" ELSE IF i = 2 THEN "due" ELSE "upcoming"
      /\ {i \in DOMAIN rows : IsPayable(rows, i, march, 31)} = 0..3
=============================================================================
