-------------------------- MODULE FinanceDashboard --------------------------
(***************************************************************************)
(* The finance dashboard (api/finance.py): every engagement with its       *)
(* cycles, dues and payments, rolled up to totals, stages, customers and   *)
(* date buckets.  A book is a function from engagements to                 *)
(*   [cycles, own, recorded, frequency, fleet, customer, client, ends,     *)
(*    rows]:                                                               *)
(* its review cycles, each with the dues its stored configuration gives or *)
(* None, the status and the dues on its own row, what it is linked to, the *)
(* days to its expiry or None, and its payments by sequence number, each   *)
(* [due, paid, amount], with due in days from today.                       *)
(***************************************************************************)
EXTENDS AmendmentPolicy, BillingRules

CONSTANTS
  Books,    \* the states of the tables the dashboard may be asked about
  Period    \* frequency -> the days of a payment that no other one follows

\* Amounts and dues are numbers that are not negative, a payment made has its
\* amount, cycles are numbered as they are opened and an engagement shows
\* another status than its first one only once it has a cycle.
Amounts == Nat \cup {None}
IsEngagement(e) ==
  /\ DOMAIN e = {"cycles", "own", "recorded", "frequency", "fleet", "customer", "client", "ends", "rows"}
  /\ IsFiniteSet(DOMAIN e.cycles) /\ DOMAIN e.cycles = 1..Cardinality(DOMAIN e.cycles)
  /\ \A s \in DOMAIN e.cycles :
       e.cycles[s].cycle \in Nat /\ e.cycles[s].created \in Nat /\ e.cycles[s].priced \in Amounts
  /\ DOMAIN e.cycles = {} => e.own = "DRAFT"
  /\ e.recorded \in Amounts /\ e.frequency \in DOMAIN Cadence /\ e.fleet \in Amounts
  /\ e.ends = None \/ e.ends \in Int
  /\ IsFiniteSet(DOMAIN e.rows)
  /\ \A i \in DOMAIN e.rows :
       e.rows[i].due \in Int /\ e.rows[i].paid \in BOOLEAN /\ (e.rows[i].paid => e.rows[i].amount \in Nat)

ASSUME BooksAssumption ==
  \A b \in Books : IsFiniteSet(DOMAIN b) /\ \A x \in DOMAIN b : IsEngagement(b[x])

VARIABLES book, report   \* what was asked about and answered, {} before

reportVars == <<book, report>>

-----------------------------------------------------------------------------
(* One engagement's line.                                                  *)

\* The cycle whose status is shown, if there is one; above it, the latest.
LatestCycle(cycles) == {s \in DOMAIN cycles : IsLatest(cycles, DOMAIN cycles, s)}
ShownCycle(cycles)  == {s \in DOMAIN cycles : IsCycleInForce(cycles, s)}

Shown(e)  == e.cycles[CHOOSE s \in ShownCycle(e.cycles) : TRUE]
Status(e) == IF ShownCycle(e.cycles) = {} THEN e.own ELSE Shown(e).status
IsLive(e) == Status(e) = "ACTIVE"

OrZero(n) == IF n = None THEN 0 ELSE n

\* _dues: what is recorded, or for a live engagement what the configuration of
\* the cycle shown says.
Dues(e) ==
  IF e.recorded # None \/ ~IsLive(e) \/ ShownCycle(e.cycles) = {} THEN e.recorded
  ELSE Shown(e).priced

\* enrich and summarize, today being day 0.
Payment(e, i) == PaymentStatus(e.rows, i, 0, Period[e.frequency])
Billed(e)     ==
  [i \in DOMAIN e.rows |->
     IF e.rows[i].paid THEN e.rows[i].amount ELSE OrZero(e.recorded) * Cadence[e.frequency].months]
RowsIn(e, statuses) == {i \in DOMAIN e.rows : Payment(e, i) \in statuses}
SumOf(e, statuses)  == SumOver(Billed(e), RowsIn(e, statuses))

-----------------------------------------------------------------------------
(* Buckets, by their first day; each ends where the next begins.           *)

Expiry == <<[key |-> "d30", from |-> 0], [key |-> "d60", from |-> 31], [key |-> "d90", from |-> 61],
            [key |-> "d180", from |-> 91], [key |-> "later", from |-> 181]>>
Aging  == <<[key |-> "d1_30", from |-> 1], [key |-> "d31_60", from |-> 31],
            [key |-> "d61_90", from |-> 61], [key |-> "d90_plus", from |-> 91]>>
ExpiryKeys == {"expired"} \cup {Expiry[i].key : i \in DOMAIN Expiry}
Ages       == {"current"} \cup {Aging[i].key : i \in DOMAIN Aging}

BucketOf(buckets, below, days) ==
  LET begun == {i \in DOMAIN buckets : buckets[i].from <= days}
  IN  IF begun = {} THEN below ELSE buckets[Max(begun)].key

ExpiryBucket(days) == BucketOf(Expiry, "expired", days)

\* A payment that is not due, a paid one too, counts as not yet due.
AgeBucket(e, i) ==
  IF i \in RowsIn(e, {"due", "overdue"}) THEN BucketOf(Aging, "current", -e.rows[i].due)
  ELSE "current"
Aged(e, age) == {i \in DOMAIN e.rows : AgeBucket(e, i) = age}

\* What the report is made of.
Line(e) ==
  [status |-> Status(e), dues |-> OrZero(Dues(e)), fleet |-> OrZero(e.fleet),
   customer |-> IF e.customer # None THEN e.customer ELSE <<"legacy", e.client>>,
   ends |-> e.ends, collected |-> SumOf(e, {"paid"}), outstanding |-> SumOf(e, {"due", "overdue"}),
   missed |-> SumOf(e, {"overdue"}), aged |-> [age \in Ages |-> SumOver(Billed(e), Aged(e, age))]]

StageOf ==
  [DRAFT |-> "negotiations", EXTRACTING |-> "onboarding", IN_UNDERWRITING |-> "onboarding",
   REVALIDATING |-> "onboarding", VALIDATION_FAILED |-> "onboarding",
   PENDING_CLIENT_APPROVAL |-> "review", CHANGES_REQUESTED_CLIENT |-> "review",
   CLIENT_APPROVED |-> "review", BILLING_SETUP |-> "billing_setup",
   PENDING_BILLING_AUDIT |-> "billing_audit", ACTIVE |-> "active"]
Stages == {StageOf[s] : s \in DOMAIN StageOf}

-----------------------------------------------------------------------------
(* The report.                                                             *)

Total(lines, field, ids) == SumOver([x \in ids |-> lines[x][field]], ids)
LiveIn(lines, ids)       == {x \in ids : lines[x].status = "ACTIVE"}
Worth(lines, ids)        == [count |-> Cardinality(ids), value |-> Total(lines, "dues", ids)]

Totals(lines, ids) ==
  [engagements |-> Cardinality(ids), active |-> Cardinality(LiveIn(lines, ids)),
   monthly     |-> Total(lines, "dues", LiveIn(lines, ids)),
   fleet       |-> Total(lines, "fleet", LiveIn(lines, ids)),
   pipeline    |-> Total(lines, "dues", ids \ LiveIn(lines, ids)),
   collected   |-> Total(lines, "collected", ids),
   outstanding |-> Total(lines, "outstanding", ids),
   missed      |-> Total(lines, "missed", ids)]

Dated(lines)         == {x \in LiveIn(lines, DOMAIN lines) : lines[x].ends # None}
Expiring(lines, key) == {x \in Dated(lines) : ExpiryBucket(lines[x].ends) = key}

\* finance_dashboard, without the rankings cut from it.
Rollup(lines) ==
  [totals    |-> Totals(lines, DOMAIN lines),
   customers |-> [c \in {lines[x].customer : x \in DOMAIN lines} |->
                    Totals(lines, {x \in DOMAIN lines : lines[x].customer = c})],
   funnel    |-> [st \in Stages |-> Worth(lines, {x \in DOMAIN lines : StageOf[lines[x].status] = st})],
   expiry    |-> [key \in ExpiryKeys |-> Worth(lines, Expiring(lines, key))],
   renewal   |-> Worth(lines, {x \in Dated(lines) : lines[x].ends <= 90}),
   aging     |-> [age \in Ages |-> SumOver([x \in DOMAIN lines |-> lines[x].aged[age]], DOMAIN lines)]]

Report(b) == Rollup([x \in DOMAIN b |-> Line(b[x])])

Ask(b) ==
  /\ book = {}
  /\ book' = {b}
  /\ report' = {Report(b)}

ReportInit == book = {} /\ report = {}
ReportNext == \E b \in Books : Ask(b)
ReportSpec == ReportInit /\ [][ReportNext]_reportVars

-----------------------------------------------------------------------------
(* What must hold.                                                         *)

\* A live engagement with one more cycle, a draft.
Amended(e) ==
  LET n == Cardinality(DOMAIN e.cycles) + 1
  IN  [e EXCEPT !.cycles = [s \in DOMAIN @ \cup {n} |->
         IF s = n THEN [status |-> "DRAFT", cycle |-> n, created |-> n, priced |-> None] ELSE @[s]]]

\* The book does not move when amendments are opened: revenue, stages,
\* concentration and expiry are those of the terms in force.  And it adds up:
\* nothing outstanding is missing from the ages it is filed under, and what is
\* up for renewal is what ends within the first windows (finance_dashboard).
PortfolioIsTheTermsInForce ==
  \A b \in book, r \in report :
    /\ r = Report([x \in DOMAIN b |-> IF IsLive(b[x]) THEN Amended(b[x]) ELSE b[x]])
    /\ \E notLate \in 0..r.aging["current"] :
         r.totals.outstanding =
           notLate + r.aging["d1_30"] + r.aging["d31_60"] + r.aging["d61_90"] + r.aging["d90_plus"]
    /\ r.renewal.value = r.expiry["expired"].value + r.expiry["d30"].value + r.expiry["d60"].value
                           + r.expiry["d90"].value
=============================================================================
