------------------------- MODULE EngagementBilling -------------------------
(***************************************************************************)
(* What one engagement bills, from the customer's signature on: the        *)
(* billing configuration of each cycle, the fleet and the monthly dues on  *)
(* the engagement row, and the schedule of payments.  A request is a       *)
(* process that reads, remembers and writes, one table or S3 call at a     *)
(* time (reads that follow each other are one step), and may die between   *)
(* any two of them.  What leads to the signature is EngagementWorkflow.    *)
(***************************************************************************)
EXTENDS BillingRules, AmendmentPolicy

CONSTANTS
  Requests,    \* request handlers at work at the same time
  Shifts,      \* which kinds of request each of them may be
  Lines,       \* record ids of the pricing terms
  Readings,    \* cycle -> what its agreements may turn out to price
  Corrections, \* what an auditor may ask for: [amount, class], None for what is not
  Overrides,   \* fleet sizes a provider may set, None among them
  MaxCycles, MaxVehicles, Horizon,  \* bounds: cycles, vehicles, days
  Instalments  \* rows of a fresh schedule: 12, 4 or 3 in the code

ASSUME BillingBounds ==
  /\ MaxCycles \in Nat \ {0} /\ MaxVehicles \in Nat /\ Horizon \in Nat
  /\ Instalments \in Nat \ {0}

\* The rows the terms can hold, corrected or not, what a cycle's terms can be,
\* the fleets there can be and the configurations.
Read == UNION {Readings[c] : c \in DOMAIN Readings}
RowsRead == UNION {{reading.lines[id] : id \in DOMAIN reading.lines} : reading \in Read}
Overridings ==
  [amount : {None} \cup {c.amount : c \in Corrections},
   class  : {None} \cup {c.class : c \in Corrections}]
PricingRows == {[row EXCEPT !.override = o] : row \in RowsRead, o \in Overridings}
Pricings == UNION {[ids -> PricingRows] : ids \in SUBSET Lines}
Frequencies == {reading.frequency : reading \in Read}
Fleets == {EffectiveFleet(n, o) : n \in 0..MaxVehicles, o \in Overrides}
Configs ==
  [items : {FeeItems(lines) : lines \in Pricings}, frequency : Frequencies, generated : 0..Horizon]

ASSUME ReadingsPriceLines ==
  /\ 1 \in DOMAIN Readings
  /\ Read \subseteq [lines : UNION {[ids -> RowsRead] : ids \in SUBSET Lines}, frequency : Frequencies]
  /\ \A t \in RowsRead : t = PricingTerm(t.amount, t.tiers, t.rated, t.wording, NoOverride)

ASSUME OverridesAreSizes == None \in Overrides /\ Overrides \ {None} \subseteq Int

\* None is neither a number nor a configuration, and the dues of anything that
\* can be priced are a number (compute_monthly_recurring).
ASSUME DuesAreNumbers ==
  /\ None \notin Nat /\ None \notin Configs
  /\ \A lines \in Pricings, fleet \in Fleets : MonthlyRecurring(FeeItems(lines), fleet) \in Nat

VARIABLES
  shift,     \* the member of Shifts this behaviour runs
  cycles,    \* the review cycles, oldest first: their statuses
  terms,     \* cycle -> the pricing terms its agreements carry
  configs,   \* S3: cycle -> billing-config.json, or None
  account,   \* the engagement row
  payments,  \* sequence number -> payment row
  assigned,  \* how many vehicles the inventory counts here
  today,
  work,      \* request -> what it is doing and remembers
  settled    \* history: what the last to compute it left undisturbed

vars == <<shift, cycles, terms, configs, account, payments, assigned, today, work, settled>>

Kinds == {"sign", "correct", "fleet", "vehicle", "heal", "view", "pay"}
DuesKinds == Kinds \ {"view", "pay"}
Statuses ==
  {"PENDING_CLIENT_APPROVAL", "BILLING_SETUP", "PENDING_BILLING_AUDIT", "ACTIVE"}
ScheduledStatuses == {"BILLING_SETUP", "PENDING_BILLING_AUDIT", "ACTIVE"}

Cycle(c) == [status |-> cycles[c], cycle |-> c, created |-> c]
Rows == [c \in DOMAIN cycles |-> Cycle(c)]
LiveCycles == Live(Rows)
InForce == CHOOSE c \in DOMAIN cycles : IsCycleInForce(Rows, c)

Idle ==
  [kind |-> None, at |-> "idle", cycle |-> None, alone |-> TRUE, late |-> FALSE,
   paid |-> {}, config |-> None, fleet |-> None, monthly |-> None, next |-> 0,
   row |-> None]

Busy(kinds) == {r \in Requests : work[r].kind \in kinds}

\* A request begins; every other one that computes dues has company now.
Begin(r, kind, w) ==
  /\ work[r] = Idle
  /\ kind \in shift[r]
  /\ work' = [o \in Requests |->
       IF o = r
       THEN [w EXCEPT !.kind = kind, !.alone = Busy(DuesKinds) = {},
                      !.late = LiveCycles # {},
                      !.paid = {i \in DOMAIN payments : payments[i].paid}]
       ELSE IF kind \in DuesKinds THEN [work[o] EXCEPT !.alone = work[o] = Idle]
       ELSE work[o]]

\* It goes on, remembering w; or it is over.
Goes(r, w) == work' = [work EXCEPT ![r] = w]
Ends(r)    == Goes(r, Idle)

-----------------------------------------------------------------------------
(* build_billing_config and what follows a build: a signature and a        *)
(* correction both come through here.                                      *)

\* The configuration of the terms as they stand, stamped with the day.
ConfigOf(c) ==
  [items |-> FeeItems(terms[c].lines), frequency |-> terms[c].frequency, generated |-> today]

ReadTerms(r) ==
  /\ work[r].at = "read_terms"
  /\ Goes(r, [work[r] EXCEPT !.at = "put_config", !.config = ConfigOf(work[r].cycle)])
  /\ UNCHANGED <<shift, cycles, terms, configs, account, payments, assigned, today, settled>>

PutConfig(r) ==
  /\ work[r].at = "put_config"
  /\ configs' = [configs EXCEPT ![work[r].cycle] = work[r].config]
  /\ settled' = [settled EXCEPT !.config = work[r].alone]
  /\ Goes(r, [work[r] EXCEPT !.at = "read_fleet"])
  /\ UNCHANGED <<shift, cycles, terms, account, payments, assigned, today>>

ReadFleet(r) ==
  /\ work[r].at = "read_fleet"
  /\ Goes(r, [work[r] EXCEPT !.at = "set_billing", !.fleet = account.fleet,
                !.monthly = MonthlyRecurring(work[r].config.items, account.fleet)])
  /\ UNCHANGED <<shift, cycles, terms, configs, account, payments, assigned, today, settled>>

\* set_engagement_billing writes fleet and dues together, whatever they are by
\* now; a signature goes on to the schedule, and everybody else is done.
SetBilling(r) ==
  /\ work[r].at = "set_billing"
  /\ account' = [account EXCEPT !.fleet = work[r].fleet, !.monthly = work[r].monthly]
  /\ settled' = [settled EXCEPT
       !.dues = work[r].alone /\ (work[r].kind # "heal" \/ settled.dues),
       !.fleet = work[r].alone /\ (work[r].kind \in {"fleet", "vehicle"} \/ settled.fleet)]
  /\ IF work[r].kind \in {"sign", "heal"}
     THEN Goes(r, [work[r] EXCEPT !.at = "list_payments"])
     ELSE Ends(r)
  /\ UNCHANGED <<shift, cycles, terms, configs, payments, assigned, today>>

-----------------------------------------------------------------------------
(* ensure_schedule.                                                        *)

\* Above it, one that generates whatever is there.
ListPaymentsInVain(r) ==
  /\ work[r].at = "list_payments"
  /\ Goes(r, [work[r] EXCEPT !.at = "put_row", !.next = 0,
                !.row = IF account.start # None THEN account.start ELSE work[r].config.generated])
  /\ UNCHANGED <<shift, cycles, terms, configs, account, payments, assigned, today, settled>>

\* Rows that exist are returned as they are, however many there are.
ListPayments(r) ==
  /\ work[r].at = "list_payments"
  /\ IF DOMAIN payments # {}
     THEN IF work[r].kind = "sign"
          THEN Goes(r, [work[r] EXCEPT !.at = "ready"])
          ELSE Ends(r)
     ELSE Goes(r, [work[r] EXCEPT !.at = "put_row", !.next = 0,
            !.row = IF account.start # None THEN account.start ELSE work[r].config.generated])
  /\ UNCHANGED <<shift, cycles, terms, configs, account, payments, assigned, today, settled>>

\* A fresh row is due so many periods after the start, and unpaid; above it, one
\* that counts from the day it is written.
FreshRowFromToday(start, i) == [due |-> today + i, paid |-> FALSE, amount |-> None]
FreshRow(start, i) == [due |-> start + i, paid |-> FALSE, amount |-> None]

PutRow(r) ==
  /\ work[r].at = "put_row"
  /\ payments' = [i \in DOMAIN payments \cup {work[r].next} |->
       IF i = work[r].next THEN FreshRow(work[r].row, i) ELSE payments[i]]
  /\ Goes(r, [work[r] EXCEPT !.next = @ + 1,
                !.at = IF work[r].next + 1 = Instalments THEN "set_schedule" ELSE "put_row"])
  /\ UNCHANGED <<shift, cycles, terms, configs, account, assigned, today, settled>>

SetSchedule(r) ==
  /\ work[r].at = "set_schedule"
  /\ account' = [account EXCEPT !.start = work[r].row,
                                !.frequency = NormalizeFrequency(work[r].config.frequency)]
  /\ IF work[r].kind = "sign"
     THEN Goes(r, [work[r] EXCEPT !.at = "ready"])
     ELSE Ends(r)
  /\ UNCHANGED <<shift, cycles, terms, configs, payments, assigned, today, settled>>

-----------------------------------------------------------------------------
(* The customer signs: client_approve, the capture behind it, and          *)
(* _build_billing.                                                         *)

Sign(r, c) ==
  /\ cycles[c] = "PENDING_CLIENT_APPROVAL"
  /\ cycles' = [cycles EXCEPT ![c] = "BILLING_SETUP"]
  /\ Begin(r, "sign", [Idle EXCEPT !.at = "read_terms", !.cycle = c])
  /\ UNCHANGED <<shift, terms, configs, account, payments, assigned, today, settled>>

BillingReady(r) ==
  /\ work[r].at = "ready"
  /\ cycles' = IF cycles[work[r].cycle] = "BILLING_SETUP"
               THEN [cycles EXCEPT ![work[r].cycle] = "PENDING_BILLING_AUDIT"]
               ELSE cycles
  /\ Ends(r)
  /\ UNCHANGED <<shift, terms, configs, account, payments, assigned, today, settled>>

-----------------------------------------------------------------------------
(* correct_billing_item: only on the cycle in force, only under audit.     *)

\* What is asked for joins what was corrected before; the rest of it stays.
Joins(override, correction) ==
  [amount |-> IF correction.amount # None THEN correction.amount ELSE override.amount,
   class  |-> IF correction.class # None THEN correction.class ELSE override.class]

Correct(r, line, correction) ==
  /\ cycles[InForce] = "PENDING_BILLING_AUDIT"
  /\ line \in DOMAIN terms[InForce].lines
  /\ Begin(r, "correct",
       [Idle EXCEPT !.at = "put_term", !.cycle = InForce, !.next = line,
          !.row = [terms[InForce].lines[line] EXCEPT !.override = Joins(@, correction)]])
  /\ UNCHANGED <<shift, cycles, terms, configs, account, payments, assigned, today, settled>>

\* The whole row goes back, whatever became of it meanwhile.  Above it, a
\* correction that is stored and not carried into the billing.
PutTermOnly(r) ==
  /\ work[r].at = "put_term"
  /\ terms' = [terms EXCEPT ![work[r].cycle].lines[work[r].next] = work[r].row]
  /\ Ends(r)
  /\ UNCHANGED <<shift, cycles, configs, account, payments, assigned, today, settled>>

PutTerm(r) ==
  /\ work[r].at = "put_term"
  /\ terms' = [terms EXCEPT ![work[r].cycle].lines[work[r].next] = work[r].row]
  /\ Goes(r, [work[r] EXCEPT !.at = "read_terms", !.next = 0, !.row = None])
  /\ UNCHANGED <<shift, cycles, configs, account, payments, assigned, today, settled>>

-----------------------------------------------------------------------------
(* The fleet: update_billing_settings and _sync_engagement_fleet.          *)

\* is_locked: only once billing is live.  Above it, a lock that never closes.
NeverLocked(status) == FALSE
IsLocked(status) == status = "ACTIVE"

\* An S3 read of a cycle's configuration, which may fail.
ReadableConfigs(c) == {configs[c], None}

SetFleet(r, override) ==
  /\ ~IsLocked(cycles[InForce])
  /\ Begin(r, "fleet", [Idle EXCEPT !.at = "set_override", !.cycle = InForce, !.row = override])
  /\ UNCHANGED <<shift, cycles, terms, configs, account, payments, assigned, today, settled>>

SetOverride(r) ==
  /\ work[r].at = "set_override"
  /\ account' = [account EXCEPT !.override = work[r].row]
  /\ Goes(r, [work[r] EXCEPT !.at = "price"])
  /\ UNCHANGED <<shift, cycles, terms, configs, payments, assigned, today, settled>>

\* The cycle priced is the one that was in force when the request began; without
\* its configuration the dues become unknown again.
Price(r) ==
  /\ work[r].at = "price"
  /\ \E config \in ReadableConfigs(work[r].cycle) :
       LET fleet == EffectiveFleet(assigned, work[r].row)
       IN  Goes(r, [work[r] EXCEPT !.at = "set_billing", !.fleet = fleet, !.row = None,
              !.monthly = IF config = None THEN None
                          ELSE MonthlyRecurring(config.items, fleet)])
  /\ UNCHANGED <<shift, cycles, terms, configs, account, payments, assigned, today, settled>>

\* A vehicle is assigned here, or released from here, and the fleet follows.
MoveVehicle(r, n) ==
  /\ n \in 0..MaxVehicles
  /\ n \in {assigned - 1, assigned + 1}
  /\ assigned' = n
  /\ Begin(r, "vehicle", [Idle EXCEPT !.at = "count"])
  /\ settled' = [settled EXCEPT !.fleet = FALSE]
  /\ UNCHANGED <<shift, cycles, terms, configs, account, payments, today>>

Count(r) ==
  /\ work[r].at = "count"
  /\ Goes(r, [work[r] EXCEPT !.at = "sync", !.next = assigned])
  /\ UNCHANGED <<shift, cycles, terms, configs, account, payments, assigned, today, settled>>

\* The fleet a count makes, unless a provider set a number; above it, one that
\* forgets there is such a number.
FleetByCount(count) == EffectiveFleet(count, None)
FleetFor(count) == EffectiveFleet(count, account.override)

\* Locked, nothing is written.  Without a configuration the dues stay as they
\* were, for a fleet that did not.
Sync(r) ==
  /\ work[r].at = "sync"
  /\ IF IsLocked(cycles[InForce])
     THEN Ends(r)
     ELSE \E config \in ReadableConfigs(InForce) :
            LET fleet == FleetFor(work[r].next)
            IN  Goes(r, [work[r] EXCEPT !.at = "set_billing", !.fleet = fleet, !.next = 0,
                   !.alone = @ /\ (config = configs[InForce]),
                   !.monthly = IF config = None THEN account.monthly
                               ELSE MonthlyRecurring(config.items, fleet)])
  /\ UNCHANGED <<shift, cycles, terms, configs, account, payments, assigned, today, settled>>

-----------------------------------------------------------------------------
(* get_billing: a read that fills in missing dues and a missing schedule.  *)

ViewBilling(r, c) ==
  /\ cycles[c] \in ScheduledStatuses
  /\ configs[c] # None
  /\ LET seen == [Idle EXCEPT !.cycle = c, !.config = configs[c]]
     IN  IF account.monthly = None
         THEN Begin(r, "heal", [seen EXCEPT !.at = "set_billing", !.fleet = account.fleet,
                       !.monthly = MonthlyRecurring(configs[c].items, account.fleet)])
         ELSE Begin(r, "view", [seen EXCEPT !.at = "list_payments"])
  /\ UNCHANGED <<shift, cycles, terms, configs, account, payments, assigned, today, settled>>

-----------------------------------------------------------------------------
(* pay.                                                                    *)

\* A period is a day here.
PeriodDays == 1

\* Monthly dues times the months of the period, and nothing when they are
\* unknown; above it, the dues as they are.
DuesAsTheyAre == account.monthly
AmountDue == (IF account.monthly = None THEN 0 ELSE account.monthly)
               * Cadence[account.frequency].months

Pay(r, i) ==
  /\ i \in DOMAIN payments
  /\ ~payments[i].paid
  /\ IsPayable(payments, i, today, PeriodDays)
  /\ Begin(r, "pay", [Idle EXCEPT !.at = "put_payment", !.next = i,
               !.row = [payments[i] EXCEPT !.paid = TRUE, !.amount = AmountDue]])
  /\ UNCHANGED <<shift, cycles, terms, configs, account, payments, assigned, today, settled>>

PutPayment(r) ==
  /\ work[r].at = "put_payment"
  /\ payments' = [i \in DOMAIN payments \cup {work[r].next} |->
       IF i = work[r].next THEN work[r].row ELSE payments[i]]
  /\ Ends(r)
  /\ UNCHANGED <<shift, cycles, terms, configs, account, assigned, today, settled>>

-----------------------------------------------------------------------------
(* The audit passes, an amendment reaches the customer, a day passes, and  *)
(* a request dies.                                                         *)

ApproveBilling(c) ==
  /\ cycles[c] = "PENDING_BILLING_AUDIT"
  /\ cycles' = [cycles EXCEPT ![c] = "ACTIVE"]
  /\ UNCHANGED <<shift, terms, configs, account, payments, assigned, today, work, settled>>

\* open_amendment up to submit_to_client; its agreements price what they price.
Amend(reading) ==
  /\ Len(cycles) < MaxCycles
  /\ CanOpenAmendment(cycles[Len(cycles)])
  /\ reading \in Readings[Len(cycles) + 1]
  /\ cycles' = Append(cycles, "PENDING_CLIENT_APPROVAL")
  /\ terms' = Append(terms, reading)
  /\ configs' = Append(configs, None)
  /\ UNCHANGED <<shift, account, payments, assigned, today, work, settled>>

DayPasses ==
  /\ today < Horizon
  /\ today' = today + 1
  /\ UNCHANGED <<shift, cycles, terms, configs, account, payments, assigned, work, settled>>

Dies(r) ==
  /\ work[r] # Idle
  /\ settled' =
       [config   |-> settled.config /\ work[r].at \notin {"read_terms", "put_config"},
        dues     |-> settled.dues /\ work[r].at \in {"set_override", "put_term", "list_payments",
                       "put_row", "set_schedule", "ready", "put_payment"},
        fleet    |-> settled.fleet /\ work[r].at \notin {"price"} /\ work[r].kind # "vehicle"
                       /\ (work[r].kind = "fleet" => work[r].at = "set_override"),
        schedule |-> settled.schedule /\ ~(work[r].at = "put_row" /\ work[r].next > 0)
                       /\ work[r].at # "set_schedule"]
  /\ Ends(r)
  /\ UNCHANGED <<shift, cycles, terms, configs, account, payments, assigned, today>>

-----------------------------------------------------------------------------
Init ==
  /\ shift \in Shifts
  /\ cycles = <<"PENDING_CLIENT_APPROVAL">>
  /\ \E reading \in Readings[1] : terms = <<reading>>
  /\ configs = <<None>>
  /\ account = [fleet |-> 0, override |-> None, monthly |-> None, start |-> None,
                frequency |-> "monthly"]
  /\ payments = <<>>
  /\ assigned = 0 /\ today = 0
  /\ work = [r \in Requests |-> Idle]
  /\ settled = [config |-> TRUE, dues |-> TRUE, fleet |-> TRUE, schedule |-> TRUE]

Arrives(r) ==
  \/ \E c \in DOMAIN cycles : Sign(r, c) \/ ViewBilling(r, c)
  \/ \E line \in Lines, correction \in Corrections : Correct(r, line, correction)
  \/ \E override \in Overrides : SetFleet(r, override)
  \/ \E n \in 0..MaxVehicles : MoveVehicle(r, n)
  \/ \E i \in DOMAIN payments : Pay(r, i)

Continues(r) ==
  \/ ReadTerms(r) \/ PutConfig(r) \/ ReadFleet(r) \/ SetBilling(r)
  \/ ListPayments(r) \/ PutRow(r) \/ SetSchedule(r) \/ BillingReady(r)
  \/ PutTerm(r) \/ SetOverride(r) \/ Price(r) \/ Count(r) \/ Sync(r)
  \/ PutPayment(r)

Next ==
  \/ \E r \in Requests : Arrives(r) \/ Continues(r) \/ Dies(r)
  \/ \E c \in DOMAIN cycles : ApproveBilling(c)
  \/ \E c \in DOMAIN Readings : \E reading \in Readings[c] : Amend(reading)
  \/ DayPasses

Spec == Init /\ [][Next]_vars

-----------------------------------------------------------------------------
(* What must hold.                                                         *)

Amounts == Nat \cup {None}
Sequence == 0..Instalments - 1

TypeOK ==
  /\ \A c \in DOMAIN cycles : cycles[c] \in Statuses
  /\ DOMAIN terms = DOMAIN cycles /\ DOMAIN configs = DOMAIN cycles
  /\ account.fleet \in Nat /\ account.override \in Overrides
  /\ account.monthly \in Amounts /\ account.start \in Amounts
  /\ account.frequency \in DOMAIN Cadence
  /\ DOMAIN payments \subseteq Sequence
  /\ \A i \in DOMAIN payments :
       payments[i] \in [due : Nat, paid : BOOLEAN, amount : Amounts]
  /\ \A i \in DOMAIN payments : payments[i].paid <=> payments[i].amount # None
  /\ assigned \in 0..MaxVehicles /\ today \in 0..Horizon
  /\ \A r \in Requests : work[r].kind \in Kinds \cup {None}

AtRest == Busy(DuesKinds) = {}

\* The last cycle a customer signed: the one whose terms the dues come from.
LastSigned == Max({0} \cup {c \in DOMAIN cycles : cycles[c] # "PENDING_CLIENT_APPROVAL"})

\* When nobody is computing dues and the last who did was neither interrupted
\* nor left half-way, the dues shown are the configuration of the last signed
\* cycle times the fleet shown, and before go-live that fleet is the override
\* or the count of assigned vehicles, whoever changed which of them last
\* (_sync_engagement_fleet, update_billing_settings, correct_billing_item,
\* _build_billing).
DuesFollowConfigAndFleet ==
  AtRest =>
    /\ settled.dues /\ account.monthly # None =>
         /\ LastSigned > 0 /\ configs[LastSigned] # None
         /\ account.monthly = MonthlyRecurring(configs[LastSigned].items, account.fleet)
    /\ settled.fleet /\ LiveCycles = {} =>
         account.fleet = EffectiveFleet(assigned, account.override)

\* At the same moments the stored configuration of that cycle prices its
\* terms with every correction the audit made (build_billing_config).
ConfigHoldsCorrections ==
  AtRest /\ settled.config /\ LastSigned > 0 /\ configs[LastSigned] # None =>
      configs[LastSigned].items = FeeItems(terms[LastSigned].lines)

\* Unless a request died while it generated the schedule, there is none or all
\* of it, dated from one start, and the engagement shows its cadence: also
\* when two requests generate it at once (ensure_schedule).
ScheduleIsWhole ==
  (settled.schedule /\ \A r \in Requests : work[r].at \notin {"put_row", "set_schedule"})
  => \/ DOMAIN payments = {}
     \/ /\ DOMAIN payments = Sequence
        /\ account.start # None
        /\ \A i \in Sequence : payments[i].due = account.start + i
        /\ account.frequency = NormalizeFrequency(configs[1].frequency)

\* A recorded payment is changed only by a request that looked at the schedule
\* before it was recorded: nobody pays again, and nobody generates again, what
\* they could see was paid (pay, ensure_schedule).
PaymentsAreKept ==
  [][\A i \in DOMAIN payments :
       payments[i].paid /\ payments'[i] # payments[i] =>
         \E r \in Requests : work'[r] # work[r] /\ i \notin work[r].paid]_vars

\* Once billing is live, fleet and dues change only with the signature of an
\* amendment, by a reader that found them unknown, or by a request that began
\* before (is_locked).
LockedDuesDoNotMove ==
  [][LiveCycles # {} /\ <<account.fleet, account.monthly>>' # <<account.fleet, account.monthly>>
     => \E r \in Requests :
          work'[r] # work[r] /\ (work[r].kind \in {"sign", "heal"} \/ ~work[r].late)]_vars

=============================================================================
