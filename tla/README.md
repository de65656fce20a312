# A specification of the Wheels middleware

This directory holds a TLA+ specification of the service under `src/app`: a
FastAPI application on AWS Lambda, with SQS workers behind it, that takes
fleet-lease agreements from upload through extraction, underwriting, the
customer's signature and the billing audit to live billing. TLC checks the
modules on small instances; TLAPS proves the most important results for every
value of the constants. `PROJECT.json` lists the parts, the runs, the mutants
that show each property can fail, the source lines behind every definition, the
disagreements found and the hazards the properties are aimed at.

## 1. The system

| Part | State it keeps | Operations | Talks to |
| --- | --- | --- | --- |
| State machine `lifecycle/submission_state.py` | none: a table of transitions | look up (status, action, role) | every handler that moves a cycle |
| Review cycles `api/submissions.py`, `lifecycle/amendment.py` | submission rows: status, cycle number, slots, signature; the engagement row's copy of the status | submit, extract, approve, request changes, resubmit, reupload, approve billing, open and discard an amendment | repository, ingest queue, billing |
| Agreements `api/documents.py` | document rows (type, standing, effective date, current version, cycle), version rows, files in S3 | presign, set type, discard version, delete; review of terms | reconcile, S3 |
| Classification and standing `validation/*` | none: computed from the agreements, written to documents, engagement and cycle | classify, rank, derive scope, sanity gate | parse worker, documents |
| Workers `pipeline/parse.py`, `pipeline/extract.py` | two SQS queues | read a file, classify, gate, hand over; store an extraction, merge terms, move the cycle | all of the above |
| Repository `store/*` | one DynamoDB table, one for vehicles | reads, whole-row puts, updates; only the status update has a condition | everybody |
| Terms `extraction/*` | term rows, coverage rows | merge windows, build rows, merge a re-reading, approve, correct | extract worker, documents, billing |
| Billing `billing/*`, `api/payments.py`, `api/engagements.py` | billing object in S3, dues and fleet on the engagement, payment rows | build, correct, schedule, pay, remind | cycles, terms, vehicles |
| Vehicles `api/vehicles.py` | vehicle and assignment rows | create, update, assign, release | engagement fleet and dues |
| Finance `api/finance.py` | none: a report over every table | one GET | cycles, dues, payments |
| Catalog `catalog/*`, `api/services.py` | programs, items, unmatched names; a snapshot per process | resolve, add, merge, retire | extract worker, terms |
| People `invites.py`, `api/users.py`, `api/me.py` | memberships, provider directory, Cognito accounts | invite, add, create | Cognito, SES |
| Insights `review/insights.py` | two caches on the submission row | change review, summary (both on GET) | language model, repository |
| Notifications, language models, PDF reading | none | best effort | external services |

What is hard here:

* **Interleaving.** Every request and every message runs in a Lambda of its own.
  There are no locks and no transactions; one conditional write
  (`update_submission_status`) and many whole-row puts of rows read earlier.
* **Delivery.** SQS delivers at least once, late, in any order; a worker that
  dies half-way gets its message again; a message names the cycle it was queued
  for, which may be over.
* **Partial failure.** A handler is a sequence of table calls, sends and external
  calls; any of them can be the last.
* **Copies.** The engagement's status, scope, fleet and dues, the cycle's slots,
  the coverage rows and the catalog snapshot are copies that every writer of the
  original must refresh.

What makes each part correct, in a line: a cycle moves by the table only and at
most one is open; the engagement shows the cycle in force; what bills was signed;
of each type the edition that took effect last is in force, whatever the order of
events; scope and slots follow; a cycle reaches underwriting with everything
read; nothing arrives while the terms are with the customer; terms keep their
review exactly as long as they keep their text; an instalment is paid once; a
vehicle is in one fleet.

## 2. The modules

| Module | Models | Extends |
| --- | --- | --- |
| `SubmissionState` | roles, statuses, the transition table and its lookup | |
| `AmendmentPolicy` | which cycle is open, in force, amendable | |
| `AgreementStanding` | ranking of editions, scope, slots | |
| `EngagementLifecycle` | abstract specification: what users of one engagement may rely on | `SubmissionState` |
| `EngagementWorkflow` | the core: cycles, agreements, versions, files, uploads, queues and both workers | the first three |
| `EngagementWorkflowProofs` | the theorems about it | `EngagementWorkflow` |
| `CycleRaces` | the handlers that write submission rows, one table call at a time | `SubmissionState`, `AmendmentPolicy` |
| `CycleRacesProofs` | the theorems about it | `CycleRaces` |
| `TermReview` | the pricing terms of one version of one agreement and its coverage, one table call at a time | |
| `TermReviewProofs` | the theorems about it | `TermReview` |
| `PipelineProgress` | the workers of `EngagementWorkflow` once people leave it alone, with fairness | `EngagementWorkflow` |
| `BillingRules` | the arithmetic of billing as pure operators | |
| `EngagementBilling` | dues, configurations, schedule and payments of one engagement, one call at a time | `BillingRules`, `AmendmentPolicy` |
| `EngagementBillingProofs` | the theorems about it and about the calendar of `BillingRules` | `EngagementBilling` |
| `Nothing` | the value of what is not set, shared by the parts of `Desk` | |
| `FirstAndLast` | two facts on sets of numbers that proofs need | |
| `FleetInventory` | vehicles, their assignment and the fleet each engagement counts, one call at a time | |
| `ServiceCatalog` | the matching ladder, snapshots, the queue of unknown names, edits | |
| `People` | invitations, hiring and onboarding against the pool and three tables | |
| `DocumentReading` | windows, calls, retries and the merge of one reading | |
| `DocumentReadingProofs` | the theorems about it | `DocumentReading` |
| `AnswerRepair` | the records got back from an answer that is broken text | |
| `AnswerRepairProofs` | the theorem about it | `AnswerRepair`, `DocumentReadingProofs` |
| `FinanceDashboard` | the finance report as an operator over the tables | `AmendmentPolicy`, `BillingRules` |
| `Desk` | the last six side by side | all six |
| `DeskProofs` | the theorems about vehicles, the catalog, people and reports, and about the six side by side | `Desk`, `AnswerRepairProofs` |
| `MCEngagementWorkflow`, `MCCycleRaces`, `MCTermReview`, `MCPipelineProgress`, `MCEngagementBilling`, `MCDesk` | instances for TLC | |

### EngagementWorkflow

One engagement. `subs` holds the submission rows, `engagement` the engagement
row (status, scope, and in `dues` whose terms its monthly amount was computed
from), `docs` and `versions` the agreements and their versions, `uploads` the
presigned keys nobody has used yet, `files` what is in S3, `ingest` and `extract`
the two queues. `issued` remembers ids because `new_id()` never repeats one.

A request handler is one action, with the checks it makes in the order it makes
them as guards; a delivery of a message is one action with its outcomes as
disjuncts. What the code can do half of is a choice inside the action:

* `Sent`: a request that dies among its sends has sent some of its messages;
* `Taken`: a message that was handled may stay in the queue (redelivery);
* the second disjuncts of `ParsePasses` and `Extract`: the worker dies after its
  writes and before it hands over or moves the cycle; a parse worker that dies has
  marked the version by then or not;
* `ClientApprove`: the machine steps behind a signature may stop after any of them.

What a file's text says (type, titles, effective date, whether it names the
client) is a record chosen when the file lands. A file reads the same each time.
Times matter only by their order: a creation time is one more than the latest in
use. `reconcile_engagement` is part of every action whose handler calls it.

Abstractions: comments, audit rows, notifications and names are left out; a
presigned URL is used at most once; a queue that never gives up (there is no
dead-letter queue in `src/`); the billing object, the schedule and the payments
are reduced to `dues`.

### CycleRaces

`EngagementWorkflow` lets a handler finish before the next starts. `CycleRaces`
does not: a request is a process that reads, remembers what it read and writes,
and `update_submission_status` is three steps (conditional write, look at the
other cycles, copy to the engagement). The constant `Shifts` says which kinds of
request each process makes, one after another, so that an instance says who is at
work at the same time. Agreements, queues and dues are left out; the first cycle
may start in any status.

Two operators say who may be at work together for the cycles to be safe: `OneOpens`
(at most one process opens amendments) and `PutBacksAlone` (whoever puts back a whole
row it read, which a customer's approval and a look at the summary do, works beside
nobody but openers). They are hypotheses of the theorems; `MCCycleRaces` assumes that
the shifts of the passing run meet them, and the runs `two_openers` and `reader` fail
because theirs do not.

### TermReview

`terms` holds the rows of one version of one agreement, `coverage` the programs it
contributes, `extraction` the reading the version keeps, `queued` the messages that
ask for a reading. A member of `Lines` is a line of the price schedule *at an
amount*, because `record_id_for` hashes the amount with the line: another amount
is another term, and the old one is superseded. What the language model finds is
any set of lines with any wording, and a redelivered message is read anew.

The worker is five kinds of step (read, list and merge, put a row, clear the
coverage, put it), a correction up to five, a bulk approval one per row, a billing
correction two, and any process may die between two of them. Amounts pass through
the table as decimals: `Stored` is what that does to a record, and `SameBody`
compares, as `_body_hash` does, what was read with what came back.

`overlaps` is history: which kinds of request crossed since the last reading that
began alone. Properties that some crossings break name those crossings; everything
else may interleave freely. Each crossing of a person with a reading that a property
names is needed: without it the run fails. Crossings of two people are named too, but
the instance has one person at a time.

Abstractions: the catalog is fixed (a snapshot that differs between two processes
is a hazard of its own), a batch write is a put per row, `clear_coverage` lists and
deletes in one step, terms of other types (no coverage) and notes are left out. That
a billing correction needs a cycle under audit is left to the caller.

### PipelineProgress

The agreements of a draft are in. People send them to be read, send them again and
correct their types while the workers are at it, and at a moment of their choosing
leave the engagement alone (`quiet`); from then on only `EngagementWorkflow`'s
`WorkerStep` happens: deliveries, deaths half-way, redeliveries. `CyclesComeThrough`
says that a cycle in `REVALIDATING` or `EXTRACTING` whose work is queued
(`HasItsWorkQueued`) leaves it. A cycle whose messages were never sent is outside
the property: nothing in the code would take it on.

### BillingRules and EngagementBilling

`BillingRules` translates the functions under `billing/` that compute: the rules
that class a charge by its wording, the fee item of a term with what the audit put
beside it, the monthly dues with tier bands, the fleet, months added to a date, the
rows of a schedule and what each row is today. Money is whole numbers; a wording is
the set of patterns it matches.

`EngagementBilling` is what one engagement does with them, from signature on.
`terms` and `configs` are per cycle (the configuration is the S3 object), `account`
is the engagement row (fleet, override, dues, start, frequency), `payments` the
schedule, `assigned` what the inventory counts. A request (`work[r]`) is at a place
(`at`) and remembers what it read; each action is one table or S3 call, and `Dies`
ends a request at any of them. A signature goes `read_terms`, `put_config`,
`read_fleet`, `set_billing`, `list_payments`, `put_row`…, `set_schedule`, `ready`; a
correction puts the term and then runs the first four; a change of the fleet ends
with `set_billing`; a reader heals missing dues and a missing schedule; a payer puts
back the row it read. A correction joins the fields it sets to those an earlier one
set (`Joins`). A request that sets the fleet prices it with the configuration of the
cycle it found in force when it began, or with none if that cannot be read
(`ReadableConfigs`); one that counts vehicles looks the cycle up when it prices.

What a death or a crossing may leave wrong is in the history variable `settled`, which
the last request to compute a thing sets to whether nobody disturbed it; `alone`,
`late` and `paid` in a request's memory are what it had seen when it began. The
properties say what holds otherwise, so they name exactly the crossings that break
them.

Three named assumptions, which TLC evaluates, give the constants their types:
`ReadingsPriceLines`, `OverridesAreSizes` and `DuesAreNumbers`. The last says that
whatever can be priced comes to a number; the sum is a fold.

Abstractions: a period is one day and a schedule `Instalments` rows; an
amendment appears with its terms read and goes straight to the customer (the review
in between is `EngagementWorkflow`'s); the dates of real schedules are checked
separately (section 3). Reminders, titles and the audit trail are left out.

### FleetInventory

`vehicle` is the inventory, `fleet` the number on each engagement row, `desk` what
each request is doing. An assignment reads a row and checks it, reads it again, puts
all of it back and records it in the history, for each unit of its list; then it
counts and writes the fleet unless the engagement is locked. Releasing and patching go
the same way. A request may end at any call: on a value error of the validator (`PutAssigned`),
or because a call of the table fails or the process dies (`BreaksOff`). `owes` in its
memory says whether it has put something it has not counted yet; if it ends so, a
lone assignment or release leaves a fleet wrong, and only the next count mends it.
`counted` is history: the engagements whose last change nobody crossed and whose
count nobody who owed it abandoned; `FleetIsWhatIsAssigned` speaks of these. Rows are
reduced to status, owner, customer and engagement, which are what `Vehicle`'s
validator and the rules of assignment look at.

### ServiceCatalog

Names, the keys they normalise to, their slugs and how alike two keys are, are
constants; the ladder (name, alias, normalised key, then fuzzy with a floor and a
margin) is the code's. A worker resolves through a snapshot that serves for
`TTL` and is loaded anew after that, reads the queue's entry for a name it does not
know and puts it back. An edit (link, promote, create, alias, update) reads a row, puts
all of it back and then takes the name off the queue; a service may be created with
aliases, and an update may rename it. `known` is history: since when the catalog has
resolved a name. Items resolve by the same ladder and are left out.

`NoKey` is the normal form of a name that has nothing but filler words. Such names
share one entry of the queue, no link or promotion reaches it (its key would be an
empty part of a path), and `NamesLeaveTheQueueKnown` is about all other keys: section 5
says what happens to that one. `CatalogBounds` is what an instance must give the
constants.

### People

An account in the user pool, membership rows, the staff directory and the profile
are four stores. Inviting somebody creates the account, puts it into a group, looks
it up when the address is taken, asks whether it is staff, and puts the membership;
hiring, adding and onboarding likewise, one call a step. The pool may refuse any
call and a request may end after any.

Nothing in `update_me` keeps two onboardings of one person apart, so the model does
not either: the profile has the name of the one that began last, a row that of the
one that put it last, and the two may differ for good. `stale` is history: persons
some of whose rows may have another name than the profile. One becomes stale when an
onboarding begins and when a row is put under another name; an onboarding that has
renamed the rows it found takes the person out of it, but only if no other name was
put and no onboarding under another name was going on meanwhile (`clear`,
`Contradicts`). `NamesFollowTheProfile` speaks of the others. `PeopleConstants` says
that "not set" is none of the values there are.

### DocumentReading and AnswerRepair

A document is its pages (size, and whether a table runs over an edge), the
categories asked and its terms, each with the pages it stands on. `page_windows`,
the plan, the prefix kept per window index, the answers (whole, cut off, overflowed
or failed), the second try over halves and `merge_records` are the code's. A call
that is shown all a term needs reads it, with those of its list entries it is shown.
A call that is shown a part only (`GlimpsedIn`) may say nothing, may know the term for
what it is, or may report a line some of whose identity is missing or wrong: a fee
without its amount or under another frequency, a service level without its section
(`Partial`, `lost`, with `key` naming what `record_id_for` hashes of the term). Such a
line has an id of its own, so `MergeRecords` keeps it as a second row beside the
first, as `merge.py:14-18` says and `tests/test_merge.py` expects.

`QuietReadingsAreWhole` says what a reading without trouble is worth all the same:
every term is there with all of it; each row besides is a second one of a term that a
window of its category shows in part; and one of a fee that differs in the amount
alone is in the merge's report (`AmountConflicts`). It does not say that there are no
second rows, which is not so, nor that anybody reads the report: section 5. That pages
overlap and prefixes are shared by index is why it needs all categories cut alike.

`AnswerRepair` takes a text as a sequence of six symbols, enough to tell strings,
escapes and braces apart, and runs the repair of inner quotation marks and the
salvage of whole records on every text cut off anywhere.

### FinanceDashboard

`Report` is the whole answer but for rankings and the monthly trend, over a book of
engagements with cycles, dues and payments. The property compares the report with
that of the same book with amendments opened, and adds its parts up.

### Desk

The last six do not share a table, so one module sets them side by side and one run
explores them: a behaviour has a `focus` and takes steps of that part only, while the
others stay as they began. `DeskSpec` extends all six, so the configuration names each
part's properties where they are stated, and TLC evaluates the assumptions their
theorems rest on. `MCDesk` gives the constants their values.

### EngagementLifecycle and the refinement

Three variables: the status of the open cycle (or `NONE`), whether a cycle has
gone live, and the status shown. `ImplementsLifecycle` maps the open cycle's
status, `Live(subs) # {}` and `engagement.status` onto them. Messages, versions,
refused requests and everything about agreements become stutters.

## 3. The runs

| Run | Instance | Checks | Outcome |
| --- | --- | --- | --- |
| `amend` | 2 cycles, 1 agreement with 2 versions, 1 message per queue, two possible texts | `OneOpenCycle`, `EngagementShowsCycleInForce`, `BilledTermsAreSigned`, `LiveCyclesStayLive`, `NothingArrivesUnderReview`, `ImplementsLifecycle` | hold |
| `review` | 1 cycle, 2 agreements with 1 version, 1 message per queue, four texts | `TypeOK`, `LatestEditionInForce`, `ScopeAndSlotsFollowAgreements`, `UnderwritingSeesEveryAgreement` | hold |
| `races` | 3 ids, 3 processes, the three `TamedShifts` | `TypeOK`, `OneOpenCycle`, `StatusMovesByTable`, `LiveCyclesStayLive` | hold |
| `terms` | 2 lines, one at a whole-dollar amount, 2 wordings, a worker and one person: who corrects, who approves in bulk, or who audits | `TypeOK`, `TermsInForceAreTheLatestReading`, `CoverageFollowsTerms`, `ReviewFlagsAgree`, `ReadingApprovesNothing`, `LostApprovalsAreShown` | hold |
| `billing` | 2 cycles, 2 pricing terms, 2 requests in four mixes of kinds, 1 vehicle, 2 instalments, 2 days | `TypeOK`, `DuesFollowConfigAndFleet`, `ConfigHoldsCorrections`, `ScheduleIsWhole`, `PaymentsAreKept`, `LockedDuesDoNotMove` | hold |
| `pipeline` | 1 cycle, 2 agreements, 2 messages per queue, one text that passes the gate and one that fails it | `CyclesComeThrough` | holds |
| `desk` | 2 vehicles, 2 engagements, 2 requests; 2 names, a worker, 2 editors; 1 person, 2 engagements, 2 requests; six contracts of 4 and 5 pages with at most 2 troubled calls; answers of up to 2 records over ten strings; books of 1 and 2 engagements | `EveryPartTypeOK`, `FleetIsWhatIsAssigned`, `TakenVehiclesStay`, `CustomersKeepTheirUnits`, `NamesLeaveTheQueueKnown`, `KnownNamesAreNotQueued`, `StaffAreNotCustomers`, `InvitationsArrive`, `NamesFollowTheProfile`, `QuietReadingsAreWhole`, `RepairsKeepEveryPage`, `WholeRecordsComeBack`, `PortfolioIsTheTermsInForce` | hold |
| `terms_reread` | the instance of `terms` with a person who approves | `ApprovalsSurviveReReading` | violated |
| `signature` | 2 cycles, 1 agreement, two signatures | `LiveCyclesKeepTheirSignature` | violated |
| `discard` | 2 cycles, 1 agreement with 2 versions | `FirstVersionUnreadMeansNothingRead` | violated |
| `two_openers` | 3 processes, two of which open amendments | `OneOpenCycle` | violated |
| `reader` | a person, a worker and somebody looking at the summary | `StatusMovesByTable` | violated |

The bounds. Two cycles are enough for a live cycle and an amendment of it with
late messages of the first still queued; two agreements for a ranking, a renewal
uploaded before what it renews, and an extraction that is complete but for one;
two versions for a replacement; one message per queue for a message of an earlier
cycle or version, which is all a worker ever compares with. A version bound
(`MaxVersion`) and a queue bound (`MaxQueued`) are guards of the actions that
would exceed them. Cycle numbers and creation times need no bound: ids do not
come back. For terms, two lines let a reading find one and lose the other and a
worker die between their rows; the whole-dollar line is the one the table changes,
and its correction is to a program the catalog does not know, so that coverage can
shrink; one reading at a time is in flight (`MaxQueued`), repeated without end.
`SYMMETRY` permutes ids where no property is a liveness property.

For billing, two requests at a time meet at every pair of calls; the four members of
`BillingShifts` are the meetings that share data (audit with readers, movers with the
fleet setting and a signature, payers with both). One vehicle, one override and
`None` give every case of the effective fleet; two instalments a half-written
schedule; two days a row that is due and one that is not; two cycles an amendment
signed on a live deal. Each `Shifts` mix runs signatures again for the amendment.
For the inventory, two units, one of them a customer's, and lists of one and two let a
list break off half-way and two lists meet on one unit; either request may end at any
call. For the catalog a seeded name and an unknown one, `TTL` and the clock one tick
each: a snapshot that is just stale. For people, one address is what every conflict is
about: two names and two requests, both of which may onboard it, let two onboardings
cross. The contracts are chosen so that categories are cut alike, differently, not at
all, and a table runs over three pages; in two more a fee stands over a page break
with one half in each of two windows, and either its amount or its frequency may be
lost.

`MCEngagementBilling` also evaluates two assumptions no behaviour reaches:
`SchedulesKeepTheirDay` compares the rows of every cadence from every day of a common
and a leap year with months counted one by one, and `WindowsOfMarch` is the scenario
of `tests/test_schedule.py`.

Deadlock. `billing`, `pipeline` and `desk` say `CHECK_DEADLOCK FALSE`: with the
horizon reached, every cycle billed and nobody at work there is nothing left to do; a
pipeline whose queues are empty has finished; a reading, an answer and a report are
made once.

Fairness. Only `PipelineProgress` has it, in `WorkersAreFair`: while people are gone
and a queue holds a message that can be handled, one of them is sooner or later
handled to its end and acknowledged. SQS delivers a message again until it is
acknowledged, and a worker dies only now and then; that is all it says: one weak
fairness per queue, not one per message, none of any request of a person, and any
finite number of deaths first. Without it nothing need ever be delivered.
The refinement is of a specification without fairness.

## 4. What is proved

Every theorem rests on the named `ASSUME`s of the module it is about and on nothing
else, but for `CycleRacesProofs`, where three of the theorems name their hypotheses.
The assumptions give the constants their types: bounds are numbers, ids are finite
sets, "not set" is none of the values there are. TLC evaluates all of them in the run
of that module.

`EngagementWorkflowProofs` proves, for any sets of ids, any number of versions,
any queue bound and any texts:

* `TypeCorrect`, `OnlyOneOpenCycle`, `StatusShownIsInForce`, `BillingIsSigned`:
  the invariants of the same name in the runs;
* `LiveStaysLive` and `NothingArrives`: the two action properties of `amend`;
* `Implementation`: `Spec => Lifecycle!Spec`.

`TermReviewProofs` proves `TypeCorrect` and `FlagsAlwaysAgree` (`ReviewFlagsAgree`)
for any lines, wordings, catalog, processes and shifts, with every interleaving and
any deaths, two readings at a time included. A row is put back whole by somebody
who read it earlier, so the invariant says of every request that each row it
remembers would be a good row if it were put back now (`Sound`), and of one that
will update a row in place that the row is still there; that is why rows are never
deleted.

The inductive invariant `IInv` of the workflow is `TypeOK`, `IdsAreIssued`, `OneOpenCycle`,
`ShownFollows` and `BilledTermsAreSigned`. `OneOpenCycle` alone is inductive only
with ids that do not repeat: `OpenAmendment` looks at the open cycle, which is
live only if no cycle is unfinished. `EngagementShowsCycleInForce` names the
latest live cycle, and to say that it is *the* status shown one needs that the
engagement shows `ACTIVE` as soon as any cycle is live and otherwise the status
of the only cycle there is; that is `ShownFollows`. `BilledTermsAreSigned` is what
keeps `dues` off a draft that might be discarded.

There are some twenty actions and seven results about cycles, so the proof goes through a
classification: each action does to the cycles one of six things
(`Quiet`: nothing but slots; `Takes`: a row of the table; `SignsOff`: the signature
and the machine steps; `OverwritesSignature`; `OpensCycle`; `DropsCycle`), and each
result is proved once per thing instead of once per action.

Of the inventory, `DeskProofs` proves `FleetTypes`, `FleetsAreCounted`
(`FleetIsWhatIsAssigned`), `TakenVehiclesStayTaken` (`TakenVehiclesStay`) and
`CustomersAreKept` (`CustomersKeepTheirUnits`) for any finite set of vehicles, any
engagements, customers and lists, and any number of requests at once. A request acts
on what it read, so `FleetInv` says of what each one remembers how much of it still
holds: of any request, that owner and customer of the row it will put back are those
in the table (`SameUnit`), because nothing in the code changes an owner; of one that
has been alone since it began, that the whole row is (`HoldsAlone`). For the count,
`CountsOK` says that an engagement that is called counted has its fleet right, or is
still owed a count by a request that has put something and not ended (`Owes`); one that
ends first takes the engagement off the counted, so nothing rests on its getting there.
Assumed are `FleetLinks` and `RequestsAssumption`, which type the constants.

`EngagementWorkflowProofs` also proves `LatestEdition` (`LatestEditionInForce`),
`CopiesFollow` (`ScopeAndSlotsFollowAgreements`) and `UnderwritingSeesAll`
(`UnderwritingSeesEveryAgreement`), again for any ids, versions, texts and messages.
That the latest edition is in force needs that there is a latest: the ranking orders
by effective date and then by creation, so no two agreements may be created at the
same time (`Distinct`), and a finite set has a greatest member in such an order
(`GreatestMember`). Each handler does to the agreements one of three things: it leaves
type, date and creation alone, it adds one of unknown type, or it ranks all of them
anew, and the copies on engagement and cycle follow in each (`ReranksKeeps`).

`CycleRacesProofs` proves `TypeCorrect` for any shifts whatever, and `OneCycleOpen`
(`OneOpenCycle`), `StatusesMoveByTable` (`StatusMovesByTable`) and `LiveStaysLive`
(`LiveCyclesStayLive`) for any number of cycles and processes under `PutBacksAlone`,
the first under `OneOpens` too. The hypotheses are as weak as the code leaves them: a
person, a worker and somebody looking at a summary are enough to break the second
property, and two openers the first. What is left is everything the conditional write
is for, and the invariants say why it is enough: a remembered row that will be put
back still has the status of the row in the table (`Fresh`), while an amendment is
being opened nothing is unfinished (`Clear`), and a draft that is being discarded may
have moved on but not past the approval (`Doomed`), since that takes longer than the
put-backs that could bring it there are allowed to meet it.

Four of `TermReview`'s results depend on who crossed whom. `CompanyInv` says that
`overlaps` misses no meeting, `BuiltInv` that what a request remembers is what the
code made of what it had read. On these stand three layers: `InForceInv` (what a
reading still has to put, and what is listed) gives `TermsInForce`; `CoverageInv` (the
programs a rebuilder holds are those of the table, while nobody crosses it) gives
`CoverageFollows`; `ApprovalInv` (a row about to be put carries an approval only over
the same record) gives `ReadingsApproveNothing` and `LostApprovalsShow`.

`EngagementBillingProofs` has three parts. The first proves `PaymentsStay`
(`PaymentsAreKept`) and `TheLockHolds` (`LockedDuesDoNotMove`) for any number of
requests, cycles, instalments and deaths. Both bound what a late request does by what
it had seen, so `IInv` says what a memory still tells of now (`Sound`): payments seen
made are still there, a request that generates rows had seen none made, a payer pays
one that it had not seen made, and a request on its way to set dues under a shut lock
is a signature or a healing read. For the last one needs that the cycle in force is a
live one as soon as there is any (`InForceIsLive`), and so that a finite set of cycles
has a last (`LastOne`).

The second proves, for every date, `DueDatesAdvance` (rows of a schedule are dates
there are, each later than those before it, whatever days were clamped) and
`ContractsEndAfterTheyStart`. Both rest on `MonthsAreAdded`, which says that
`AddMonths` lands exactly so many months on.

The third proves `TypeCorrect`, `ScheduleWhole` (`ScheduleIsWhole`), `DuesFollow`
(`DuesFollowConfigAndFleet`) and `ConfigFollows` (`ConfigHoldsCorrections`) in four
layers, each inductive relative to those before it. `TypeInv` is what a request holds
by the call it is at. `CycleInv` says that cycles come one at a time, a cycle has one
signature at work on it, and a configuration from the moment that signature stored it
(`OneCycleAtATime`). `ScheduleInv` says why everybody who generates the schedule
generates the same one: before there are rows, all of them hold the first configuration
there was. `AloneInv` says what a request without company has of the account, and what
holds once nobody has left configuration, dues or fleet half-way. That the dues of a
configuration are a number is assumed (`DuesAreNumbers`), not proved: they are a fold.

Of people, `DeskProofs` proves `PeopleTypes`, `NamesFollow` (`NamesFollowTheProfile`),
`StaffStayStaff` (`StaffAreNotCustomers`) and `InvitationsAnswered`
(`InvitationsArrive`) for any persons, engagements, names and requests, any call of
which may be its last. `PlacesInv` says of a request what the call it has come to
takes for granted: the account is there, and in its group before the row is put.
`CreatorsInv` says that an account is created by one request, which is the only one to
give it its group, so that nobody it invites can have become staff. `NamesInv` says
what a running onboarding has put and has yet to put, which `NamesFollowTheProfile`
needs as it only speaks of persons whose onboarding went through. Onboardings of one
person may cross in any number: what it says of rows it says of one that is `clear`,
and as long as one is, every other of that person gives the profile's name too
(`Agreed`).

Of the catalog, `DeskProofs` proves `CatalogTypes`, `KnownStayOffTheQueue`
(`KnownNamesAreNotQueued`) and `NamesLeaveKnown` (`NamesLeaveTheQueueKnown`) for any
wordings, normal forms and likeness, any workers, editors and lifetimes of a snapshot.
For the first, a snapshot's gaps are younger than the snapshot and a look-up's than it
was when it began (`CacheInv`, `ReadingInv`); for the second, the row an edit will put
carries a name with the key it will take off (`EditInv`), and an active program
resolves every name normalised alike (`ActiveResolves`), which is where a name with
nothing left to compare falls through.

`DocumentReadingProofs` proves `ReadingTypes`, `QuietReadings`
(`QuietReadingsAreWhole`) and `Repairs` (`RepairsKeepEveryPage`) for any contract,
any categories asked of it, any output cap and any number of troubled calls. It begins
with the windows, page by page: the packing puts every page into a block, neighbouring
pages into one block or at the seam of two, the fold of a thin tail keeps that, and
the page read again closes the seams, so any two neighbours are in one window. So the
plan asks every category of every page and every two neighbouring pages. `RInv` then
follows the reading: whose pages a prefix holds, that each answer is what its job's
prefix shows or, if the call was in trouble, part of that, besides records of lines it
shows in part, and that what is asked again are the halves of what was cut off. Last,
the merge: readings of a term that show all it needs at least once, and each of its
list entries at least once, fold into the reading with everything in view
(`QuietIsFull`); a record that lost some of its identity is none of these, comes from
a call that did not see its term whole, and stands in the report next to that term if
only the amount is missing (`QuietIsWhole`). Nothing is left of `MaxTroubles` and the six
contracts of the run but their types (`ContractsAssumption`).

`AnswerRepairProofs` proves `Salvaged` (`WholeRecordsComeBack`) for any set of strings
over the six symbols and any number of records. Where every symbol, string and object
stands in a text comes first (`WrittenIs`, `ObjectIs`, `TextIs`). The scan for objects
passes over a string whatever it says (`StringScan`), so an object is found when its
last brace is read and not before (`ObjectScan`), and up to any place exactly the
records complete there are found (`FoundSoFar`). A quotation mark that ends a string
always has a brace behind it (`AnswerEnded`), which is why the repair, in step with
that scan, changes nothing, also where the answer is cut off (`RepairKeeps`). An answer
whose plain strings were quoted without escapes is followed next to the one it was
meant as, symbol by symbol (`RawRepaired`).

Of reports, `DeskProofs` proves `Portfolio` (`PortfolioIsTheTermsInForce`) for any
engagements, cycles, amounts and payments. A sum is a recursive function over sets, so
it is unfolded member by member, and what is said of all sums is shown by a set of
least size for which it fails: sums of equal members are equal, the sum over a set is
that over its parts, sums of sums may be swapped. A number of days is in one bucket,
which gives the sums of a line and, swapped, those of the book. That amendments move
no line rests on the cycle in force of a live engagement being the latest live one
(`SomeIsLatest`). `BooksAssumption` types the rows of a book.

`PartsAreOnTheirOwn` says that every part of a behaviour of `DeskSpec` is a behaviour
of that part. So `EveryPartTypes` (`EveryPartTypeOK`) and `TheDeskKeepsItsWord`, which
is everything the run `desk` checks, follow from the theorems of the parts.

Several of these would be inductions over data (a text, a sequence of pages, a set that
is summed over). Where the induction theorems of the library cannot be instantiated,
the argument is the least counterexample instead: the numbers for which a fact fails,
if there are any, have a first (`FirstOne`), and the one before it fails or the step
gives the contradiction.

Only model-checked: `CyclesComeThrough`, which is liveness under fairness, out of the
provers' reach. The runs that expect a violation have nothing to prove, and
`SchedulesKeepTheirDay` and `WindowsOfMarch` are assumptions TLC evaluates on whole
years.

## 5. What the code does not keep

See `findings` in `PROJECT.json`; five of them have a run:

1. two openers get two amendments (`two_openers`);
2. a GET of the summary or of the change review puts a stale row back (`reader`);
3. a refused approval overwrites the signature of a live cycle (`signature`);
4. discarding an upload that never arrived may delete an agreement that was read
   (`discard`).
5. reading an agreement again withdraws the approval of every term at a whole-dollar
   amount, although nothing changed (`terms_reread`). Corrections go the same way,
   and the mark that says so goes with the second reading.

The step-level model says what would have to hold for the first two not to
happen: `races` passes with every other interleaving.

Others were met while modelling and are part of the models as the code has them; the
properties name the case or leave it out:

* **Billing.** A tier band is added to the monthly dues whatever its charge bills on
  (`estimate.py:40`); `pay` and `ensure_schedule` put rows over newer ones
  (`payments.py:80`); an amendment's charges can never be corrected under audit
  (`engagements.py:712`); a configuration that cannot be read counts as one that does
  not exist (`vehicles.py:109`); dues change at signature, not at go-live
  (`submissions.py:408`).
* **Readings.** Prefixes of windows are kept by index across categories that are cut
  differently (`service.py:428`); halves of a retried call may part a table
  (`service.py:483`); rescued records are never reported (`llm/base.py:54`). A window
  that shows a fee in part may add a second row of it; `merge.py:17-18` says the
  disagreement is reported, but `extract_contract` never reads that report
  (`service.py:521`), and nothing at all names a second row under another frequency.
* **Copies.** A fleet stays wrong after a request that ended before its count
  (`vehicles.py:341`), and a person's rows may keep a name the profile has not after two
  onboardings that crossed (`me.py:57`); no doc promises otherwise.
* **Catalog.** Two like aliases of one program knock each other out
  (`resolve.py:118`); promoting a name may replace a program (`services.py:253`); a
  name may be linked to a retired one (`services.py:233`); names made of filler words
  only share one entry of the queue, and an alias that is one takes the others off it
  (`services.py:214`).
* **Others.** Utilisation divides by the wrong fleet (`vehicles.py:237`); paid
  instalments are aged as current (`finance.py:146`); a broken-off invitation or hiring
  cannot be completed as meant (`invites.py:60`); scope outlives the last agreement
  (`reconcile.py:41`); `discard_amendment` misses replacements (`submissions.py:228`).

## 6. Plan

Done: everything in section 2. What would add most from here, in this order:

1. **Single calls on agreements**: upload, parse, delete and `discard_amendment` taken
   apart into table calls, for the rows `set_document_meta` brings back
   (`repository.py:564`); today those handlers are whole.
2. **Readings inside cycles**: `TermReview`'s steps composed with `EngagementWorkflow`'s
   hand-over, for a cycle that reaches underwriting between the version's status and
   its terms (`extract.py:66`).
3. **Proofs**: the invariants of the first two when they are there. Of the passing
   runs, every invariant and every action property is a theorem today.

## 7. Not modelled

* Customers: rows written one at a time, without a rule over several of them.
* Authentication and visibility: the role that reaches a handler is an input of every
  action; the filters are reads.
* Notifications: best effort, change nothing.
* Language-model clients, prompts and PDF text matching: data and external services;
  how an answer ended is an input of `DocumentReading`.
* Wiring, settings and one-off scripts.

Inside modelled parts: `patch_field` (the older review per service line), lists and
renaming, the audit trail, citations and confidence flags, document metadata, and the
two report sections that rank. `PROJECT.json` gives the reason for each.
