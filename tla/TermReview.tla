---------------------------- MODULE TermReview ----------------------------
(***************************************************************************)
(* The pricing terms of one version of one agreement, and the programs they*)
(* show the engagement to avail.  The extract worker writes them, reading  *)
(* after reading; people approve and correct them in between, or meanwhile.*)
(*                                                                         *)
(* A term is identified by what was read: its line, amount included, so a  *)
(* member of Lines is a line at an amount.  Each action is one call of the *)
(* table, and a request is a process that remembers what it read.  Terms of*)
(* other types go the same way, but touch no coverage.                     *)
(***************************************************************************)
EXTENDS Naturals, FiniteSets, Functions

CONSTANTS
  Lines,        \* priced lines, as record_id_for tells them apart
  WholeDollar,  \* those whose amount has no cents
  Texts,        \* what else a person reads in a term
  Doubtful,     \* the texts needs_review_for shows first
  Names,        \* names of programs
  NameOn,       \* the name a line is read with, part of its identity
  Programs,     \* programs of the catalog
  Resolved,     \* what the catalog makes of a name
  NoProgram,    \* nothing found
  NoValue,      \* a row the table does not hold, a correction not made
  Requests,     \* processes
  Shifts,       \* what each process does: functions to sets of kinds
  Corrections,  \* what an analyst may put in a record
  MaxQueued     \* bound: readings asked for and not finished

DeskKinds == {"patch_term", "approve_terms", "correct_billing"}
Kinds == {"extract"} \cup DeskKinds

VARIABLES
  terms,       \* line -> row, as the table holds it
  coverage,    \* programs with a coverage row of this version
  extraction,  \* the version's copy of the latest reading: line -> text
  queued,      \* messages of the extract queue
  request,     \* process -> where it is and what it remembers
  work,        \* process -> the kinds of request it makes, one after another
  overlaps     \* history: the pairs of kinds that were at work together

vars == <<terms, coverage, extraction, queued, request, work, overlaps>>

\* What _body_hash sees of a record.  float: the amount is still the 15.0 of
\* the reading and not the 15 of the table.
Records == [text : Texts, program : Names, float : BOOLEAN, override : BOOLEAN]

Rows ==
  [record : Records, needs_review : BOOLEAN, approved : BOOLEAN,
   corrected : BOOLEAN, changed_since_approval : BOOLEAN, superseded : BOOLEAN]

ASSUME LinesAssumption ==
  /\ IsFiniteSet(Lines) /\ NoValue \notin Rows \cup Records /\ WholeDollar \subseteq Lines
  /\ Doubtful \subseteq Texts
ASSUME CatalogAssumption ==
  /\ NameOn \in [Lines -> Names]
  /\ Resolved \in [Names -> Programs \cup {NoProgram}]
ASSUME RequestsAssumption ==
  /\ Shifts # {} /\ Shifts \subseteq [Requests -> SUBSET Kinds]
  /\ Corrections \subseteq [text : Texts, program : Names]
  /\ MaxQueued \in Nat \ {0}

-----------------------------------------------------------------------------
(* materialize.py *)

AsRead(i, text) ==
  [text |-> text, program |-> NameOn[i], float |-> i \in WholeDollar, override |-> FALSE]

\* Mutant: what is read back is what was written.
StoredAsIs(record) == record

\* To the table as decimals and back: a whole number comes back as an int.
Stored(record) == [record EXCEPT !.float = FALSE]

NewRow(i, text) ==
  [record |-> AsRead(i, text), needs_review |-> text \in Doubtful, approved |-> FALSE,
   corrected |-> FALSE, changed_since_approval |-> FALSE, superseded |-> FALSE]

BuiltRows(reading) == [i \in DOMAIN reading |-> NewRow(i, reading[i])]

\* Mutants: the approval stays; the loss is not recorded.
MovedStillApproved(prior, row) ==
  [row EXCEPT !.approved = prior.approved, !.corrected = prior.corrected]
MovedInSilence(prior, row) ==
  [row EXCEPT !.approved = FALSE, !.needs_review = TRUE, !.corrected = prior.corrected]

\* The term moved: keep the row, lose the approval, and say why.
MovedRow(prior, row) ==
  [row EXCEPT !.approved = FALSE, !.needs_review = TRUE,
              !.changed_since_approval = prior.approved, !.corrected = prior.corrected]

SameBody(prior, row) == prior.record = row.record

\* Mutant: an unchanged term that comes back stays superseded.
MergedAsItWas(prior, row) ==
  IF prior = NoValue THEN row ELSE IF SameBody(prior, row) THEN prior ELSE MovedRow(prior, row)

Merged(prior, row) ==
  IF prior = NoValue THEN row
  ELSE IF SameBody(prior, row) THEN [prior EXCEPT !.superseded = FALSE]
  ELSE MovedRow(prior, row)

\* Unchanged terms that are not coming back are in neither list.
ToWrite(existing, fresh) ==
  {i \in DOMAIN fresh :
     \/ existing[i] = NoValue
     \/ existing[i].superseded
     \/ ~SameBody(existing[i], fresh[i])}

ToSupersede(existing, fresh) ==
  {i \in Lines \ DOMAIN fresh : existing[i] # NoValue /\ ~existing[i].superseded}

Listed(rows) == {i \in DOMAIN rows : rows[i] # NoValue /\ ~rows[i].superseded}

CoverageOf(rows) == {Resolved[rows[i].record.program] : i \in Listed(rows)} \ {NoProgram}

-----------------------------------------------------------------------------
(* Requests. *)

Batches == UNION {[D -> Rows] : D \in SUBSET Lines}

\* What a request remembers from one call to the next.
Merging == [step : {"merge"}, kind : {"extract"}, fresh : Batches]
Putting ==
  [step : {"put_terms"}, kind : {"extract"},
   fresh : Batches, write : Batches, supersede : Batches]
Covering ==
  [step : {"clear_coverage", "put_coverage"}, kind : {"extract", "patch_term"},
   programs : SUBSET Programs]
Patching ==
  [step : {"update_term"}, kind : {"patch_term"}, line : Lines,
   approve : BOOLEAN, record : Records \cup {NoValue}]
Rebuilding == [step : {"rebuild_coverage"}, kind : {"patch_term"}]
Approving == [step : {"approve"}, kind : {"approve_terms"}, lines : SUBSET Lines]
Correcting ==
  [step : {"put_term"}, kind : {"correct_billing"}, line : Lines, row : Rows]

Idle == [step |-> "idle", kind |-> "none"]
Memory ==
  {Idle} \cup Merging \cup Putting \cup Covering \cup Patching
    \cup Rebuilding \cup Approving \cup Correcting

Busy == {p \in Requests : request[p] # Idle}
At(p, step) == request[p].step = step
Remember(p, memory) == request' = [request EXCEPT ![p] = memory]
Done(p) == Remember(p, Idle)

\* A request begins.  A reading that begins with nobody at work makes good
\* whatever was left by requests that crossed.
Begin(p, memory) ==
  /\ At(p, "idle") /\ memory.kind \in work[p]
  /\ Remember(p, memory)
  /\ overlaps' =
       IF Busy = {} THEN IF memory.kind = "extract" THEN {} ELSE overlaps
       ELSE overlaps \cup {{memory.kind, request[q].kind} : q \in Busy}

PutRow(i, row) == terms' = [terms EXCEPT ![i] = [row EXCEPT !.record = Stored(@)]]

-----------------------------------------------------------------------------
(* The extract worker. *)

\* Somebody asks for a reading, or a message is delivered once more.
Enqueue ==
  /\ queued + Cardinality({p \in Busy : request[p].kind = "extract"}) < MaxQueued
  /\ queued' = queued + 1
  /\ UNCHANGED <<terms, coverage, extraction, request, overlaps, work>>

\* The model reads the document, and the version keeps what it read.
ReadDocument(p) ==
  /\ queued > 0
  /\ queued' = queued - 1
  /\ \E found \in SUBSET Lines : \E reading \in [found -> Texts] :
       /\ extraction' = reading
       /\ Begin(p, [step |-> "merge", kind |-> "extract", fresh |-> BuiltRows(reading)])
  /\ UNCHANGED <<terms, coverage, work>>

\* list_terms, and merge_rows on what it returned.
ListAndMerge(p) ==
  /\ At(p, "merge")
  /\ LET fresh == request[p].fresh
         write == [i \in ToWrite(terms, fresh) |-> Merged(terms[i], fresh[i])]
         gone  == [i \in ToSupersede(terms, fresh) |-> [terms[i] EXCEPT !.superseded = TRUE]]
     IN Remember(p, [step |-> "put_terms", kind |-> "extract", fresh |-> fresh,
                     write |-> write, supersede |-> gone])
  /\ UNCHANGED <<terms, coverage, extraction, queued, overlaps, work>>

\* A batch goes out in any order, the written rows before the superseded.
PutWritten(p) ==
  /\ At(p, "put_terms")
  /\ LET rows == request[p].write IN
     \E i \in DOMAIN rows :
       /\ PutRow(i, rows[i])
       /\ Remember(p, [request[p] EXCEPT !.write = Restrict(rows, DOMAIN rows \ {i})])
  /\ UNCHANGED <<coverage, extraction, queued, overlaps, work>>

PutSuperseded(p) ==
  /\ At(p, "put_terms")
  /\ DOMAIN request[p].write = {}
  /\ LET rows == request[p].supersede IN
     \E i \in DOMAIN rows :
       /\ PutRow(i, rows[i])
       /\ Remember(p, [request[p] EXCEPT !.supersede = Restrict(rows, DOMAIN rows \ {i})])
  /\ UNCHANGED <<coverage, extraction, queued, overlaps, work>>

PutTerm(p) == PutWritten(p) \/ PutSuperseded(p)

\* The coverage to come is that of the reading, not of the rows as merged.
TermsPut(p) ==
  /\ At(p, "put_terms")
  /\ DOMAIN request[p].write = {} /\ DOMAIN request[p].supersede = {}
  /\ Remember(p, [step |-> "clear_coverage", kind |-> "extract",
                  programs |-> CoverageOf(request[p].fresh)])
  /\ UNCHANGED <<terms, coverage, extraction, queued, overlaps, work>>

-----------------------------------------------------------------------------
(* Coverage is withdrawn and written afresh, by the worker and by a        *)
(* correction.                                                             *)

ClearCoverage(p) ==
  /\ At(p, "clear_coverage")
  /\ coverage' = {}
  /\ Remember(p, [request[p] EXCEPT !.step = "put_coverage"])
  /\ UNCHANGED <<terms, extraction, queued, overlaps, work>>

PutCoverage(p) ==
  /\ At(p, "put_coverage")
  /\ coverage' = coverage \cup request[p].programs
  /\ Done(p)
  /\ UNCHANGED <<terms, extraction, queued, overlaps, work>>

-----------------------------------------------------------------------------
(* People. *)

\* patch_term reads the term and lays the correction over the record it read.
\* What the record type does not know, billing_override, is dropped.
Corrected(record, correction) ==
  [record EXCEPT !.text = correction.text, !.program = correction.program,
                 !.override = FALSE]

PatchTerm(p) ==
  /\ \E i \in {j \in Lines : terms[j] # NoValue}, approve \in BOOLEAN :
       \/ /\ approve
          /\ Begin(p, [step |-> "update_term", kind |-> "patch_term", line |-> i,
                       approve |-> TRUE, record |-> NoValue])
       \/ \E correction \in Corrections :
            Begin(p, [step |-> "update_term", kind |-> "patch_term", line |-> i,
                      approve |-> approve,
                      record |-> Corrected(terms[i].record, correction)])
  /\ UNCHANGED <<terms, coverage, extraction, queued, work>>

\* Mutant: approved, and still in the queue.
ApprovedInQueue(row) == [row EXCEPT !.approved = TRUE, !.changed_since_approval = FALSE]

Approved(row) ==
  [row EXCEPT !.approved = TRUE, !.needs_review = FALSE, !.changed_since_approval = FALSE]

\* What the update sets, on the row as it is by now.
Updated(row, approve, record) ==
  LET reviewed == IF approve THEN Approved(row) ELSE row
  IN IF record = NoValue THEN reviewed
     ELSE [reviewed EXCEPT !.record = record, !.corrected = TRUE]

\* Mutant: a correction leaves the coverage alone.
UpdateTermOnly(p) ==
  LET i == request[p].line IN
  /\ At(p, "update_term")
  /\ PutRow(i, Updated(terms[i], request[p].approve, request[p].record))
  /\ Done(p)
  /\ UNCHANGED <<coverage, extraction, queued, overlaps, work>>

UpdateTerm(p) ==
  LET i == request[p].line IN
  /\ At(p, "update_term")
  /\ PutRow(i, Updated(terms[i], request[p].approve, request[p].record))
  /\ IF request[p].record = NoValue THEN Done(p)
     ELSE Remember(p, [step |-> "rebuild_coverage", kind |-> "patch_term"])
  /\ UNCHANGED <<coverage, extraction, queued, overlaps, work>>

RebuildCoverage(p) ==
  /\ At(p, "rebuild_coverage")
  /\ Remember(p, [step |-> "clear_coverage", kind |-> "patch_term",
                  programs |-> CoverageOf(terms)])
  /\ UNCHANGED <<terms, coverage, extraction, queued, overlaps, work>>

\* approve_terms lists what is not approved, and approves it row by row.
ApproveTerms(p) ==
  /\ LET todo == {i \in Listed(terms) : ~terms[i].approved}
     IN /\ todo # {}
        /\ Begin(p, [step |-> "approve", kind |-> "approve_terms", lines |-> todo])
  /\ UNCHANGED <<terms, coverage, extraction, queued, work>>

ApproveNext(p) ==
  /\ At(p, "approve")
  /\ \E i \in request[p].lines :
       /\ PutRow(i, Approved(terms[i]))
       /\ IF request[p].lines = {i} THEN Done(p)
          ELSE Remember(p, [request[p] EXCEPT !.lines = @ \ {i}])
  /\ UNCHANGED <<coverage, extraction, queued, overlaps, work>>

\* correct_billing_item finds the charge, and puts the whole row back with an
\* override in it.
CorrectBilling(p) ==
  /\ \E i \in Listed(terms) :
       Begin(p, [step |-> "put_term", kind |-> "correct_billing", line |-> i,
                 row |-> [terms[i] EXCEPT !.record.override = TRUE, !.corrected = TRUE]])
  /\ UNCHANGED <<terms, coverage, extraction, queued, work>>

PutCorrection(p) ==
  /\ At(p, "put_term")
  /\ PutRow(request[p].line, request[p].row)
  /\ Done(p)
  /\ UNCHANGED <<coverage, extraction, queued, overlaps, work>>

-----------------------------------------------------------------------------
\* The process dies.  The queue delivers a worker's message again; nobody
\* finishes a person's request, which matters if it was to rebuild coverage.
Die(p) ==
  /\ request[p] # Idle
  /\ Done(p)
  /\ IF request[p].kind = "extract"
     THEN queued' = queued + 1 /\ UNCHANGED overlaps
     ELSE /\ overlaps' = overlaps \cup ({{request[p].kind, "died"}} \cap {{"patch_term", "died"}})
          /\ UNCHANGED queued
  /\ UNCHANGED <<terms, coverage, extraction, work>>

Init ==
  /\ terms = [i \in Lines |-> NoValue]
  /\ coverage = {}
  /\ extraction = [i \in {} |-> i]
  /\ queued = 1
  /\ request = [p \in Requests |-> Idle]
  /\ work \in Shifts
  /\ overlaps = {}

Worker(p) ==
  ReadDocument(p) \/ ListAndMerge(p) \/ PutTerm(p) \/ TermsPut(p)

Person(p) ==
  \/ PatchTerm(p) \/ UpdateTerm(p) \/ RebuildCoverage(p)
  \/ ApproveTerms(p) \/ ApproveNext(p)
  \/ CorrectBilling(p) \/ PutCorrection(p)

Next ==
  \/ Enqueue
  \/ \E p \in Requests :
       Worker(p) \/ Person(p) \/ ClearCoverage(p) \/ PutCoverage(p) \/ Die(p)

Spec == Init /\ [][Next]_vars
-----------------------------------------------------------------------------
(* Properties. *)

\* What the version keeps, what the table holds and what is remembered have
\* their shapes; no amount of the table is left in the form of the reading.
TypeOK ==
  /\ terms \in [Lines -> Rows \cup {NoValue}]
  /\ \A i \in Lines : terms[i] # NoValue => ~terms[i].record.float
  /\ coverage \subseteq Programs
  /\ extraction \in UNION {[D -> Texts] : D \in SUBSET Lines}
  /\ queued \in Nat
  /\ request \in [Requests -> Memory]
  /\ work \in Shifts

AtRest == Busy = {} /\ queued = 0

\* Two requests of these kinds have crossed since the last reading that began
\* with nobody at work.
Crossed(kind, others) == \E other \in others : {kind, other} \in overlaps

\* With the queue empty, the terms in force are those of the latest reading
\* (merge_rows): none twice, none left over, none missing, whatever readings
\* came before, wherever a worker died, and whoever approved or corrected
\* meanwhile.  Two readings at a time, and a whole row put back by a billing
\* correction, are what can break it.
TermsInForceAreTheLatestReading ==
  AtRest /\ ~Crossed("extract", {"extract", "correct_billing"})
    => Listed(terms) = DOMAIN extraction

\* With the queue empty, the coverage is what the terms in force name, although
\* the worker takes it from the reading and not from the rows it merged
\* (extract.py, _rebuild_coverage).  Approvals may cross anything.
CoverageFollowsTerms ==
  /\ AtRest
  /\ ~Crossed("extract", {"extract", "patch_term", "correct_billing"})
  /\ ~Crossed("patch_term", {"patch_term", "correct_billing", "died"})
  => coverage = CoverageOf(terms)

FlagsAgree(row) ==
  /\ row.approved => ~row.needs_review /\ ~row.changed_since_approval
  /\ row.changed_since_approval => row.needs_review

\* An approved term waits in nobody's queue, and a term is called changed since
\* its approval only while it waits for a new one (TermRow, merge_rows,
\* patch_term, approve_terms), whatever crosses what.
ReviewFlagsAgree == \A i \in Lines : terms[i] # NoValue => FlagsAgree(terms[i])

\* No reading, finished or not, leaves approved a term that says something
\* else than it did when it was approved (materialize.py, "Merge, not
\* overwrite"), unless people cross it.
ReadingApprovesNothing ==
  [][\A i \in Lines :
       /\ \E p \in Requests : PutTerm(p)
       /\ ~Crossed("extract", {"extract"} \cup DeskKinds)
       /\ terms'[i] # NoValue /\ terms'[i].approved
       => /\ terms[i] # NoValue /\ terms[i].approved
          /\ terms'[i].record = terms[i].record]_vars

\* An approval is never lost in silence: the row says that it changed since
\* (TermRow.changed_since_approval), unless a whole row was put back over it.
LostApprovalsAreShown ==
  [][\A i \in Lines :
       /\ ~Crossed("extract", {"extract"} \cup DeskKinds)
       /\ ~Crossed("correct_billing", DeskKinds)
       /\ terms[i] # NoValue /\ terms[i].approved /\ ~terms'[i].approved
       => terms'[i].changed_since_approval]_vars

\* "An unchanged term is left completely alone" (materialize.py:14): an approved
\* term that a reading nobody crosses finds as it was read before stays approved.
ApprovalsSurviveReReading ==
  [][\A i \in Lines, p \in Requests :
       /\ PutTerm(p)
       /\ ~Crossed("extract", {"extract"} \cup DeskKinds)
       /\ i \in Listed(terms) /\ terms[i].approved
       /\ i \in DOMAIN request[p].fresh
       /\ terms[i].record = Stored(request[p].fresh[i].record)
       => terms'[i].approved]_vars
=============================================================================
