------------------------ MODULE EngagementWorkflow ------------------------
(***************************************************************************)
(* One engagement: its review cycles (submissions), its agreements with    *)
(* their versions and files, the two queues and the two workers behind     *)
(* them.  Every request handler of api/submissions.py and                  *)
(* api/documents.py that changes this state is one action, and so is every *)
(* delivery of a message to the parse or the extract worker.               *)
(*                                                                         *)
(* A handler is one step here: requests and deliveries interleave in every *)
(* order, but none is interrupted by another.  CycleRaces takes them apart *)
(* into their single reads and writes.                                     *)
(***************************************************************************)
EXTENDS SubmissionState, AmendmentPolicy, AgreementStanding, FiniteSets, Functions

CONSTANTS
  Subs,        \* submission ids
  Docs,        \* document ids
  MaxVersion,  \* how many versions one agreement gets
  MaxQueued,   \* how many messages one queue holds
  Contents,    \* what an uploaded file can turn out to be
  Signatures,  \* what a signing customer can type
  NoValue      \* "not set"

ASSUME BoundAssumption == MaxVersion \in Nat \ {0} /\ MaxQueued \in Nat \ {0}
ASSUME ContentAssumption ==
  Contents \subseteq
    [reads : DocTypes, titles : SUBSET AgreementTypes, effective : Nat, ours : BOOLEAN]
ASSUME IdAssumption ==
  /\ IsFiniteSet(Subs) /\ Subs # {}
  /\ IsFiniteSet(Docs)
  /\ NoValue \notin Subs \cup Signatures

VARIABLES
  subs,        \* submission id -> review cycle row
  engagement,  \* the engagement row: status, scope, whose terms set its dues
  docs,        \* document id -> agreement row
  versions,    \* <<document id, version>> -> how far the version has been read
  uploads,     \* the presigned keys not used yet
  files,       \* S3: <<document id, version>> -> what was uploaded there
  ingest,      \* SQS queue of the parse worker
  extract,     \* SQS queue of the extract worker
  issued       \* the ids handed out so far: new_id() never repeats one

vars == <<subs, engagement, docs, versions, uploads, files, ingest, extract, issued>>

Versions == 1..MaxVersion
Keys == Docs \X Versions
VersionStatuses == {"uploaded", "parsed", "extracted"}

Submission ==
  [status : Statuses, cycle : Nat, created : Nat,
   slots : SlotMaps(Docs), signature : Signatures \cup {NoValue}]

Document ==
  [type : DocTypes, overridden : BOOLEAN, standing : Standings,
   effective : Nat, current : Versions, cycle : Nat, created : Nat]

Engagement == [status : Statuses, scope : Scopes, dues : Subs \cup {NoValue}]

\* A work item: which version to read, on behalf of which cycle, and the type
\* the agreement had when the item was queued.
Message == [sub : Subs, key : Keys, hint : DocTypes]

TypeOK ==
  /\ subs \in [DOMAIN subs -> Submission] /\ DOMAIN subs \subseteq Subs
  /\ engagement \in Engagement
  /\ docs \in [DOMAIN docs -> Document] /\ DOMAIN docs \subseteq Docs
  /\ versions \in [DOMAIN versions -> VersionStatuses] /\ DOMAIN versions \subseteq Keys
  /\ uploads \subseteq Keys
  /\ files \in [DOMAIN files -> Contents] /\ DOMAIN files \subseteq Keys
  /\ ingest \subseteq Message
  /\ extract \subseteq Message
  /\ issued \subseteq Subs \cup Docs

-----------------------------------------------------------------------------
(* Rows, numbers and queues.                                               *)

\* A table with one row written (put_item), and with rows gone (delete_item).
Put(table, id, row) ==
  [x \in DOMAIN table \cup {id} |-> IF x = id THEN row ELSE table[x]]
Delete(table, ids) == Restrict(table, DOMAIN table \ ids)

\* Cycle numbers and creation times.  Of a time only the order matters, so it
\* is one more than the latest in use; ids never come back, so no number
\* exceeds how many there are.
Numbers == 1..(Cardinality(Subs) + Cardinality(Docs))
IsNext(n, used) == (\A m \in used : m < n) /\ (n = 1 \/ n - 1 \in used)

\* SQS delivers at least once: a message that was handled may stay and be
\* handled again.
Taken(queue, m) == {queue, queue \ {m}}

\* A request that dies among its sends has sent some of them.
Sent(queue, messages) ==
  {q \in {queue \cup some : some \in SUBSET messages} : Cardinality(q) <= MaxQueued}

-----------------------------------------------------------------------------
(* Moving a cycle: Repository.update_submission_status.                    *)

Moved(S, s, status) == [S EXCEPT ![s].status = status]

\* The engagement's copy of the status.  A live engagement keeps ACTIVE while
\* an amendment is reviewed; above it, a copy that always follows.
FollowAlways(E, S, s, status) == [E EXCEPT !.status = status]
Follow(E, S, s, status) ==
  IF status = "ACTIVE" \/ Live(S) \ {s} = {}
  THEN [E EXCEPT !.status = status]
  ELSE E

\* A worker names the status it expects and swallows the ConflictError when
\* the row holds another; above it, a write without the condition.
ExpectNothing(S, s, expected) == s \in DOMAIN S
Expect(S, s, expected) == s \in DOMAIN S /\ S[s].status = expected

\* _apply: take the row of the table that the cycle's status, the action and
\* the caller's role select, or answer 409.
Apply(s, action, role) ==
  /\ s \in DOMAIN subs
  /\ \E t \in Allowed(subs[s].status, action, role) :
       /\ subs' = Moved(subs, s, t.target)
       /\ engagement' = Follow(engagement, subs, s, t.target)

-----------------------------------------------------------------------------
(* Which versions still have to be read.                                   *)

CurrentKey(D, d) == <<d, D[d].current>>
IsExtracted(V, k) == k \in DOMAIN V /\ V[k] = "extracted"

\* pending_documents
Pending(D, V) == {d \in InForce(D) : ~IsExtracted(V, CurrentKey(D, d))}

\* _all_documents_extracted; above it, the rule it replaced, and one that waits
\* for editions nobody reads any more.
EveryVersionExtracted(D, V) == \A k \in DOMAIN V : IsExtracted(V, k)
AnyDocumentExtracted(D, V) == \E d \in InForce(D) : IsExtracted(V, CurrentKey(D, d))
AllDocumentsExtracted(D, V) == InForce(D) # {} /\ Pending(D, V) = {}

\* The messages that ask for the current versions of ds to be read.
WorkItems(s, ds) ==
  {[sub |-> s, key |-> CurrentKey(docs, d), hint |-> docs[d].type] :
     d \in {x \in ds : CurrentKey(docs, x) \in DOMAIN versions}}

-----------------------------------------------------------------------------
(* reconcile_engagement: standing, scope and the slots of the cycle in     *)
(* play follow from the agreements.  With no agreement left it returns     *)
(* before touching any of them.                                            *)

ReconciledScope(D, E) ==
  IF DOMAIN D = {} THEN E ELSE [E EXCEPT !.scope = ScopeOf(Ranked(D))]

ReconciledSlots(D, S) ==
  IF DOMAIN D = {} THEN S
  ELSE [s \in DOMAIN S |->
          IF IsOpenCycle(S, s) THEN [S[s] EXCEPT !.slots = SlotsOf(Ranked(D))]
          ELSE S[s]]

\* The write without the bookkeeping.
WriteOnly(D) ==
  /\ docs' = D
  /\ UNCHANGED <<subs, engagement>>

Reconcile(D) ==
  /\ docs' = Ranked(D)
  /\ subs' = ReconciledSlots(D, subs)
  /\ engagement' = ReconciledScope(D, engagement)

-----------------------------------------------------------------------------
(* Agreements: api/documents.py.                                           *)

\* The statuses in which the cycle in play accepts an upload, and those in
\* which it lets an agreement go; above each, a set one status too large.
UploadableAlsoInReview ==
  {"DRAFT", "IN_UNDERWRITING", "VALIDATION_FAILED", "CHANGES_REQUESTED_CLIENT",
   "PENDING_CLIENT_APPROVAL"}
UploadableStatuses ==
  {"DRAFT", "IN_UNDERWRITING", "VALIDATION_FAILED", "CHANGES_REQUESTED_CLIENT"}
DeletableStatuses == UploadableStatuses

NewDocument(type, cycle, n) ==
  [type |-> type, overridden |-> type # "UNKNOWN", standing |-> "CURRENT",
   effective |-> 0, current |-> 1, cycle |-> cycle, created |-> n]

\* presign_upload of a new agreement.  Only an uploader who names the type
\* has the engagement reconciled at once.
PresignNew(d, type) ==
  /\ d \notin issued
  /\ \E s \in DOMAIN subs, n \in Numbers :
       /\ IsOpenCycle(subs, s)
       /\ subs[s].status \in UploadableStatuses
       /\ IsNext(n, {docs[e].created : e \in DOMAIN docs})
       /\ LET D == Put(docs, d, NewDocument(type, subs[s].cycle, n))
          IN  IF type = "UNKNOWN" THEN WriteOnly(D) ELSE Reconcile(D)
  /\ versions' = Put(versions, <<d, 1>>, "uploaded")
  /\ uploads' = uploads \cup {<<d, 1>>}
  /\ issued' = issued \cup {d}
  /\ UNCHANGED <<files, ingest, extract>>

\* presign_upload of a replacement: the agreement keeps its type, standing and
\* cycle, and its current version has nothing behind it yet.
PresignReplacement(d) ==
  /\ d \in DOMAIN docs
  /\ docs[d].current < MaxVersion
  /\ \E s \in DOMAIN subs :
       IsOpenCycle(subs, s) /\ subs[s].status \in UploadableStatuses
  /\ LET k == <<d, docs[d].current + 1>>
     IN  /\ docs' = [docs EXCEPT ![d].current = @ + 1]
         /\ versions' = Put(versions, k, "uploaded")
         /\ uploads' = uploads \cup {k}
  /\ UNCHANGED <<subs, engagement, files, ingest, extract, issued>>

\* The browser's PUT arrives.  It may arrive late, or never.
FileLands(k, content) ==
  /\ k \in uploads
  /\ files' = Put(files, k, content)
  /\ uploads' = uploads \ {k}
  /\ UNCHANGED <<subs, engagement, docs, versions, ingest, extract, issued>>

\* set_document_type: a person corrects the type, in any status.
SetDocumentType(d, type) ==
  /\ d \in DOMAIN docs
  /\ type \in AgreementTypes
  /\ Reconcile([docs EXCEPT ![d].type = type, ![d].overridden = TRUE])
  /\ UNCHANGED <<versions, uploads, files, ingest, extract, issued>>

\* delete_document, which is also where discarding a first version ends.
RemoveAgreement(d) ==
  /\ \E s \in DOMAIN subs :
       IsOpenCycle(subs, s) /\ subs[s].status \in DeletableStatuses
  /\ LET keys == {d} \X Versions
     IN  /\ versions' = Delete(versions, keys)
         /\ files' = Delete(files, keys)
  /\ Reconcile(Delete(docs, {d}))
  /\ UNCHANGED <<uploads, ingest, extract, issued>>

DeleteDocument(d) == d \in DOMAIN docs /\ RemoveAgreement(d)

\* Every discarded version rolls the agreement back, the first one too.
RollBackAnyVersion(d, v) ==
  /\ <<d, v>> \in DOMAIN versions /\ d \in DOMAIN docs
  /\ versions[<<d, v>>] = "uploaded"
  /\ versions' = Delete(versions, {<<d, v>>})
  /\ docs' = [docs EXCEPT ![d].current = v - 1]
  /\ files' = Delete(files, {<<d, v>>})
  /\ UNCHANGED <<subs, engagement, uploads, ingest, extract, issued>>

\* discard_version: take back an upload whose file never arrived.  The check
\* is on the version's row; a later version rolls the agreement back to the
\* one before it, whatever the agreement's current version is.
DiscardVersion(d, v) ==
  /\ d \in DOMAIN docs
  /\ <<d, v>> \in DOMAIN versions
  /\ versions[<<d, v>>] = "uploaded"
  /\ IF v = 1 THEN RemoveAgreement(d)
     ELSE /\ versions' = Delete(versions, {<<d, v>>})
          /\ docs' = [docs EXCEPT ![d].current = v - 1]
          /\ files' = Delete(files, {<<d, v>>})
          /\ UNCHANGED <<subs, engagement, uploads, ingest, extract, issued>>

-----------------------------------------------------------------------------
(* Review cycles: api/submissions.py.                                      *)

AgreementsUnchanged == UNCHANGED <<docs, versions, uploads, files>>

\* submit_for_processing: the first run, over every agreement not read yet.
SubmitForProcessing(s, role) ==
  /\ Pending(docs, versions) # {}
  /\ Apply(s, "submit_for_processing", role)
  /\ ingest' \in Sent(ingest, WorkItems(s, Pending(docs, versions)))
  /\ AgreementsUnchanged
  /\ UNCHANGED <<extract, issued>>

\* extract_document: (re-)read one agreement.  What the cycle in play does
\* depends on where it is; past underwriting the call is refused.
ExtractDocument(d, role, force) ==
  /\ d \in DOMAIN docs
  /\ CurrentKey(docs, d) \in DOMAIN versions
  /\ IsExtracted(versions, CurrentKey(docs, d)) => force
  /\ role \in {"provider", "finance"}
  /\ \E s \in DOMAIN subs :
       /\ IsOpenCycle(subs, s)
       /\ \/ subs[s].status = "DRAFT" /\ Apply(s, "submit_for_processing", role)
          \/ Apply(s, "reupload", role)
          \/ /\ subs[s].status \in {"EXTRACTING", "REVALIDATING"}
             /\ UNCHANGED <<subs, engagement>>
       /\ ingest' \in Sent(ingest, WorkItems(s, {d}))
  /\ AgreementsUnchanged
  /\ UNCHANGED <<extract, issued>>

\* reupload: re-validate, and read what has not been read at its current version.
Reupload(s, role) ==
  /\ Apply(s, "reupload", role)
  /\ ingest' \in Sent(ingest, WorkItems(s, Pending(docs, versions)))
  /\ AgreementsUnchanged
  /\ UNCHANGED <<extract, issued>>

MoveOnly(s, action, role) ==
  /\ Apply(s, action, role)
  /\ AgreementsUnchanged
  /\ UNCHANGED <<ingest, extract, issued>>

SubmitToClient(s, role)       == MoveOnly(s, "submit_to_client", role)
ResubmitToClient(s, role)     == MoveOnly(s, "resubmit_to_client", role)
ClientRequestChanges(s, role) == MoveOnly(s, "client_request_changes", role)
ApproveBilling(s, role)       == MoveOnly(s, "approve_billing", role)


-----------------------------------------------------------------------------
(* The customer signs: client_approve and, behind it, _build_billing.      *)

\* The typed name goes on the row first; above it, a request that forgets to.
LeftUnsigned(S, s, signature) == S
Signed(S, s, signature) == [S EXCEPT ![s].signature = signature]

\* The machine steps behind the signature capture the terms, set the
\* engagement's dues from them and hand the cycle to the audit.  A failure on
\* the way leaves the cycle after any of them.
ClientApprove(s, role, signature) ==
  /\ s \in DOMAIN subs
  /\ Allowed(subs[s].status, "client_approve", role) # {}
  /\ \E status \in {"CLIENT_APPROVED", "BILLING_SETUP", "PENDING_BILLING_AUDIT"},
        dues \in {engagement.dues, s} :
       /\ status = "CLIENT_APPROVED" => dues = engagement.dues
       /\ status = "PENDING_BILLING_AUDIT" => dues = s
       /\ subs' = Moved(Signed(subs, s, signature), s, status)
       /\ engagement' = [Follow(engagement, subs, s, status) EXCEPT !.dues = dues]
  /\ AgreementsUnchanged
  /\ UNCHANGED <<ingest, extract, issued>>

\* Out of turn the transition is refused, but only after the row was written.
ClientApproveRefused(s, role, signature) ==
  /\ s \in DOMAIN subs
  /\ Allowed(subs[s].status, "client_approve", role) = {}
  /\ subs' = Signed(subs, s, signature)
  /\ AgreementsUnchanged
  /\ UNCHANGED <<engagement, ingest, extract, issued>>

-----------------------------------------------------------------------------
(* Amendments.                                                             *)

\* The row a further cycle starts from: the slots of the cycle in play carry
\* over, nothing else does.
NewCycle(number, slots, n) ==
  [status |-> "DRAFT", cycle |-> number, created |-> n, slots |-> slots,
   signature |-> NoValue]

OpenAmendment(s, role) ==
  /\ role \in {"provider", "finance"}
  /\ s \notin issued
  /\ \E c \in DOMAIN subs, number \in Numbers, n \in Numbers :
       /\ IsOpenCycle(subs, c)
       /\ CanOpenAmendment(subs[c].status)
       /\ IsNext(number, {subs[o].cycle : o \in DOMAIN subs})
       /\ IsNext(n, {subs[o].created : o \in DOMAIN subs})
       /\ subs' = Put(subs, s, NewCycle(number, subs[c].slots, n))
  /\ issued' = issued \cup {s}
  /\ AgreementsUnchanged
  /\ UNCHANGED <<engagement, ingest, extract>>

\* discard_amendment: only a draft, never the first cycle, and not while an
\* agreement that was uploaded to it exists.
DiscardAmendment(s, role) ==
  /\ role \in {"provider", "finance"}
  /\ s \in DOMAIN subs
  /\ subs[s].cycle > 1
  /\ subs[s].status = "DRAFT"
  /\ \A d \in DOMAIN docs : docs[d].cycle # subs[s].cycle
  /\ subs' = Delete(subs, {s})
  /\ AgreementsUnchanged
  /\ UNCHANGED <<engagement, ingest, extract, issued>>

-----------------------------------------------------------------------------
(* The workers: pipeline/parse.py and pipeline/extract.py.                 *)

\* classify_doc_type and find_effective_date: what the text says replaces what
\* the row says, unless a person said otherwise or the text says nothing.
Identified(row, content) ==
  [row EXCEPT
     !.type = IF content.reads # "UNKNOWN" THEN content.reads ELSE @,
     !.effective = IF content.effective # 0 THEN content.effective ELSE @]

\* The tables after the worker has identified the agreement and reconciled.
Classified(m) ==
  LET d == m.key[1]
      D == [docs EXCEPT ![d] = Identified(@, files[m.key])]
  IN  IF d \in DOMAIN docs /\ ~docs[d].overridden
      THEN [docs |-> Ranked(D), subs |-> ReconciledSlots(D, subs),
            engagement |-> ReconciledScope(D, engagement)]
      ELSE [docs |-> docs, subs |-> subs, engagement |-> engagement]

\* sanity_check_text: the text names the client, and does not carry only the
\* title of the other type of agreement.
SanityOK(content, hint) ==
  /\ content.ours
  /\ hint \in AgreementTypes => content.titles # AgreementTypes \ {hint}

\* The version's row, when it still exists.
Marked(k, status) == IF k \in DOMAIN versions THEN Put(versions, k, status) ELSE versions

ParseFails(m) ==
  /\ m \in ingest
  /\ m.key \in DOMAIN files
  /\ Expect(subs, m.sub, "REVALIDATING")
  /\ ~SanityOK(files[m.key], m.hint)
  /\ LET c == Classified(m)
     IN  /\ docs' = c.docs
         /\ subs' = Moved(c.subs, m.sub, "VALIDATION_FAILED")
         /\ engagement' = Follow(c.engagement, c.subs, m.sub, "VALIDATION_FAILED")
  /\ ingest' \in Taken(ingest, m)
  /\ UNCHANGED <<versions, uploads, files, extract, issued>>

\* The sanity check gates a cycle that is being revalidated, and no other.  A
\* worker that dies before the hand-over leaves the message where it was, its
\* version marked by then or not.
ParsePasses(m) ==
  /\ m \in ingest
  /\ m.key \in DOMAIN files
  /\ Expect(subs, m.sub, "REVALIDATING") => SanityOK(files[m.key], m.hint)
  /\ LET c == Classified(m)
     IN  /\ docs' = c.docs
         /\ IF Expect(subs, m.sub, "REVALIDATING")
            THEN /\ subs' = Moved(c.subs, m.sub, "EXTRACTING")
                 /\ engagement' = Follow(c.engagement, c.subs, m.sub, "EXTRACTING")
            ELSE subs' = c.subs /\ engagement' = c.engagement
  /\ \/ /\ versions' = Marked(m.key, "parsed")
        /\ extract' = extract \cup {m}
        /\ Cardinality(extract') <= MaxQueued
        /\ ingest' \in Taken(ingest, m)
     \/ versions' \in {versions, Marked(m.key, "parsed")} /\ UNCHANGED <<extract, ingest>>
  /\ UNCHANGED <<uploads, files, issued>>

\* The extraction of a version is stored; the last one missing moves the cycle
\* the message names, if it still waits.  Here too the worker may die between
\* the two.
Extract(m) ==
  /\ m \in extract
  /\ m.key \in DOMAIN files
  /\ versions' = Marked(m.key, "extracted")
  /\ \/ /\ IF AllDocumentsExtracted(docs, versions') /\ Expect(subs, m.sub, "EXTRACTING")
           THEN /\ subs' = Moved(subs, m.sub, "IN_UNDERWRITING")
                /\ engagement' = Follow(engagement, subs, m.sub, "IN_UNDERWRITING")
           ELSE UNCHANGED <<subs, engagement>>
        /\ extract' \in Taken(extract, m)
     \/ UNCHANGED <<subs, engagement, extract>>
  /\ UNCHANGED <<docs, uploads, files, ingest, issued>>

-----------------------------------------------------------------------------
\* create_engagement: one review cycle, in DRAFT, and nothing else.
Init ==
  /\ \E s \in Subs :
       /\ subs = [x \in {s} |-> NewCycle(1, <<>>, 1)]
       /\ issued = {s}
  /\ engagement = [status |-> "DRAFT", scope |-> "NONE", dues |-> NoValue]
  /\ docs = <<>> /\ versions = <<>> /\ files = <<>>
  /\ uploads = {} /\ ingest = {} /\ extract = {}

AgreementStep ==
  \/ \E d \in Docs :
       \/ \E type \in DocTypes : PresignNew(d, type) \/ SetDocumentType(d, type)
       \/ PresignReplacement(d)
       \/ DeleteDocument(d)
       \/ \E v \in Versions : DiscardVersion(d, v)
  \/ \E k \in Keys, content \in Contents : FileLands(k, content)

CycleStep ==
  \E role \in MemberRoles :
    \/ \E s \in Subs :
         \/ SubmitForProcessing(s, role)
         \/ Reupload(s, role)
         \/ SubmitToClient(s, role)
         \/ ResubmitToClient(s, role)
         \/ ClientRequestChanges(s, role)
         \/ ApproveBilling(s, role)
         \/ OpenAmendment(s, role)
         \/ DiscardAmendment(s, role)
         \/ \E signature \in Signatures :
              ClientApprove(s, role, signature) \/ ClientApproveRefused(s, role, signature)
    \/ \E d \in Docs, force \in BOOLEAN : ExtractDocument(d, role, force)

WorkerStep ==
  \/ \E m \in ingest : ParseFails(m) \/ ParsePasses(m)
  \/ \E m \in extract : Extract(m)

Next == AgreementStep \/ CycleStep \/ WorkerStep

Spec == Init /\ [][Next]_vars

-----------------------------------------------------------------------------
(* What must hold.                                                         *)

\* At most one review cycle is open at a time: the code picks "the" open cycle
\* everywhere (amendment.py, open_cycle) and counts on there being one.
OneOpenCycle == \A s, o \in Unfinished(subs) : s = o

\* The engagement row's copy of the status, which lists, the finance dashboard
\* and the fleet lock read, is the status of the cycle in force, whoever moved
\* whichever cycle (update_submission_status).
EngagementShowsCycleInForce ==
  \A s \in DOMAIN subs : IsCycleInForce(subs, s) => engagement.status = subs[s].status

SignedStatuses == {"CLIENT_APPROVED", "BILLING_SETUP", "PENDING_BILLING_AUDIT", "ACTIVE"}

\* A cycle past the customer's approval carries a signature, and the dues the
\* engagement shows come from such a cycle, which nothing has discarded
\* (client_approve, _build_billing, discard_amendment).
BilledTermsAreSigned ==
  /\ \A s \in DOMAIN subs :
       subs[s].status \in SignedStatuses => subs[s].signature # NoValue
  /\ engagement.dues # NoValue =>
       /\ engagement.dues \in DOMAIN subs
       /\ subs[engagement.dues].status \in SignedStatuses

\* Of the agreements known to be of one type exactly one is in force, and none
\* of the others took effect later, in whatever order they were uploaded,
\* read, relabelled and removed (rank_standing, reconcile_engagement).
LatestEditionInForce ==
  \A t \in AgreementTypes :
    LET editions == {d \in DOMAIN docs : docs[d].type = t}
        inForce  == editions \cap InForce(docs)
    IN  editions # {} =>
          /\ Cardinality(inForce) = 1
          /\ \A d \in inForce, e \in editions : docs[e].effective <= docs[d].effective

\* While an identified agreement is in force, the engagement covers what the
\* agreements in force cover, and the slots of a first cycle still under way
\* name them: every handler that shifts them reconciles.
ScopeAndSlotsFollowAgreements ==
  TypedInForce(docs) # {} =>
    /\ engagement.scope = ScopeOf(docs)
    /\ \A s \in Unfinished(subs) : subs[s].cycle = 1 => subs[s].slots = SlotsOf(docs)

\* A cycle that went live is never removed and never moves again, whatever
\* message arrives late or twice and whoever opens or discards an amendment.
LiveCyclesStayLive == [][Live(subs) \subseteq Live(subs')]_vars

SealedStatuses ==
  {"PENDING_CLIENT_APPROVAL", "CLIENT_APPROVED", "BILLING_SETUP", "PENDING_BILLING_AUDIT"}

\* While the terms are with the customer or finance no agreement is added or
\* removed and no further version of one is opened (api/documents.py, the two
\* status sets), though files already under way may still land.
NothingArrivesUnderReview ==
  [][(\E s \in DOMAIN subs : subs[s].status \in SealedStatuses) =>
       DOMAIN docs' = DOMAIN docs /\ DOMAIN versions' \subseteq DOMAIN versions]_vars

\* A cycle leaves EXTRACTING only when the current version of every agreement
\* in force has been read: messages for older versions, removed agreements or
\* another cycle do not count (pipeline/extract.py).
UnderwritingSeesEveryAgreement ==
  [][\A s \in DOMAIN subs \cap DOMAIN subs' :
       subs[s].status = "EXTRACTING" /\ subs'[s].status # "EXTRACTING" =>
         /\ \E d \in DOMAIN docs : docs[d].standing = "CURRENT"
         /\ \A d \in DOMAIN docs : docs[d].standing = "CURRENT" =>
              /\ <<d, docs[d].current>> \in DOMAIN versions'
              /\ versions'[<<d, docs[d].current>>] = "extracted"]_vars

\* The engagement as its users see it.
OpenStatusOf(S) ==
  IF Unfinished(S) = {} THEN "NONE" ELSE S[CHOOSE s \in Unfinished(S) : TRUE].status

Lifecycle == INSTANCE EngagementLifecycle WITH
  open <- OpenStatusOf(subs), live <- Live(subs) # {}, shown <- engagement.status

\* All of the above keeps the promise stated in EngagementLifecycle.
ImplementsLifecycle == Lifecycle!Spec

-----------------------------------------------------------------------------
(* What the code's comments say and its handlers do not keep.              *)

\* "The completed cycle is left exactly as it is.  It keeps its signature"
\* (open_amendment): client_approve writes the row before it is refused.
LiveCyclesKeepTheirSignature ==
  [][\A s \in Live(subs) \cap DOMAIN subs' : subs'[s].signature = subs[s].signature]_vars

\* "Nothing of this document ever landed, so nothing of it should remain"
\* (discard_version): when the unread version 1 of an agreement may be
\* discarded, and the agreement with it, no later version has been read.
FirstVersionUnreadMeansNothingRead ==
  \A d \in DOMAIN docs :
    <<d, 1>> \in DOMAIN versions /\ versions[<<d, 1>>] = "uploaded" =>
      \A v \in Versions : <<d, v>> \in DOMAIN versions => versions[<<d, v>>] = "uploaded"
=============================================================================
