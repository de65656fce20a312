--------------------- MODULE EngagementWorkflowProofs ---------------------
(***************************************************************************)
(* Theorems about EngagementWorkflow, for any number of cycles,            *)
(* agreements, versions, messages and texts.                               *)
(*                                                                         *)
(* The first part is about cycles: each action does one of six things to   *)
(* them, and each result is proved once per thing.  Then comes the         *)
(* refinement of EngagementLifecycle, step by step.  The last part is      *)
(* about agreements: which edition is in force, the scope and slots that   *)
(* follow from it, and what underwriting gets to see.                      *)
(***************************************************************************)
EXTENDS EngagementWorkflow, FiniteSetTheorems, FirstAndLast, TLAPS

-----------------------------------------------------------------------------
(* The transition table, and the types of the operators.                   *)

SubsTable(S) == S \in [DOMAIN S -> Submission] /\ DOMAIN S \subseteq Subs
DocsTable(D) == D \in [DOMAIN D -> Document] /\ DOMAIN D \subseteq Docs

\* Every row of the table leaves a status that is not ACTIVE; past the
\* customer's approval it stays there, and only client_approve leads there.
LEMMA TableFacts ==
  ASSUME NEW t \in Transitions
  PROVE  /\ t.source \in Statuses \ {"ACTIVE"}
         /\ t.target \in Statuses
         /\ t.source \in SignedStatuses => t.target \in SignedStatuses
         /\ t.target \in SignedStatuses =>
              t.source \in SignedStatuses \/ t.action = "client_approve"
         /\ t.target = "ACTIVE" => t.source = "PENDING_BILLING_AUDIT"
  BY DEF Transitions, Row, Statuses, SignedStatuses

\* Numbers are positive integers, however many ids there are.
LEMMA NumbersAreNat == Numbers \subseteq Nat
  <1>1. Cardinality(Subs) \in Nat /\ Cardinality(Docs) \in Nat
    BY IdAssumption, FS_CardinalityType
  <1> QED BY <1>1 DEF Numbers

LEMMA PutSubs ==
  ASSUME NEW S, SubsTable(S), NEW s \in Subs, NEW row \in Submission
  PROVE  SubsTable(Put(S, s, row))
  BY DEF SubsTable, Put

LEMMA PutDocs ==
  ASSUME NEW D, DocsTable(D), NEW d \in Docs, NEW row \in Document
  PROVE  DocsTable(Put(D, d, row))
  BY DEF DocsTable, Put

LEMMA DeleteDocs ==
  ASSUME NEW D, DocsTable(D), NEW ids
  PROVE  DocsTable(Delete(D, ids)) /\ DOMAIN Delete(D, ids) = DOMAIN D \ ids
  BY DEF DocsTable, Delete, Restrict

LEMMA DeleteSubs ==
  ASSUME NEW S, SubsTable(S), NEW ids
  PROVE  /\ SubsTable(Delete(S, ids))
         /\ DOMAIN Delete(S, ids) = DOMAIN S \ ids
         /\ \A s \in DOMAIN S \ ids : Delete(S, ids)[s] = S[s]
  BY DEF SubsTable, Delete, Restrict

\* Ranking touches nothing but the standing.
LEMMA RankedTable ==
  ASSUME NEW D, DocsTable(D)
  PROVE  /\ DocsTable(Ranked(D))
         /\ DOMAIN Ranked(D) = DOMAIN D
         /\ \A d \in DOMAIN D : Ranked(D)[d].current = D[d].current
  <1>1. \A d \in DOMAIN D : StandingOf(D, d) \in Standings
    BY DEF StandingOf, Standings
  <1>2. \A d \in DOMAIN D : [D[d] EXCEPT !.standing = StandingOf(D, d)] \in Document
    BY <1>1 DEF DocsTable, Document
  <1> QED BY <1>2 DEF DocsTable, Ranked, Document

\* The slots name agreements, each under its own type.
LEMMA SlotsType ==
  ASSUME NEW D, DocsTable(D)
  PROVE  SlotsOf(D) \in SlotMaps(Docs)
  <1> DEFINE T == {D[d].type : d \in TypedInForce(D)}
  <1>1. T \in SUBSET AgreementTypes
    BY DEF DocsTable, Document, TypedInForce, InForce, DocTypes
  <1>2. \A t \in T : (CHOOSE d \in TypedInForce(D) : D[d].type = t) \in Docs
    BY DEF DocsTable, TypedInForce, InForce
  <1>3. SlotsOf(D) \in [T -> Docs]
    BY <1>2 DEF SlotsOf
  <1> QED BY <1>1, <1>3 DEF SlotMaps

\* S and R hold the same cycles, but for their slots.
SameCycles(S, R) ==
  /\ DOMAIN R = DOMAIN S
  /\ \A s \in DOMAIN S :
       /\ R[s].status = S[s].status
       /\ R[s].cycle = S[s].cycle
       /\ R[s].created = S[s].created
       /\ R[s].signature = S[s].signature

LEMMA ReconciledSlotsTable ==
  ASSUME NEW D, DocsTable(D), NEW S, SubsTable(S)
  PROVE  SubsTable(ReconciledSlots(D, S)) /\ SameCycles(S, ReconciledSlots(D, S))
  <1> DEFINE slots == SlotsOf(Ranked(D))
  <1>1. slots \in SlotMaps(Docs)
    BY RankedTable, SlotsType
  <1> HIDE DEF slots
  <1>2. \A s \in DOMAIN S : [S[s] EXCEPT !.slots = slots] \in Submission
    BY <1>1 DEF SubsTable, Submission
  <1>3. CASE DOMAIN D = {}
    BY <1>3 DEF ReconciledSlots, SameCycles
  <1>4. CASE DOMAIN D # {}
    <2>1. ReconciledSlots(D, S) =
            [s \in DOMAIN S |->
               IF IsOpenCycle(S, s) THEN [S[s] EXCEPT !.slots = slots] ELSE S[s]]
      BY <1>4 DEF ReconciledSlots, slots
    <2>2. SubsTable(ReconciledSlots(D, S))
      BY <2>1, <1>2 DEF SubsTable
    <2>3. SameCycles(S, ReconciledSlots(D, S))
      BY <2>1 DEF SameCycles, SubsTable, Submission
    <2> QED BY <2>2, <2>3
  <1> QED BY <1>3, <1>4

LEMMA ReconciledScopeType ==
  ASSUME NEW D, NEW E \in Engagement
  PROVE  /\ ReconciledScope(D, E) \in Engagement
         /\ ReconciledScope(D, E).status = E.status
         /\ ReconciledScope(D, E).dues = E.dues
  <1>1. ScopeOf(Ranked(D)) \in Scopes
    BY DEF ScopeOf, DeriveScope, Scopes
  <1> HIDE DEF ScopeOf
  <1> QED BY <1>1 DEF ReconciledScope, Engagement

LEMMA MovedTable ==
  ASSUME NEW S, SubsTable(S), NEW s \in DOMAIN S, NEW status \in Statuses
  PROVE  SubsTable(Moved(S, s, status))
  BY DEF SubsTable, Moved, Submission

LEMMA SignedTable ==
  ASSUME NEW S, SubsTable(S), NEW s \in DOMAIN S, NEW signature \in Signatures
  PROVE  SubsTable(Signed(S, s, signature))
  BY DEF SubsTable, Signed, Submission

LEMMA FollowType ==
  ASSUME NEW E \in Engagement, NEW S, NEW s, NEW status \in Statuses
  PROVE  Follow(E, S, s, status) \in Engagement
  BY DEF Follow, Engagement

-----------------------------------------------------------------------------
(* Type correctness, one lemma for each group of actions.                  *)

ReconcileTypes == DocsTable(docs') /\ SubsTable(subs') /\ engagement' \in Engagement

VersionsTable(V) == V \in [DOMAIN V -> VersionStatuses] /\ DOMAIN V \subseteq Keys
FilesTable(F) == F \in [DOMAIN F -> Contents] /\ DOMAIN F \subseteq Keys

LEMMA PutVersion ==
  ASSUME NEW V, VersionsTable(V), NEW k \in Keys, NEW status \in VersionStatuses
  PROVE  VersionsTable(Put(V, k, status))
  BY DEF VersionsTable, Put

LEMMA DeleteVersions ==
  ASSUME NEW V, VersionsTable(V), NEW ids
  PROVE  VersionsTable(Delete(V, ids))
  BY DEF VersionsTable, Delete, Restrict

LEMMA DeleteFiles ==
  ASSUME NEW F, FilesTable(F), NEW ids
  PROVE  FilesTable(Delete(F, ids))
  BY DEF FilesTable, Delete, Restrict

LEMMA PutFile ==
  ASSUME NEW F, FilesTable(F), NEW k \in Keys, NEW content \in Contents
  PROVE  FilesTable(Put(F, k, content))
  BY DEF FilesTable, Put

\* The type invariant in the words of the lemmas above.
LEMMA TypeOKTables ==
  TypeOK <=>
    /\ SubsTable(subs) /\ engagement \in Engagement /\ DocsTable(docs)
    /\ VersionsTable(versions) /\ FilesTable(files)
    /\ uploads \subseteq Keys
    /\ ingest \subseteq Message /\ extract \subseteq Message
    /\ issued \subseteq Subs \cup Docs
  BY DEF TypeOK, SubsTable, DocsTable, VersionsTable, FilesTable

LEMMA TypeOKTablesNext ==
  TypeOK' <=>
    /\ SubsTable(subs') /\ engagement' \in Engagement /\ DocsTable(docs')
    /\ VersionsTable(versions') /\ FilesTable(files')
    /\ uploads' \subseteq Keys
    /\ ingest' \subseteq Message /\ extract' \subseteq Message
    /\ issued' \subseteq Subs \cup Docs
  BY DEF TypeOK, SubsTable, DocsTable, VersionsTable, FilesTable

-----------------------------------------------------------------------------
(* What a step does to the review cycles.  Every action of Next is of one  *)
(* of six kinds, and the invariants on cycles are proved kind by kind.     *)

\* No cycle moves; slots may.
Quiet ==
  /\ SameCycles(subs, subs')
  /\ engagement'.status = engagement.status
  /\ engagement'.dues = engagement.dues

\* One cycle takes one row of the transition table.
Takes(s, t) ==
  /\ s \in DOMAIN subs
  /\ t \in Transitions /\ t.action # "client_approve"
  /\ subs[s].status = t.source
  /\ SameCycles(Moved(subs, s, t.target), subs')
  /\ engagement'.status = Follow(engagement, subs, s, t.target).status
  /\ engagement'.dues = engagement.dues

\* The customer signs, and the machine goes as far as it gets.
SignsOff(s, status, signature) ==
  /\ s \in DOMAIN subs
  /\ subs[s].status = "PENDING_CLIENT_APPROVAL"
  /\ status \in SignedStatuses \ {"ACTIVE"}
  /\ signature \in Signatures
  /\ SameCycles(Moved(Signed(subs, s, signature), s, status), subs')
  /\ engagement'.status = Follow(engagement, subs, s, status).status
  /\ engagement'.dues \in {engagement.dues, s}

\* A refused request leaves its signature behind.
OverwritesSignature(s, signature) ==
  /\ s \in DOMAIN subs
  /\ signature \in Signatures
  /\ SameCycles(Signed(subs, s, signature), subs')
  /\ UNCHANGED engagement

OpensCycle(s) ==
  /\ s \notin DOMAIN subs
  /\ Unfinished(subs) = {} /\ Live(subs) # {}
  /\ \E number, slots, n : subs' = Put(subs, s, NewCycle(number, slots, n))
  /\ issued' = issued \cup {s}
  /\ UNCHANGED engagement

DropsCycle(s) ==
  /\ s \in DOMAIN subs
  /\ subs[s].cycle > 1 /\ subs[s].status = "DRAFT"
  /\ subs' = Delete(subs, {s})
  /\ UNCHANGED engagement

CycleKind ==
  \/ Quiet
  \/ \E s, t : Takes(s, t)
  \/ \E s, status, signature : SignsOff(s, status, signature)
  \/ \E s, signature : OverwritesSignature(s, signature)
  \/ \E s : OpensCycle(s)
  \/ \E s : DropsCycle(s)

LEMMA SameAsItself == ASSUME NEW S PROVE SameCycles(S, S)
  BY DEF SameCycles

LEMMA ReconcileStep ==
  ASSUME TypeOK, NEW D, DocsTable(D), Reconcile(D)
  PROVE  ReconcileTypes /\ Quiet
  <1>1. SubsTable(subs) /\ engagement \in Engagement
    BY TypeOKTables
  <1>2. SubsTable(subs') /\ SameCycles(subs, subs')
    BY <1>1, ReconciledSlotsTable DEF Reconcile
  <1>3. /\ engagement' \in Engagement
        /\ engagement'.status = engagement.status /\ engagement'.dues = engagement.dues
    BY <1>1, ReconciledScopeType DEF Reconcile
  <1>4. DocsTable(docs')
    BY RankedTable DEF Reconcile
  <1> QED BY <1>2, <1>3, <1>4 DEF ReconcileTypes, Quiet

LEMMA WriteOnlyStep ==
  ASSUME TypeOK, NEW D, DocsTable(D), WriteOnly(D)
  PROVE  ReconcileTypes /\ Quiet
  BY TypeOKTables, SameAsItself DEF WriteOnly, ReconcileTypes, Quiet

-----------------------------------------------------------------------------
(* Agreements: their actions keep the types and leave the cycles alone.    *)

LEMMA PresignNewStep ==
  ASSUME TypeOK, NEW d \in Docs, NEW type \in DocTypes, PresignNew(d, type)
  PROVE  TypeOK' /\ Quiet
  <1>1. PICK s \in DOMAIN subs, n \in Numbers :
          LET D == Put(docs, d, NewDocument(type, subs[s].cycle, n))
          IN  IF type = "UNKNOWN" THEN WriteOnly(D) ELSE Reconcile(D)
    BY DEF PresignNew
  <1> DEFINE row == NewDocument(type, subs[s].cycle, n)
  <1>2. row \in Document
    <2>1. n \in Nat /\ subs[s].cycle \in Nat
      BY NumbersAreNat, TypeOKTables DEF SubsTable, Submission
    <2>2. 1 \in Versions
      BY BoundAssumption DEF Versions
    <2> QED BY <2>1, <2>2 DEF NewDocument, Document, Standings
  <1> HIDE DEF row
  <1>3. DocsTable(Put(docs, d, row))
    BY <1>2, TypeOKTables, PutDocs
  <1>4. ReconcileTypes /\ Quiet
    BY <1>1, <1>3, ReconcileStep, WriteOnlyStep DEF row
  <1>5. <<d, 1>> \in Keys
    BY BoundAssumption DEF Keys, Versions
  <1>6. VersionsTable(versions')
    BY <1>5, TypeOKTables, PutVersion DEF PresignNew, VersionStatuses
  <1>7. uploads' \subseteq Keys /\ issued' \subseteq Subs \cup Docs
    BY <1>5, TypeOKTables DEF PresignNew
  <1> QED BY <1>4, <1>6, <1>7, TypeOKTables, TypeOKTablesNext DEF PresignNew, ReconcileTypes

LEMMA PresignReplacementStep ==
  ASSUME TypeOK, NEW d \in Docs, PresignReplacement(d)
  PROVE  TypeOK' /\ Quiet
  <1>1. /\ d \in DOMAIN docs /\ docs[d].current \in Versions
        /\ docs[d].current + 1 \in Versions
    BY TypeOKTables, BoundAssumption
       DEF PresignReplacement, DocsTable, Document, Versions
  <1> DEFINE k == <<d, docs[d].current + 1>>
  <1>2. k \in Keys
    BY <1>1 DEF Keys
  <1> HIDE DEF k
  <1>3. DocsTable(docs')
    BY <1>1, TypeOKTables DEF PresignReplacement, DocsTable, Document
  <1>4. VersionsTable(versions') /\ uploads' \subseteq Keys
    BY <1>2, TypeOKTables, PutVersion DEF PresignReplacement, VersionStatuses, k
  <1>5. Quiet
    BY SameAsItself DEF PresignReplacement, Quiet
  <1> QED BY <1>3, <1>4, <1>5, TypeOKTables, TypeOKTablesNext DEF PresignReplacement

LEMMA FileLandsStep ==
  ASSUME TypeOK, NEW k \in Keys, NEW content \in Contents, FileLands(k, content)
  PROVE  TypeOK' /\ Quiet
  <1>1. FilesTable(files') /\ uploads' \subseteq Keys
    BY TypeOKTables, PutFile DEF FileLands
  <1>2. Quiet
    BY SameAsItself DEF FileLands, Quiet
  <1> QED BY <1>1, <1>2, TypeOKTables, TypeOKTablesNext DEF FileLands

LEMMA SetDocumentTypeStep ==
  ASSUME TypeOK, NEW d \in Docs, NEW type \in DocTypes, SetDocumentType(d, type)
  PROVE  TypeOK' /\ Quiet
  <1> DEFINE D == [docs EXCEPT ![d].type = type, ![d].overridden = TRUE]
  <1>1. DocsTable(D)
    BY TypeOKTables DEF SetDocumentType, DocsTable, Document
  <1>2. Reconcile(D)
    BY DEF SetDocumentType
  <1> HIDE DEF D
  <1>3. ReconcileTypes /\ Quiet
    BY <1>1, <1>2, ReconcileStep
  <1> QED BY <1>3, TypeOKTables, TypeOKTablesNext DEF SetDocumentType, ReconcileTypes

LEMMA RemoveAgreementStep ==
  ASSUME TypeOK, NEW d \in Docs, RemoveAgreement(d)
  PROVE  TypeOK' /\ Quiet
  <1>1. DocsTable(Delete(docs, {d}))
    BY TypeOKTables, DeleteDocs
  <1>2. ReconcileTypes /\ Quiet
    BY <1>1, ReconcileStep DEF RemoveAgreement
  <1>3. VersionsTable(versions') /\ FilesTable(files')
    BY TypeOKTables, DeleteVersions, DeleteFiles DEF RemoveAgreement
  <1> QED BY <1>2, <1>3, TypeOKTables, TypeOKTablesNext DEF RemoveAgreement, ReconcileTypes

LEMMA DiscardVersionStep ==
  ASSUME TypeOK, NEW d \in Docs, NEW v \in Versions, DiscardVersion(d, v)
  PROVE  TypeOK' /\ Quiet
  <1>1. CASE v = 1
    BY <1>1, RemoveAgreementStep DEF DiscardVersion
  <1>2. CASE v # 1
    <2>1. v - 1 \in Versions
      BY <1>2, BoundAssumption DEF Versions
    <2>2. DocsTable(docs')
      BY <1>2, <2>1, TypeOKTables DEF DiscardVersion, DocsTable, Document
    <2>3. VersionsTable(versions') /\ FilesTable(files')
      BY <1>2, TypeOKTables, DeleteVersions, DeleteFiles DEF DiscardVersion
    <2>4. Quiet
      BY <1>2, SameAsItself DEF DiscardVersion, Quiet
    <2> QED BY <1>2, <2>2, <2>3, <2>4, TypeOKTables, TypeOKTablesNext DEF DiscardVersion
  <1> QED BY <1>1, <1>2

LEMMA AgreementStepKind ==
  ASSUME TypeOK, AgreementStep
  PROVE  TypeOK' /\ Quiet
  BY PresignNewStep, PresignReplacementStep, FileLandsStep, SetDocumentTypeStep,
     RemoveAgreementStep, DiscardVersionStep
     DEF AgreementStep, DeleteDocument

-----------------------------------------------------------------------------
(* Requests on a cycle.                                                    *)

LEMMA WorkItemsType ==
  ASSUME TypeOK, NEW s \in Subs, NEW ds, ds \subseteq DOMAIN docs
  PROVE  WorkItems(s, ds) \subseteq Message
  <1>1. \A d \in ds : docs[d].type \in DocTypes
    BY DEF TypeOK, Document
  <1>2. \A d \in ds : CurrentKey(docs, d) \in DOMAIN versions => CurrentKey(docs, d) \in Keys
    BY DEF TypeOK
  <1> HIDE DEF CurrentKey
  <1> QED BY <1>1, <1>2 DEF WorkItems, Message

LEMMA SentType ==
  ASSUME NEW queue, queue \subseteq Message, NEW messages, messages \subseteq Message,
         NEW q \in Sent(queue, messages)
  PROVE  q \subseteq Message
  BY DEF Sent

\* A transition a person or the machine applies, other than the approval.
LEMMA ApplyStep ==
  ASSUME TypeOK, NEW s, NEW action, NEW role,
         Apply(s, action, role), action # "client_approve"
  PROVE  /\ s \in Subs
         /\ SubsTable(subs') /\ engagement' \in Engagement
         /\ \E t : Takes(s, t)
  <1>1. PICK t \in Allowed(subs[s].status, action, role) :
          /\ subs' = Moved(subs, s, t.target)
          /\ engagement' = Follow(engagement, subs, s, t.target)
    BY DEF Apply
  <1>2. /\ t \in Transitions /\ t.source = subs[s].status /\ t.action = action
        /\ t.target \in Statuses
    BY TableFacts DEF Allowed
  <1>3. s \in DOMAIN subs /\ SubsTable(subs) /\ s \in Subs
    BY TypeOKTables DEF Apply, SubsTable
  <1>4. SubsTable(subs') /\ engagement' \in Engagement
    BY <1>1, <1>2, <1>3, MovedTable, FollowType, TypeOKTables
  <1>5. engagement'.dues = engagement.dues
    BY <1>1, TypeOKTables DEF Follow, Engagement
  <1>6. Takes(s, t)
    BY <1>1, <1>2, <1>3, <1>5, SameAsItself DEF Takes
  <1> QED BY <1>3, <1>4, <1>6

LEMMA PendingDocs == ASSUME NEW D, NEW V PROVE Pending(D, V) \subseteq DOMAIN D
  BY DEF Pending, InForce

LEMMA SubmitForProcessingStep ==
  ASSUME TypeOK, NEW s, NEW role, SubmitForProcessing(s, role)
  PROVE  TypeOK' /\ CycleKind
  <1>1. /\ s \in Subs /\ SubsTable(subs') /\ engagement' \in Engagement
        /\ \E t : Takes(s, t)
    BY ApplyStep DEF SubmitForProcessing
  <1>2. ingest' \subseteq Message
    BY <1>1, WorkItemsType, SentType, PendingDocs, TypeOKTables DEF SubmitForProcessing
  <1> QED BY <1>1, <1>2, TypeOKTables, TypeOKTablesNext
          DEF SubmitForProcessing, AgreementsUnchanged, CycleKind

LEMMA ReuploadStep ==
  ASSUME TypeOK, NEW s, NEW role, Reupload(s, role)
  PROVE  TypeOK' /\ CycleKind
  <1>1. /\ s \in Subs /\ SubsTable(subs') /\ engagement' \in Engagement
        /\ \E t : Takes(s, t)
    BY ApplyStep DEF Reupload
  <1>2. ingest' \subseteq Message
    BY <1>1, WorkItemsType, SentType, PendingDocs, TypeOKTables DEF Reupload
  <1> QED BY <1>1, <1>2, TypeOKTables, TypeOKTablesNext
          DEF Reupload, AgreementsUnchanged, CycleKind

LEMMA MoveOnlyStep ==
  ASSUME TypeOK, NEW s, NEW role, NEW action, action # "client_approve",
         MoveOnly(s, action, role)
  PROVE  TypeOK' /\ CycleKind
  <1>1. /\ s \in Subs /\ SubsTable(subs') /\ engagement' \in Engagement
        /\ \E t : Takes(s, t)
    BY ApplyStep DEF MoveOnly
  <1> QED BY <1>1, TypeOKTables, TypeOKTablesNext
          DEF MoveOnly, AgreementsUnchanged, CycleKind

LEMMA ExtractDocumentStep ==
  ASSUME TypeOK, NEW d, NEW role, NEW force, ExtractDocument(d, role, force)
  PROVE  TypeOK' /\ CycleKind
  <1>1. PICK s \in DOMAIN subs :
          /\ \/ Apply(s, "submit_for_processing", role)
             \/ Apply(s, "reupload", role)
             \/ UNCHANGED <<subs, engagement>>
          /\ ingest' \in Sent(ingest, WorkItems(s, {d}))
    BY DEF ExtractDocument
  <1>2. s \in Subs /\ d \in DOMAIN docs
    BY TypeOKTables DEF SubsTable, ExtractDocument
  <1>3. ingest' \subseteq Message
    BY <1>1, <1>2, WorkItemsType, SentType, TypeOKTables
  <1>4. SubsTable(subs') /\ engagement' \in Engagement /\ CycleKind
    <2>1. CASE Apply(s, "submit_for_processing", role)
      BY <2>1, ApplyStep DEF CycleKind
    <2>2. CASE Apply(s, "reupload", role)
      BY <2>2, ApplyStep DEF CycleKind
    <2>3. CASE UNCHANGED <<subs, engagement>>
      BY <2>3, TypeOKTables, SameAsItself DEF CycleKind, Quiet
    <2> QED BY <1>1, <2>1, <2>2, <2>3
  <1> QED BY <1>3, <1>4, TypeOKTables, TypeOKTablesNext
          DEF ExtractDocument, AgreementsUnchanged

LEMMA ClientApproveStep ==
  ASSUME TypeOK, NEW s, NEW role, NEW signature \in Signatures,
         ClientApprove(s, role, signature)
  PROVE  TypeOK' /\ CycleKind
  <1>1. PICK status \in {"CLIENT_APPROVED", "BILLING_SETUP", "PENDING_BILLING_AUDIT"},
             dues \in {engagement.dues, s} :
          /\ subs' = Moved(Signed(subs, s, signature), s, status)
          /\ engagement' = [Follow(engagement, subs, s, status) EXCEPT !.dues = dues]
    BY DEF ClientApprove
  <1>2. s \in DOMAIN subs /\ s \in Subs /\ SubsTable(subs) /\ engagement \in Engagement
    BY TypeOKTables DEF ClientApprove, SubsTable
  <1>3. status \in Statuses /\ status \in SignedStatuses \ {"ACTIVE"}
    BY DEF Statuses, SignedStatuses
  <1>4. subs[s].status = "PENDING_CLIENT_APPROVAL"
    BY DEF ClientApprove, Allowed, Transitions, Row
  <1>5. SubsTable(Signed(subs, s, signature))
    BY <1>2, SignedTable
  <1>6. SubsTable(subs')
    <2>1. s \in DOMAIN Signed(subs, s, signature)
      BY <1>2 DEF Signed
    <2> QED BY <1>1, <1>3, <1>5, <2>1, MovedTable
  <1>7. /\ engagement' \in Engagement
        /\ engagement'.status = Follow(engagement, subs, s, status).status
        /\ engagement'.dues = dues
    <2>1. Follow(engagement, subs, s, status) \in Engagement
      BY <1>2, <1>3, FollowType
    <2>2. dues \in Subs \cup {NoValue}
      BY <1>2 DEF Engagement
    <2> QED BY <1>1, <2>1, <2>2 DEF Engagement
  <1>8. SignsOff(s, status, signature)
    BY <1>1, <1>2, <1>3, <1>4, <1>7, SameAsItself DEF SignsOff
  <1> QED BY <1>6, <1>7, <1>8, TypeOKTables, TypeOKTablesNext
          DEF ClientApprove, AgreementsUnchanged, CycleKind

LEMMA ClientApproveRefusedStep ==
  ASSUME TypeOK, NEW s, NEW role, NEW signature \in Signatures,
         ClientApproveRefused(s, role, signature)
  PROVE  TypeOK' /\ CycleKind
  <1>1. SubsTable(subs')
    BY TypeOKTables, SignedTable DEF ClientApproveRefused
  <1>2. OverwritesSignature(s, signature)
    BY SameAsItself DEF ClientApproveRefused, OverwritesSignature
  <1> QED BY <1>1, <1>2, TypeOKTables, TypeOKTablesNext
          DEF ClientApproveRefused, AgreementsUnchanged, CycleKind

\* An open cycle that has gone live is the latest of all, and none is unfinished.
LEMMA OpenAndLive ==
  ASSUME NEW S, NEW c, c \in DOMAIN S, IsOpenCycle(S, c), S[c].status = "ACTIVE"
  PROVE  Unfinished(S) = {} /\ Live(S) # {}
  BY DEF IsOpenCycle, IsLatest, Unfinished, Live

LEMMA OpenAmendmentStep ==
  ASSUME TypeOK, NEW s \in Subs, NEW role, OpenAmendment(s, role), DOMAIN subs \subseteq issued
  PROVE  TypeOK' /\ CycleKind
  <1>1. PICK c \in DOMAIN subs, number \in Numbers, n \in Numbers :
          /\ IsOpenCycle(subs, c)
          /\ subs[c].status = "ACTIVE"
          /\ subs' = Put(subs, s, NewCycle(number, subs[c].slots, n))
    BY DEF OpenAmendment, CanOpenAmendment
  <1>2. number \in Nat /\ n \in Nat
    BY NumbersAreNat
  <1>3. subs[c].slots \in SlotMaps(Docs)
    BY TypeOKTables DEF SubsTable, Submission
  <1>4. NewCycle(number, subs[c].slots, n) \in Submission
    BY <1>2, <1>3 DEF NewCycle, Submission, Statuses
  <1>5. SubsTable(subs')
    BY <1>1, <1>4, TypeOKTables, PutSubs
  <1>6. Unfinished(subs) = {} /\ Live(subs) # {}
    BY <1>1, OpenAndLive
  <1>7. s \notin DOMAIN subs
    BY DEF OpenAmendment
  <1>8. OpensCycle(s)
    BY <1>1, <1>2, <1>6, <1>7 DEF OpensCycle, OpenAmendment
  <1>9. issued' \subseteq Subs \cup Docs
    BY TypeOKTables DEF OpenAmendment
  <1> QED BY <1>5, <1>8, <1>9, TypeOKTables, TypeOKTablesNext
          DEF OpenAmendment, AgreementsUnchanged, CycleKind

LEMMA DiscardAmendmentStep ==
  ASSUME TypeOK, NEW s, NEW role, DiscardAmendment(s, role)
  PROVE  TypeOK' /\ CycleKind
  <1>1. SubsTable(subs')
    BY TypeOKTables, DeleteSubs DEF DiscardAmendment
  <1>2. DropsCycle(s)
    BY DEF DiscardAmendment, DropsCycle
  <1> QED BY <1>1, <1>2, TypeOKTables, TypeOKTablesNext
          DEF DiscardAmendment, AgreementsUnchanged, CycleKind

LEMMA CycleStepKind ==
  ASSUME TypeOK, DOMAIN subs \subseteq issued, CycleStep
  PROVE  TypeOK' /\ CycleKind
  BY SubmitForProcessingStep, ReuploadStep, MoveOnlyStep, ExtractDocumentStep,
     ClientApproveStep, ClientApproveRefusedStep, OpenAmendmentStep, DiscardAmendmentStep
     DEF CycleStep, SubmitToClient, ResubmitToClient, ClientRequestChanges, ApproveBilling

-----------------------------------------------------------------------------
(* The workers.                                                            *)

\* Identifying an agreement and reconciling keeps the types and the cycles.
LEMMA ClassifiedType ==
  ASSUME TypeOK, NEW m \in Message, m.key \in DOMAIN files
  PROVE  LET c == Classified(m)
         IN  /\ DocsTable(c.docs) /\ SubsTable(c.subs) /\ c.engagement \in Engagement
             /\ SameCycles(subs, c.subs)
             /\ c.engagement.status = engagement.status
             /\ c.engagement.dues = engagement.dues
             /\ DOMAIN c.docs = DOMAIN docs
             /\ \A d \in DOMAIN docs : c.docs[d].current = docs[d].current
  <1> DEFINE d == m.key[1]
             D == [docs EXCEPT ![d] = Identified(@, files[m.key])]
  <1>1. SubsTable(subs) /\ DocsTable(docs) /\ engagement \in Engagement
    BY TypeOKTables
  <1>2. CASE d \in DOMAIN docs /\ ~docs[d].overridden
    <2>1. Identified(docs[d], files[m.key]) \in Document
      <3>1. docs[d] \in Document /\ files[m.key] \in Contents
        BY <1>1, <1>2, TypeOKTables DEF DocsTable, FilesTable
      <3>2. files[m.key].reads \in DocTypes /\ files[m.key].effective \in Nat
        BY <3>1, ContentAssumption
      <3> QED BY <3>1, <3>2 DEF Identified, Document
    <2>2. /\ DocsTable(D) /\ DOMAIN D = DOMAIN docs
          /\ \A e \in DOMAIN docs : D[e].current = docs[e].current
      <3>1. Identified(docs[d], files[m.key]).current = docs[d].current
        BY <1>1, <1>2 DEF Identified, DocsTable, Document
      <3> QED BY <1>1, <1>2, <2>1, <3>1 DEF DocsTable
    <2>3. Classified(m) =
            [docs |-> Ranked(D), subs |-> ReconciledSlots(D, subs),
             engagement |-> ReconciledScope(D, engagement)]
      BY <1>2 DEF Classified
    <2> HIDE DEF D
    <2> QED BY <1>1, <2>2, <2>3, RankedTable, ReconciledSlotsTable, ReconciledScopeType
  <1>3. CASE ~(d \in DOMAIN docs /\ ~docs[d].overridden)
    <2>1. Classified(m) = [docs |-> docs, subs |-> subs, engagement |-> engagement]
      BY <1>3 DEF Classified
    <2> QED BY <1>1, <2>1, SameAsItself
  <1> QED BY <1>2, <1>3

LEMMA TakenType == ASSUME NEW queue, NEW m, NEW q \in Taken(queue, m) PROVE q \subseteq queue
  BY DEF Taken

LEMMA MarkedType ==
  ASSUME TypeOK, NEW k, NEW status \in VersionStatuses
  PROVE  VersionsTable(Marked(k, status))
  BY TypeOKTables, PutVersion DEF Marked, VersionsTable

\* A worker moves a cycle along a row of the table for the machine.
LEMMA WorkerMove ==
  ASSUME TypeOK, NEW S, SubsTable(S), SameCycles(subs, S),
         NEW E \in Engagement, E.status = engagement.status, E.dues = engagement.dues,
         NEW s \in DOMAIN subs, NEW t \in Transitions,
         t.action # "client_approve", subs[s].status = t.source,
         subs' = Moved(S, s, t.target), engagement' = Follow(E, S, s, t.target)
  PROVE  SubsTable(subs') /\ engagement' \in Engagement /\ CycleKind
  <1>1. t.target \in Statuses
    BY TableFacts
  <1>2. s \in DOMAIN S
    BY DEF SameCycles
  <1>3. SubsTable(subs') /\ engagement' \in Engagement
    BY <1>1, <1>2, MovedTable, FollowType
  <1>4. SameCycles(Moved(subs, s, t.target), subs')
    BY <1>2, TypeOKTables DEF SameCycles, Moved, SubsTable, Submission
  <1>5. Live(S) = Live(subs)
    BY DEF SameCycles, Live
  <1>6. /\ engagement'.status = Follow(engagement, subs, s, t.target).status
        /\ engagement'.dues = engagement.dues
    BY <1>5, TypeOKTables DEF Follow, Engagement
  <1>7. Takes(s, t)
    BY <1>4, <1>6 DEF Takes
  <1> QED BY <1>3, <1>7 DEF CycleKind

\* The rows of the table the workers take.
LEMMA MachineRows ==
  /\ Row("sanity_fail", "REVALIDATING", "VALIDATION_FAILED", System) \in Transitions
  /\ Row("sanity_pass", "REVALIDATING", "EXTRACTING", System) \in Transitions
  /\ Row("pipeline_done", "EXTRACTING", "IN_UNDERWRITING", System) \in Transitions
  BY DEF Transitions

LEMMA ParseFailsStep ==
  ASSUME TypeOK, NEW m \in Message, ParseFails(m)
  PROVE  TypeOK' /\ CycleKind
  <1> DEFINE c == Classified(m)
             t == Row("sanity_fail", "REVALIDATING", "VALIDATION_FAILED", System)
  <1>1. /\ DocsTable(c.docs) /\ SubsTable(c.subs) /\ c.engagement \in Engagement
        /\ SameCycles(subs, c.subs)
        /\ c.engagement.status = engagement.status
        /\ c.engagement.dues = engagement.dues
    BY ClassifiedType DEF ParseFails
  <1>2. /\ t \in Transitions /\ t.action # "client_approve"
        /\ t.source = "REVALIDATING" /\ t.target = "VALIDATION_FAILED"
    BY MachineRows DEF Row
  <1>3. /\ m.sub \in DOMAIN subs /\ subs[m.sub].status = "REVALIDATING"
        /\ docs' = c.docs
        /\ subs' = Moved(c.subs, m.sub, "VALIDATION_FAILED")
        /\ engagement' = Follow(c.engagement, c.subs, m.sub, "VALIDATION_FAILED")
        /\ ingest' \subseteq ingest
        /\ UNCHANGED <<versions, uploads, files, extract, issued>>
    BY TakenType DEF ParseFails, Expect
  <1> HIDE DEF c, t
  <1>4. SubsTable(subs') /\ engagement' \in Engagement /\ CycleKind
    BY <1>1, <1>2, <1>3, WorkerMove
  <1> QED BY <1>1, <1>3, <1>4, TypeOKTables, TypeOKTablesNext

LEMMA ParsePassesStep ==
  ASSUME TypeOK, NEW m \in Message, m \in ingest, ParsePasses(m)
  PROVE  TypeOK' /\ CycleKind
  <1> DEFINE c == Classified(m)
             t == Row("sanity_pass", "REVALIDATING", "EXTRACTING", System)
  <1>1. /\ DocsTable(c.docs) /\ SubsTable(c.subs) /\ c.engagement \in Engagement
        /\ SameCycles(subs, c.subs)
        /\ c.engagement.status = engagement.status
        /\ c.engagement.dues = engagement.dues
    BY ClassifiedType DEF ParsePasses
  <1>2. /\ t \in Transitions /\ t.action # "client_approve"
        /\ t.source = "REVALIDATING" /\ t.target = "EXTRACTING"
    BY MachineRows DEF Row
  <1>3. /\ docs' = c.docs
        /\ \/ /\ m.sub \in DOMAIN subs /\ subs[m.sub].status = "REVALIDATING"
              /\ subs' = Moved(c.subs, m.sub, "EXTRACTING")
              /\ engagement' = Follow(c.engagement, c.subs, m.sub, "EXTRACTING")
           \/ subs' = c.subs /\ engagement' = c.engagement
        /\ ingest' \subseteq ingest
        /\ versions' \in {versions, Marked(m.key, "parsed")}
        /\ extract' \subseteq extract \cup {m}
        /\ UNCHANGED <<uploads, files, issued>>
    BY TakenType DEF ParsePasses, Expect
  <1> HIDE DEF c, t
  <1>4. SubsTable(subs') /\ engagement' \in Engagement /\ CycleKind
    <2>1. CASE subs' = c.subs /\ engagement' = c.engagement
      BY <1>1, <2>1 DEF CycleKind, Quiet
    <2>2. CASE ~(subs' = c.subs /\ engagement' = c.engagement)
      BY <1>1, <1>2, <1>3, <2>2, WorkerMove
    <2> QED BY <2>1, <2>2
  <1>5. VersionsTable(versions')
    BY <1>3, MarkedType, TypeOKTables DEF VersionStatuses
  <1> QED BY <1>1, <1>3, <1>4, <1>5, TypeOKTables, TypeOKTablesNext

LEMMA ExtractStep ==
  ASSUME TypeOK, NEW m \in Message, Extract(m)
  PROVE  TypeOK' /\ CycleKind
  <1> DEFINE t == Row("pipeline_done", "EXTRACTING", "IN_UNDERWRITING", System)
  <1>1. /\ t \in Transitions /\ t.action # "client_approve"
        /\ t.source = "EXTRACTING" /\ t.target = "IN_UNDERWRITING"
    BY MachineRows DEF Row
  <1>2. VersionsTable(versions')
    BY MarkedType DEF Extract, VersionStatuses
  <1>3. /\ \/ /\ m.sub \in DOMAIN subs /\ subs[m.sub].status = "EXTRACTING"
              /\ subs' = Moved(subs, m.sub, "IN_UNDERWRITING")
              /\ engagement' = Follow(engagement, subs, m.sub, "IN_UNDERWRITING")
           \/ UNCHANGED <<subs, engagement>>
        /\ extract' \subseteq extract
        /\ UNCHANGED <<docs, uploads, files, ingest, issued>>
    BY TakenType DEF Extract, Expect
  <1> HIDE DEF t
  <1>4. SubsTable(subs') /\ engagement' \in Engagement /\ CycleKind
    <2>1. CASE UNCHANGED <<subs, engagement>>
      BY <2>1, TypeOKTables, SameAsItself DEF CycleKind, Quiet
    <2>2. CASE ~UNCHANGED <<subs, engagement>>
      BY <1>1, <1>3, <2>2, WorkerMove, SameAsItself, TypeOKTables
    <2> QED BY <2>1, <2>2
  <1> QED BY <1>2, <1>3, <1>4, TypeOKTables, TypeOKTablesNext

LEMMA WorkerStepKind ==
  ASSUME TypeOK, WorkerStep
  PROVE  TypeOK' /\ CycleKind
  BY ParseFailsStep, ParsePassesStep, ExtractStep, TypeOKTables DEF WorkerStep

LEMMA NextKind ==
  ASSUME TypeOK, DOMAIN subs \subseteq issued, Next
  PROVE  TypeOK' /\ CycleKind
  BY AgreementStepKind, CycleStepKind, WorkerStepKind DEF Next, CycleKind

-----------------------------------------------------------------------------
(* The inductive invariant.  That only one cycle is open and that the      *)
(* engagement shows the one in force support each other: a second cycle    *)
(* opens only when the latest is live, and before one is live there is     *)
(* only the first, which is never discarded.                               *)

IdsAreIssued == DOMAIN subs \subseteq issued

ShownFollows ==
  /\ Live(subs) # {} => engagement.status = "ACTIVE"
  /\ Live(subs) = {} =>
       \E s \in DOMAIN subs :
         /\ DOMAIN subs = {s}
         /\ subs[s].cycle = 1
         /\ engagement.status = subs[s].status

IInv ==
  /\ TypeOK
  /\ IdsAreIssued
  /\ OneOpenCycle
  /\ ShownFollows
  /\ BilledTermsAreSigned

LEMMA InitIInv == ASSUME Init PROVE IInv
  <1>1. PICK s \in Subs :
          /\ subs = [x \in {s} |-> NewCycle(1, <<>>, 1)]
          /\ issued = {s}
    BY DEF Init
  <1>2. NewCycle(1, <<>>, 1) \in Submission
    <2>1. <<>> \in [{} -> Docs]
      OBVIOUS
    <2>2. <<>> \in SlotMaps(Docs)
      BY <2>1 DEF SlotMaps
    <2> QED BY <2>2 DEF NewCycle, Submission, Statuses
  <1>3. SubsTable(subs) /\ DOMAIN subs = {s} /\ subs[s] = NewCycle(1, <<>>, 1)
    BY <1>1, <1>2 DEF SubsTable
  <1>4. engagement \in Engagement /\ engagement.status = "DRAFT" /\ engagement.dues = NoValue
    BY DEF Init, Engagement, Statuses, Scopes
  <1>5. DocsTable(docs) /\ VersionsTable(versions) /\ FilesTable(files)
    BY DEF Init, DocsTable, VersionsTable, FilesTable
  <1>6. TypeOK
    BY <1>1, <1>3, <1>4, <1>5, TypeOKTables DEF Init
  <1>7. subs[s].status = "DRAFT" /\ subs[s].cycle = 1
    BY <1>3 DEF NewCycle
  <1>8. OneOpenCycle /\ ShownFollows /\ IdsAreIssued
    BY <1>1, <1>3, <1>4, <1>7 DEF OneOpenCycle, Unfinished, ShownFollows, IdsAreIssued, Live
  <1>9. BilledTermsAreSigned
    BY <1>3, <1>4, <1>7 DEF BilledTermsAreSigned, SignedStatuses
  <1> QED BY <1>6, <1>8, <1>9 DEF IInv

\* The part of the invariant that is about cycles.
CycleInv == OneOpenCycle /\ ShownFollows /\ BilledTermsAreSigned

LEMMA QuietKeeps == ASSUME CycleInv, Quiet PROVE CycleInv'
  <1>1. Live(subs') = Live(subs) /\ Unfinished(subs') = Unfinished(subs)
    BY DEF Quiet, SameCycles, Live, Unfinished
  <1>2. OneOpenCycle' /\ ShownFollows'
    BY <1>1 DEF CycleInv, OneOpenCycle, ShownFollows, Quiet, SameCycles
  <1>3. BilledTermsAreSigned'
    BY DEF CycleInv, BilledTermsAreSigned, Quiet, SameCycles
  <1> QED BY <1>2, <1>3 DEF CycleInv

\* What a move does to the sets of live and of open cycles.
LEMMA MoveSets ==
  ASSUME NEW S, NEW R, NEW s \in DOMAIN S, NEW status,
         S[s].status # "ACTIVE",
         DOMAIN R = DOMAIN S, R[s].status = status,
         \A o \in DOMAIN S \ {s} : R[o].status = S[o].status
  PROVE  /\ status = "ACTIVE" =>
              /\ Live(R) = Live(S) \cup {s}
              /\ Unfinished(R) = Unfinished(S) \ {s}
         /\ status # "ACTIVE" => Live(R) = Live(S) /\ Unfinished(R) = Unfinished(S)
         /\ Live(S) \ {s} = Live(S)
  BY DEF Live, Unfinished

LEMMA TakesKeeps ==
  ASSUME TypeOK, CycleInv, NEW s, NEW t, Takes(s, t)
  PROVE  CycleInv'
  <1>1. t.source # "ACTIVE" /\ t.target \in Statuses
    BY TableFacts DEF Takes
  <1>2. /\ s \in DOMAIN subs /\ subs[s].status = t.source
        /\ DOMAIN subs' = DOMAIN subs /\ subs'[s].status = t.target
        /\ \A o \in DOMAIN subs \ {s} : subs'[o].status = subs[o].status
        /\ \A o \in DOMAIN subs :
             subs'[o].cycle = subs[o].cycle /\ subs'[o].signature = subs[o].signature
    BY TypeOKTables DEF Takes, SameCycles, Moved, SubsTable, Submission
  <1>3. /\ t.target = "ACTIVE" =>
             Live(subs') = Live(subs) \cup {s} /\ Unfinished(subs') = Unfinished(subs) \ {s}
        /\ t.target # "ACTIVE" =>
             Live(subs') = Live(subs) /\ Unfinished(subs') = Unfinished(subs)
        /\ Live(subs) \ {s} = Live(subs)
    BY <1>1, <1>2, MoveSets
  <1>4. engagement'.status =
          IF t.target = "ACTIVE" \/ Live(subs) = {} THEN t.target ELSE engagement.status
    BY <1>3, TypeOKTables DEF Takes, Follow, Engagement
  <1>5. OneOpenCycle'
    BY <1>3 DEF CycleInv, OneOpenCycle
  <1>6. ShownFollows'
    BY <1>2, <1>3, <1>4 DEF CycleInv, ShownFollows
  <1>7. BilledTermsAreSigned'
    <2>1. t.target \in SignedStatuses => t.source \in SignedStatuses
      BY TableFacts DEF Takes
    <2>2. t.source \in SignedStatuses => t.target \in SignedStatuses
      BY TableFacts DEF Takes
    <2>3. engagement'.dues = engagement.dues
      BY DEF Takes
    <2> QED BY <1>2, <2>1, <2>2, <2>3 DEF CycleInv, BilledTermsAreSigned
  <1> QED BY <1>5, <1>6, <1>7 DEF CycleInv

LEMMA SignsOffKeeps ==
  ASSUME TypeOK, CycleInv, NEW s, NEW status, NEW signature, SignsOff(s, status, signature)
  PROVE  CycleInv'
  <1>1. /\ s \in DOMAIN subs /\ subs[s].status = "PENDING_CLIENT_APPROVAL"
        /\ DOMAIN subs' = DOMAIN subs /\ subs'[s].status = status
        /\ \A o \in DOMAIN subs \ {s} : subs'[o].status = subs[o].status
        /\ \A o \in DOMAIN subs : subs'[o].cycle = subs[o].cycle
        /\ \A o \in DOMAIN subs \ {s} : subs'[o].signature = subs[o].signature
        /\ subs'[s].signature = signature
        /\ signature # NoValue
        /\ status # "ACTIVE" /\ status \in SignedStatuses
    BY TypeOKTables, IdAssumption
       DEF SignsOff, SameCycles, Moved, Signed, SubsTable, Submission
  <1>2. /\ Live(subs') = Live(subs) /\ Unfinished(subs') = Unfinished(subs)
        /\ Live(subs) \ {s} = Live(subs)
    BY <1>1, MoveSets
  <1>3. engagement'.status = IF Live(subs) = {} THEN status ELSE engagement.status
    BY <1>1, <1>2, TypeOKTables DEF SignsOff, Follow, Engagement
  <1>4. OneOpenCycle'
    BY <1>2 DEF CycleInv, OneOpenCycle
  <1>5. ShownFollows'
    BY <1>1, <1>2, <1>3 DEF CycleInv, ShownFollows
  <1>6. BilledTermsAreSigned'
    <2>1. engagement'.dues \in {engagement.dues, s}
      BY DEF SignsOff
    <2> QED BY <1>1, <2>1 DEF CycleInv, BilledTermsAreSigned
  <1> QED BY <1>4, <1>5, <1>6 DEF CycleInv

LEMMA OverwritesSignatureKeeps ==
  ASSUME TypeOK, CycleInv, NEW s, NEW signature, OverwritesSignature(s, signature)
  PROVE  CycleInv'
  <1>1. /\ DOMAIN subs' = DOMAIN subs
        /\ \A o \in DOMAIN subs :
             /\ subs'[o].status = subs[o].status /\ subs'[o].cycle = subs[o].cycle
             /\ subs'[o].signature \in {subs[o].signature, signature}
        /\ signature # NoValue
    BY TypeOKTables, IdAssumption
       DEF OverwritesSignature, SameCycles, Signed, SubsTable, Submission
  <1>2. Live(subs') = Live(subs) /\ Unfinished(subs') = Unfinished(subs)
    BY <1>1 DEF Live, Unfinished
  <1>3. engagement' = engagement
    BY DEF OverwritesSignature
  <1>4. OneOpenCycle' /\ ShownFollows'
    BY <1>1, <1>2, <1>3 DEF CycleInv, OneOpenCycle, ShownFollows
  <1>5. BilledTermsAreSigned'
    BY <1>1, <1>3 DEF CycleInv, BilledTermsAreSigned
  <1> QED BY <1>4, <1>5 DEF CycleInv

LEMMA OpensCycleKeeps ==
  ASSUME CycleInv, NEW s, OpensCycle(s)
  PROVE  CycleInv'
  <1>1. /\ s \notin DOMAIN subs
        /\ DOMAIN subs' = DOMAIN subs \cup {s}
        /\ subs'[s].status = "DRAFT"
        /\ \A o \in DOMAIN subs : subs'[o] = subs[o]
    BY DEF OpensCycle, Put, NewCycle
  <1>2. Live(subs') = Live(subs) /\ Unfinished(subs') = {s} /\ Live(subs) # {}
    BY <1>1 DEF OpensCycle, Live, Unfinished
  <1>3. engagement' = engagement
    BY DEF OpensCycle
  <1>4. OneOpenCycle' /\ ShownFollows'
    BY <1>2, <1>3 DEF CycleInv, OneOpenCycle, ShownFollows
  <1>5. BilledTermsAreSigned'
    BY <1>1, <1>3 DEF CycleInv, BilledTermsAreSigned, SignedStatuses
  <1> QED BY <1>4, <1>5 DEF CycleInv

LEMMA DropsCycleKeeps ==
  ASSUME TypeOK, CycleInv, NEW s, DropsCycle(s)
  PROVE  CycleInv'
  <1>1. /\ s \in DOMAIN subs /\ subs[s].status = "DRAFT" /\ subs[s].cycle > 1
        /\ DOMAIN subs' = DOMAIN subs \ {s}
        /\ \A o \in DOMAIN subs' : subs'[o] = subs[o]
        /\ engagement' = engagement
    BY TypeOKTables, DeleteSubs DEF DropsCycle
  <1>2. Live(subs') = Live(subs) /\ Unfinished(subs') = Unfinished(subs) \ {s}
    BY <1>1 DEF Live, Unfinished
  <1>3. Live(subs) # {}
    <2> SUFFICES ASSUME Live(subs) = {} PROVE FALSE
      OBVIOUS
    <2>1. PICK o \in DOMAIN subs : DOMAIN subs = {o} /\ subs[o].cycle = 1
      BY DEF CycleInv, ShownFollows
    <2>2. s = o
      BY <1>1, <2>1
    <2> QED BY <1>1, <2>1, <2>2
  <1>4. OneOpenCycle' /\ ShownFollows'
    BY <1>1, <1>2, <1>3 DEF CycleInv, OneOpenCycle, ShownFollows
  <1>5. BilledTermsAreSigned'
    BY <1>1 DEF CycleInv, BilledTermsAreSigned, SignedStatuses
  <1> QED BY <1>4, <1>5 DEF CycleInv

LEMMA KindKeeps == ASSUME TypeOK, CycleInv, CycleKind PROVE CycleInv'
  BY QuietKeeps, TakesKeeps, SignsOffKeeps, OverwritesSignatureKeeps, OpensCycleKeeps,
     DropsCycleKeeps DEF CycleKind

\* Only open_amendment adds a cycle, and it issues the id.
LEMMA KindIssues ==
  ASSUME CycleKind, IdsAreIssued, issued \subseteq issued'
  PROVE  IdsAreIssued'
  <1>1. CASE \E s : OpensCycle(s)
    BY <1>1 DEF OpensCycle, Put, IdsAreIssued
  <1>2. CASE ~\E s : OpensCycle(s)
    <2>1. DOMAIN subs' \subseteq DOMAIN subs
      BY <1>2 DEF CycleKind, Quiet, Takes, SignsOff, OverwritesSignature, DropsCycle,
                  SameCycles, Moved, Signed, Delete, Restrict
    <2> QED BY <2>1 DEF IdsAreIssued
  <1> QED BY <1>1, <1>2

LEMMA IssuedGrows == ASSUME Next PROVE issued \subseteq issued'
  BY DEF Next, AgreementStep, CycleStep, WorkerStep, PresignNew, SetDocumentType,
         PresignReplacement, DeleteDocument, RemoveAgreement, DiscardVersion, FileLands,
         SubmitForProcessing, Reupload, SubmitToClient, ResubmitToClient,
         ClientRequestChanges, ApproveBilling, MoveOnly, OpenAmendment, DiscardAmendment,
         ClientApprove, ClientApproveRefused, ExtractDocument, ParseFails, ParsePasses,
         Extract

LEMMA NextIInv == ASSUME IInv, [Next]_vars PROVE IInv'
  <1>1. CASE Next
    <2>1. TypeOK' /\ CycleKind
      BY <1>1, NextKind DEF IInv, IdsAreIssued
    <2>2. CycleInv'
      BY <2>1, KindKeeps DEF IInv, CycleInv
    <2>3. IdsAreIssued'
      BY <1>1, <2>1, IssuedGrows, KindIssues DEF IInv
    <2> QED BY <2>1, <2>2, <2>3 DEF IInv, CycleInv
  <1>2. CASE UNCHANGED vars
    BY <1>2 DEF vars, IInv, TypeOK, IdsAreIssued, OneOpenCycle, ShownFollows,
                BilledTermsAreSigned
  <1> QED BY <1>1, <1>2

-----------------------------------------------------------------------------
(* The theorems.                                                           *)

\* The inductive invariant holds of every behaviour.
THEOREM Invariance == Spec => []IInv
  BY InitIInv, NextIInv, PTL DEF Spec

\* Every table holds rows of its type, whoever writes it in whatever order.
THEOREM TypeCorrect == Spec => []TypeOK
  <1>1. IInv => TypeOK
    BY DEF IInv
  <1> QED BY <1>1, Invariance, PTL

\* At most one review cycle is open, as long as handlers do not overlap.
THEOREM OnlyOneOpenCycle == Spec => []OneOpenCycle
  <1>1. IInv => OneOpenCycle
    BY DEF IInv
  <1> QED BY <1>1, Invariance, PTL

\* The engagement's copy of the status never drifts from the cycle in force.
THEOREM StatusShownIsInForce == Spec => []EngagementShowsCycleInForce
  <1>1. IInv => EngagementShowsCycleInForce
    <2> SUFFICES ASSUME IInv, NEW s \in DOMAIN subs, IsCycleInForce(subs, s)
                 PROVE  engagement.status = subs[s].status
      BY DEF EngagementShowsCycleInForce
    <2>1. CASE Live(subs) # {}
      <3>1. s \in Live(subs)
        BY <2>1 DEF IsCycleInForce, IsLatest
      <3> QED BY <2>1, <3>1 DEF IInv, ShownFollows, Live
    <2>2. CASE Live(subs) = {}
      BY <2>2 DEF IInv, ShownFollows
    <2> QED BY <2>1, <2>2
  <1> QED BY <1>1, Invariance, PTL

\* Nothing is billed, or even approved, that nobody signed.
THEOREM BillingIsSigned == Spec => []BilledTermsAreSigned
  <1>1. IInv => BilledTermsAreSigned
    BY DEF IInv
  <1> QED BY <1>1, Invariance, PTL

LEMMA KindKeepsLive ==
  ASSUME TypeOK, CycleKind
  PROVE  Live(subs) \subseteq Live(subs')
  <1>1. ASSUME NEW s, NEW t, Takes(s, t) PROVE Live(subs) \subseteq Live(subs')
    <2>1. t.source # "ACTIVE"
      BY <1>1, TableFacts DEF Takes
    <2> QED BY <1>1, <2>1 DEF Takes, SameCycles, Moved, Live
  <1>2. ASSUME NEW s, NEW status, NEW signature, SignsOff(s, status, signature)
        PROVE  Live(subs) \subseteq Live(subs')
    BY <1>2 DEF SignsOff, SameCycles, Moved, Signed, Live
  <1>3. ASSUME NEW s, NEW signature, OverwritesSignature(s, signature)
        PROVE  Live(subs) \subseteq Live(subs')
    BY <1>3, TypeOKTables
       DEF OverwritesSignature, SameCycles, Signed, Live, SubsTable, Submission
  <1>4. ASSUME NEW s, OpensCycle(s) PROVE Live(subs) \subseteq Live(subs')
    BY <1>4 DEF OpensCycle, Put, Live
  <1>5. ASSUME NEW s, DropsCycle(s) PROVE Live(subs) \subseteq Live(subs')
    BY <1>5 DEF DropsCycle, Delete, Restrict, Live
  <1>6. Quiet => Live(subs) \subseteq Live(subs')
    BY DEF Quiet, SameCycles, Live
  <1> QED BY <1>1, <1>2, <1>3, <1>4, <1>5, <1>6 DEF CycleKind

\* A cycle that went live is never removed and never moves again.
THEOREM LiveStaysLive == Spec => LiveCyclesStayLive
  <1>1. IInv /\ [Next]_vars => [Live(subs) \subseteq Live(subs')]_vars
    BY NextKind, KindKeepsLive DEF IInv, IdsAreIssued
  <1> QED BY <1>1, Invariance, PTL DEF Spec, LiveCyclesStayLive

\* What an action that changes the set of agreements or opens a version has
\* checked about the cycle in play.
LEMMA ArrivalsAreChecked ==
  ASSUME TypeOK, Next,
         ~(DOMAIN docs' = DOMAIN docs /\ DOMAIN versions' \subseteq DOMAIN versions)
  PROVE  \E s \in DOMAIN subs : IsOpenCycle(subs, s) /\ subs[s].status \in UploadableStatuses
  <1> USE DEF DeletableStatuses
  <1>1. ASSUME NEW d \in Docs, NEW v \in Versions, DiscardVersion(d, v), v # 1
        PROVE  DOMAIN docs' = DOMAIN docs /\ DOMAIN versions' \subseteq DOMAIN versions
    BY <1>1 DEF DiscardVersion, Delete, Restrict
  <1>2. ASSUME NEW d \in Docs, NEW type \in DocTypes, SetDocumentType(d, type)
        PROVE  DOMAIN docs' = DOMAIN docs /\ versions' = versions
    BY <1>2, TypeOKTables, RankedTable DEF SetDocumentType, Reconcile, Ranked
  <1>3. ASSUME NEW m \in Message, m \in ingest, ParseFails(m) \/ ParsePasses(m)
        PROVE  DOMAIN docs' = DOMAIN docs /\ DOMAIN versions' \subseteq DOMAIN versions
    <2>1. m.key \in DOMAIN files /\ docs' = Classified(m).docs
      BY <1>3 DEF ParseFails, ParsePasses
    <2>2. DOMAIN docs' = DOMAIN docs
      BY <2>1, ClassifiedType
    <2>3. versions' \in {versions, Marked(m.key, "parsed")}
      BY <1>3 DEF ParseFails, ParsePasses
    <2> QED BY <2>2, <2>3 DEF Marked, Put
  <1>4. ASSUME NEW m \in Message, Extract(m)
        PROVE  DOMAIN docs' = DOMAIN docs /\ DOMAIN versions' \subseteq DOMAIN versions
    BY <1>4 DEF Extract, Marked, Put
  <1>5. ~WorkerStep
    BY <1>3, <1>4, TypeOKTables DEF WorkerStep
  <1>6. ~CycleStep
    BY DEF CycleStep, SubmitForProcessing, Reupload, SubmitToClient, ResubmitToClient,
           ClientRequestChanges, ApproveBilling, MoveOnly, OpenAmendment, DiscardAmendment,
           ClientApprove, ClientApproveRefused, ExtractDocument, AgreementsUnchanged
  <1>7. ASSUME NEW k \in Keys, NEW content \in Contents, FileLands(k, content) PROVE FALSE
    BY <1>7 DEF FileLands
  <1>8. PICK d \in Docs :
          \/ \E type \in DocTypes : PresignNew(d, type)
          \/ PresignReplacement(d)
          \/ DeleteDocument(d)
          \/ \E v \in Versions : DiscardVersion(d, v) /\ v = 1
    BY <1>1, <1>2, <1>5, <1>6, <1>7 DEF Next, AgreementStep
  <1> QED BY <1>8
          DEF PresignNew, PresignReplacement, DeleteDocument, DiscardVersion, RemoveAgreement

\* Nothing is added to, taken from or reopened under a review in progress.
THEOREM NothingArrives == Spec => NothingArrivesUnderReview
  <1>1. ASSUME IInv, Next,
               NEW c \in DOMAIN subs, subs[c].status \in SealedStatuses
        PROVE  DOMAIN docs' = DOMAIN docs /\ DOMAIN versions' \subseteq DOMAIN versions
    <2> SUFFICES ASSUME ~(/\ DOMAIN docs' = DOMAIN docs
                          /\ DOMAIN versions' \subseteq DOMAIN versions)
                 PROVE  FALSE
      OBVIOUS
    <2>1. PICK s \in DOMAIN subs :
            IsOpenCycle(subs, s) /\ subs[s].status \in UploadableStatuses
      BY <1>1, ArrivalsAreChecked DEF IInv
    <2>2. c \in Unfinished(subs)
      BY <1>1 DEF SealedStatuses, Unfinished, Live
    <2>3. s \in Unfinished(subs)
      BY <2>1, <2>2 DEF IsOpenCycle, IsLatest
    <2>4. s = c
      BY <1>1, <2>2, <2>3 DEF IInv, OneOpenCycle
    <2> QED BY <1>1, <2>1, <2>4 DEF SealedStatuses, UploadableStatuses
  <1>2. IInv /\ [Next]_vars =>
          [(\E s \in DOMAIN subs : subs[s].status \in SealedStatuses) =>
             DOMAIN docs' = DOMAIN docs /\ DOMAIN versions' \subseteq DOMAIN versions]_vars
    BY <1>1
  <1> QED BY <1>2, Invariance, PTL DEF Spec, NothingArrivesUnderReview

-----------------------------------------------------------------------------
(* The workflow implements EngagementLifecycle.                            *)

LEMMA OpenStatusFacts ==
  ASSUME NEW S, \A s, o \in Unfinished(S) : s = o
  PROVE  /\ Unfinished(S) = {} => OpenStatusOf(S) = "NONE"
         /\ \A s \in Unfinished(S) : OpenStatusOf(S) = S[s].status
  <1>1. ASSUME NEW s \in Unfinished(S) PROVE (CHOOSE x \in Unfinished(S) : TRUE) = s
    OBVIOUS
  <1> QED BY <1>1 DEF OpenStatusOf

LEMMA SameTable == Lifecycle!Transitions = Transitions
  BY DEF Lifecycle!Transitions, Lifecycle!Row, Lifecycle!Provider, Lifecycle!Client,
         Lifecycle!Finance, Lifecycle!System, Transitions, Row, Provider, Client,
         Finance, System

\* The view of a step that leaves every status where it was.
LEMMA SameView ==
  ASSUME OneOpenCycle, OneOpenCycle', DOMAIN subs' = DOMAIN subs,
         \A s \in DOMAIN subs : subs'[s].status = subs[s].status,
         engagement'.status = engagement.status
  PROVE  UNCHANGED Lifecycle!vars
  <1>1. Live(subs') = Live(subs) /\ Unfinished(subs') = Unfinished(subs)
    BY DEF Live, Unfinished
  <1>2. OpenStatusOf(subs') = OpenStatusOf(subs)
    <2>1. CASE Unfinished(subs) = {}
      BY <1>1, <2>1 DEF OpenStatusOf
    <2>2. CASE Unfinished(subs) # {}
      <3>1. PICK s \in Unfinished(subs) : TRUE
        BY <2>2
      <3>2. OpenStatusOf(subs) = subs[s].status
        BY <3>1, OpenStatusFacts DEF OneOpenCycle
      <3>3. OpenStatusOf(subs') = subs'[s].status
        BY <1>1, <3>1, OpenStatusFacts DEF OneOpenCycle
      <3> QED BY <3>1, <3>2, <3>3 DEF Unfinished
    <2> QED BY <2>1, <2>2
  <1> QED BY <1>1, <1>2 DEF Lifecycle!vars

\* The open cycle moves, and does not go live.
LEMMA MovedView ==
  ASSUME OneOpenCycle, OneOpenCycle', ShownFollows',
         NEW s \in Unfinished(subs), NEW status, status # "ACTIVE",
         DOMAIN subs' = DOMAIN subs, subs'[s].status = status,
         Unfinished(subs') = Unfinished(subs), Live(subs') = Live(subs)
  PROVE  /\ OpenStatusOf(subs) = subs[s].status
         /\ OpenStatusOf(subs') = status
         /\ (Live(subs') # {}) = (Live(subs) # {})
         /\ Lifecycle!Show
  <1>1. OpenStatusOf(subs) = subs[s].status
    BY OpenStatusFacts DEF OneOpenCycle
  <1>2. OpenStatusOf(subs') = status
    BY OpenStatusFacts DEF OneOpenCycle
  <1>3. engagement'.status = IF Live(subs') # {} THEN "ACTIVE" ELSE status
    <2>1. CASE Live(subs') # {}
      BY <2>1 DEF ShownFollows
    <2>2. CASE Live(subs') = {}
      BY <2>2 DEF ShownFollows, Unfinished
    <2> QED BY <2>1, <2>2
  <1> QED BY <1>1, <1>2, <1>3 DEF Lifecycle!Show

LEMMA TakesView ==
  ASSUME TypeOK, CycleInv, CycleInv', NEW s, NEW t, Takes(s, t)
  PROVE  Lifecycle!Next
  <1>1. t.source # "ACTIVE" /\ t.target = "ACTIVE" => t.source = "PENDING_BILLING_AUDIT"
    BY TableFacts DEF Takes
  <1>2. /\ s \in DOMAIN subs /\ subs[s].status = t.source /\ t.source # "ACTIVE"
        /\ DOMAIN subs' = DOMAIN subs /\ subs'[s].status = t.target
        /\ \A o \in DOMAIN subs \ {s} : subs'[o].status = subs[o].status
    BY TableFacts, TypeOKTables DEF Takes, SameCycles, Moved, SubsTable, Submission
  <1>3. s \in Unfinished(subs)
    BY <1>2 DEF Unfinished, Live
  <1>4. /\ t.target = "ACTIVE" =>
             Live(subs') = Live(subs) \cup {s} /\ Unfinished(subs') = Unfinished(subs) \ {s}
        /\ t.target # "ACTIVE" =>
             Live(subs') = Live(subs) /\ Unfinished(subs') = Unfinished(subs)
    BY <1>2, MoveSets
  <1>5. CASE t.target = "ACTIVE"
    <2>1. Unfinished(subs') = {}
      BY <1>3, <1>4, <1>5 DEF CycleInv, OneOpenCycle
    <2>2. OpenStatusOf(subs') = "NONE"
      BY <2>1 DEF OpenStatusOf
    <2>3. OpenStatusOf(subs) = "PENDING_BILLING_AUDIT"
      BY <1>2, <1>3, <1>5, OpenStatusFacts, TableFacts DEF CycleInv, OneOpenCycle, Takes
    <2>4. Live(subs') # {}
      BY <1>4, <1>5
    <2>5. engagement'.status = "ACTIVE"
      BY <2>4 DEF CycleInv, ShownFollows
    <2>6. Lifecycle!GoLive
      BY <2>2, <2>3, <2>4, <2>5 DEF Lifecycle!GoLive, Lifecycle!Show
    <2> QED BY <2>6 DEF Lifecycle!Next
  <1>6. CASE t.target # "ACTIVE"
    <2>1. /\ OpenStatusOf(subs) = t.source /\ OpenStatusOf(subs') = t.target
          /\ (Live(subs') # {}) = (Live(subs) # {})
          /\ Lifecycle!Show
      BY <1>2, <1>3, <1>4, <1>6, MovedView DEF CycleInv
    <2>2. t \in Lifecycle!Transitions
      BY SameTable DEF Takes
    <2>3. Lifecycle!Advance
      BY <1>6, <2>1, <2>2 DEF Lifecycle!Advance
    <2> QED BY <2>3 DEF Lifecycle!Next
  <1> QED BY <1>5, <1>6

LEMMA SignsOffView ==
  ASSUME TypeOK, CycleInv, CycleInv', NEW s, NEW status, NEW signature,
         SignsOff(s, status, signature)
  PROVE  Lifecycle!Next
  <1>1. /\ s \in DOMAIN subs /\ subs[s].status = "PENDING_CLIENT_APPROVAL"
        /\ DOMAIN subs' = DOMAIN subs /\ subs'[s].status = status
        /\ \A o \in DOMAIN subs \ {s} : subs'[o].status = subs[o].status
        /\ status \in {"CLIENT_APPROVED", "BILLING_SETUP", "PENDING_BILLING_AUDIT"}
        /\ status # "ACTIVE"
    BY TypeOKTables
       DEF SignsOff, SameCycles, Moved, Signed, SubsTable, Submission, SignedStatuses
  <1>2. s \in Unfinished(subs)
    BY <1>1 DEF Unfinished, Live
  <1>3. Live(subs') = Live(subs) /\ Unfinished(subs') = Unfinished(subs)
    BY <1>1, MoveSets
  <1>4. /\ OpenStatusOf(subs) = "PENDING_CLIENT_APPROVAL" /\ OpenStatusOf(subs') = status
        /\ (Live(subs') # {}) = (Live(subs) # {})
        /\ Lifecycle!Show
    BY <1>1, <1>2, <1>3, MovedView DEF CycleInv
  <1>5. Lifecycle!Sign
    BY <1>1, <1>4 DEF Lifecycle!Sign
  <1> QED BY <1>5 DEF Lifecycle!Next

LEMMA OpensCycleView ==
  ASSUME CycleInv, CycleInv', NEW s, OpensCycle(s)
  PROVE  Lifecycle!Next
  <1>1. /\ s \notin DOMAIN subs
        /\ DOMAIN subs' = DOMAIN subs \cup {s}
        /\ subs'[s].status = "DRAFT"
        /\ \A o \in DOMAIN subs : subs'[o] = subs[o]
        /\ engagement' = engagement
    BY DEF OpensCycle, Put, NewCycle
  <1>2. /\ Unfinished(subs) = {} /\ Live(subs) # {}
        /\ Live(subs') = Live(subs) /\ Unfinished(subs') = {s}
    BY <1>1 DEF OpensCycle, Live, Unfinished
  <1>3. OpenStatusOf(subs) = "NONE" /\ OpenStatusOf(subs') = "DRAFT"
    BY <1>1, <1>2, OpenStatusFacts DEF CycleInv, OneOpenCycle
  <1>4. Lifecycle!OpenAmendment
    BY <1>1, <1>2, <1>3 DEF Lifecycle!OpenAmendment
  <1> QED BY <1>4 DEF Lifecycle!Next

LEMMA DropsCycleView ==
  ASSUME TypeOK, CycleInv, CycleInv', NEW s, DropsCycle(s)
  PROVE  Lifecycle!Next
  <1>1. /\ s \in DOMAIN subs /\ subs[s].status = "DRAFT" /\ subs[s].cycle > 1
        /\ DOMAIN subs' = DOMAIN subs \ {s}
        /\ \A o \in DOMAIN subs' : subs'[o] = subs[o]
        /\ engagement' = engagement
    BY TypeOKTables, DeleteSubs DEF DropsCycle
  <1>2. s \in Unfinished(subs)
    BY <1>1 DEF Unfinished, Live
  <1>3. /\ Live(subs') = Live(subs)
        /\ Unfinished(subs') = {}
    BY <1>1, <1>2 DEF Live, Unfinished, CycleInv, OneOpenCycle
  <1>4. Live(subs) # {}
    <2> SUFFICES ASSUME Live(subs) = {} PROVE FALSE
      OBVIOUS
    <2>1. PICK o \in DOMAIN subs : DOMAIN subs = {o} /\ subs[o].cycle = 1
      BY DEF CycleInv, ShownFollows
    <2>2. s = o
      BY <1>1, <2>1
    <2> QED BY <1>1, <2>1, <2>2
  <1>5. OpenStatusOf(subs) = "DRAFT" /\ OpenStatusOf(subs') = "NONE"
    BY <1>1, <1>2, <1>3, OpenStatusFacts DEF CycleInv, OneOpenCycle
  <1>6. Lifecycle!DiscardAmendment
    BY <1>1, <1>3, <1>4, <1>5 DEF Lifecycle!DiscardAmendment
  <1> QED BY <1>6 DEF Lifecycle!Next

LEMMA StepView ==
  ASSUME TypeOK, CycleInv, CycleInv', CycleKind
  PROVE  [Lifecycle!Next]_(Lifecycle!vars)
  <1>1. CASE Quiet
    BY <1>1, SameView DEF Quiet, SameCycles, CycleInv
  <1>2. CASE \E s, t : Takes(s, t)
    BY <1>2, TakesView
  <1>3. CASE \E s, status, signature : SignsOff(s, status, signature)
    BY <1>3, SignsOffView
  <1>4. CASE \E s, signature : OverwritesSignature(s, signature)
    <2>1. PICK s, signature : OverwritesSignature(s, signature)
      BY <1>4
    <2>2. /\ DOMAIN subs' = DOMAIN subs /\ engagement' = engagement
          /\ \A o \in DOMAIN subs : subs'[o].status = subs[o].status
      BY <2>1, TypeOKTables
         DEF OverwritesSignature, SameCycles, Signed, SubsTable, Submission
    <2> QED BY <2>2, SameView DEF CycleInv
  <1>5. CASE \E s : OpensCycle(s)
    BY <1>5, OpensCycleView
  <1>6. CASE \E s : DropsCycle(s)
    BY <1>6, DropsCycleView
  <1> QED BY <1>1, <1>2, <1>3, <1>4, <1>5, <1>6 DEF CycleKind

LEMMA InitView == ASSUME Init PROVE Lifecycle!Init
  <1>1. PICK s \in Subs : subs = [x \in {s} |-> NewCycle(1, <<>>, 1)]
    BY DEF Init
  <1>2. DOMAIN subs = {s} /\ subs[s].status = "DRAFT"
    BY <1>1 DEF NewCycle
  <1>3. Live(subs) = {} /\ Unfinished(subs) = {s}
    BY <1>2 DEF Live, Unfinished
  <1>4. OpenStatusOf(subs) = "DRAFT"
    BY <1>2, <1>3, OpenStatusFacts
  <1> QED BY <1>3, <1>4 DEF Lifecycle!Init, Init

\* The workflow, with all its tables and queues, keeps the promise that
\* EngagementLifecycle states.
THEOREM Implementation == Spec => ImplementsLifecycle
  <1>1. Init => Lifecycle!Init
    BY InitView
  <1>2. IInv /\ IInv' /\ [Next]_vars => [Lifecycle!Next]_(Lifecycle!vars)
    <2> SUFFICES ASSUME IInv, IInv', [Next]_vars
                 PROVE  [Lifecycle!Next]_(Lifecycle!vars)
      OBVIOUS
    <2>1. CASE Next
      BY <2>1, NextKind, StepView DEF IInv, IdsAreIssued, CycleInv
    <2>2. CASE UNCHANGED vars
      BY <2>2, SameView DEF vars, IInv
    <2> QED BY <2>1, <2>2
  <1> QED BY <1>1, <1>2, Invariance, PTL DEF Spec, ImplementsLifecycle, Lifecycle!Spec

-----------------------------------------------------------------------------
(* The order of the editions.                                               *)

\* A finite set has a greatest member, in an order given by its pairs.
LEMMA GreatestMember ==
  ASSUME NEW S, IsFiniteSet(S), S # {}, NEW R,
         \A d \in S : <<d, d>> \notin R,
         \A d, e, f \in S : <<d, e>> \in R /\ <<e, f>> \in R => <<d, f>> \in R
  PROVE  \E m \in S : \A e \in S : <<e, m>> \notin R
  <1> DEFINE Above(d) == {e \in S : <<e, d>> \in R}
             T == {Cardinality(Above(d)) : d \in S}
  <1>1. \A d \in S : IsFiniteSet(Above(d)) /\ Cardinality(Above(d)) \in Nat
    BY FS_Subset, FS_CardinalityType
  <1> HIDE DEF Above
  <1>2. T \subseteq Nat /\ T # {}
    BY <1>1
  <1>3. PICK t \in T : \A u \in Nat : u < t => u \notin T
    BY <1>2, FirstOne
  <1>4. PICK m \in S : t = Cardinality(Above(m))
    BY <1>3
  <1>5. ASSUME NEW e \in S, <<e, m>> \in R PROVE FALSE
    <2>1. Above(e) \subseteq Above(m)
      BY <1>5 DEF Above
    <2>2. e \in Above(m) /\ e \notin Above(e)
      BY <1>5 DEF Above
    <2>3. Cardinality(Above(e)) <= Cardinality(Above(m))
          /\ Cardinality(Above(e)) # Cardinality(Above(m))
      BY <1>1, <2>1, <2>2, FS_Subset
    <2>4. Cardinality(Above(e)) < t
      BY <1>1, <1>4, <2>3
    <2>5. Cardinality(Above(e)) \in T
      OBVIOUS
    <2> QED BY <1>1, <1>3, <2>4, <2>5
  <1> QED BY <1>5

\* No two agreements were created at the same time.
Distinct(D) == \A d, e \in DOMAIN D : d # e => D[d].created # D[e].created

\* Every agreement's standing is what the ranking gives it.
WellRanked(D) == \A d \in DOMAIN D : D[d].standing = StandingOf(D, d)

LEMMA RankedIsWellRanked ==
  ASSUME NEW D, DocsTable(D), Distinct(D)
  PROVE  WellRanked(Ranked(D)) /\ Distinct(Ranked(D))
  <1> DEFINE R == Ranked(D)
  <1>1. DOMAIN R = DOMAIN D
    BY DEF Ranked
  <1>2. \A d \in DOMAIN D :
          /\ R[d].type = D[d].type /\ R[d].effective = D[d].effective
          /\ R[d].created = D[d].created /\ R[d].standing = StandingOf(D, d)
    <2>1. ASSUME NEW d \in DOMAIN D PROVE R[d] = [D[d] EXCEPT !.standing = StandingOf(D, d)]
      BY DEF Ranked
    <2> QED BY <2>1 DEF DocsTable, Document
  <1>3. \A d \in DOMAIN D : Outranked(R, d) <=> Outranked(D, d)
    BY <1>1, <1>2 DEF Outranked, Newer
  <1>4. \A d \in DOMAIN D : StandingOf(R, d) = StandingOf(D, d)
    BY <1>2, <1>3 DEF StandingOf
  <1> QED BY <1>1, <1>2, <1>4 DEF WellRanked, Distinct

\* Of the editions of one type exactly one is in force: the latest.
LEMMA OneInForce ==
  ASSUME NEW D, DocsTable(D), Distinct(D), WellRanked(D), NEW t \in AgreementTypes,
         NEW o \in DOMAIN D, D[o].type = t
  PROVE  \E m \in DOMAIN D :
           /\ {d \in DOMAIN D : D[d].type = t} \cap InForce(D) = {m}
           /\ D[m].type = t
           /\ \A e \in DOMAIN D : D[e].type = t => D[e].effective <= D[m].effective
  <1> DEFINE S == {d \in DOMAIN D : D[d].type = t}
             R == {p \in S \X S : Newer(D[p[1]], D[p[2]])}
  <1>1. IsFiniteSet(S) /\ S # {}
    BY IdAssumption, FS_Subset DEF DocsTable
  <1>2. \A d \in S : D[d].effective \in Nat /\ D[d].created \in Nat /\ D[d].type # "UNKNOWN"
    BY DEF DocsTable, Document, AgreementTypes
  <1>3. \A d, e \in S : <<d, e>> \in R <=> Newer(D[d], D[e])
    OBVIOUS
  <1>4. \A d \in S : <<d, d>> \notin R
    BY <1>2, <1>3 DEF Newer
  <1>5. \A d, e, f \in S : <<d, e>> \in R /\ <<e, f>> \in R => <<d, f>> \in R
    BY <1>2, <1>3 DEF Newer
  <1>6. PICK m \in S : \A e \in S : <<e, m>> \notin R
    <2> HIDE DEF R, S
    <2> QED BY <1>1, <1>4, <1>5, GreatestMember, Zenon
  <1> HIDE DEF R
  <1>7. \A e \in S : ~Newer(D[e], D[m])
    BY <1>3, <1>6
  <1>8. D[m].standing = "CURRENT"
    BY <1>7 DEF WellRanked, StandingOf, Outranked
  <1>9. ASSUME NEW e \in S, e # m PROVE D[e].standing = "SUPERSEDED"
    <2>1. Newer(D[m], D[e])
      BY <1>2, <1>7, <1>9 DEF Newer, Distinct
    <2>2. Outranked(D, e)
      BY <1>9, <2>1 DEF Outranked
    <2> QED BY <1>2, <2>2 DEF WellRanked, StandingOf
  <1>10. S \cap InForce(D) = {m}
    BY <1>8, <1>9 DEF InForce
  <1>11. \A e \in S : D[e].effective <= D[m].effective
    BY <1>2, <1>7 DEF Newer
  <1> QED BY <1>10, <1>11

-----------------------------------------------------------------------------
(* What a step does to the editions.  Every action of Next leaves them and  *)
(* the copies made of them alone, adds one of unknown type, or ranks them   *)
(* anew and reconciles.                                                     *)

SameEditions(D, E) ==
  /\ DOMAIN E = DOMAIN D
  /\ \A d \in DOMAIN D :
       /\ E[d].type = D[d].type /\ E[d].standing = D[d].standing
       /\ E[d].effective = D[d].effective /\ E[d].created = D[d].created

\* From S to R every first cycle keeps its slots, and none is reopened; what
\* else there is in R is a further cycle.
SlotsKept(S, R) ==
  \A s \in DOMAIN R :
    \/ R[s].cycle > 1
    \/ /\ s \in DOMAIN S
       /\ R[s].cycle = S[s].cycle /\ R[s].slots = S[s].slots
       /\ s \in Unfinished(R) => s \in Unfinished(S)

Stays ==
  /\ SameEditions(docs, docs')
  /\ engagement'.scope = engagement.scope
  /\ SlotsKept(subs, subs')

AddsUnknown(d, row) ==
  /\ d \notin DOMAIN docs /\ d \in issued'
  /\ row.type = "UNKNOWN" /\ row.standing = "CURRENT"
  /\ \A e \in DOMAIN docs : docs[e].created # row.created
  /\ docs' = Put(docs, d, row)
  /\ engagement'.scope = engagement.scope
  /\ SlotsKept(subs, subs')

Reranks(D) ==
  /\ DocsTable(D) /\ Distinct(D) /\ DOMAIN D \subseteq issued'
  /\ docs' = Ranked(D)
  /\ engagement'.scope = ReconciledScope(D, engagement).scope
  /\ SlotsKept(ReconciledSlots(D, subs), subs')

EditionStep ==
  \/ Stays
  \/ \E d, row : AddsUnknown(d, row)
  \/ \E D : Reranks(D)

LEMMA SameEditionsItself == ASSUME NEW D PROVE SameEditions(D, D)
  BY DEF SameEditions

LEMMA SlotsKeptItself == ASSUME NEW S PROVE SlotsKept(S, S)
  BY DEF SlotsKept

LEMMA MovedKeepsSlots ==
  ASSUME NEW S, SubsTable(S), NEW s \in DOMAIN S, S[s].status # "ACTIVE", NEW status
  PROVE  SlotsKept(S, Moved(S, s, status))
  BY DEF SubsTable, Submission, Moved, SlotsKept, Unfinished, Live

LEMMA SignedKeepsSlots ==
  ASSUME NEW S, SubsTable(S), NEW s \in DOMAIN S, NEW signature
  PROVE  SlotsKept(S, Signed(S, s, signature))
  BY DEF SubsTable, Submission, Signed, SlotsKept, Unfinished, Live

LEMMA FollowKeepsScope ==
  ASSUME NEW E \in Engagement, NEW S, NEW s, NEW status
  PROVE  Follow(E, S, s, status).scope = E.scope
  BY DEF Follow, Engagement

LEMMA ReconcileEditions ==
  ASSUME NEW D, DocsTable(D), Distinct(D), DOMAIN D \subseteq issued', Reconcile(D)
  PROVE  EditionStep
  <1>1. Reranks(D)
    BY SlotsKeptItself DEF Reconcile, Reranks
  <1> QED BY <1>1 DEF EditionStep

\* A step that leaves the agreements and the cycles as they are.
LEMMA UntouchedEditions ==
  ASSUME docs' = docs, subs' = subs, engagement' = engagement
  PROVE  EditionStep
  BY SameEditionsItself, SlotsKeptItself DEF EditionStep, Stays

-----------------------------------------------------------------------------
(* Agreements.                                                              *)

LEMMA PresignNewEditions ==
  ASSUME TypeOK, Distinct(docs), DOMAIN docs \subseteq issued,
         NEW d \in Docs, NEW type \in DocTypes, PresignNew(d, type)
  PROVE  EditionStep
  <1>1. PICK s \in DOMAIN subs, n \in Numbers :
          /\ IsNext(n, {docs[e].created : e \in DOMAIN docs})
          /\ LET D == Put(docs, d, NewDocument(type, subs[s].cycle, n))
             IN  IF type = "UNKNOWN" THEN WriteOnly(D) ELSE Reconcile(D)
    BY DEF PresignNew
  <1> DEFINE row == NewDocument(type, subs[s].cycle, n)
  <1>2. row \in Document /\ row.type = type /\ row.standing = "CURRENT" /\ row.created = n
    <2>1. n \in Nat /\ subs[s].cycle \in Nat
      BY NumbersAreNat, TypeOKTables DEF SubsTable, Submission
    <2>2. 1 \in Versions
      BY BoundAssumption DEF Versions
    <2> QED BY <2>1, <2>2 DEF NewDocument, Document, Standings
  <1>3. \A e \in DOMAIN docs : docs[e].created # n
    <2>1. \A e \in DOMAIN docs : docs[e].created \in Nat /\ docs[e].created < n
      BY <1>1, TypeOKTables DEF IsNext, DocsTable, Document
    <2>2. n \in Nat BY NumbersAreNat
    <2> QED BY <2>1, <2>2
  <1>4. d \notin DOMAIN docs
    BY DEF PresignNew
  <1> HIDE DEF row
  <1>5. DocsTable(Put(docs, d, row))
    BY <1>2, TypeOKTables, PutDocs
  <1>6. Distinct(Put(docs, d, row))
    BY <1>2, <1>3, <1>4 DEF Distinct, Put
  <1>7. CASE type = "UNKNOWN"
    <2>1. WriteOnly(Put(docs, d, row))
      BY <1>1, <1>7 DEF row
    <2>2. AddsUnknown(d, row)
      BY <1>2, <1>3, <1>4, <1>7, <2>1, SlotsKeptItself DEF WriteOnly, AddsUnknown, PresignNew
    <2> QED BY <2>2 DEF EditionStep
  <1>8. CASE type # "UNKNOWN"
    <2>1. Reconcile(Put(docs, d, row))
      BY <1>1, <1>8 DEF row
    <2>2. DOMAIN Put(docs, d, row) \subseteq issued'
      BY DEF Put, PresignNew
    <2> QED BY <1>5, <1>6, <2>1, <2>2, ReconcileEditions
  <1> QED BY <1>7, <1>8

\* Where only current versions change, the editions are the same.
LEMMA OtherCurrentVersion ==
  ASSUME TypeOK, NEW d \in DOMAIN docs, NEW v, docs' = [docs EXCEPT ![d].current = v],
         UNCHANGED <<subs, engagement>>
  PROVE  EditionStep
  <1>1. SameEditions(docs, docs')
    BY TypeOKTables DEF DocsTable, Document, SameEditions
  <1> QED BY <1>1, SlotsKeptItself DEF EditionStep, Stays

LEMMA PresignReplacementEditions ==
  ASSUME TypeOK, NEW d \in Docs, PresignReplacement(d)
  PROVE  EditionStep
  BY OtherCurrentVersion DEF PresignReplacement

LEMMA SetDocumentTypeEditions ==
  ASSUME TypeOK, Distinct(docs), DOMAIN docs \subseteq issued,
         NEW d \in Docs, NEW type \in DocTypes, SetDocumentType(d, type)
  PROVE  EditionStep
  <1> DEFINE D == [docs EXCEPT ![d].type = type, ![d].overridden = TRUE]
  <1>1. DocsTable(D) /\ Distinct(D) /\ DOMAIN D \subseteq issued'
    BY TypeOKTables DEF SetDocumentType, DocsTable, Document, Distinct
  <1>2. Reconcile(D)
    BY DEF SetDocumentType
  <1> HIDE DEF D
  <1> QED BY <1>1, <1>2, ReconcileEditions

LEMMA RemoveAgreementEditions ==
  ASSUME TypeOK, Distinct(docs), DOMAIN docs \subseteq issued,
         NEW d \in Docs, RemoveAgreement(d)
  PROVE  EditionStep
  <1>1. DocsTable(Delete(docs, {d}))
    BY TypeOKTables, DeleteDocs
  <1>2. Distinct(Delete(docs, {d})) /\ DOMAIN Delete(docs, {d}) \subseteq issued'
    BY DEF Delete, Restrict, Distinct, RemoveAgreement
  <1> QED BY <1>1, <1>2, ReconcileEditions DEF RemoveAgreement

LEMMA DiscardVersionEditions ==
  ASSUME TypeOK, Distinct(docs), DOMAIN docs \subseteq issued,
         NEW d \in Docs, NEW v \in Versions, DiscardVersion(d, v)
  PROVE  EditionStep
  BY RemoveAgreementEditions, OtherCurrentVersion DEF DiscardVersion

LEMMA AgreementEditions ==
  ASSUME TypeOK, Distinct(docs), DOMAIN docs \subseteq issued, AgreementStep
  PROVE  EditionStep
  BY PresignNewEditions, PresignReplacementEditions, SetDocumentTypeEditions,
     RemoveAgreementEditions, DiscardVersionEditions, UntouchedEditions
     DEF AgreementStep, DeleteDocument, FileLands

-----------------------------------------------------------------------------
(* Cycles.                                                                  *)

LEMMA ApplyEditions ==
  ASSUME TypeOK, NEW s, NEW action, NEW role, Apply(s, action, role), docs' = docs
  PROVE  EditionStep
  <1>1. PICK t \in Transitions :
          /\ s \in DOMAIN subs /\ subs[s].status = t.source
          /\ subs' = Moved(subs, s, t.target)
          /\ engagement' = Follow(engagement, subs, s, t.target)
    BY DEF Apply, Allowed
  <1>2. subs[s].status # "ACTIVE"
    BY <1>1, TableFacts
  <1>3. SlotsKept(subs, subs') /\ engagement'.scope = engagement.scope
    BY <1>1, <1>2, MovedKeepsSlots, FollowKeepsScope, TypeOKTables
  <1> QED BY <1>3, SameEditionsItself DEF EditionStep, Stays

LEMMA ExtractDocumentEditions ==
  ASSUME TypeOK, NEW d, NEW role, NEW force, ExtractDocument(d, role, force)
  PROVE  EditionStep
  BY ApplyEditions, UntouchedEditions DEF ExtractDocument, AgreementsUnchanged

LEMMA ClientApproveEditions ==
  ASSUME TypeOK, NEW s, NEW role, NEW signature \in Signatures,
         ClientApprove(s, role, signature) \/ ClientApproveRefused(s, role, signature)
  PROVE  EditionStep
  <1>1. s \in DOMAIN subs /\ SubsTable(subs) /\ engagement \in Engagement /\ docs' = docs
    BY TypeOKTables DEF ClientApprove, ClientApproveRefused, AgreementsUnchanged
  <1>2. SlotsKept(subs, Signed(subs, s, signature))
    BY <1>1, SignedKeepsSlots
  <1>3. CASE ClientApproveRefused(s, role, signature)
    BY <1>2, <1>3, SameEditionsItself DEF ClientApproveRefused, EditionStep, Stays,
                                          AgreementsUnchanged
  <1>4. CASE ClientApprove(s, role, signature)
    <2>1. PICK status, dues :
            /\ subs' = Moved(Signed(subs, s, signature), s, status)
            /\ engagement' = [Follow(engagement, subs, s, status) EXCEPT !.dues = dues]
      BY <1>4 DEF ClientApprove
    <2>2. subs[s].status = "PENDING_CLIENT_APPROVAL"
      BY <1>4 DEF ClientApprove, Allowed, Transitions, Row
    <2>3. SlotsKept(subs, subs')
      BY <1>1, <2>1, <2>2
         DEF SlotsKept, Moved, Signed, SubsTable, Submission, Unfinished, Live
    <2>4. engagement'.scope = engagement.scope
      BY <1>1, <2>1 DEF Follow, Engagement
    <2> QED BY <1>1, <2>3, <2>4, SameEditionsItself DEF EditionStep, Stays
  <1> QED BY <1>3, <1>4

\* A further cycle has a number of its own, above the first.
CyclesCounted == \A s \in DOMAIN subs : subs[s].cycle >= 1

LEMMA OpenAmendmentEditions ==
  ASSUME TypeOK, CyclesCounted, NEW s, NEW role, OpenAmendment(s, role)
  PROVE  EditionStep
  <1>1. PICK c \in DOMAIN subs, number \in Numbers, n \in Numbers :
          /\ IsNext(number, {subs[o].cycle : o \in DOMAIN subs})
          /\ subs' = Put(subs, s, NewCycle(number, subs[c].slots, n))
    BY DEF OpenAmendment
  <1>2. number > 1
    <2>1. subs[c].cycle < number /\ subs[c].cycle >= 1
      BY <1>1 DEF IsNext, CyclesCounted
    <2>2. subs[c].cycle \in Nat /\ number \in Nat
      BY NumbersAreNat, TypeOKTables DEF SubsTable, Submission
    <2> QED BY <2>1, <2>2
  <1>3. SlotsKept(subs, subs')
    BY <1>1, <1>2 DEF SlotsKept, Put, NewCycle, Unfinished, Live
  <1> QED BY <1>3, SameEditionsItself
          DEF EditionStep, Stays, OpenAmendment, AgreementsUnchanged

LEMMA DiscardAmendmentEditions ==
  ASSUME NEW s, NEW role, DiscardAmendment(s, role)
  PROVE  EditionStep
  <1>1. SlotsKept(subs, subs')
    BY DEF DiscardAmendment, SlotsKept, Delete, Restrict, Unfinished, Live
  <1> QED BY <1>1, SameEditionsItself
          DEF EditionStep, Stays, DiscardAmendment, AgreementsUnchanged

LEMMA CycleEditions ==
  ASSUME TypeOK, CyclesCounted, CycleStep
  PROVE  EditionStep
  BY ApplyEditions, ExtractDocumentEditions, ClientApproveEditions,
     OpenAmendmentEditions, DiscardAmendmentEditions
     DEF CycleStep, SubmitForProcessing, Reupload, SubmitToClient, ResubmitToClient,
         ClientRequestChanges, ApproveBilling, MoveOnly, AgreementsUnchanged

-----------------------------------------------------------------------------
(* The workers.                                                             *)

\* Whatever a worker does to the cycle after it has looked at an agreement.
LEMMA ClassifiedEditions ==
  ASSUME TypeOK, Distinct(docs), DOMAIN docs \subseteq issued, issued' = issued,
         NEW m \in Message, m.key \in DOMAIN files,
         docs' = Classified(m).docs,
         engagement'.scope = Classified(m).engagement.scope,
         SlotsKept(Classified(m).subs, subs')
  PROVE  EditionStep
  <1> DEFINE d == m.key[1]
             D == [docs EXCEPT ![d] = Identified(@, files[m.key])]
  <1>1. SubsTable(subs) /\ DocsTable(docs) /\ engagement \in Engagement
    BY TypeOKTables
  <1>2. CASE d \in DOMAIN docs /\ ~docs[d].overridden
    <2>1. /\ Identified(docs[d], files[m.key]) \in Document
          /\ Identified(docs[d], files[m.key]).created = docs[d].created
      <3>1. docs[d] \in Document /\ files[m.key] \in Contents
        BY <1>1, <1>2, TypeOKTables DEF DocsTable, FilesTable
      <3>2. files[m.key].reads \in DocTypes /\ files[m.key].effective \in Nat
        BY <3>1, ContentAssumption
      <3> QED BY <3>1, <3>2 DEF Identified, Document
    <2>2. DocsTable(D) /\ Distinct(D) /\ DOMAIN D \subseteq issued'
      BY <1>1, <1>2, <2>1 DEF DocsTable, Distinct
    <2>3. Classified(m) =
            [docs |-> Ranked(D), subs |-> ReconciledSlots(D, subs),
             engagement |-> ReconciledScope(D, engagement)]
      BY <1>2 DEF Classified
    <2> HIDE DEF D
    <2>4. Reranks(D)
      BY <2>2, <2>3 DEF Reranks
    <2> QED BY <2>4 DEF EditionStep
  <1>3. CASE ~(d \in DOMAIN docs /\ ~docs[d].overridden)
    <2>1. Classified(m) = [docs |-> docs, subs |-> subs, engagement |-> engagement]
      BY <1>3 DEF Classified
    <2> QED BY <2>1, SameEditionsItself DEF EditionStep, Stays
  <1> QED BY <1>2, <1>3

LEMMA ParseEditions ==
  ASSUME TypeOK, Distinct(docs), DOMAIN docs \subseteq issued,
         NEW m \in Message, ParseFails(m) \/ ParsePasses(m)
  PROVE  EditionStep
  <1> DEFINE c == Classified(m)
  <1>1. m.key \in DOMAIN files /\ docs' = c.docs /\ issued' = issued
    BY DEF ParseFails, ParsePasses
  <1>2. SubsTable(c.subs) /\ c.engagement \in Engagement /\ SameCycles(subs, c.subs)
    BY <1>1, ClassifiedType
  <1>3. \/ subs' = c.subs /\ engagement' = c.engagement
        \/ \E status : /\ m.sub \in DOMAIN subs /\ subs[m.sub].status = "REVALIDATING"
                       /\ subs' = Moved(c.subs, m.sub, status)
                       /\ engagement' = Follow(c.engagement, c.subs, m.sub, status)
    BY DEF ParseFails, ParsePasses, Expect
  <1> HIDE DEF c
  <1>4. SlotsKept(c.subs, subs') /\ engagement'.scope = c.engagement.scope
    <2>1. CASE subs' = c.subs /\ engagement' = c.engagement
      BY <2>1, SlotsKeptItself
    <2>2. ASSUME NEW status, m.sub \in DOMAIN subs, subs[m.sub].status = "REVALIDATING",
                 subs' = Moved(c.subs, m.sub, status),
                 engagement' = Follow(c.engagement, c.subs, m.sub, status)
          PROVE  SlotsKept(c.subs, subs') /\ engagement'.scope = c.engagement.scope
      <3>1. m.sub \in DOMAIN c.subs /\ c.subs[m.sub].status # "ACTIVE"
        BY <1>2, <2>2 DEF SameCycles
      <3> QED BY <1>2, <2>2, <3>1, MovedKeepsSlots, FollowKeepsScope
    <2> QED BY <1>3, <2>1, <2>2
  <1> QED BY <1>1, <1>4, ClassifiedEditions DEF c

LEMMA ExtractEditions ==
  ASSUME TypeOK, NEW m \in Message, Extract(m)
  PROVE  EditionStep
  <1>1. CASE UNCHANGED <<subs, engagement>>
    BY <1>1, UntouchedEditions DEF Extract
  <1>2. CASE /\ m.sub \in DOMAIN subs /\ subs[m.sub].status = "EXTRACTING"
             /\ subs' = Moved(subs, m.sub, "IN_UNDERWRITING")
             /\ engagement' = Follow(engagement, subs, m.sub, "IN_UNDERWRITING")
    <2>1. SlotsKept(subs, subs') /\ engagement'.scope = engagement.scope
      BY <1>2, MovedKeepsSlots, FollowKeepsScope, TypeOKTables
    <2> QED BY <2>1, SameEditionsItself DEF EditionStep, Stays, Extract
  <1> QED BY <1>1, <1>2 DEF Extract, Expect

LEMMA NextEditions ==
  ASSUME TypeOK, Distinct(docs), DOMAIN docs \subseteq issued, CyclesCounted, Next
  PROVE  EditionStep
  BY AgreementEditions, CycleEditions, ParseEditions, ExtractEditions, TypeOKTables
     DEF Next, WorkerStep

-----------------------------------------------------------------------------
(* The inductive invariant: standings agree with the ranking at every       *)
(* moment, and the copies of what follows from them are up to date.         *)

EditionInv ==
  /\ DOMAIN docs \subseteq issued
  /\ Distinct(docs)
  /\ WellRanked(docs)
  /\ CyclesCounted
  /\ ScopeAndSlotsFollowAgreements

\* The scope and the slots are a matter of the typed agreements in force.
LEMMA ScopeAndSlotsDepend ==
  ASSUME NEW D, DocsTable(D), Distinct(D), WellRanked(D), NEW E,
         TypedInForce(E) = TypedInForce(D),
         \A d \in TypedInForce(D) : E[d].type = D[d].type
  PROVE  ScopeOf(E) = ScopeOf(D) /\ SlotsOf(E) = SlotsOf(D)
  <1> DEFINE F == TypedInForce(D)
             T == {D[d].type : d \in F}
  <1>1. T = {E[d].type : d \in TypedInForce(E)}
    OBVIOUS
  <1>2. ASSUME NEW d \in F, NEW e \in F, D[d].type = D[e].type PROVE d = e
    <2>1. D[d].type \in AgreementTypes /\ d \in DOMAIN D /\ e \in DOMAIN D
      BY DEF TypedInForce, InForce, DocsTable, Document, DocTypes
    <2>2. PICK m : {x \in DOMAIN D : D[x].type = D[d].type} \cap InForce(D) = {m}
      BY <2>1, OneInForce
    <2> QED BY <1>2, <2>1, <2>2 DEF TypedInForce
  <1>3. \A t \in T : (CHOOSE d \in TypedInForce(E) : E[d].type = t)
                       = (CHOOSE d \in F : D[d].type = t)
    <2> SUFFICES ASSUME NEW t \in T
                 PROVE  (CHOOSE d \in TypedInForce(E) : E[d].type = t)
                          = (CHOOSE d \in F : D[d].type = t)
      OBVIOUS
    <2> DEFINE x == CHOOSE d \in TypedInForce(E) : E[d].type = t
               y == CHOOSE d \in F : D[d].type = t
    <2>1. x \in TypedInForce(E) /\ E[x].type = t
      OBVIOUS
    <2>2. y \in F /\ D[y].type = t
      OBVIOUS
    <2> HIDE DEF x, y
    <2>3. x = y
      BY <1>2, <2>1, <2>2
    <2> QED BY <2>3 DEF x, y
  <1>4. SlotsOf(E) = SlotsOf(D)
    BY <1>1, <1>3 DEF SlotsOf
  <1>5. ScopeOf(E) = ScopeOf(D)
    BY <1>1 DEF ScopeOf
  <1> QED BY <1>4, <1>5

\* A first cycle under way keeps its slots while the agreements stay.
LEMMA UnchangedFollow ==
  ASSUME ScopeAndSlotsFollowAgreements, SlotsKept(subs, subs'),
         engagement'.scope = engagement.scope,
         TypedInForce(docs') = TypedInForce(docs),
         ScopeOf(docs') = ScopeOf(docs), SlotsOf(docs') = SlotsOf(docs)
  PROVE  ScopeAndSlotsFollowAgreements'
  <1> SUFFICES ASSUME TypedInForce(docs') # {}
               PROVE  /\ engagement'.scope = ScopeOf(docs')
                      /\ \A s \in Unfinished(subs') :
                           subs'[s].cycle = 1 => subs'[s].slots = SlotsOf(docs')
    BY DEF ScopeAndSlotsFollowAgreements
  <1>1. \A s \in Unfinished(subs') : subs'[s].cycle = 1 => subs'[s].slots = SlotsOf(docs')
    <2> HIDE DEF SlotsOf
    <2> SUFFICES ASSUME NEW s \in Unfinished(subs'), subs'[s].cycle = 1
                 PROVE  subs'[s].slots = SlotsOf(docs)
      OBVIOUS
    <2>1. s \in Unfinished(subs) /\ subs[s].cycle = 1 /\ subs'[s].slots = subs[s].slots
      BY DEF SlotsKept, Unfinished
    <2> QED BY <2>1 DEF ScopeAndSlotsFollowAgreements
  <1> QED BY <1>1 DEF ScopeAndSlotsFollowAgreements

LEMMA StaysKeeps ==
  ASSUME TypeOK, EditionInv, Stays
  PROVE  Distinct(docs') /\ WellRanked(docs') /\ ScopeAndSlotsFollowAgreements'
  <1>1. TypedInForce(docs') = TypedInForce(docs)
    BY DEF Stays, SameEditions, TypedInForce, InForce
  <1>2. \A d \in TypedInForce(docs) : docs'[d].type = docs[d].type
    BY DEF Stays, SameEditions, TypedInForce, InForce
  <1>3. ScopeOf(docs') = ScopeOf(docs) /\ SlotsOf(docs') = SlotsOf(docs)
    BY <1>1, <1>2, ScopeAndSlotsDepend, TypeOKTables DEF EditionInv
  <1>4. ScopeAndSlotsFollowAgreements'
    BY <1>1, <1>3, UnchangedFollow DEF EditionInv, Stays
  <1>5. \A d \in DOMAIN docs : StandingOf(docs', d) = StandingOf(docs, d)
    BY DEF Stays, SameEditions, StandingOf, Outranked, Newer
  <1> QED BY <1>4, <1>5 DEF EditionInv, Stays, SameEditions, WellRanked, Distinct

LEMMA AddsUnknownKeeps ==
  ASSUME TypeOK, EditionInv, NEW d, NEW row, AddsUnknown(d, row)
  PROVE  Distinct(docs') /\ WellRanked(docs') /\ ScopeAndSlotsFollowAgreements'
  <1>1. /\ DOMAIN docs' = DOMAIN docs \cup {d} /\ d \notin DOMAIN docs
        /\ docs'[d] = row /\ \A e \in DOMAIN docs : docs'[e] = docs[e]
    BY DEF AddsUnknown, Put
  <1>2. TypedInForce(docs') = TypedInForce(docs)
    BY <1>1 DEF AddsUnknown, TypedInForce, InForce
  <1>3. \A e \in TypedInForce(docs) : docs'[e].type = docs[e].type
    BY <1>1 DEF TypedInForce, InForce
  <1>4. ScopeOf(docs') = ScopeOf(docs) /\ SlotsOf(docs') = SlotsOf(docs)
    BY <1>2, <1>3, ScopeAndSlotsDepend, TypeOKTables DEF EditionInv
  <1>5. ScopeAndSlotsFollowAgreements'
    BY <1>2, <1>4, UnchangedFollow DEF EditionInv, AddsUnknown
  <1>6. \A e \in DOMAIN docs : StandingOf(docs', e) = StandingOf(docs, e)
    BY <1>1 DEF AddsUnknown, StandingOf, Outranked
  <1>7. StandingOf(docs', d) = row.standing
    BY <1>1 DEF AddsUnknown, StandingOf
  <1>8. WellRanked(docs')
    BY <1>1, <1>6, <1>7 DEF EditionInv, WellRanked
  <1>9. Distinct(docs')
    BY <1>1 DEF EditionInv, AddsUnknown, Distinct
  <1> QED BY <1>5, <1>8, <1>9

LEMMA ReranksKeeps ==
  ASSUME TypeOK, OneOpenCycle, EditionInv, NEW D, Reranks(D)
  PROVE  Distinct(docs') /\ WellRanked(docs') /\ ScopeAndSlotsFollowAgreements'
  <1>1. Distinct(docs') /\ WellRanked(docs')
    BY RankedIsWellRanked DEF Reranks
  <1>2. ScopeAndSlotsFollowAgreements'
    <2> SUFFICES ASSUME TypedInForce(docs') # {}
                 PROVE  /\ engagement'.scope = ScopeOf(docs')
                        /\ \A s \in Unfinished(subs') :
                             subs'[s].cycle = 1 => subs'[s].slots = SlotsOf(docs')
      BY DEF ScopeAndSlotsFollowAgreements
    <2> HIDE DEF ScopeOf, SlotsOf
    <2>1. DOMAIN D # {} /\ docs' = Ranked(D)
      BY DEF Reranks, Ranked, TypedInForce, InForce
    <2>2. engagement'.scope = ScopeOf(docs')
      BY <2>1, TypeOKTables DEF Reranks, ReconciledScope, Engagement
    <2>3. ASSUME NEW s \in Unfinished(subs'), subs'[s].cycle = 1
          PROVE  subs'[s].slots = SlotsOf(docs')
      <3> DEFINE R == ReconciledSlots(D, subs)
      <3>1. R = [o \in DOMAIN subs |->
                   IF IsOpenCycle(subs, o) THEN [subs[o] EXCEPT !.slots = SlotsOf(docs')]
                   ELSE subs[o]]
        BY <2>1 DEF ReconciledSlots
      <3>2. SameCycles(subs, R)
        BY ReconciledSlotsTable, TypeOKTables DEF Reranks
      <3> HIDE DEF R
      <3>3. s \in Unfinished(R) /\ subs'[s].slots = R[s].slots
        BY <2>3 DEF Reranks, SlotsKept, Unfinished, R
      <3>4. s \in Unfinished(subs) /\ s \in DOMAIN subs
        BY <3>2, <3>3 DEF SameCycles, Unfinished, Live
      <3>5. IsOpenCycle(subs, s)
        BY <3>4 DEF IsOpenCycle, IsLatest, OneOpenCycle
      <3>6. R[s].slots = SlotsOf(docs')
        BY <3>1, <3>4, <3>5, TypeOKTables DEF SubsTable, Submission
      <3> QED BY <3>3, <3>6
    <2> QED BY <2>2, <2>3
  <1> QED BY <1>1, <1>2

LEMMA StepCounts ==
  ASSUME TypeOK, SubsTable(subs'), DOMAIN docs \subseteq issued, CyclesCounted, EditionStep,
         issued \subseteq issued'
  PROVE  CyclesCounted' /\ DOMAIN docs' \subseteq issued'
  <1>0. \A s \in DOMAIN subs' : subs'[s].cycle \in Nat
    BY DEF SubsTable, Submission
  <1>1. CASE Stays
    BY <1>0, <1>1 DEF Stays, SameEditions, SlotsKept, CyclesCounted
  <1>2. ASSUME NEW d, NEW row, AddsUnknown(d, row)
        PROVE  CyclesCounted' /\ DOMAIN docs' \subseteq issued'
    BY <1>0, <1>2 DEF AddsUnknown, Put, SlotsKept, CyclesCounted
  <1>3. ASSUME NEW D, Reranks(D)
        PROVE  CyclesCounted' /\ DOMAIN docs' \subseteq issued'
    <2>1. SameCycles(subs, ReconciledSlots(D, subs))
      BY <1>3, ReconciledSlotsTable, TypeOKTables DEF Reranks
    <2>2. CyclesCounted'
      BY <1>0, <1>3, <2>1 DEF Reranks, SlotsKept, SameCycles, CyclesCounted
    <2>3. DOMAIN docs' \subseteq issued'
      BY <1>3 DEF Reranks, Ranked
    <2> QED BY <2>2, <2>3
  <1> QED BY <1>1, <1>2, <1>3 DEF EditionStep

LEMMA NextEditionInv ==
  ASSUME IInv, EditionInv, [Next]_vars
  PROVE  EditionInv'
  <1>1. CASE Next
    <2>1. EditionStep
      BY <1>1, NextEditions DEF IInv, EditionInv
    <2>2. Distinct(docs') /\ WellRanked(docs') /\ ScopeAndSlotsFollowAgreements'
      BY <2>1, StaysKeeps, AddsUnknownKeeps, ReranksKeeps DEF IInv, EditionStep
    <2>3. CyclesCounted' /\ DOMAIN docs' \subseteq issued'
      BY <1>1, <2>1, StepCounts, IssuedGrows, NextIInv, TypeOKTablesNext DEF IInv, EditionInv
    <2> QED BY <2>2, <2>3 DEF EditionInv, Distinct, WellRanked
  <1>2. CASE UNCHANGED vars
    BY <1>2 DEF vars, EditionInv, Distinct, WellRanked, CyclesCounted,
                ScopeAndSlotsFollowAgreements
  <1> QED BY <1>1, <1>2

LEMMA InitEditionInv == ASSUME Init PROVE EditionInv
  <1>1. docs = <<>> BY DEF Init
  <1>2. CyclesCounted
    BY DEF Init, CyclesCounted, NewCycle
  <1> QED BY <1>1, <1>2 DEF EditionInv, Distinct, WellRanked,
                            ScopeAndSlotsFollowAgreements, TypedInForce, InForce

THEOREM EditionInvariance == Spec => []EditionInv
  <1>1. Init => EditionInv
    BY InitEditionInv
  <1>2. IInv /\ EditionInv /\ [Next]_vars => EditionInv'
    BY NextEditionInv
  <1> QED BY <1>1, <1>2, Invariance, PTL DEF Spec

\* In whatever order agreements are uploaded, read, relabelled and removed, of
\* each type the one that took effect last is in force, and no other
\* (rank_standing, reconcile_engagement).
THEOREM LatestEdition == Spec => []LatestEditionInForce
  <1>1. IInv /\ EditionInv => LatestEditionInForce
    <2> SUFFICES ASSUME IInv, EditionInv, NEW t \in AgreementTypes,
                        NEW o \in DOMAIN docs, docs[o].type = t
                 PROVE  LET editions == {d \in DOMAIN docs : docs[d].type = t}
                            inForce  == editions \cap InForce(docs)
                        IN  /\ Cardinality(inForce) = 1
                            /\ \A d \in inForce, e \in editions :
                                 docs[e].effective <= docs[d].effective
      BY DEF LatestEditionInForce
    <2>1. DocsTable(docs)
      BY TypeOKTables DEF IInv
    <2>2. PICK m \in DOMAIN docs :
            /\ {d \in DOMAIN docs : docs[d].type = t} \cap InForce(docs) = {m}
            /\ \A e \in DOMAIN docs : docs[e].type = t => docs[e].effective <= docs[m].effective
      BY <2>1, OneInForce DEF EditionInv
    <2> QED BY <2>2, FS_Singleton
  <1> QED BY <1>1, Invariance, EditionInvariance, PTL

\* What the engagement covers, and the slots of a first cycle under way, are
\* those of the agreements in force: no handler that shifts the agreements
\* forgets a copy (reconcile_engagement).
THEOREM CopiesFollow == Spec => []ScopeAndSlotsFollowAgreements
  <1>1. EditionInv => ScopeAndSlotsFollowAgreements
    BY DEF EditionInv
  <1> QED BY <1>1, EditionInvariance, PTL

-----------------------------------------------------------------------------
(* What underwriting has seen.                                              *)

\* No person's action leaves EXTRACTING.
LEMMA OnlyTheMachineLeaves ==
  ASSUME NEW action, NEW role \in MemberRoles
  PROVE  Allowed("EXTRACTING", action, role) = {}
  <1> SUFFICES ASSUME NEW t \in Transitions, t.source = "EXTRACTING", role \in t.roles
               PROVE  FALSE
    BY DEF Allowed
  <1>1. t.roles = System
    BY DEF Transitions, Row
  <1> QED BY <1>1 DEF System, MemberRoles

LEMMA ExtractLeaves ==
  ASSUME IInv, Next, NEW s \in DOMAIN subs \cap DOMAIN subs',
         subs[s].status = "EXTRACTING", subs'[s].status # "EXTRACTING"
  PROVE  docs' = docs /\ AllDocumentsExtracted(docs, versions')
  <1>1. SubsTable(subs) /\ DocsTable(docs)
    BY TypeOKTables DEF IInv
  <1>2. ~AgreementStep
    BY AgreementStepKind DEF IInv, Quiet, SameCycles
  <1>3. ASSUME NEW o, NEW action, NEW role \in MemberRoles, Apply(o, action, role)
        PROVE  FALSE
    <2>1. CASE o = s
      BY <1>3, <2>1, OnlyTheMachineLeaves DEF Apply
    <2>2. CASE o # s
      BY <1>3, <2>2 DEF Apply, Moved
    <2> QED BY <2>1, <2>2
  <1>4. ASSUME NEW o, NEW role \in MemberRoles, NEW signature \in Signatures,
               ClientApprove(o, role, signature) \/ ClientApproveRefused(o, role, signature)
        PROVE  FALSE
    <2>1. CASE ClientApprove(o, role, signature)
      <3>1. o # s
        BY <2>1, OnlyTheMachineLeaves DEF ClientApprove
      <3> QED BY <2>1, <3>1, <1>1 DEF ClientApprove, Moved, Signed
    <2>2. CASE ClientApproveRefused(o, role, signature)
      <3>1. subs[s] \in Submission BY <1>1 DEF SubsTable
      <3> QED BY <2>2, <3>1 DEF ClientApproveRefused, Signed, Submission
    <2> QED BY <1>4, <2>1, <2>2
  <1>5. ASSUME NEW o, NEW role, OpenAmendment(o, role) \/ DiscardAmendment(o, role)
        PROVE  FALSE
    <2>1. CASE OpenAmendment(o, role)
      BY <2>1 DEF OpenAmendment, Put, IInv, IdsAreIssued
    <2>2. CASE DiscardAmendment(o, role)
      BY <2>2 DEF DiscardAmendment, Delete, Restrict
    <2> QED BY <1>5, <2>1, <2>2
  <1>6. ~CycleStep
    <2>1. ASSUME NEW d, NEW role \in MemberRoles, NEW force, ExtractDocument(d, role, force)
          PROVE  FALSE
      BY <1>3, <2>1 DEF ExtractDocument
    <2> QED BY <1>3, <1>4, <1>5, <2>1
            DEF CycleStep, SubmitForProcessing, Reupload, SubmitToClient, ResubmitToClient,
                ClientRequestChanges, ApproveBilling, MoveOnly
  <1>7. ASSUME NEW m \in Message, ParseFails(m) \/ ParsePasses(m)
        PROVE  FALSE
    <2> DEFINE c == Classified(m)
    <2>1. SameCycles(subs, c.subs) /\ SubsTable(c.subs)
      BY <1>7, ClassifiedType DEF ParseFails, ParsePasses, IInv
    <2>2. \/ subs' = c.subs
          \/ \E status : /\ m.sub \in DOMAIN subs /\ subs[m.sub].status = "REVALIDATING"
                         /\ subs' = Moved(c.subs, m.sub, status)
      BY <1>7 DEF ParseFails, ParsePasses, Expect
    <2> HIDE DEF c
    <2> QED BY <2>1, <2>2 DEF SameCycles, Moved
  <1>8. PICK m \in Message : Extract(m)
    BY <1>2, <1>6, <1>7, TypeOKTables DEF Next, WorkerStep, IInv
  <1> QED BY <1>8 DEF Extract

\* A cycle leaves EXTRACTING only when the current version of every agreement
\* in force has been read: messages for older versions, for agreements that
\* are gone or for another cycle do not count (pipeline/extract.py).
THEOREM UnderwritingSeesAll == Spec => UnderwritingSeesEveryAgreement
  <1> DEFINE Seen == /\ \E d \in DOMAIN docs : docs[d].standing = "CURRENT"
                     /\ \A d \in DOMAIN docs : docs[d].standing = "CURRENT" =>
                          /\ <<d, docs[d].current>> \in DOMAIN versions'
                          /\ versions'[<<d, docs[d].current>>] = "extracted"
             A == \A s \in DOMAIN subs \cap DOMAIN subs' :
                    subs[s].status = "EXTRACTING" /\ subs'[s].status # "EXTRACTING" => Seen
  <1>1. ASSUME AllDocumentsExtracted(docs, versions') PROVE Seen
    BY <1>1 DEF AllDocumentsExtracted, Pending, InForce, IsExtracted, CurrentKey
  <1>2. IInv /\ [Next]_vars => [A]_vars
    <2> HIDE DEF Seen
    <2> QED BY <1>1, ExtractLeaves
  <1>3. Spec => [][A]_vars
    BY <1>2, Invariance, PTL DEF Spec
  <1> QED BY <1>3 DEF UnderwritingSeesEveryAgreement
=============================================================================
