---------------------------- MODULE CycleRaces ----------------------------
(***************************************************************************)
(* The handlers that touch submission rows, taken apart into their single  *)
(* reads and writes of the table.  EngagementWorkflow lets a handler finish*)
(* before the next one starts; Lambda does not.  Only                      *)
(* update_submission_status carries a condition: everything else reads,    *)
(* decides on what it read, and writes.                                    *)
(*                                                                         *)
(* A request is a process.  CONSTANT Shifts says which kinds of request     *)
(* each process makes, one after another: an instance says who acts at the *)
(* same time as whom.                                                      *)
(***************************************************************************)
EXTENDS SubmissionState, AmendmentPolicy, FiniteSets, Functions

CONSTANTS
  Subs,      \* submission ids
  Requests,  \* processes
  Shifts,    \* what each process does: functions to sets of kinds
  NoValue    \* nothing remembered

Kinds == {"transition", "approve", "worker", "open", "discard", "rewrite"}

ASSUME SubsAssumption == Subs # {} /\ IsFiniteSet(Subs) /\ NoValue \notin Subs
ASSUME ShiftAssumption == Shifts # {} /\ Shifts \subseteq [Requests -> SUBSET Kinds]

VARIABLES
  subs,     \* submission id -> row, as the table holds it
  shown,    \* the engagement row's copy of the status
  issued,   \* the ids handed out so far
  request,  \* process -> where it is and what it remembers
  work      \* process -> the kinds of request it makes

vars == <<subs, shown, issued, request, work>>

\* Ids never repeat: neither numbers nor creation times exceed their count.
Numbers == 1..Cardinality(Subs)

\* A row: of a signature and a cached summary only whether they are there.
Rows ==
  [status : Statuses, cycle : Numbers, created : Numbers,
   signed : BOOLEAN, summary : BOOLEAN]

Steps ==
  {"idle", "sign", "update", "others", "follow", "reload",
   "number", "create", "own_docs", "delete", "write_back"}

\* What a request remembers between two calls of the table.
Memory ==
  [step : Steps, kind : Kinds \cup {"none"}, sub : Subs \cup {NoValue},
   row : Rows \cup {NoValue}, source : Statuses, target : Statuses,
   number : Numbers \cup {0}]

Idle ==
  [step |-> "idle", kind |-> "none", sub |-> NoValue, row |-> NoValue,
   source |-> "DRAFT", target |-> "DRAFT", number |-> 0]

TypeOK ==
  /\ subs \in [DOMAIN subs -> Rows] /\ DOMAIN subs \subseteq Subs
  /\ shown \in Statuses
  /\ issued \subseteq Subs
  /\ request \in [Requests -> Memory]
  /\ work \in Shifts

-----------------------------------------------------------------------------
At(r, step) == request[r].step = step
Goto(r, step) == request' = [request EXCEPT ![r].step = step]
Done(r) == request' = [request EXCEPT ![r] = Idle]
Ends(r, step) == IF step = "idle" THEN Done(r) ELSE Goto(r, step)

\* A request starts, knowing the row it read, if it read one.
Start(r, kind, step, s, row) ==
  /\ At(r, "idle")
  /\ kind \in work[r]
  /\ request' = [request EXCEPT ![r] =
       [@ EXCEPT !.step = step, !.kind = kind, !.sub = s, !.row = row]]

\* A status write is due: this source, that target.
Due(r, t) == [request[r] EXCEPT !.step = "update", !.source = t.source, !.target = t.target]

TableUnchanged == UNCHANGED <<subs, shown, issued, work>>

Put(s, row) == subs' = [x \in DOMAIN subs \cup {s} |-> IF x = s THEN row ELSE subs[x]]

-----------------------------------------------------------------------------
(* update_submission_status: a conditional write, then a read of the other *)
(* cycles, then the write of the engagement's copy.                        *)

\* The condition on the row; above it, a write that lost its condition.
StillThere(s, expected) == s \in DOMAIN subs
StillAt(s, expected) == s \in DOMAIN subs /\ subs[s].status = expected

\* A person's request reads the row and looks its action up.  client_approve
\* is a kind of its own.
BeginTransition(r, s, t) ==
  /\ s \in DOMAIN subs
  /\ t.action # "client_approve"
  /\ t.roles \cap MemberRoles # {}
  /\ t.source = subs[s].status
  /\ At(r, "idle") /\ "transition" \in work[r]
  /\ request' =
       [request EXCEPT ![r] = [Due(r, t) EXCEPT !.kind = "transition", !.sub = s]]
  /\ TableUnchanged

\* A worker names the statuses itself.  parse.py looks at the row first,
\* extract.py does not.
BeginWorker(r, s, t) ==
  /\ t.action \in {"sanity_pass", "sanity_fail", "pipeline_done"}
  /\ t.action # "pipeline_done" => s \in DOMAIN subs /\ subs[s].status = t.source
  /\ At(r, "idle") /\ "worker" \in work[r]
  /\ request' = [request EXCEPT ![r] = [Due(r, t) EXCEPT !.kind = "worker", !.sub = s]]
  /\ TableUnchanged

\* What follows a status write: going live needs no look at the others.
AfterUpdate(target) == IF target = "ACTIVE" THEN "follow" ELSE "others"

\* An update_item without a condition creates the row it does not find.
UpsertStatus(r) ==
  /\ At(r, "update")
  /\ LET s == request[r].sub
         target == request[r].target
     IN  /\ Put(s, IF s \in DOMAIN subs THEN [subs[s] EXCEPT !.status = target]
                   ELSE [status |-> target])
         /\ Goto(r, AfterUpdate(target))
  /\ UNCHANGED <<shown, issued, work>>

\* The conditional write, which does nothing and fails when the row has moved;
\* above it, the write without its condition.
UpdateStatus(r) ==
  /\ At(r, "update")
  /\ LET s == request[r].sub
     IN  IF StillAt(s, request[r].source)
         THEN /\ subs' = [subs EXCEPT ![s].status = request[r].target]
              /\ Goto(r, AfterUpdate(request[r].target))
         ELSE UNCHANGED subs /\ Done(r)
  /\ UNCHANGED <<shown, issued, work>>

\* After the copy is settled, client_approve goes on with the machine steps.
AfterFollow(r) ==
  IF /\ request[r].kind = "approve"
     /\ request[r].target \in {"CLIENT_APPROVED", "BILLING_SETUP"}
  THEN "reload" ELSE "idle"

\* _has_other_live_cycle
SeeOthers(r) ==
  /\ At(r, "others")
  /\ Ends(r, IF Live(subs) \ {request[r].sub} = {} THEN "follow" ELSE AfterFollow(r))
  /\ TableUnchanged

\* set_engagement_status
FollowStatus(r) ==
  /\ At(r, "follow")
  /\ shown' = request[r].target
  /\ Ends(r, AfterFollow(r))
  /\ UNCHANGED <<subs, issued, work>>

-----------------------------------------------------------------------------
(* client_approve: load, put the signed row back, then three transitions.  *)

BeginApprove(r, s) ==
  /\ s \in DOMAIN subs
  /\ Start(r, "approve", "sign", s, subs[s])
  /\ TableUnchanged

\* The whole row as it was read goes back with the signature on it; only then
\* is the table asked, about the status as it was read.
Sign(r) ==
  /\ At(r, "sign")
  /\ Put(request[r].sub, [request[r].row EXCEPT !.signed = TRUE])
  /\ LET moves == Allowed(request[r].row.status, "client_approve", "client")
     IN  IF moves = {} THEN Done(r)
         ELSE \E t \in moves :
                request' = [request EXCEPT ![r] = [Due(r, t) EXCEPT !.row = NoValue]]
  /\ UNCHANGED <<shown, issued, work>>

\* The system's move from where the row now is; with none the request fails.
Reload(r) ==
  /\ At(r, "reload")
  /\ LET s == request[r].sub
         moves == {t \in Transitions :
                     /\ t.source = request[r].target
                     /\ s \in DOMAIN subs /\ subs[s].status = t.source
                     /\ "system" \in t.roles}
     IN  IF moves = {} THEN Done(r)
         ELSE \E t \in moves : request' = [request EXCEPT ![r] = Due(r, t)]
  /\ TableUnchanged

-----------------------------------------------------------------------------
(* open_amendment: list to see whether one may be opened, list again for   *)
(* the number, put.                                                        *)

MayOpenAnyTime(S) == TRUE
MayOpen(S) == \E c \in DOMAIN S : IsOpenCycle(S, c) /\ CanOpenAmendment(S[c].status)

BeginOpen(r) ==
  /\ MayOpen(subs)
  /\ Start(r, "open", "number", NoValue, NoValue)
  /\ TableUnchanged

Number(r) ==
  /\ At(r, "number")
  /\ \E n \in Numbers :
       /\ n - 1 \in {subs[o].cycle : o \in DOMAIN subs}
       /\ \A o \in DOMAIN subs : subs[o].cycle < n
       /\ request' = [request EXCEPT ![r] = [@ EXCEPT !.step = "create", !.number = n]]
  /\ TableUnchanged

Create(r) ==
  /\ At(r, "create")
  /\ \E s \in Subs \ issued :
       /\ issued' = issued \cup {s}
       /\ Put(s, [status |-> "DRAFT", cycle |-> request[r].number,
                  created |-> Cardinality(issued'), signed |-> FALSE, summary |-> FALSE])
  /\ Done(r)
  /\ UNCHANGED <<shown, work>>

-----------------------------------------------------------------------------
(* discard_amendment: get the row, list the documents, delete.             *)

Discardable(row) == row.cycle > 1 /\ row.status = "DRAFT"

BeginDiscard(r, s) ==
  /\ s \in DOMAIN subs
  /\ Discardable(subs[s])
  /\ Start(r, "discard", "own_docs", s, NoValue)
  /\ TableUnchanged

\* The agreements are not modelled here: the amendment may or may not have one.
SeeOwnDocuments(r) ==
  /\ At(r, "own_docs")
  /\ Goto(r, "delete") \/ Done(r)
  /\ TableUnchanged

DeleteRow(r) ==
  /\ At(r, "delete")
  /\ subs' = Restrict(subs, DOMAIN subs \ {request[r].sub})
  /\ Done(r)
  /\ UNCHANGED <<shown, issued, work>>

-----------------------------------------------------------------------------
(* build_summary and build_change_review read the row, wait for a model    *)
(* call and put the whole row back with the answer cached on it.           *)

BeginRewrite(r, s) ==
  /\ s \in DOMAIN subs
  /\ Start(r, "rewrite", "write_back", s, subs[s])
  /\ TableUnchanged

WriteBack(r) ==
  /\ At(r, "write_back")
  /\ Put(request[r].sub, [request[r].row EXCEPT !.summary = TRUE])
  /\ Done(r)
  /\ UNCHANGED <<shown, issued, work>>

-----------------------------------------------------------------------------
\* The first cycle may already be anywhere: one request after another has
\* brought it there before the requests of this module begin.
PastApproval == {"CLIENT_APPROVED", "BILLING_SETUP", "PENDING_BILLING_AUDIT", "ACTIVE"}

Init ==
  /\ \E s \in Subs, status \in Statuses :
       /\ subs = [x \in {s} |->
            [status |-> status, cycle |-> 1, created |-> 1,
             signed |-> status \in PastApproval, summary |-> FALSE]]
       /\ issued = {s}
       /\ shown = status
  /\ request = [r \in Requests |-> Idle]
  /\ work \in Shifts

Begin(r) ==
  \/ \E s \in Subs :
       \/ \E t \in Transitions : BeginTransition(r, s, t) \/ BeginWorker(r, s, t)
       \/ BeginApprove(r, s)
       \/ BeginDiscard(r, s)
       \/ BeginRewrite(r, s)
  \/ BeginOpen(r)

Continue(r) ==
  \/ UpdateStatus(r) \/ SeeOthers(r) \/ FollowStatus(r)
  \/ Sign(r) \/ Reload(r)
  \/ Number(r) \/ Create(r)
  \/ SeeOwnDocuments(r) \/ DeleteRow(r)
  \/ WriteBack(r)

Next == \E r \in Requests : Begin(r) \/ Continue(r)

Spec == Init /\ [][Next]_vars

-----------------------------------------------------------------------------
\* Only one cycle may be open at a time (store/models.py:264): with several
\* people opening amendments at once this is what goes wrong.
OneOpenCycle == \A s, o \in Unfinished(subs) : s = o

\* A status changes by a row of the transition table or not at all: a stale
\* request fails instead of clobbering (store/repository.py:3-5).
StatusMovesByTable ==
  [][\A s \in DOMAIN subs \cap DOMAIN subs' :
       <<subs[s].status, subs'[s].status>> \in Moves \cup {<<x, x>> : x \in Statuses}]_vars

\* A cycle that went live is never removed and never moves again.
LiveCyclesStayLive == [][Live(subs) \subseteq Live(subs')]_vars

-----------------------------------------------------------------------------
(* Who may be at work at the same time for these to hold: hypotheses of the *)
(* theorems, which the instances of the runs meet or break.                 *)

\* At most one process opens amendments.
OneOpens(w) == \A p, q \in Requests : "open" \in w[p] \cap w[q] => p = q

\* The kinds that put back a whole row they read earlier.
PutBackKinds == {"approve", "rewrite"}

\* Whoever puts rows back works beside nobody but those who open amendments.
PutBacksAlone(w) ==
  \A p, q \in Requests : w[p] \cap PutBackKinds # {} /\ p # q => w[q] \subseteq {"open"}
=============================================================================
