------------------------- MODULE CycleRacesProofs -------------------------
(***************************************************************************)
(* Theorems about CycleRaces, for any number of cycles and processes.      *)
(* TypeOK holds whoever is at work; the other three hold of the shifts that*)
(* CycleRaces names, and the runs two_openers and reader show that they    *)
(* fail of others.                                                         *)
(***************************************************************************)
EXTENDS CycleRaces, FiniteSetTheorems, TLAPS

TableOf(S) == S \in [DOMAIN S -> Rows] /\ DOMAIN S \subseteq Subs

\* What process r's memory w holds, by the step it is at.
Remembers(r, w) ==
  /\ w \in Memory
  /\ w.step # "idle" => w.kind \in work[r]
  /\ w.step \in {"number", "create"} => w.kind = "open"
  /\ w.step = "create" => w.number \in Numbers
  /\ w.step \in {"own_docs", "delete"} => w.kind = "discard"
  /\ w.step \in {"sign", "write_back"} => w.kind \in PutBackKinds /\ w.row \in Rows
  /\ w.step = "sign" => w.kind = "approve"
  /\ w.step \in {"update", "others", "follow", "reload"} =>
       /\ <<w.source, w.target>> \in Moves
       /\ w.kind \notin {"open", "discard"}
       /\ w.target = "CLIENT_APPROVED" => w.kind = "approve"
  /\ w.step \notin {"idle", "number", "create"} => w.sub \in Subs

\* The inductive invariant behind TypeOK, whoever is at work.
Inv == TypeOK /\ \A r \in Requests : Remembers(r, request[r])

\* A row that is to be put back is still there, with the status it was read
\* with; and no id in the table is one that could be issued again.
Fresh(w, S) ==
  w.step \in {"sign", "write_back"} =>
    w.sub \in DOMAIN S /\ S[w.sub].status = w.row.status

FreshInv ==
  /\ Inv
  /\ DOMAIN subs \subseteq issued
  /\ \A r \in Requests : Fresh(request[r], subs)

\* While an amendment is being opened every cycle is live.
Clear(w, S) == w.step \in {"number", "create"} => Unfinished(S) = {}

OpenInv == OneOpenCycle /\ \A r \in Requests : Clear(request[r], subs)

\* A row that is to be discarded was not approved since it was looked at: it
\* may have left DRAFT, and it may be gone.
Doomed(w, S) ==
  w.step \in {"own_docs", "delete"} /\ w.sub \in DOMAIN S =>
    S[w.sub].status \notin PastApproval

DoomedInv == \A r \in Requests : Doomed(request[r], subs)

-----------------------------------------------------------------------------
(* What one call of the table can be: the request's new memory, the change  *)
(* of the table, and what the memory knows of the table.                    *)

Goes(r) ==
  /\ request' \in [Requests -> Memory]
  /\ Remembers(r, request'[r])
  /\ \A q \in Requests \ {r} : request'[q] = request[q]
  /\ work' = work

Quiet == subs' = subs /\ issued' = issued

MovesRow(r) ==
  LET s == request[r].sub
  IN  /\ At(r, "update")
      /\ s \in DOMAIN subs /\ subs[s].status = request[r].source
      /\ subs' = [subs EXCEPT ![s].status = request[r].target]
      /\ issued' = issued

PutsBack(r) ==
  /\ At(r, "sign") \/ At(r, "write_back")
  /\ \E row \in Rows : row.status = request[r].row.status /\ Put(request[r].sub, row)
  /\ issued' = issued

Creates(r) ==
  /\ At(r, "create")
  /\ \E s \in Subs \ issued, row \in Rows :
       row.status = "DRAFT" /\ Put(s, row) /\ issued' = issued \cup {s}

Deletes(r) ==
  /\ At(r, "delete")
  /\ subs' = Restrict(subs, DOMAIN subs \ {request[r].sub})
  /\ issued' = issued

TableStep(r) ==
  \/ Quiet
  \/ MovesRow(r)
  \/ PutsBack(r)
  \/ Creates(r)
  \/ Deletes(r)

\* A memory that a later call relies on was filled, or kept, without a write.
Learns(r) ==
  LET w == request'[r]
  IN  /\ w.step \in {"sign", "write_back"} =>
           Quiet /\ w.sub \in DOMAIN subs /\ w.row = subs[w.sub]
      /\ w.step \in {"number", "create"} =>
           Quiet /\ (MayOpen(subs) \/ At(r, "number"))
      /\ w.step \in {"own_docs", "delete"} =>
           /\ Quiet
           /\ \/ subs[w.sub].status = "DRAFT"
              \/ At(r, "own_docs") /\ w.sub = request[r].sub

Call(r) == Goes(r) /\ TableStep(r) /\ Learns(r) /\ shown' \in Statuses

LEMMA TableFacts ==
  ASSUME NEW t \in Transitions
  PROVE  /\ t.source \in Statuses \ {"ACTIVE"}
         /\ t.target \in Statuses
         /\ <<t.source, t.target>> \in Moves
         /\ t.target = "CLIENT_APPROVED" => t.action = "client_approve" /\ "system" \notin t.roles
  <1>1. /\ t.source \in Statuses \ {"ACTIVE"} /\ t.target \in Statuses
        /\ t.target = "CLIENT_APPROVED" => t.action = "client_approve" /\ "system" \notin t.roles
    BY DEF Transitions, Row, Statuses, Client, Provider, Finance, System
  <1> QED BY <1>1 DEF Moves

LEMMA MovesType ==
  ASSUME NEW a, NEW b, <<a, b>> \in Moves
  PROVE  /\ a \in Statuses \ {"ACTIVE"} /\ b \in Statuses
         /\ b \in PastApproval => a \in PastApproval \/ b = "CLIENT_APPROVED"
  <1>1. PICK t \in Transitions : <<a, b>> = <<t.source, t.target>>
    BY DEF Moves
  <1>2. t.target \in PastApproval => t.source \in PastApproval \/ t.target = "CLIENT_APPROVED"
    BY DEF Transitions, Row, PastApproval
  <1> QED BY <1>1, <1>2, TableFacts

\* A memory is a record of these seven fields.
LEMMA MemoryForm ==
  ASSUME NEW w \in Memory
  PROVE  w = [step |-> w.step, kind |-> w.kind, sub |-> w.sub, row |-> w.row,
              source |-> w.source, target |-> w.target, number |-> w.number]
  BY DEF Memory

LEMMA IdleRemembers ==
  ASSUME NEW r PROVE Remembers(r, Idle)
  BY DEF Remembers, Idle, Memory, Steps, Statuses

LEMMA RemembersAll ==
  ASSUME Inv, NEW r \in Requests
  PROVE  Remembers(r, request[r]) /\ request[r] \in Memory /\ request[r].step \in Steps
  BY DEF Inv, Remembers, Memory

LEMMA MemoryStep ==
  ASSUME Inv, NEW r \in Requests, NEW w, Remembers(r, w),
         request' = [request EXCEPT ![r] = w], work' = work
  PROVE  Goes(r) /\ request'[r] = w
  BY DEF Inv, TypeOK, Goes, Remembers

\* A step that keeps everything but where the request is.
LEMMA GotoStep ==
  ASSUME Inv, NEW r \in Requests, NEW step \in Steps, Goto(r, step), work' = work,
         Remembers(r, [request[r] EXCEPT !.step = step])
  PROVE  /\ Goes(r)
         /\ request'[r].step = step
         /\ request'[r].sub = request[r].sub
  <1> DEFINE w == [request[r] EXCEPT !.step = step]
  <1>1. request' = [request EXCEPT ![r] = w]
    BY DEF Goto
  <1>2. w.step = step /\ w.sub = request[r].sub
    BY RemembersAll DEF Memory
  <1> HIDE DEF w
  <1>3. Goes(r) /\ request'[r] = w
    BY <1>1, MemoryStep DEF w
  <1> QED BY <1>2, <1>3

LEMMA DoneStep ==
  ASSUME Inv, NEW r \in Requests, Done(r), work' = work
  PROVE  Goes(r) /\ request'[r] = Idle /\ request'[r].step = "idle"
  <1>1. Goes(r) /\ request'[r] = Idle
    BY MemoryStep, IdleRemembers DEF Done
  <1> QED BY <1>1 DEF Idle

\* Where a step only moves on, and the step reached needs no fresh knowledge.
LEMMA EndsStep ==
  ASSUME Inv, NEW r \in Requests, NEW step \in {"idle", "others", "follow", "reload"},
         request[r].step \in {"update", "others", "follow", "reload"},
         Ends(r, step), work' = work
  PROVE  Goes(r) /\ request'[r].step = step
  <1>1. CASE step = "idle"
    BY <1>1, DoneStep DEF Ends
  <1>2. CASE step # "idle"
    <2>1. Goto(r, step) BY <1>2 DEF Ends
    <2> DEFINE w == [request[r] EXCEPT !.step = step]
    <2>2. Remembers(r, request[r]) /\ request[r] \in Memory
      BY RemembersAll
    <2>3. w \in Memory
      BY <2>2 DEF Memory, Steps
    <2>4. /\ w.step = step /\ w.kind = request[r].kind /\ w.sub = request[r].sub
          /\ w.source = request[r].source /\ w.target = request[r].target
      BY <2>2 DEF Memory
    <2>5. Remembers(r, w)
      <3> HIDE DEF w
      <3> QED BY <2>2, <2>3, <2>4, <1>2 DEF Remembers
    <2>6. step \in Steps BY DEF Steps
    <2> QED BY <2>1, <2>5, <2>6, GotoStep
  <1> QED BY <1>1, <1>2


-----------------------------------------------------------------------------
(* Every action is such a call: one lemma for each kind of handler.         *)

LEMMA BeginMoveCalls ==
  ASSUME Inv, NEW r \in Requests, NEW s \in Subs, NEW t \in Transitions,
         BeginTransition(r, s, t) \/ BeginWorker(r, s, t)
  PROVE  Call(r)
  <1> PICK kind \in {"transition", "worker"} :
        /\ request' = [request EXCEPT ![r] = [Due(r, t) EXCEPT !.kind = kind, !.sub = s]]
        /\ kind \in work[r]
        /\ t.action # "client_approve"
        /\ TableUnchanged
    BY DEF BeginTransition, BeginWorker
  <1> DEFINE w == [Due(r, t) EXCEPT !.kind = kind, !.sub = s]
  <1>1. Due(r, t) \in Memory
    BY RemembersAll, TableFacts DEF Due, Memory, Steps
  <1>2. /\ w \in Memory /\ w.step = "update" /\ w.kind = kind /\ w.sub = s
        /\ w.source = t.source /\ w.target = t.target
    BY <1>1 DEF Memory, Kinds, Due
  <1>3. request' = [request EXCEPT ![r] = w] OBVIOUS
  <1> HIDE DEF w
  <1>4. Remembers(r, w)
    BY <1>2, TableFacts DEF Remembers
  <1>5. Goes(r) /\ request'[r] = w
    BY <1>3, <1>4, MemoryStep DEF TableUnchanged
  <1>6. Learns(r)
    BY <1>2, <1>5 DEF Learns
  <1> QED BY <1>5, <1>6 DEF Call, TableStep, Quiet, TableUnchanged, Inv, TypeOK

\* Starting a request with what it read.
LEMMA StartStep ==
  ASSUME Inv, NEW r \in Requests, NEW kind \in Kinds, NEW step \in Steps,
         NEW s \in Subs \cup {NoValue}, NEW row \in Rows \cup {NoValue},
         Start(r, kind, step, s, row), work' = work,
         \/ step = "number" /\ kind = "open"
         \/ step = "own_docs" /\ kind = "discard" /\ s \in Subs
         \/ /\ step \in {"sign", "write_back"} /\ kind \in PutBackKinds
            /\ step = "sign" => kind = "approve"
            /\ s \in Subs /\ row \in Rows
  PROVE  /\ Goes(r)
         /\ request'[r].step = step /\ request'[r].sub = s /\ request'[r].row = row
  <1> DEFINE w == [request[r] EXCEPT !.step = step, !.kind = kind, !.sub = s, !.row = row]
  <1>1. request' = [request EXCEPT ![r] = w]
    BY DEF Start
  <1>2. w \in Memory /\ w.step = step /\ w.kind = kind /\ w.sub = s /\ w.row = row
    BY RemembersAll DEF Memory
  <1> HIDE DEF w
  <1>3. Remembers(r, w)
    BY <1>2 DEF Remembers, Start
  <1> QED BY <1>1, <1>2, <1>3, MemoryStep

LEMMA BeginApproveCalls ==
  ASSUME Inv, NEW r \in Requests, NEW s \in Subs,
         BeginApprove(r, s) \/ BeginRewrite(r, s)
  PROVE  Call(r)
  <1>1. subs[s] \in Rows /\ s \in DOMAIN subs
    BY DEF BeginApprove, BeginRewrite, Inv, TypeOK
  <1>2. PICK step \in {"sign", "write_back"}, kind \in PutBackKinds :
          /\ Start(r, kind, step, s, subs[s]) /\ TableUnchanged
          /\ step = "sign" => kind = "approve"
    BY DEF BeginApprove, BeginRewrite, PutBackKinds
  <1>3. /\ Goes(r) /\ request'[r].step = step
        /\ request'[r].sub = s /\ request'[r].row = subs[s]
    BY <1>1, <1>2, StartStep DEF Steps, Kinds, PutBackKinds, TableUnchanged
  <1>4. Learns(r)
    BY <1>1, <1>2, <1>3 DEF Learns, Quiet, TableUnchanged
  <1> QED BY <1>2, <1>3, <1>4 DEF Call, TableStep, Quiet, TableUnchanged, Inv, TypeOK

LEMMA BeginOpenCalls ==
  ASSUME Inv, NEW r \in Requests, BeginOpen(r)
  PROVE  Call(r)
  <1>1. Goes(r) /\ request'[r].step = "number"
    BY StartStep DEF BeginOpen, Steps, Kinds, TableUnchanged
  <1>2. Learns(r)
    BY <1>1 DEF Learns, Quiet, TableUnchanged, BeginOpen
  <1> QED BY <1>1, <1>2 DEF Call, TableStep, Quiet, TableUnchanged, Inv, TypeOK, BeginOpen

LEMMA BeginDiscardCalls ==
  ASSUME Inv, NEW r \in Requests, NEW s \in Subs, BeginDiscard(r, s)
  PROVE  Call(r)
  <1>1. Goes(r) /\ request'[r].step = "own_docs" /\ request'[r].sub = s
    BY StartStep DEF BeginDiscard, Steps, Kinds, TableUnchanged
  <1>2. Learns(r)
    BY <1>1 DEF Learns, Quiet, TableUnchanged, BeginDiscard, Discardable
  <1> QED BY <1>1, <1>2 DEF Call, TableStep, Quiet, TableUnchanged, Inv, TypeOK, BeginDiscard

LEMMA UpdateStatusCalls ==
  ASSUME Inv, NEW r \in Requests, UpdateStatus(r)
  PROVE  Call(r)
  <1>1. CASE StillAt(request[r].sub, request[r].source)
    <2> DEFINE step == AfterUpdate(request[r].target)
    <2>1. step \in {"others", "follow"} BY DEF AfterUpdate
    <2>2. Ends(r, step) BY <1>1, <2>1 DEF UpdateStatus, Ends
    <2> HIDE DEF step
    <2>3. Goes(r) /\ request'[r].step \in {"others", "follow"}
      BY <2>1, <2>2, EndsStep DEF UpdateStatus, At
    <2>4. MovesRow(r)
      BY <1>1 DEF UpdateStatus, MovesRow, StillAt
    <2> QED BY <2>3, <2>4 DEF Call, TableStep, Learns, UpdateStatus, Inv, TypeOK
  <1>2. CASE ~StillAt(request[r].sub, request[r].source)
    <2>1. Goes(r) /\ request'[r].step = "idle"
      BY <1>2, DoneStep DEF UpdateStatus
    <2> QED BY <1>2, <2>1 DEF Call, TableStep, Quiet, Learns, UpdateStatus, Inv, TypeOK
  <1> QED BY <1>1, <1>2

LEMMA SettleCopyCalls ==
  ASSUME Inv, NEW r \in Requests, SeeOthers(r) \/ FollowStatus(r)
  PROVE  Call(r)
  <1>1. AfterFollow(r) \in {"idle", "reload"} BY DEF AfterFollow
  <1>2. PICK step \in {"idle", "follow", "reload"} : Ends(r, step)
    <2>1. CASE SeeOthers(r) /\ Live(subs) \ {request[r].sub} = {}
      BY <2>1 DEF SeeOthers
    <2>2. CASE SeeOthers(r) /\ Live(subs) \ {request[r].sub} # {}
      BY <2>2, <1>1 DEF SeeOthers
    <2>3. CASE FollowStatus(r)
      BY <2>3, <1>1 DEF FollowStatus
    <2> QED BY <2>1, <2>2, <2>3
  <1>3. request[r].step \in {"others", "follow"} /\ work' = work /\ Quiet
    BY DEF SeeOthers, FollowStatus, At, TableUnchanged, Quiet
  <1>4. Goes(r) /\ request'[r].step = step
    BY <1>2, <1>3, EndsStep
  <1>5. Learns(r)
    BY <1>4 DEF Learns
  <1>6. shown' \in Statuses
    <2>1. CASE SeeOthers(r)
      BY <2>1 DEF SeeOthers, TableUnchanged, Inv, TypeOK
    <2>2. CASE FollowStatus(r)
      BY <2>2, RemembersAll DEF FollowStatus, Memory
    <2> QED BY <2>1, <2>2
  <1> QED BY <1>3, <1>4, <1>5, <1>6 DEF Call, TableStep


LEMMA SignCalls ==
  ASSUME Inv, NEW r \in Requests, Sign(r)
  PROVE  Call(r)
  <1> DEFINE row == [request[r].row EXCEPT !.signed = TRUE]
             moves == Allowed(request[r].row.status, "client_approve", "client")
  <1>1. Remembers(r, request[r]) /\ request[r] \in Memory /\ At(r, "sign")
    BY RemembersAll DEF Sign
  <1>2. /\ request[r].row \in Rows /\ request[r].sub \in Subs
        /\ request[r].kind \in work[r] /\ request[r].kind = "approve"
    BY <1>1 DEF Remembers, At
  <1>3. row \in Rows /\ row.status = request[r].row.status
    BY <1>2 DEF Rows
  <1>4. PutsBack(r)
    BY <1>1, <1>3 DEF PutsBack, Sign
  <1>5. Goes(r) /\ request'[r].step \in {"idle", "update"}
    <2>1. CASE moves = {}
      BY <2>1, DoneStep DEF Sign
    <2>2. CASE moves # {}
      <3>1. PICK t \in moves :
              request' = [request EXCEPT ![r] = [Due(r, t) EXCEPT !.row = NoValue]]
        BY <2>2 DEF Sign
      <3>2. t \in Transitions BY DEF Allowed
      <3> DEFINE w == [Due(r, t) EXCEPT !.row = NoValue]
      <3>3. Due(r, t) \in Memory
        BY <1>1, <3>2, TableFacts DEF Due, Memory, Steps
      <3>4. /\ w \in Memory /\ w.step = "update"
            /\ w.kind = request[r].kind /\ w.sub = request[r].sub
            /\ w.source = t.source /\ w.target = t.target
        BY <1>1, <3>3 DEF Memory, Due
      <3>5. request' = [request EXCEPT ![r] = w] BY <3>1
      <3> HIDE DEF w
      <3>6. Remembers(r, w)
        BY <1>2, <3>2, <3>4, TableFacts DEF Remembers
      <3> QED BY <3>4, <3>5, <3>6, MemoryStep DEF Sign
    <2> QED BY <2>1, <2>2
  <1> QED BY <1>4, <1>5 DEF Call, TableStep, Learns, Sign, Inv, TypeOK

LEMMA ReloadCalls ==
  ASSUME Inv, NEW r \in Requests, Reload(r)
  PROVE  Call(r)
  <1>1. Remembers(r, request[r]) /\ request[r] \in Memory /\ At(r, "reload")
    BY RemembersAll DEF Reload
  <1>2. /\ request[r].sub \in Subs
        /\ request[r].kind \in work[r] /\ request[r].kind \notin {"open", "discard"}
    BY <1>1 DEF Remembers, At
  <1>3. Goes(r) /\ request'[r].step \in {"idle", "update"}
    <2>1. CASE Done(r)
      BY <2>1, DoneStep DEF Reload, TableUnchanged
    <2>2. CASE \E t \in Transitions :
                 "system" \in t.roles /\ request' = [request EXCEPT ![r] = Due(r, t)]
      <3>1. PICK t \in Transitions :
              "system" \in t.roles /\ request' = [request EXCEPT ![r] = Due(r, t)]
        BY <2>2
      <3>2. /\ Due(r, t) \in Memory /\ Due(r, t).step = "update"
            /\ Due(r, t).kind = request[r].kind /\ Due(r, t).sub = request[r].sub
            /\ Due(r, t).source = t.source /\ Due(r, t).target = t.target
        BY <1>1, TableFacts DEF Due, Memory, Steps
      <3>3. Remembers(r, Due(r, t))
        BY <1>2, <3>1, <3>2, TableFacts DEF Remembers
      <3> QED BY <3>1, <3>2, <3>3, MemoryStep DEF Reload, TableUnchanged
    <2> QED BY <2>1, <2>2 DEF Reload
  <1> QED BY <1>3 DEF Call, TableStep, Quiet, Learns, Reload, TableUnchanged, Inv, TypeOK

LEMMA NumberCalls ==
  ASSUME Inv, NEW r \in Requests, Number(r)
  PROVE  Call(r)
  <1>1. Remembers(r, request[r]) /\ request[r] \in Memory /\ At(r, "number")
    BY RemembersAll DEF Number
  <1>2. PICK n \in Numbers :
          request' = [request EXCEPT ![r] = [@ EXCEPT !.step = "create", !.number = n]]
    BY DEF Number
  <1> DEFINE w == [request[r] EXCEPT !.step = "create", !.number = n]
  <1>3. request' = [request EXCEPT ![r] = w] BY <1>2
  <1>4. w \in Memory /\ w.step = "create" /\ w.number = n /\ w.kind = request[r].kind
    BY <1>1 DEF Memory, Steps
  <1> HIDE DEF w
  <1>5. Remembers(r, w)
    BY <1>1, <1>4 DEF Remembers, At
  <1>6. Goes(r) /\ request'[r] = w
    BY <1>3, <1>5, MemoryStep DEF Number, TableUnchanged
  <1>7. Learns(r)
    BY <1>1, <1>4, <1>6 DEF Learns, Quiet, Number, TableUnchanged
  <1> QED BY <1>6, <1>7 DEF Call, TableStep, Quiet, Number, TableUnchanged, Inv, TypeOK

\* There are no more ids than creation times.
LEMMA IdsAreCounted ==
  ASSUME NEW I, I \subseteq Subs, I # {}
  PROVE  Cardinality(I) \in Numbers
  <1>1. IsFiniteSet(I) /\ Cardinality(I) <= Cardinality(Subs)
    BY SubsAssumption, FS_Subset
  <1>2. Cardinality(I) \in Nat /\ Cardinality(Subs) \in Nat /\ Cardinality(I) # 0
    BY <1>1, SubsAssumption, FS_CardinalityType, FS_EmptySet
  <1> QED BY <1>1, <1>2 DEF Numbers

LEMMA CreateCalls ==
  ASSUME Inv, NEW r \in Requests, Create(r)
  PROVE  Call(r)
  <1>1. Goes(r) /\ request'[r].step = "idle"
    BY DoneStep DEF Create
  <1>2. request[r].number \in Numbers
    BY RemembersAll DEF Create, At, Remembers
  <1>3. PICK s \in Subs \ issued :
          /\ issued' = issued \cup {s}
          /\ Put(s, [status |-> "DRAFT", cycle |-> request[r].number,
                     created |-> Cardinality(issued'), signed |-> FALSE, summary |-> FALSE])
    BY DEF Create
  <1>4. Cardinality(issued') \in Numbers
    BY <1>3, IdsAreCounted DEF Inv, TypeOK
  <1> DEFINE row == [status |-> "DRAFT", cycle |-> request[r].number,
                     created |-> Cardinality(issued'), signed |-> FALSE, summary |-> FALSE]
  <1>5. row \in Rows /\ row.status = "DRAFT"
    BY <1>2, <1>4 DEF Rows, Statuses
  <1>6. Put(s, row) BY <1>3
  <1> HIDE DEF row
  <1>7. Creates(r)
    BY <1>3, <1>5, <1>6 DEF Create, Creates
  <1> QED BY <1>1, <1>7 DEF Call, TableStep, Learns, Create, Inv, TypeOK

LEMMA DiscardCalls ==
  ASSUME Inv, NEW r \in Requests, SeeOwnDocuments(r) \/ DeleteRow(r)
  PROVE  Call(r)
  <1>1. CASE SeeOwnDocuments(r) /\ Goto(r, "delete")
    <2>1. Remembers(r, request[r]) /\ request[r] \in Memory /\ At(r, "own_docs")
      BY <1>1, RemembersAll DEF SeeOwnDocuments
    <2> DEFINE w == [request[r] EXCEPT !.step = "delete"]
    <2>2. w \in Memory /\ w.step = "delete" /\ w.kind = request[r].kind /\ w.sub = request[r].sub
      BY <2>1 DEF Memory, Steps
    <2>3. Remembers(r, w)
      <3> HIDE DEF w
      <3> QED BY <2>1, <2>2 DEF Remembers, At
    <2>4. /\ Goes(r) /\ request'[r].step = "delete"
          /\ request'[r].sub = request[r].sub
      BY <1>1, <2>3, GotoStep DEF SeeOwnDocuments, TableUnchanged, Steps
    <2>5. Learns(r)
      BY <1>1, <2>1, <2>4 DEF Learns, Quiet, SeeOwnDocuments, TableUnchanged
    <2> QED BY <1>1, <2>4, <2>5
        DEF Call, TableStep, Quiet, SeeOwnDocuments, TableUnchanged, Inv, TypeOK
  <1>2. CASE SeeOwnDocuments(r) /\ Done(r)
    BY <1>2, DoneStep
       DEF Call, TableStep, Quiet, Learns, SeeOwnDocuments, TableUnchanged, Inv, TypeOK
  <1>3. CASE DeleteRow(r)
    <2>1. Deletes(r) BY <1>3 DEF DeleteRow, Deletes
    <2> QED BY <1>3, <2>1, DoneStep DEF Call, TableStep, Learns, DeleteRow, Inv, TypeOK
  <1> QED BY <1>1, <1>2, <1>3 DEF SeeOwnDocuments

LEMMA WriteBackCalls ==
  ASSUME Inv, NEW r \in Requests, WriteBack(r)
  PROVE  Call(r)
  <1> DEFINE row == [request[r].row EXCEPT !.summary = TRUE]
  <1>1. Remembers(r, request[r]) /\ At(r, "write_back")
    BY RemembersAll DEF WriteBack
  <1>2. request[r].row \in Rows
    BY <1>1 DEF Remembers, At
  <1>3. row \in Rows /\ row.status = request[r].row.status
    BY <1>2 DEF Rows
  <1>4. PutsBack(r)
    BY <1>1, <1>3 DEF PutsBack, WriteBack
  <1> QED BY <1>4, DoneStep DEF Call, TableStep, Learns, WriteBack, Inv, TypeOK

LEMMA EveryStepIsACall ==
  ASSUME Inv, NEW r \in Requests, Begin(r) \/ Continue(r)
  PROVE  Call(r)
  BY BeginMoveCalls, BeginApproveCalls, BeginOpenCalls, BeginDiscardCalls,
     UpdateStatusCalls, SettleCopyCalls, SignCalls, ReloadCalls, NumberCalls,
     CreateCalls, DiscardCalls, WriteBackCalls
     DEF Begin, Continue


-----------------------------------------------------------------------------
(* Type correctness.                                                        *)

LEMMA InitInv == Init => Inv /\ work \in Shifts
  <1> SUFFICES ASSUME Init PROVE Inv /\ work \in Shifts OBVIOUS
  <1>1. PICK s \in Subs, status \in Statuses :
          /\ subs = [x \in {s} |->
               [status |-> status, cycle |-> 1, created |-> 1,
                signed |-> status \in PastApproval, summary |-> FALSE]]
          /\ issued = {s} /\ shown = status
    BY DEF Init
  <1>2. Cardinality({s}) \in Numbers /\ Cardinality({s}) = 1
    BY IdsAreCounted, FS_Singleton
  <1>3. subs \in [DOMAIN subs -> Rows] /\ DOMAIN subs \subseteq Subs
    BY <1>1, <1>2 DEF Rows
  <1>4. \A r \in Requests : request[r] = Idle
    BY DEF Init
  <1>5. request \in [Requests -> Memory]
    BY IdleRemembers DEF Init, Remembers
  <1> QED BY <1>1, <1>3, <1>4, <1>5, IdleRemembers DEF Init, Inv, TypeOK

LEMMA InvStep ==
  ASSUME Inv, NEW r \in Requests, Call(r)
  PROVE  Inv'
  <1>1. TableOf(subs) /\ issued \subseteq Subs
    BY DEF Inv, TypeOK, TableOf
  <1>2. request[r] \in Memory /\ Remembers(r, request[r])
    BY RemembersAll
  <1>3. TableOf(subs') /\ issued' \subseteq Subs
    <2>1. CASE Quiet
      BY <1>1, <2>1 DEF Quiet, TableOf
    <2>2. CASE MovesRow(r)
      <3> DEFINE s == request[r].sub
      <3>1. [subs[s] EXCEPT !.status = request[r].target] \in Rows
        BY <1>1, <1>2, <2>2 DEF MovesRow, TableOf, Rows, Memory
      <3> QED BY <1>1, <2>2, <3>1 DEF MovesRow, TableOf
    <2>3. CASE PutsBack(r)
      <3>1. request[r].sub \in Subs
        BY <1>2, <2>3 DEF PutsBack, At, Remembers
      <3> QED BY <1>1, <2>3, <3>1 DEF PutsBack, Put, TableOf
    <2>4. CASE Creates(r)
      BY <1>1, <2>4 DEF Creates, Put, TableOf
    <2>5. CASE Deletes(r)
      BY <1>1, <2>5 DEF Deletes, Restrict, TableOf
    <2> QED BY <2>1, <2>2, <2>3, <2>4, <2>5 DEF Call, TableStep
  <1>4. TypeOK'
    BY <1>3 DEF Call, Goes, Inv, TypeOK, TableOf
  <1>5. \A q \in Requests : Remembers(q, request[q])'
    BY DEF Call, Goes, Inv, Remembers
  <1> QED BY <1>4, <1>5 DEF Inv

\* A next-state step is a call of some process, or changes nothing.
LEMMA NextIsACall ==
  ASSUME Inv, [Next]_vars
  PROVE  (\E r \in Requests : Call(r)) \/ UNCHANGED vars
  BY EveryStepIsACall DEF Next

LEMMA InvStutter == Inv /\ UNCHANGED vars => Inv'
  BY DEF Inv, TypeOK, Remembers, vars

THEOREM InvInvariant == Spec => []Inv
  <1>1. Init => Inv
    BY InitInv
  <1>2. Inv /\ [Next]_vars => Inv'
    BY NextIsACall, InvStep, InvStutter
  <1> QED BY <1>1, <1>2, PTL DEF Spec

\* Rows are whole, ids are never exceeded, and what a request remembers is
\* what its next call needs, whoever is at work (store/repository.py).
THEOREM TypeCorrect == Spec => []TypeOK
  <1>1. Inv => TypeOK
    BY DEF Inv
  <1> QED BY <1>1, InvInvariant, PTL


-----------------------------------------------------------------------------
(* Where whoever puts whole rows back works alone: nobody else changes or   *)
(* removes the row meanwhile, so that its status is the one it had.         *)

LEMMA FreshStep ==
  ASSUME FreshInv, PutBacksAlone(work), NEW r \in Requests, Call(r)
  PROVE  FreshInv'
  <1>1. Inv' BY InvStep DEF FreshInv
  <1>2. request[r] \in Memory /\ Remembers(r, request[r]) /\ Fresh(request[r], subs)
    BY RemembersAll DEF FreshInv
  <1>3. TableOf(subs)
    BY DEF FreshInv, Inv, TypeOK, TableOf
  <1>4. (DOMAIN subs \subseteq issued)'
    <2>1. CASE Quiet BY <2>1 DEF Quiet, FreshInv
    <2>2. CASE MovesRow(r) BY <2>2 DEF MovesRow, FreshInv
    <2>3. CASE PutsBack(r) BY <1>2, <2>3 DEF PutsBack, Put, At, Fresh, FreshInv
    <2>4. CASE Creates(r) BY <2>4 DEF Creates, Put, FreshInv
    <2>5. CASE Deletes(r) BY <2>5 DEF Deletes, Restrict, FreshInv
    <2> QED BY <2>1, <2>2, <2>3, <2>4, <2>5 DEF Call, TableStep
  <1>5. ASSUME NEW q \in Requests PROVE Fresh(request[q], subs)'
    <2>1. CASE q = r
      BY <2>1 DEF Call, Learns, Quiet, Fresh
    <2>2. CASE q # r /\ request[q].step \in {"sign", "write_back"}
      <3>1. work[q] \cap PutBackKinds # {}
        BY <2>2, RemembersAll DEF FreshInv, Remembers
      <3>2. work[r] \subseteq {"open"}
        BY <2>2, <3>1 DEF PutBacksAlone
      <3>3. ~MovesRow(r) /\ ~PutsBack(r) /\ ~Deletes(r)
        BY <1>2, <3>2 DEF MovesRow, PutsBack, Deletes, At, Remembers, PutBackKinds
      <3>4. Fresh(request[q], subs) /\ request'[q] = request[q]
        BY <2>2 DEF FreshInv, Call, Goes
      <3>5. CASE Quiet
        BY <3>4, <3>5 DEF Quiet, Fresh
      <3>6. CASE Creates(r)
        BY <3>4, <3>6 DEF Creates, Put, Fresh, FreshInv
      <3> QED BY <3>3, <3>5, <3>6 DEF Call, TableStep
    <2>3. CASE q # r /\ request[q].step \notin {"sign", "write_back"}
      BY <2>3 DEF Call, Goes, Fresh
    <2> QED BY <2>1, <2>2, <2>3
  <1> QED BY <1>1, <1>4, <1>5 DEF FreshInv

LEMMA InitFresh == Init => FreshInv
  <1> SUFFICES ASSUME Init PROVE FreshInv OBVIOUS
  <1>1. DOMAIN subs \subseteq issued
    BY DEF Init
  <1>2. \A r \in Requests : request[r].step = "idle"
    BY DEF Init, Idle
  <1> QED BY <1>1, <1>2, InitInv DEF FreshInv, Fresh

LEMMA FreshStutter == FreshInv /\ UNCHANGED vars => FreshInv'
  BY InvStutter DEF FreshInv, Fresh, vars

LEMMA FreshIsACall ==
  ASSUME FreshInv, [Next]_vars
  PROVE  (\E r \in Requests : Call(r)) \/ UNCHANGED vars
  BY NextIsACall DEF FreshInv

LEMMA FreshWork == FreshInv => work \in Shifts
  BY DEF FreshInv, Inv, TypeOK

THEOREM FreshInvariant ==
  ASSUME \A w \in Shifts : PutBacksAlone(w)
  PROVE  Spec => []FreshInv
  <1>1. Init => FreshInv
    BY InitFresh
  <1>2. FreshInv /\ [Next]_vars => FreshInv'
    BY FreshIsACall, FreshStep, FreshStutter, FreshWork
  <1> QED BY <1>1, <1>2, PTL DEF Spec

\* What a call does to the rows: the statuses it changes it changes by a move
\* of the table, and never that of a live cycle.
LEMMA StatusesMove ==
  ASSUME FreshInv, NEW r \in Requests, Call(r), NEW s \in DOMAIN subs \cap DOMAIN subs'
  PROVE  \/ subs'[s].status = subs[s].status /\ subs[s].status \in Statuses
         \/ /\ <<subs[s].status, subs'[s].status>> \in Moves
            /\ subs[s].status # "ACTIVE"
            /\ MovesRow(r)
  <1>1. request[r] \in Memory /\ Remembers(r, request[r]) /\ Fresh(request[r], subs)
    BY RemembersAll DEF FreshInv
  <1>2. TableOf(subs) /\ DOMAIN subs \subseteq issued
    BY DEF FreshInv, Inv, TypeOK, TableOf
  <1>3. subs[s].status \in Statuses
    BY <1>2 DEF TableOf, Rows
  <1>4. CASE Quiet BY <1>3, <1>4 DEF Quiet
  <1>5. CASE MovesRow(r)
    <2>1. <<request[r].source, request[r].target>> \in Moves
      BY <1>1, <1>5 DEF MovesRow, At, Remembers
    <2>2. request[r].source # "ACTIVE"
      BY <2>1, MovesType
    <2>3. CASE s = request[r].sub
      <3>1. subs[s] \in Rows BY <1>2 DEF TableOf
      <3>2. subs'[s].status = request[r].target /\ subs[s].status = request[r].source
        BY <1>5, <2>3, <3>1 DEF MovesRow, Rows
      <3> QED BY <1>5, <2>1, <2>2, <3>2
    <2>4. CASE s # request[r].sub
      BY <1>3, <1>5, <2>4 DEF MovesRow
    <2> QED BY <2>3, <2>4
  <1>6. CASE PutsBack(r)
    BY <1>1, <1>3, <1>6 DEF PutsBack, Put, At, Fresh
  <1>7. CASE Creates(r)
    BY <1>2, <1>3, <1>7 DEF Creates, Put
  <1>8. CASE Deletes(r)
    BY <1>3, <1>8 DEF Deletes, Restrict
  <1> QED BY <1>4, <1>5, <1>6, <1>7, <1>8 DEF Call, TableStep

\* A status changes by a row of the transition table or not at all, as
\* store/repository.py:3-5 promises, as long as whoever puts a whole row back
\* (submissions.py's client_approve, insights.py's summaries) does so beside
\* nobody but those who open amendments.
THEOREM StatusesMoveByTable ==
  ASSUME \A w \in Shifts : PutBacksAlone(w)
  PROVE  Spec => StatusMovesByTable
  <1> DEFINE A == \A s \in DOMAIN subs \cap DOMAIN subs' :
                    <<subs[s].status, subs'[s].status>>
                      \in Moves \cup {<<x, x>> : x \in Statuses}
  <1>1. FreshInv /\ [Next]_vars => [A]_vars
    <2> SUFFICES ASSUME FreshInv, NEW r \in Requests, Call(r) PROVE A
      BY FreshIsACall
    <2> QED BY StatusesMove
  <1>2. Spec => [][A]_vars
    BY <1>1, FreshInvariant, PTL DEF Spec
  <1> QED BY <1>2 DEF StatusMovesByTable


-----------------------------------------------------------------------------
(* One opener at a time.                                                    *)

\* An amendment may be opened only while every cycle is live.
LEMMA MayOpenMeansAllLive ==
  ASSUME NEW S, MayOpen(S) PROVE Unfinished(S) = {}
  <1>1. PICK c \in DOMAIN S : IsOpenCycle(S, c) /\ S[c].status = "ACTIVE"
    BY DEF MayOpen, CanOpenAmendment
  <1>2. c \notin Unfinished(S)
    BY <1>1 DEF Unfinished, Live
  <1> QED BY <1>1, <1>2 DEF IsOpenCycle, IsLatest

\* No call but the one that creates a row makes a cycle unfinished.
LEMMA OnlyCreatingAddsWork ==
  ASSUME FreshInv, NEW r \in Requests, Call(r), ~Creates(r)
  PROVE  Unfinished(subs') \subseteq Unfinished(subs)
  <1>1. DOMAIN subs' \subseteq DOMAIN subs
    <2>1. CASE Quiet BY <2>1 DEF Quiet
    <2>2. CASE MovesRow(r) BY <2>2 DEF MovesRow
    <2>3. CASE PutsBack(r)
      BY <2>3 DEF PutsBack, Put, At, Fresh, FreshInv
    <2>4. CASE Deletes(r) BY <2>4 DEF Deletes, Restrict
    <2> QED BY <2>1, <2>2, <2>3, <2>4 DEF Call, TableStep
  <1>2. \A s \in DOMAIN subs' : subs[s].status = "ACTIVE" => subs'[s].status = "ACTIVE"
    BY <1>1, StatusesMove
  <1> QED BY <1>1, <1>2 DEF Unfinished, Live

LEMMA OpenStep ==
  ASSUME FreshInv, OpenInv, OneOpens(work), NEW r \in Requests, Call(r)
  PROVE  OpenInv'
  <1>1. CASE ~Creates(r)
    <2>1. Unfinished(subs') \subseteq Unfinished(subs)
      BY <1>1, OnlyCreatingAddsWork
    <2>2. OneOpenCycle'
      BY <2>1 DEF OpenInv, OneOpenCycle
    <2>3. ASSUME NEW q \in Requests, request'[q].step \in {"number", "create"}
          PROVE  Unfinished(subs) = {}
      <3>1. CASE q = r
        BY <2>3, <3>1, MayOpenMeansAllLive DEF Call, Learns, At, OpenInv, Clear
      <3>2. CASE q # r
        BY <2>3, <3>2 DEF Call, Goes, OpenInv, Clear
      <3> QED BY <3>1, <3>2
    <2> QED BY <2>1, <2>2, <2>3 DEF OpenInv, Clear
  <1>2. CASE Creates(r)
    <2>1. PICK s \in Subs \ issued, row \in Rows : row.status = "DRAFT" /\ Put(s, row)
      BY <1>2 DEF Creates
    <2>2. Unfinished(subs) = {} /\ request[r].step = "create"
      BY <1>2 DEF Creates, At, OpenInv, Clear
    <2>3. Unfinished(subs') \subseteq {s}
      BY <2>1, <2>2 DEF Put, Unfinished, Live
    <2>4. OneOpenCycle'
      BY <2>3 DEF OneOpenCycle
    <2>5. "open" \in work[r]
      BY <2>2, RemembersAll DEF FreshInv, Remembers
    <2>6. subs' # subs
      BY <2>1 DEF Put, FreshInv
    <2>7. ASSUME NEW q \in Requests PROVE request'[q].step \notin {"number", "create"}
      <3>1. CASE q = r
        BY <2>6, <3>1 DEF Call, Learns, Quiet
      <3>2. CASE q # r
        <4>1. request'[q] = request[q]
          BY <3>2 DEF Call, Goes
        <4>2. Remembers(q, request[q])
          BY RemembersAll DEF FreshInv
        <4>3. "open" \notin work[q]
          BY <2>5, <3>2 DEF OneOpens
        <4> QED BY <4>1, <4>2, <4>3 DEF Remembers
      <3> QED BY <3>1, <3>2
    <2> QED BY <2>4, <2>7 DEF OpenInv, Clear
  <1> QED BY <1>1, <1>2

\* With one process opening amendments, and whole rows put back beside nobody
\* but it, two cycles are never open together: between the look at the cycles
\* and the put of the new row nobody takes a cycle out of ACTIVE
\* (api/submissions.py, open_amendment).  Two openers break it: run two_openers.
THEOREM OneCycleOpen ==
  ASSUME \A w \in Shifts : PutBacksAlone(w) /\ OneOpens(w)
  PROVE  Spec => []OneOpenCycle
  <1>1. Init => OpenInv
    <2> SUFFICES ASSUME Init PROVE OpenInv OBVIOUS
    <2>1. \A r \in Requests : request[r].step = "idle"
      BY DEF Init, Idle
    <2>2. OneOpenCycle
      BY DEF Init, OneOpenCycle, Unfinished
    <2> QED BY <2>1, <2>2 DEF OpenInv, Clear
  <1>2. FreshInv /\ OpenInv /\ [Next]_vars => OpenInv'
    <2>1. OpenInv /\ UNCHANGED vars => OpenInv'
      BY DEF OpenInv, OneOpenCycle, Clear, vars
    <2> QED BY <2>1, FreshIsACall, FreshWork, OpenStep
  <1>3. OpenInv => OneOpenCycle
    BY DEF OpenInv
  <1>4. Spec => []FreshInv
    BY FreshInvariant
  <1> QED BY <1>1, <1>2, <1>3, <1>4, PTL DEF Spec

-----------------------------------------------------------------------------
(* A cycle that is being discarded is not approved meanwhile.               *)

LEMMA DoomedStep ==
  ASSUME FreshInv, DoomedInv, PutBacksAlone(work), NEW r \in Requests, Call(r)
  PROVE  DoomedInv'
  <1> SUFFICES ASSUME NEW q \in Requests, request'[q].step \in {"own_docs", "delete"},
                      request'[q].sub \in DOMAIN subs'
               PROVE  subs'[request'[q].sub].status \notin PastApproval
    BY DEF DoomedInv, Doomed
  <1> DEFINE s == request'[q].sub
  <1>1. CASE q = r
    BY <1>1 DEF Call, Learns, Quiet, Doomed, At, DoomedInv, PastApproval
  <1>2. CASE q # r
    <2>1. request'[q] = request[q] /\ Doomed(request[q], subs)
      BY <1>2 DEF DoomedInv, Call, Goes
    <2>2. CASE s \notin DOMAIN subs
      <3>1. ~Quiet /\ ~MovesRow(r) /\ ~Deletes(r)
        BY <2>2 DEF Quiet, MovesRow, Deletes, Restrict
      <3>2. ~PutsBack(r)
        BY <2>2 DEF PutsBack, Put, At, FreshInv, Fresh
      <3>3. subs'[s].status = "DRAFT"
        BY <2>2, <3>1, <3>2 DEF Call, TableStep, Creates, Put
      <3> QED BY <3>3 DEF PastApproval
    <2>3. CASE s \in DOMAIN subs
      <3>1. subs[s].status \notin PastApproval
        BY <2>1, <2>3 DEF Doomed
      <3>2. CASE subs'[s].status = subs[s].status
        BY <3>1, <3>2
      <3>3. CASE subs'[s].status # subs[s].status
        <4>1. MovesRow(r) /\ <<subs[s].status, subs'[s].status>> \in Moves
          BY <2>3, <3>3, StatusesMove
        <4>2. subs[s] \in Rows
          BY <2>3 DEF FreshInv, Inv, TypeOK
        <4>3. subs'[s].status = request[r].target
          BY <2>3, <3>3, <4>1, <4>2 DEF MovesRow, Rows
        <4>4. request[r].kind = "approve" => work[r] \cap PutBackKinds # {}
          BY <4>1, RemembersAll DEF MovesRow, At, FreshInv, Remembers, PutBackKinds
        <4>5. "discard" \in work[q]
          BY <2>1, RemembersAll DEF FreshInv, Remembers
        <4>6. request[r].kind # "approve"
          BY <1>2, <4>4, <4>5 DEF PutBacksAlone
        <4>7. subs'[s].status # "CLIENT_APPROVED"
          BY <4>1, <4>3, <4>6, RemembersAll DEF MovesRow, At, FreshInv, Remembers
        <4> QED BY <3>1, <4>1, <4>7, MovesType
      <3> QED BY <3>2, <3>3
    <2> QED BY <2>2, <2>3
  <1> QED BY <1>1, <1>2

\* A cycle that went live keeps its row and its status: no stale write, put
\* or delete reaches it, even when somebody discards what another person
\* submits, because only an approval leads past the customer and whoever
\* approves works beside nobody but those who open amendments.
THEOREM LiveStaysLive ==
  ASSUME \A w \in Shifts : PutBacksAlone(w)
  PROVE  Spec => LiveCyclesStayLive
  <1>1. Init => DoomedInv
    BY DEF Init, Idle, DoomedInv, Doomed
  <1>2. FreshInv /\ DoomedInv /\ [Next]_vars => DoomedInv'
    <2>1. DoomedInv /\ UNCHANGED vars => DoomedInv'
      BY DEF DoomedInv, Doomed, vars
    <2> QED BY <2>1, FreshIsACall, FreshWork, DoomedStep
  <1>3. FreshInv /\ DoomedInv /\ [Next]_vars => [Live(subs) \subseteq Live(subs')]_vars
    <2> SUFFICES ASSUME FreshInv, DoomedInv, NEW r \in Requests, Call(r),
                        NEW s \in DOMAIN subs, subs[s].status = "ACTIVE"
                 PROVE  s \in DOMAIN subs' /\ subs'[s].status = "ACTIVE"
      BY FreshIsACall DEF Live
    <2>1. s \in DOMAIN subs'
      <3>1. CASE Quiet BY <3>1 DEF Quiet
      <3>2. CASE MovesRow(r) BY <3>2 DEF MovesRow
      <3>3. CASE PutsBack(r) BY <3>3 DEF PutsBack, Put
      <3>4. CASE Creates(r) BY <3>4 DEF Creates, Put
      <3>5. CASE Deletes(r)
        <4>1. s # request[r].sub
          BY <3>5 DEF Deletes, At, DoomedInv, Doomed, PastApproval
        <4> QED BY <3>5, <4>1 DEF Deletes, Restrict
      <3> QED BY <3>1, <3>2, <3>3, <3>4, <3>5 DEF Call, TableStep
    <2> QED BY <2>1, StatusesMove
  <1>4. Spec => []FreshInv
    BY FreshInvariant
  <1>5. Spec => [][Live(subs) \subseteq Live(subs')]_vars
    BY <1>1, <1>2, <1>3, <1>4, PTL DEF Spec
  <1> QED BY <1>5 DEF LiveCyclesStayLive
===========================================================================
