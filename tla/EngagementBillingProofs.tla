---------------------- MODULE EngagementBillingProofs ----------------------
(***************************************************************************)
(* Theorems about EngagementBilling, for any requests, shifts, terms,      *)
(* bounds and lengths of the schedule, whoever dies where.                 *)
(*                                                                         *)
(* The first part is about what a request does late and what it had seen   *)
(* when it began, so its invariant says what its memory still tells of     *)
(* now: the payments it saw made are still there, and a lock it saw is     *)
(* still shut.  The second is about the dates of BillingRules.  The third  *)
(* is about the dues, the configuration and the schedule, in four layers.  *)
(* TypeInv is what every row and what every request holds, by the step it  *)
(* is at.  CycleInv ties the requests to the cycles: one amendment at a    *)
(* time, one signature to a cycle, and a configuration from the moment a   *)
(* signature stored it.  ScheduleInv says why everybody who generates the  *)
(* schedule generates the same one.  AloneInv says what a request that had *)
(* no company has of the account.                                          *)
(***************************************************************************)
EXTENDS EngagementBilling, FirstAndLast, TLAPS

Fields == {"kind", "at", "cycle", "alone", "late", "paid", "config", "fleet", "monthly", "next", "row"}
IsMemory(w) == w = [f \in Fields |-> w[f]]

\* Where a request is that will set dues, and may do so only before go-live.
BeforeLock == {"put_term", "read_terms", "put_config", "read_fleet", "set_override", "price", "set_billing"}

ActiveIn(statuses) == {c \in DOMAIN statuses : statuses[c] = "ACTIVE"}

Sound(w, statuses, rows) ==
  /\ IsMemory(w)
  /\ w.paid \subseteq DOMAIN rows
  /\ w.at \in {"put_row", "set_schedule"} => w.paid = {}
  /\ w.at = "put_row" => w.next \in Nat
  /\ w.at = "put_payment" => w.next \notin w.paid
  /\ w.late => ActiveIn(statuses) # {}
  /\ w.at \in BeforeLock /\ w.late => w.kind \in {"sign", "heal"}

AccountFields == {"fleet", "override", "monthly", "start", "frequency"}

IInv ==
  /\ cycles \in Seq(Statuses)
  /\ account = [f \in AccountFields |-> account[f]]
  /\ work = [r \in Requests |-> work[r]]
  /\ \A r \in Requests : Sound(work[r], cycles, payments)

-----------------------------------------------------------------------------
(* Facts about the operators. *)

LEMMA LiveIsActive == LiveCycles = ActiveIn(cycles)
BY DEF LiveCycles, Live, Rows, Cycle, ActiveIn

\* Once a cycle is live the cycle in force is one (cycle_in_force).
LEMMA InForceIsLive ==
  ASSUME cycles \in Seq(Statuses), ActiveIn(cycles) # {}
  PROVE  cycles[InForce] = "ACTIVE"
<1>1. ActiveIn(cycles) \subseteq 1..Len(cycles) /\ Len(cycles) \in Nat
  BY DEF ActiveIn
<1>2. PICK m \in ActiveIn(cycles) : \A k \in ActiveIn(cycles) : k <= m
  BY <1>1, LastOne
<1>3. m \in DOMAIN cycles /\ IsCycleInForce(Rows, m)
  <2>1. Live(Rows) = ActiveIn(cycles)
    BY DEF Live, Rows, Cycle, ActiveIn
  <2>2. \A o \in ActiveIn(cycles) \ {m} : ~Later(Rows[o], Rows[m])
    BY <1>1, <1>2 DEF Later, Rows, Cycle, ActiveIn
  <2> QED
    BY <2>1, <2>2 DEF IsCycleInForce, IsLatest, ActiveIn
<1>4. InForce \in DOMAIN cycles /\ IsCycleInForce(Rows, InForce)
  BY <1>3, Zenon DEF InForce
<1> QED
  BY <1>4, LiveIsActive DEF IsCycleInForce, IsLatest, LiveCycles, ActiveIn

\* An idle request remembers nothing.
LEMMA IdleIsSound ==
  ASSUME NEW statuses, NEW rows
  PROVE  Sound(Idle, statuses, rows)
BY DEF Sound, Idle, IsMemory, Fields, BeforeLock

\* A live cycle stays live, and payments stay, so memories stay sound.
LEMMA SoundStays ==
  ASSUME NEW w, NEW statuses, NEW rows, NEW after, NEW later,
         Sound(w, statuses, rows), DOMAIN rows \subseteq DOMAIN later,
         ActiveIn(statuses) \subseteq ActiveIn(after)
  PROVE  Sound(w, after, later)
BY DEF Sound

-----------------------------------------------------------------------------
(* The ways a request moves. *)

\* What another one's step leaves of everybody's memory.
OthersStay(r) == \A o \in Requests \ {r} : work'[o] = work[o]

LEMMA Moves ==
  ASSUME IInv, NEW r \in Requests, NEW w, Goes(r, w)
  PROVE  /\ work' = [o \in Requests |-> work'[o]] /\ work'[r] = w /\ OthersStay(r)
BY DEF IInv, Goes, OthersStay

\* A request goes on, or is over.
LEMMA GoingOn ==
  ASSUME IInv, NEW r \in Requests, NEW w, Goes(r, w),
         cycles' \in Seq(Statuses), ActiveIn(cycles) \subseteq ActiveIn(cycles'),
         account' = [f \in AccountFields |-> account'[f]],
         DOMAIN payments \subseteq DOMAIN payments',
         Sound(w, cycles', payments')
  PROVE  IInv'
<1>1. work' = [o \in Requests |-> work'[o]] /\ work'[r] = w /\ OthersStay(r)
  BY Moves
<1>2. \A o \in Requests : Sound(work[o], cycles', payments')
  BY SoundStays DEF IInv
<1> QED
  BY <1>1, <1>2 DEF IInv, OthersStay

\* A request begins: what the others remember stays, but for their company.
LEMMA Beginning ==
  ASSUME IInv, NEW r \in Requests, NEW kind, NEW w, Begin(r, kind, w),
         cycles' \in Seq(Statuses), ActiveIn(cycles) = ActiveIn(cycles'),
         UNCHANGED <<account, payments>>,
         IsMemory(w), w.at \notin {"put_row", "set_schedule"},
         w.at = "put_payment" => w.next \in DOMAIN payments /\ ~payments[w.next].paid,
         w.at \in BeforeLock /\ ActiveIn(cycles) # {} => kind \in {"sign", "heal"}
  PROVE  IInv'
<1> DEFINE mine == work'[r]
<1>1. /\ IsMemory(mine) /\ mine.kind = kind /\ mine.at = w.at /\ mine.next = w.next
      /\ mine.late = (LiveCycles # {})
      /\ mine.paid = {i \in DOMAIN payments : payments[i].paid}
  BY DEF Begin, IsMemory, Fields
<1>2. Sound(mine, cycles', payments)
  BY <1>1, LiveIsActive DEF Sound
<1>3. ASSUME NEW o \in Requests \ {r}
      PROVE  /\ IsMemory(work'[o])
             /\ work'[o].at = work[o].at /\ work'[o].kind = work[o].kind
             /\ work'[o].late = work[o].late /\ work'[o].paid = work[o].paid
             /\ work'[o].next = work[o].next
  <2>1. IsMemory(work[o])
    BY DEF IInv, Sound
  <2> DEFINE b == (work[o] = Idle)
  <2>2. work'[o] = [work[o] EXCEPT !.alone = b] \/ work'[o] = work[o]
    BY DEF Begin
  <2> HIDE DEF b
  <2> QED
    BY <2>1, <2>2 DEF IsMemory, Fields
<1>4. \A o \in Requests \ {r} : Sound(work[o], cycles', payments)
  BY SoundStays DEF IInv
<1>5. \A o \in Requests \ {r} : Sound(work'[o], cycles', payments)
  BY <1>3, <1>4 DEF Sound
<1>6. work' = [o \in Requests |-> work'[o]]
  BY DEF Begin
<1> QED
  BY <1>2, <1>5, <1>6 DEF IInv

-----------------------------------------------------------------------------
(* Every step keeps the invariant. *)

\* What a request that goes on remembers of itself.
LEMMA Mine ==
  ASSUME IInv, NEW r \in Requests
  PROVE  /\ Sound(work[r], cycles, payments)
         /\ work[r] = [f \in Fields |-> work[r][f]]
BY DEF IInv, Sound, IsMemory

LEMMA Build ==
  ASSUME IInv, NEW r \in Requests,
         ReadTerms(r) \/ PutConfig(r) \/ ReadFleet(r) \/ SetBilling(r)
  PROVE  IInv'
<1>1. Sound(work[r], cycles, payments) /\ work[r] = [f \in Fields |-> work[r][f]]
  BY Mine
<1>2. CASE ReadTerms(r)
  <2> DEFINE w == [work[r] EXCEPT !.at = "put_config", !.config = ConfigOf(work[r].cycle)]
  <2>1. Goes(r, w) /\ UNCHANGED <<cycles, account, payments>>
    BY <1>2 DEF ReadTerms
  <2>2. Sound(w, cycles, payments)
    BY <1>1, <1>2 DEF ReadTerms, Sound, IsMemory, Fields, BeforeLock
  <2> HIDE DEF w
  <2> QED
    BY <2>1, <2>2, GoingOn DEF IInv
<1>3. CASE PutConfig(r)
  <2> DEFINE w == [work[r] EXCEPT !.at = "read_fleet"]
  <2>1. Goes(r, w) /\ UNCHANGED <<cycles, account, payments>>
    BY <1>3 DEF PutConfig
  <2>2. Sound(w, cycles, payments)
    BY <1>1, <1>3 DEF PutConfig, Sound, IsMemory, Fields, BeforeLock
  <2> HIDE DEF w
  <2> QED
    BY <2>1, <2>2, GoingOn DEF IInv
<1>4. CASE ReadFleet(r)
  <2> DEFINE w == [work[r] EXCEPT !.at = "set_billing", !.fleet = account.fleet,
                     !.monthly = MonthlyRecurring(work[r].config.items, account.fleet)]
  <2>1. Goes(r, w) /\ UNCHANGED <<cycles, account, payments>>
    BY <1>4 DEF ReadFleet
  <2>2. Sound(w, cycles, payments)
    BY <1>1, <1>4 DEF ReadFleet, Sound, IsMemory, Fields, BeforeLock
  <2> HIDE DEF w
  <2> QED
    BY <2>1, <2>2, GoingOn DEF IInv
<1>5. CASE SetBilling(r)
  <2>1. account' = [f \in AccountFields |-> account'[f]]
    BY <1>5 DEF SetBilling, IInv, AccountFields
  <2>2. UNCHANGED <<cycles, payments>>
    BY <1>5 DEF SetBilling
  <2>3. CASE work[r].kind \in {"sign", "heal"}
    <3> DEFINE w == [work[r] EXCEPT !.at = "list_payments"]
    <3>1. Goes(r, w)
      BY <1>5, <2>3 DEF SetBilling
    <3>2. Sound(w, cycles, payments)
      BY <1>1 DEF Sound, IsMemory, Fields, BeforeLock
    <3> HIDE DEF w
    <3> QED
      BY <2>1, <2>2, <3>1, <3>2, GoingOn DEF IInv
  <2>4. CASE work[r].kind \notin {"sign", "heal"}
    <3>1. Goes(r, Idle)
      BY <1>5, <2>4 DEF SetBilling, Ends
    <3> QED
      BY <2>1, <2>2, <3>1, IdleIsSound, GoingOn DEF IInv
  <2> QED
    BY <2>3, <2>4
<1> QED
  BY <1>2, <1>3, <1>4, <1>5

LEMMA Schedule ==
  ASSUME IInv, NEW r \in Requests,
         ListPayments(r) \/ PutRow(r) \/ SetSchedule(r) \/ BillingReady(r)
  PROVE  IInv'
<1>1. Sound(work[r], cycles, payments) /\ work[r] = [f \in Fields |-> work[r][f]]
  BY Mine
<1>2. CASE ListPayments(r)
  <2> DEFINE ready == [work[r] EXCEPT !.at = "ready"]
             fresh == [work[r] EXCEPT !.at = "put_row", !.next = 0,
               !.row = IF account.start # None THEN account.start ELSE work[r].config.generated]
  <2>1. UNCHANGED <<cycles, account, payments>>
    BY <1>2 DEF ListPayments
  <2>2. Sound(ready, cycles, payments)
    BY <1>1 DEF Sound, IsMemory, Fields, BeforeLock
  <2>3. DOMAIN payments = {} => Sound(fresh, cycles, payments)
    BY <1>1 DEF Sound, IsMemory, Fields, BeforeLock
  <2>4. \/ Goes(r, ready)
        \/ Goes(r, Idle)
        \/ DOMAIN payments = {} /\ Goes(r, fresh)
    BY <1>2, Zenon DEF ListPayments, Ends
  <2> HIDE DEF ready, fresh
  <2> QED
    BY <2>1, <2>2, <2>3, <2>4, IdleIsSound, GoingOn DEF IInv
<1>3. CASE PutRow(r)
  <2> DEFINE place == IF work[r].next + 1 = Instalments THEN "set_schedule" ELSE "put_row"
             w == [work[r] EXCEPT !.next = @ + 1, !.at = place]
  <2>1. Goes(r, w) /\ UNCHANGED <<cycles, account>>
    BY <1>3 DEF PutRow
  <2>2. DOMAIN payments \subseteq DOMAIN payments' /\ place \in {"set_schedule", "put_row"}
    BY <1>3 DEF PutRow
  <2> HIDE DEF place
  <2>3. Sound(w, cycles, payments)
    <3>1. work[r].next \in Nat /\ work[r].paid = {}
      BY <1>1, <1>3 DEF PutRow, Sound
    <3>2. /\ IsMemory(w) /\ w.at = place /\ w.next = work[r].next + 1
          /\ w.paid = work[r].paid /\ w.late = work[r].late
      BY <1>1 DEF IsMemory, Fields
    <3> HIDE DEF w
    <3> QED
      BY <1>1, <2>2, <3>1, <3>2 DEF Sound, BeforeLock
  <2> HIDE DEF w
  <2>4. Sound(w, cycles', payments')
    BY <2>1, <2>2, <2>3, SoundStays
  <2> QED
    BY <2>1, <2>2, <2>4, GoingOn DEF IInv
<1>4. CASE SetSchedule(r)
  <2> DEFINE ready == [work[r] EXCEPT !.at = "ready"]
  <2>1. UNCHANGED <<cycles, payments>> /\ account' = [f \in AccountFields |-> account'[f]]
    BY <1>4 DEF SetSchedule, IInv, AccountFields
  <2>2. Sound(ready, cycles, payments)
    BY <1>1 DEF Sound, IsMemory, Fields, BeforeLock
  <2>3. Goes(r, ready) \/ Goes(r, Idle)
    BY <1>4 DEF SetSchedule, Ends
  <2> HIDE DEF ready
  <2> QED
    BY <2>1, <2>2, <2>3, IdleIsSound, GoingOn DEF IInv
<1>5. CASE BillingReady(r)
  <2>1. Goes(r, Idle) /\ UNCHANGED <<account, payments>>
    BY <1>5 DEF BillingReady, Ends
  <2>2. cycles' \in Seq(Statuses) /\ ActiveIn(cycles) \subseteq ActiveIn(cycles')
    BY <1>5 DEF BillingReady, IInv, ActiveIn, Statuses
  <2> QED
    BY <2>1, <2>2, IdleIsSound, GoingOn DEF IInv
<1> QED
  BY <1>2, <1>3, <1>4, <1>5

LEMMA Fleet ==
  ASSUME IInv, NEW r \in Requests,
         PutTerm(r) \/ SetOverride(r) \/ Price(r) \/ Count(r) \/ Sync(r) \/ PutPayment(r)
  PROVE  IInv'
<1>1. Sound(work[r], cycles, payments) /\ work[r] = [f \in Fields |-> work[r][f]]
  BY Mine
<1>2. CASE PutTerm(r)
  <2> DEFINE w == [work[r] EXCEPT !.at = "read_terms", !.next = 0, !.row = None]
  <2>1. Goes(r, w) /\ UNCHANGED <<cycles, account, payments>>
    BY <1>2 DEF PutTerm
  <2>2. Sound(w, cycles, payments)
    BY <1>1, <1>2 DEF PutTerm, Sound, IsMemory, Fields, BeforeLock
  <2> HIDE DEF w
  <2> QED
    BY <2>1, <2>2, GoingOn DEF IInv
<1>3. CASE SetOverride(r)
  <2> DEFINE w == [work[r] EXCEPT !.at = "price"]
  <2>1. Goes(r, w) /\ UNCHANGED <<cycles, payments>>
    BY <1>3 DEF SetOverride
  <2>2. account' = [f \in AccountFields |-> account'[f]]
    BY <1>3 DEF SetOverride, IInv, AccountFields
  <2>3. Sound(w, cycles, payments)
    BY <1>1, <1>3 DEF SetOverride, Sound, IsMemory, Fields, BeforeLock
  <2> HIDE DEF w
  <2> QED
    BY <2>1, <2>2, <2>3, GoingOn DEF IInv
<1>4. CASE Price(r)
  <2>1. PICK config \in ReadableConfigs(work[r].cycle) :
          LET fleet == EffectiveFleet(assigned, work[r].row)
          IN  Goes(r, [work[r] EXCEPT !.at = "set_billing", !.fleet = fleet, !.row = None,
                 !.monthly = IF config = None THEN None ELSE MonthlyRecurring(config.items, fleet)])
    BY <1>4 DEF Price
  <2> DEFINE fleet == EffectiveFleet(assigned, work[r].row)
             w == [work[r] EXCEPT !.at = "set_billing", !.fleet = fleet, !.row = None,
                     !.monthly = IF config = None THEN None ELSE MonthlyRecurring(config.items, fleet)]
  <2>2. Goes(r, w) /\ UNCHANGED <<cycles, account, payments>>
    BY <2>1, <1>4 DEF Price
  <2>3. Sound(w, cycles, payments)
    BY <1>1, <1>4 DEF Price, Sound, IsMemory, Fields, BeforeLock
  <2> HIDE DEF w
  <2> QED
    BY <2>2, <2>3, GoingOn DEF IInv
<1>5. CASE Count(r)
  <2> DEFINE w == [work[r] EXCEPT !.at = "sync", !.next = assigned]
  <2>1. Goes(r, w) /\ UNCHANGED <<cycles, account, payments>>
    BY <1>5 DEF Count
  <2>2. Sound(w, cycles, payments)
    BY <1>1, <1>5 DEF Count, Sound, IsMemory, Fields, BeforeLock
  <2> HIDE DEF w
  <2> QED
    BY <2>1, <2>2, GoingOn DEF IInv
<1>6. CASE Sync(r)
  <2>1. UNCHANGED <<cycles, account, payments>>
    BY <1>6 DEF Sync
  <2>2. CASE IsLocked(cycles[InForce])
    <3>1. Goes(r, Idle)
      BY <1>6, <2>2 DEF Sync, Ends
    <3> QED
      BY <2>1, <3>1, IdleIsSound, GoingOn DEF IInv
  <2>3. CASE ~IsLocked(cycles[InForce])
    <3>1. ActiveIn(cycles) = {}
      BY <2>3, InForceIsLive DEF IInv, IsLocked
    <3>2. PICK config \in ReadableConfigs(InForce) :
            LET fleet == FleetFor(work[r].next)
            IN  Goes(r, [work[r] EXCEPT !.at = "set_billing", !.fleet = fleet, !.next = 0,
                   !.alone = @ /\ (config = configs[InForce]),
                   !.monthly = IF config = None THEN account.monthly
                               ELSE MonthlyRecurring(config.items, fleet)])
      BY <1>6, <2>3, Zenon DEF Sync
    <3> DEFINE fleet == FleetFor(work[r].next)
               mine  == config = configs[InForce]
               w == [work[r] EXCEPT !.at = "set_billing", !.fleet = fleet, !.next = 0,
                       !.alone = @ /\ mine,
                       !.monthly = IF config = None THEN account.monthly
                                   ELSE MonthlyRecurring(config.items, fleet)]
    <3>3. Goes(r, w)
      BY <3>2
    <3> HIDE DEF mine
    <3>4. Sound(w, cycles, payments)
      BY <1>1, <3>1 DEF Sound, IsMemory, Fields, BeforeLock
    <3> HIDE DEF w
    <3> QED
      BY <2>1, <3>3, <3>4, GoingOn DEF IInv
  <2> QED
    BY <2>2, <2>3
<1>7. CASE PutPayment(r)
  <2>1. Goes(r, Idle) /\ UNCHANGED <<cycles, account>> /\ DOMAIN payments \subseteq DOMAIN payments'
    BY <1>7 DEF PutPayment, Ends
  <2> QED
    BY <2>1, IdleIsSound, GoingOn DEF IInv
<1> QED
  BY <1>2, <1>3, <1>4, <1>5, <1>6, <1>7

\* A request arrives.
LEMMA Arriving ==
  ASSUME IInv, NEW r \in Requests, Arrives(r)
  PROVE  IInv'
<1>2. ASSUME NEW c \in DOMAIN cycles, Sign(r, c)
      PROVE  IInv'
  <2> DEFINE w == [Idle EXCEPT !.at = "read_terms", !.cycle = c]
  <2>1. Begin(r, "sign", w) /\ UNCHANGED <<account, payments>>
    BY <1>2 DEF Sign
  <2>2. cycles' \in Seq(Statuses) /\ ActiveIn(cycles) = ActiveIn(cycles')
    BY <1>2 DEF Sign, IInv, ActiveIn, Statuses
  <2>3. IsMemory(w) /\ w.at = "read_terms"
    BY DEF IsMemory, Idle, Fields
  <2> HIDE DEF w
  <2> QED
    BY <2>1, <2>2, <2>3, Beginning
<1>3. ASSUME NEW c \in DOMAIN cycles, ViewBilling(r, c)
      PROVE  IInv'
  <2> DEFINE seen  == [Idle EXCEPT !.cycle = c, !.config = configs[c]]
             dues  == MonthlyRecurring(configs[c].items, account.fleet)
             fleet == account.fleet
             heals == [seen EXCEPT !.at = "set_billing", !.fleet = fleet, !.monthly = dues]
             views == [seen EXCEPT !.at = "list_payments"]
  <2>1. Begin(r, "heal", heals) \/ Begin(r, "view", views)
    BY <1>3, Zenon DEF ViewBilling
  <2>2. UNCHANGED <<cycles, account, payments>> /\ cycles' \in Seq(Statuses)
    BY <1>3 DEF ViewBilling, IInv
  <2> HIDE DEF dues, fleet
  <2>3. /\ IsMemory(heals) /\ heals.at = "set_billing"
        /\ IsMemory(views) /\ views.at = "list_payments"
    BY DEF IsMemory, Idle, Fields
  <2> HIDE DEF heals, views
  <2> QED
    BY <2>1, <2>2, <2>3, Beginning DEF BeforeLock
<1>4. ASSUME NEW line \in Lines, NEW correction \in Corrections, Correct(r, line, correction)
      PROVE  IInv'
  <2> DEFINE row == [terms[InForce].lines[line] EXCEPT !.override = Joins(@, correction)]
             w == [Idle EXCEPT !.at = "put_term", !.cycle = InForce, !.next = line, !.row = row]
  <2>1. Begin(r, "correct", w) /\ UNCHANGED <<cycles, account, payments>> /\ cycles' \in Seq(Statuses)
    BY <1>4 DEF Correct, IInv
  <2>2. ActiveIn(cycles) = {}
    BY <1>4, InForceIsLive DEF Correct, IInv
  <2> HIDE DEF row
  <2>3. IsMemory(w) /\ w.at = "put_term"
    BY DEF IsMemory, Idle, Fields
  <2> HIDE DEF w
  <2> QED
    BY <2>1, <2>2, <2>3, Beginning
<1>5. ASSUME NEW override \in Overrides, SetFleet(r, override)
      PROVE  IInv'
  <2> DEFINE w == [Idle EXCEPT !.at = "set_override", !.cycle = InForce, !.row = override]
  <2>1. Begin(r, "fleet", w) /\ UNCHANGED <<cycles, account, payments>> /\ cycles' \in Seq(Statuses)
    BY <1>5 DEF SetFleet, IInv
  <2>2. ActiveIn(cycles) = {}
    BY <1>5, InForceIsLive DEF SetFleet, IInv, IsLocked
  <2>3. IsMemory(w) /\ w.at = "set_override"
    BY DEF IsMemory, Idle, Fields
  <2> HIDE DEF w
  <2> QED
    BY <2>1, <2>2, <2>3, Beginning
<1>6. ASSUME NEW n \in 0..MaxVehicles, MoveVehicle(r, n)
      PROVE  IInv'
  <2> DEFINE w == [Idle EXCEPT !.at = "count"]
  <2>1. Begin(r, "vehicle", w) /\ UNCHANGED <<cycles, account, payments>> /\ cycles' \in Seq(Statuses)
    BY <1>6 DEF MoveVehicle, IInv
  <2>2. IsMemory(w) /\ w.at = "count"
    BY DEF IsMemory, Idle, Fields
  <2> HIDE DEF w
  <2> QED
    BY <2>1, <2>2, Beginning DEF BeforeLock
<1>7. ASSUME NEW i \in DOMAIN payments, Pay(r, i)
      PROVE  IInv'
  <2> DEFINE due == AmountDue
             row == [payments[i] EXCEPT !.paid = TRUE, !.amount = due]
             w == [Idle EXCEPT !.at = "put_payment", !.next = i, !.row = row]
  <2>1. Begin(r, "pay", w) /\ UNCHANGED <<cycles, account, payments>> /\ cycles' \in Seq(Statuses)
    BY <1>7 DEF Pay, IInv
  <2> HIDE DEF row
  <2>2. IsMemory(w) /\ w.at = "put_payment" /\ w.next = i
    BY DEF IsMemory, Idle, Fields
  <2>3. ~payments[i].paid
    BY <1>7 DEF Pay
  <2> HIDE DEF w
  <2> QED
    BY <2>1, <2>2, <2>3, Beginning DEF BeforeLock
<1> QED
  BY <1>2, <1>3, <1>4, <1>5, <1>6, <1>7, Zenon DEF Arrives

\* Nobody moves: the cycles do, or time.
LEMMA NobodyMoves ==
  ASSUME IInv, UNCHANGED <<account, payments, work>>,
         cycles' \in Seq(Statuses), ActiveIn(cycles) \subseteq ActiveIn(cycles')
  PROVE  IInv'
<1>1. \A r \in Requests : Sound(work[r], cycles', payments')
  BY SoundStays DEF IInv
<1> QED
  BY <1>1 DEF IInv

LEMMA InductiveStep ==
  ASSUME IInv, [Next]_vars
  PROVE  IInv'
<1>1. ASSUME NEW r \in Requests, Dies(r)
      PROVE  IInv'
  <2>1. Goes(r, Idle) /\ UNCHANGED <<cycles, account, payments>>
    BY <1>1 DEF Dies, Ends
  <2> QED
    BY <2>1, IdleIsSound, GoingOn DEF IInv
<1>2. ASSUME NEW r \in Requests, Continues(r)
      PROVE  IInv'
  BY <1>2, Build, Schedule, Fleet, Zenon DEF Continues
<1>3. ASSUME NEW c \in DOMAIN cycles, ApproveBilling(c)
      PROVE  IInv'
  <2>1. cycles' \in Seq(Statuses) /\ ActiveIn(cycles) \subseteq ActiveIn(cycles')
    BY <1>3 DEF ApproveBilling, IInv, ActiveIn, Statuses
  <2> QED
    BY <1>3, <2>1, NobodyMoves DEF ApproveBilling
<1>4. ASSUME NEW reading, Amend(reading)
      PROVE  IInv'
  <2>1. cycles' \in Seq(Statuses) /\ ActiveIn(cycles) \subseteq ActiveIn(cycles')
    BY <1>4 DEF Amend, IInv, ActiveIn, Statuses
  <2> QED
    BY <1>4, <2>1, NobodyMoves DEF Amend
<1>5. CASE DayPasses
  BY <1>5, NobodyMoves DEF DayPasses, IInv
<1>6. CASE UNCHANGED vars
  BY <1>6, NobodyMoves DEF vars, IInv
<1> QED
  BY <1>1, <1>2, <1>3, <1>4, <1>5, <1>6, Arriving, Zenon DEF Next

LEMMA Beginnings == Init => IInv
<1> SUFFICES ASSUME Init PROVE IInv
  OBVIOUS
<1>1. cycles \in Seq(Statuses) /\ account = [f \in AccountFields |-> account[f]]
  BY DEF Init, Statuses, AccountFields
<1>2. \A r \in Requests : work[r] = Idle
  BY DEF Init
<1>3. \A r \in Requests : Sound(work[r], cycles, payments)
  BY <1>2, IdleIsSound
<1> QED
  BY <1>1, <1>2, <1>3 DEF IInv, Init

\* What every request remembers still holds, whatever the others did and
\* whoever died (ensure_schedule, pay, is_locked).
THEOREM Invariance == Spec => []IInv
<1>1. IInv /\ [Next]_vars => IInv'
  BY InductiveStep
<1> QED
  BY Beginnings, <1>1, PTL DEF Spec

-----------------------------------------------------------------------------
(* The properties. *)

\* A recorded payment is changed only by a request that looked at the schedule
\* before it was recorded (pay, ensure_schedule).
THEOREM PaymentsStay == Spec => PaymentsAreKept
<1> DEFINE Kept == \A i \in DOMAIN payments :
      payments[i].paid /\ payments'[i] # payments[i] =>
        \E r \in Requests : work'[r] # work[r] /\ i \notin work[r].paid
<1>1. ASSUME IInv, [Next]_vars
      PROVE  Kept
  <2> SUFFICES ASSUME NEW i \in DOMAIN payments, payments[i].paid, payments'[i] # payments[i]
               PROVE  \E r \in Requests : work'[r] # work[r] /\ i \notin work[r].paid
    OBVIOUS
  <2>1. PICK r \in Requests : PutRow(r) \/ PutPayment(r)
    <3>1. payments' # payments
      OBVIOUS
    <3> QED
      BY <1>1, <3>1, Zenon DEF Next, Arrives, Continues, vars, Sign, ViewBilling, Correct, SetFleet,
         MoveVehicle, Pay, ReadTerms, PutConfig, ReadFleet, SetBilling, ListPayments, SetSchedule,
         BillingReady, PutTerm, SetOverride, Price, Count, Sync, ApproveBilling, Amend, DayPasses, Dies
  <2>2. /\ Sound(work[r], cycles, payments) /\ work[r] = [f \in Fields |-> work[r][f]]
        /\ work = [o \in Requests |-> work[o]]
    BY <1>1, Mine DEF IInv
  <2>3. CASE PutRow(r)
    <3>1. work[r].paid = {} /\ work[r].next \in Nat
      BY <2>2, <2>3 DEF PutRow, Sound
    <3>2. work'[r].next = work[r].next + 1
      BY <2>2, <2>3 DEF PutRow, Goes, Fields
    <3> QED
      BY <3>1, <3>2
  <2>4. CASE PutPayment(r)
    <3>1. i = work[r].next /\ work[r].at = "put_payment"
      BY <2>4 DEF PutPayment
    <3>2. work'[r].at = "idle"
      BY <2>2, <2>4 DEF PutPayment, Ends, Goes, Idle
    <3> QED
      BY <2>2, <3>1, <3>2 DEF Sound
  <2> QED
    BY <2>1, <2>3, <2>4
<1>2. IInv /\ [Next]_vars => [Kept]_vars
  BY <1>1
<1> QED
  BY Invariance, <1>2, PTL DEF Spec, PaymentsAreKept

\* Once billing is live, fleet and dues change only with a signature, by a
\* reader that found them unknown, or by a request that began before (is_locked).
THEOREM TheLockHolds == Spec => LockedDuesDoNotMove
<1> DEFINE Held == LiveCycles # {} /\ <<account.fleet, account.monthly>>' # <<account.fleet, account.monthly>>
      => \E r \in Requests :
           work'[r] # work[r] /\ (work[r].kind \in {"sign", "heal"} \/ ~work[r].late)
<1>1. ASSUME IInv, [Next]_vars
      PROVE  Held
  <2> SUFFICES ASSUME account'.fleet # account.fleet \/ account'.monthly # account.monthly
               PROVE  \E r \in Requests :
                        work'[r] # work[r] /\ (work[r].kind \in {"sign", "heal"} \/ ~work[r].late)
    OBVIOUS
  <2>1. account = [f \in AccountFields |-> account[f]] /\ account' # account
    BY <1>1 DEF IInv
  <2>2. PICK r \in Requests : SetBilling(r) \/ SetSchedule(r) \/ SetOverride(r)
    BY <1>1, <2>1, Zenon DEF Next, Arrives, Continues, vars, Sign, ViewBilling, Correct, SetFleet,
       MoveVehicle, Pay, ReadTerms, PutConfig, ReadFleet, PutRow, ListPayments, PutPayment,
       BillingReady, PutTerm, Price, Count, Sync, ApproveBilling, Amend, DayPasses, Dies
  <2>3. ~SetSchedule(r) /\ ~SetOverride(r)
    BY <2>1 DEF SetSchedule, SetOverride, AccountFields
  <2>4. SetBilling(r)
    BY <2>2, <2>3
  <2>5. /\ Sound(work[r], cycles, payments) /\ work[r] = [f \in Fields |-> work[r][f]]
        /\ work = [o \in Requests |-> work[o]] /\ work[r].at = "set_billing"
    BY <1>1, <2>4, Mine DEF IInv, SetBilling
  <2>6. work'[r].at # "set_billing"
    <3>1. CASE work[r].kind \in {"sign", "heal"}
      BY <2>4, <2>5, <3>1 DEF SetBilling, Goes, Fields
    <3>2. CASE work[r].kind \notin {"sign", "heal"}
      BY <2>4, <2>5, <3>2 DEF SetBilling, Goes, Ends, Idle
    <3> QED
      BY <3>1, <3>2
  <2> QED
    BY <2>5, <2>6, Zenon DEF Sound, BeforeLock
<1>2. IInv /\ [Next]_vars => [Held]_vars
  BY <1>1
<1> QED
  BY Invariance, <1>2, PTL DEF Spec, LockedDuesDoNotMove

-----------------------------------------------------------------------------
(* The calendar (billing/schedule.py): the due dates of every schedule, for *)
(* any start and cadence, and the end of any contract.                      *)

\* The dates there are.
Dates ==
  {d \in [year : Nat, month : 1..12, day : 1..31] : d.day <= DaysIn(d.year, d.month)}

\* Months since the year 0: what AddMonths counts.
MonthOf(d) == 12 * d.year + d.month

LEMMA MonthsHaveDays ==
  ASSUME NEW y \in Nat, NEW m \in 1..12
  PROVE  DaysIn(y, m) \in 28..31
BY DEF DaysIn

\* A month is one of a year's twelve, however many are counted.
LEMMA TwelveMonths ==
  ASSUME NEW n \in Nat
  PROVE  n \div 12 \in Nat /\ n % 12 \in 0..11 /\ n = 12 * (n \div 12) + (n % 12)
OBVIOUS

\* _add_months lands on a date there is, exactly so many months later, on the
\* day it left or the last one of the month.
LEMMA MonthsAreAdded ==
  ASSUME NEW d \in Dates, NEW n \in Nat
  PROVE  LET e == AddMonths(d, n)
         IN  /\ e \in Dates
             /\ MonthOf(e) = MonthOf(d) + n
             /\ e.day = d.day \/ (e.day < d.day /\ e.day = DaysIn(e.year, e.month))
<1> DEFINE total == d.month - 1 + n
           year == d.year + total \div 12
           month == (total % 12) + 1
           day == AtMost(DaysIn(year, month), d.day)
<1>1. d.year \in Nat /\ d.month \in 1..12 /\ d.day \in 1..31 /\ total \in Nat
  BY DEF Dates
<1>2. year \in Nat /\ month \in 1..12 /\ 12 * year + month = 12 * d.year + d.month + n
  <2>1. PICK q \in Nat, m \in 0..11 :
          q = total \div 12 /\ m = total % 12 /\ total = 12 * q + m
    BY <1>1, TwelveMonths
  <2>2. year = d.year + q /\ month = m + 1
    BY <2>1
  <2>3. d.month - 1 + n = 12 * q + m
    BY <2>1
  <2> HIDE DEF year, month
  <2>4. year \in Nat /\ month \in 1..12
    BY <1>1, <2>2
  <2>5. 12 * (d.year + q) + (m + 1) = 12 * d.year + d.month + n
    BY <1>1, <2>3
  <2> QED
    BY <2>2, <2>4, <2>5
<1>3. DaysIn(year, month) \in 28..31
  BY <1>2, MonthsHaveDays
<1>4. /\ day \in 1..31 /\ day <= DaysIn(year, month)
      /\ day = d.day \/ (day < d.day /\ day = DaysIn(year, month))
  <2>1. \A high \in 28..31, low \in 1..31 :
          LET clamped == AtMost(high, low)
          IN  /\ clamped \in 1..31 /\ clamped <= high
              /\ clamped = low \/ (clamped < low /\ clamped = high)
    BY DEF AtMost
  <2> QED
    BY <1>1, <1>3, <2>1
<1>5. AddMonths(d, n) = Date(year, month, day)
  BY DEF AddMonths
<1> HIDE DEF year, month, day
<1> QED
  BY <1>2, <1>4, <1>5 DEF Date, Dates, MonthOf

\* Dates are in the order of their ordinals: a later month is later.
LEMMA LaterMonthIsLater ==
  ASSUME NEW d \in Dates, NEW e \in Dates, MonthOf(d) < MonthOf(e)
  PROVE  Ordinal(d) < Ordinal(e)
<1>1. /\ d.year \in Nat /\ d.month \in 1..12 /\ d.day \in 1..31
      /\ e.year \in Nat /\ e.month \in 1..12 /\ e.day \in 1..31
  BY DEF Dates
<1>2. \A m, n \in Nat, a, b \in 1..31 : m < n => m * 31 + a < n * 31 + b
  OBVIOUS
<1>3. d.year * 12 + d.month \in Nat /\ e.year * 12 + e.month \in Nat
      /\ d.year * 12 + d.month < e.year * 12 + e.month
  BY <1>1 DEF MonthOf
<1> QED
  BY <1>1, <1>2, <1>3 DEF Ordinal

\* Every row of every schedule is due on a date there is, later than all rows
\* before it, whatever days were clamped on the way (generate_rows).
THEOREM DueDatesAdvance ==
  ASSUME NEW start \in Dates, NEW frequency \in DOMAIN Cadence,
         NEW i \in DOMAIN GenerateRows(start, frequency),
         NEW j \in DOMAIN GenerateRows(start, frequency), i < j
  PROVE  LET rows == GenerateRows(start, frequency)
         IN  /\ rows[i] \in Dates /\ rows[j] \in Dates
             /\ Ordinal(rows[i]) < Ordinal(rows[j])
<1> DEFINE months == Cadence[frequency].months
<1>1. months \in {1, 3, 12} /\ i \in Nat /\ j \in Nat
  BY DEF Cadence, GenerateRows
<1>2. i * months \in Nat /\ j * months \in Nat /\ i * months < j * months
  BY <1>1
<1>3. /\ AddMonths(start, i * months) \in Dates /\ AddMonths(start, j * months) \in Dates
      /\ MonthOf(AddMonths(start, i * months)) = MonthOf(start) + i * months
      /\ MonthOf(AddMonths(start, j * months)) = MonthOf(start) + j * months
  BY <1>2, MonthsAreAdded
<1>4. MonthOf(start) \in Nat
  BY DEF Dates, MonthOf
<1>5. Ordinal(AddMonths(start, i * months)) < Ordinal(AddMonths(start, j * months))
  BY <1>2, <1>3, <1>4, LaterMonthIsLater
<1> QED
  BY <1>3, <1>5 DEF GenerateRows, DueDate

\* A contract whose end is derived ends on a date there is, after its start
\* (set_contract_term).
THEOREM ContractsEndAfterTheyStart ==
  ASSUME NEW start \in Dates, start # None, NEW months \in Nat \ {0}, months # None
  PROVE  LET end == ContractEnd(None, start, months)
         IN  end \in Dates /\ Ordinal(start) < Ordinal(end)
<1>1. ContractEnd(None, start, months) = AddMonths(start, months)
  BY DEF ContractEnd
<1>2. /\ AddMonths(start, months) \in Dates
      /\ MonthOf(AddMonths(start, months)) = MonthOf(start) + months
  BY MonthsAreAdded
<1>3. MonthOf(start) \in Nat
  BY DEF Dates, MonthOf
<1> QED
  BY <1>1, <1>2, <1>3, LaterMonthIsLater

-----------------------------------------------------------------------------
(* What a request holds, by where it is: w is its memory, ts the terms and *)
(* ps the payments.                                                        *)

\* Everybody who works on a cycle, and everybody who holds its configuration.
OnCycle(w) == w.at # "idle" /\ w.kind \in {"sign", "correct", "heal", "view", "fleet"}
Holds(w) ==
  \/ w.at \in {"put_config", "read_fleet", "list_payments", "put_row", "set_schedule"}
  \/ w.at = "set_billing" /\ w.kind \in {"sign", "correct", "heal"}

Stored(w) == Holds(w) /\ w.at # "put_config"
Generates(w) == w.at \in {"put_row", "set_schedule"}

\* Who may be where.
Placed(w) ==
  /\ w.at \in {"read_terms", "put_config", "read_fleet"} => w.kind \in {"sign", "correct"}
  /\ w.at = "set_billing" => w.kind \in DuesKinds
  /\ w.at = "list_payments" \/ Generates(w) => w.kind \in {"sign", "heal", "view"}
  /\ w.at = "ready" => w.kind = "sign"
  /\ w.at = "put_term" => w.kind = "correct"
  /\ w.at \in {"set_override", "price"} => w.kind = "fleet"
  /\ w.at \in {"count", "sync"} => w.kind = "vehicle"
  /\ w.at = "put_payment" => w.kind = "pay"

PaymentRows == [due : Nat, paid : BOOLEAN, amount : Amounts]

Typed(w, ts, ps) ==
  /\ w.kind \in Kinds \cup {None}
  /\ w.alone \in BOOLEAN
  /\ OnCycle(w) => w.cycle \in DOMAIN ts
  /\ Holds(w) => w.config \in Configs /\ w.config.frequency = ts[w.cycle].frequency
  /\ w.at = "put_term" => w.row \in PricingRows /\ w.next \in DOMAIN ts[w.cycle].lines
  /\ w.at \in {"set_override", "price"} => w.row \in Overrides
  /\ w.at = "sync" => w.next \in 0..MaxVehicles
  /\ w.at = "set_billing" => w.fleet \in Fleets /\ w.monthly \in Amounts
  /\ w.at = "put_row" => w.next \in Sequence
  /\ Generates(w) => w.row \in Nat
  /\ w.at = "put_payment" =>
       /\ w.next \in DOMAIN ps /\ w.row \in PaymentRows
       /\ w.row.paid /\ w.row.amount # None

Terms == [lines : Pricings, frequency : Frequencies]
Account ==
  [fleet : Fleets, override : Overrides, monthly : Amounts, start : Amounts,
   frequency : DOMAIN Cadence]
Settled == [config : BOOLEAN, dues : BOOLEAN, fleet : BOOLEAN, schedule : BOOLEAN]

Paid(row) == row.paid <=> row.amount # None

RowsOK ==
  /\ cycles \in Seq(Statuses) /\ Len(cycles) > 0
  /\ terms \in Seq(Terms) /\ Len(terms) = Len(cycles)
  /\ configs \in Seq(Configs \cup {None}) /\ Len(configs) = Len(cycles)
  /\ \A c \in DOMAIN configs : configs[c] # None => configs[c].frequency = terms[c].frequency
  /\ account \in Account
  /\ payments \in [DOMAIN payments -> PaymentRows] /\ DOMAIN payments \subseteq Sequence
  /\ \A i \in DOMAIN payments : Paid(payments[i])
  /\ assigned \in 0..MaxVehicles /\ today \in 0..Horizon
  /\ settled \in Settled

TypeInv ==
  /\ IInv
  /\ RowsOK
  /\ \A r \in Requests : Placed(work[r]) /\ Typed(work[r], terms, payments)

-----------------------------------------------------------------------------
(* Requests and cycles: ss are the statuses of the cycles and cs their     *)
(* configurations.                                                         *)

Audited == {"PENDING_BILLING_AUDIT", "ACTIVE"}
Signs(w) == w.at # "idle" /\ w.kind = "sign"

Bound(w, ss, cs) ==
  /\ Signs(w) => ss[w.cycle] = "BILLING_SETUP"
  /\ Signs(w) /\ w.at \in {"read_terms", "put_config"} => cs[w.cycle] = None
  /\ w.at # "idle" /\ w.kind = "correct" => ss[w.cycle] \in Audited
  /\ Stored(w) \/ w.at = "ready" => cs[w.cycle] # None
  /\ w.at = "set_billing" /\ w.monthly # None => cs[1] # None

OneAtATime(ss) == \A c \in DOMAIN ss : c < Len(ss) => ss[c] = "ACTIVE"

CyclesOK ==
  /\ OneAtATime(cycles)
  /\ \A c \in DOMAIN cycles :
       /\ cycles[c] = "PENDING_CLIENT_APPROVAL" => configs[c] = None
       /\ cycles[c] \in Audited => configs[c] # None
  /\ account.monthly # None => configs[1] # None

CycleInv ==
  /\ CyclesOK
  /\ \A r \in Requests : Bound(work[r], cycles, configs)
  /\ \A r, o \in Requests :
       r # o /\ Signs(work[r]) /\ Signs(work[o]) => work[r].cycle # work[o].cycle

-----------------------------------------------------------------------------
(* The schedule.                                                           *)

DatedFrom(start, ps) == \A i \in DOMAIN ps : ps[i].due = start + i

Plans(w, ps) ==
  /\ w.at = "ready" => DOMAIN ps # {}
  /\ Generates(w) => w.cycle = 1 /\ DatedFrom(w.row, ps)
  /\ w.at = "put_row" => 0..w.next - 1 \subseteq DOMAIN ps
  /\ w.at = "set_schedule" => DOMAIN ps = Sequence
  /\ w.at = "put_payment" => w.row.due = ps[w.next].due

\* Before there are rows everybody holds the first configuration there was.
First(w, config) ==
  /\ Stored(w) => w.cycle = 1 /\ w.config = config
  /\ Generates(w) => w.row = config.generated

\* Half-way: some rows are there and more are to come.
HalfWay(w) ==
  \/ w.at = "set_schedule"
  \/ w.at = "put_row" /\ w.next > 0

PlanOK ==
  /\ cycles[1] \in Audited => DOMAIN payments # {}
  /\ DOMAIN payments = {} => account.start = None
  /\ account.start # None =>
       /\ DOMAIN payments = Sequence /\ DatedFrom(account.start, payments)
       /\ account.frequency = NormalizeFrequency(terms[1].frequency)
       /\ configs[1] # None

ScheduleInv ==
  /\ PlanOK
  /\ \A r \in Requests : Plans(work[r], payments)
  /\ \A r, o \in Requests :
       Generates(work[r]) /\ Generates(work[o]) => work[r].row = work[o].row
  /\ DOMAIN payments = {} => \A r \in Requests : First(work[r], configs[1])
  /\ settled.schedule /\ DOMAIN payments # {} =>
       account.start # None \/ \E r \in Requests : HalfWay(work[r])

-----------------------------------------------------------------------------
(* Dues, fleet and configuration.                                          *)

Works(w) == w.at # "idle" /\ w.kind \in DuesKinds

\* What a request has left half-way when it is there: the configuration, the
\* dues, the fleet.
Reprices(w) == w.at \in {"read_terms", "put_config"}
Redues(w) ==
  \/ Reprices(w) \/ w.at = "read_fleet"
  \/ w.at = "set_billing" /\ w.kind \in {"sign", "correct"}
Refleets(w) == w.kind = "fleet" /\ w.at \in {"price", "set_billing"}

\* The dues of the last signed cycle, for a fleet.
Dues(monthly, fleet) ==
  \/ monthly = None /\ LastSigned <= 1
  \/ /\ LastSigned > 0 /\ configs[LastSigned] # None
     /\ monthly = MonthlyRecurring(configs[LastSigned].items, fleet)

\* What a request without company knows.
Knows(w) ==
  /\ w.kind \in {"sign", "correct"} => w.cycle = LastSigned
  /\ w.at = "put_config" => w.config.items = FeeItems(terms[w.cycle].lines)
  /\ w.at = "read_fleet" => configs[w.cycle] = w.config
  /\ w.kind = "fleet" => LastSigned <= 1
  /\ w.at = "price" => w.row = account.override
  /\ w.at = "sync" => w.next = assigned
  /\ w.at = "set_billing" =>
       /\ (w.kind = "heal" => settled.dues) => Dues(w.monthly, w.fleet)
       /\ w.fleet = IF w.kind \in {"fleet", "vehicle"}
                    THEN EffectiveFleet(assigned, account.override) ELSE account.fleet

\* What holds when nobody has left it half-way.
ConfigHolds ==
  LastSigned > 0 /\ configs[LastSigned] # None =>
    configs[LastSigned].items = FeeItems(terms[LastSigned].lines)
DuesHold == Dues(account.monthly, account.fleet)
FleetHolds ==
  ActiveIn(cycles) = {} => account.fleet = EffectiveFleet(assigned, account.override)

AloneInv ==
  /\ \A r, o \in Requests : r # o /\ Works(work[r]) /\ Works(work[o]) => ~work[r].alone
  /\ \A r \in Requests : Works(work[r]) /\ work[r].alone => Knows(work[r])
  /\ settled.config /\ (\A r \in Requests : ~Reprices(work[r])) => ConfigHolds
  /\ settled.dues /\ (\A r \in Requests : ~Redues(work[r])) => DuesHold
  /\ settled.fleet /\ (\A r \in Requests : ~Refleets(work[r])) => FleetHolds

-----------------------------------------------------------------------------
(* Facts about the constants and the operators. *)

LEMMA FleetsAreNumbers == Fleets \subseteq Nat
BY OverridesAreSizes, BillingBounds DEF Fleets, EffectiveFleet, AtLeast

LEMMA FleetIsOne ==
  ASSUME NEW n \in 0..MaxVehicles, NEW o \in Overrides
  PROVE  EffectiveFleet(n, o) \in Fleets
BY DEF Fleets

\* The dues of a configuration are an amount (compute_monthly_recurring).
LEMMA DuesAreAmounts ==
  ASSUME NEW config \in Configs, NEW fleet \in Fleets
  PROVE  /\ MonthlyRecurring(config.items, fleet) \in Amounts
         /\ MonthlyRecurring(config.items, fleet) # None
<1>1. PICK lines \in Pricings : config.items = FeeItems(lines)
  BY DEF Configs
<1>2. MonthlyRecurring(FeeItems(lines), fleet) \in Nat
  BY DuesAreNumbers
<1> QED
  BY <1>1, <1>2, DuesAreNumbers DEF Amounts

\* What was corrected before and what is asked for make an override.
LEMMA JoinsIsOne ==
  ASSUME NEW override \in Overridings, NEW correction \in Corrections
  PROVE  Joins(override, correction) \in Overridings
BY DEF Overridings, Joins

\* A row as read holds no override yet, and any it is given.
LEMMA RowsTakeOverrides ==
  ASSUME NEW read \in RowsRead, NEW other
  PROVE  /\ read.override = NoOverride
         /\ [read EXCEPT !.override = other].override = other
<1>1. read = [amount |-> read.amount, tiers |-> read.tiers, rated |-> read.rated,
              wording |-> read.wording, override |-> NoOverride]
  BY ReadingsPriceLines DEF PricingTerm
<1>2. "override" \in DOMAIN read
  BY <1>1
<1> QED
  BY <1>1, <1>2

\* A row as read is a row.
LEMMA ReadIsRow ==
  ASSUME NEW read \in RowsRead
  PROVE  read \in PricingRows
<1>1. read.override = NoOverride
  BY RowsTakeOverrides
<1>2. NoOverride \in Overridings
  BY DEF NoOverride, Overridings
<1>3. [read EXCEPT !.override = NoOverride] = read
  <2>1. read = [amount |-> read.amount, tiers |-> read.tiers, rated |-> read.rated,
                wording |-> read.wording, override |-> NoOverride]
    BY ReadingsPriceLines DEF PricingTerm
  <2> HIDE DEF NoOverride
  <2>2. read = [f \in DOMAIN read |-> read[f]]
    BY <2>1
  <2> QED
    BY <1>1, <2>2
<1> QED
  BY <1>2, <1>3 DEF PricingRows

\* A row that is corrected again is a row corrected once.
LEMMA CorrectedRow ==
  ASSUME NEW row \in PricingRows, NEW correction \in Corrections
  PROVE  [row EXCEPT !.override = Joins(@, correction)] \in PricingRows
<1>1. PICK read \in RowsRead, other \in Overridings : row = [read EXCEPT !.override = other]
  BY DEF PricingRows
<1>2. row.override = other
  BY <1>1, RowsTakeOverrides
<1> DEFINE joined == Joins(other, correction)
<1>3. joined \in Overridings
  BY JoinsIsOne
<1> HIDE DEF joined
<1>4. [row EXCEPT !.override = joined] = [read EXCEPT !.override = joined]
  BY <1>1
<1>5. [row EXCEPT !.override = joined] \in PricingRows
  BY <1>3, <1>4 DEF PricingRows
<1> QED
  BY <1>2, <1>5 DEF joined

LEMMA CorrectedLines ==
  ASSUME NEW lines \in Pricings, NEW id \in DOMAIN lines, NEW row \in PricingRows
  PROVE  /\ [lines EXCEPT ![id] = row] \in Pricings
         /\ DOMAIN [lines EXCEPT ![id] = row] = DOMAIN lines
<1>1. PICK ids \in SUBSET Lines : lines \in [ids -> PricingRows]
  BY DEF Pricings
<1>2. [lines EXCEPT ![id] = row] \in [ids -> PricingRows]
  BY <1>1
<1> QED
  BY <1>1, <1>2 DEF Pricings

LEMMA LineIsRow ==
  ASSUME NEW lines \in Pricings, NEW id \in DOMAIN lines
  PROVE  lines[id] \in PricingRows
BY DEF Pricings

LEMMA ReadIsTerms ==
  ASSUME NEW c \in DOMAIN Readings, NEW reading \in Readings[c]
  PROVE  reading \in Terms
<1>1. reading \in [lines : UNION {[ids -> RowsRead] : ids \in SUBSET Lines}, frequency : Frequencies]
  BY ReadingsPriceLines DEF Read
<1>2. PICK ids \in SUBSET Lines : reading.lines \in [ids -> RowsRead]
  BY <1>1
<1>3. reading.lines \in [ids -> PricingRows]
  BY <1>2, ReadIsRow
<1>4. reading.lines \in Pricings
  BY <1>3 DEF Pricings
<1> QED
  BY <1>1, <1>4 DEF Terms

LEMMA FrequencyIsOne ==
  ASSUME NEW words
  PROVE  NormalizeFrequency(words) \in DOMAIN Cadence
BY DEF NormalizeFrequency, Cadence

-----------------------------------------------------------------------------
(* What a step does to the memory of its own request and of the others. *)

\* The same memory, but for the company its request knows of.
Alike(v, w) ==
  /\ v.kind = w.kind /\ v.at = w.at /\ v.cycle = w.cycle /\ v.config = w.config
  /\ v.fleet = w.fleet /\ v.monthly = w.monthly /\ v.next = w.next /\ v.row = w.row
  /\ w.alone \in BOOLEAN => v.alone \in BOOLEAN
  /\ v.at # "idle" /\ v.alone => w.alone

OthersAlike(r) == \A o \in Requests \ {r} : Alike(work'[o], work[o])

\* It goes on to another step of the same request.
Follows(r, from, to) ==
  /\ work[r].at = from /\ work'[r].at = to
  /\ work'[r].kind = work[r].kind /\ work'[r].cycle = work[r].cycle
  /\ work'[r].alone = work[r].alone
  /\ OthersAlike(r)

\* It is over.
Stops(r) == work'[r] = Idle /\ OthersAlike(r)

LEMMA GoesAlike ==
  ASSUME IInv, NEW r \in Requests, NEW w, Goes(r, w)
  PROVE  /\ work'[r] = w /\ OthersAlike(r)
         /\ work[r] = [f \in Fields |-> work[r][f]]
<1>1. work'[r] = w /\ OthersStay(r)
  BY Moves
<1>2. OthersAlike(r)
  BY <1>1 DEF OthersStay, OthersAlike, Alike
<1> QED
  BY <1>1, <1>2, Mine

LEMMA Stopping ==
  ASSUME IInv, NEW r \in Requests, Ends(r)
  PROVE  Stops(r)
BY GoesAlike DEF Ends, Stops

\* A request begins: it has what it is given, and every other one that is at
\* work has company.
LEMMA BeginsAlike ==
  ASSUME IInv, NEW r \in Requests, NEW kind, NEW w, Begin(r, kind, w), IsMemory(w)
  PROVE  /\ work[r] = Idle /\ OthersAlike(r)
         /\ work'[r].kind = kind /\ work'[r].at = w.at /\ work'[r].cycle = w.cycle
         /\ work'[r].config = w.config /\ work'[r].fleet = w.fleet
         /\ work'[r].monthly = w.monthly /\ work'[r].next = w.next /\ work'[r].row = w.row
         /\ work'[r].alone = (Busy(DuesKinds) = {})
         /\ kind \in DuesKinds => \A o \in Requests \ {r} :
              work'[o].at # "idle" => ~work'[o].alone
<1>1. work[r] = Idle
  BY DEF Begin
<1>2. /\ work'[r].kind = kind /\ work'[r].at = w.at /\ work'[r].cycle = w.cycle
      /\ work'[r].config = w.config /\ work'[r].fleet = w.fleet
      /\ work'[r].monthly = w.monthly /\ work'[r].next = w.next /\ work'[r].row = w.row
      /\ work'[r].alone = (Busy(DuesKinds) = {})
  BY DEF Begin, IsMemory, Fields
<1>3. ASSUME NEW o \in Requests \ {r}
      PROVE  /\ Alike(work'[o], work[o])
             /\ kind \in DuesKinds /\ work'[o].at # "idle" => ~work'[o].alone
  <2> DEFINE b == (work[o] = Idle)
  <2>1. work'[o] = IF kind \in DuesKinds THEN [work[o] EXCEPT !.alone = b] ELSE work[o]
    BY DEF Begin
  <2>2. IsMemory(work[o]) /\ b \in BOOLEAN /\ (work[o].at # "idle" => ~b)
    BY DEF IInv, Sound, Idle
  <2> HIDE DEF b
  <2>3. CASE kind \in DuesKinds
    BY <2>1, <2>2, <2>3 DEF IsMemory, Fields, Alike
  <2>4. CASE kind \notin DuesKinds
    BY <2>1, <2>4 DEF Alike
  <2> QED
    BY <2>3, <2>4
<1> QED
  BY <1>1, <1>2, <1>3 DEF OthersAlike

LEMMA BuildSteps ==
  ASSUME IInv, NEW r \in Requests
  PROVE  /\ ReadTerms(r) =>
              /\ Follows(r, "read_terms", "put_config")
              /\ work'[r].config = ConfigOf(work[r].cycle)
         /\ PutConfig(r) =>
              /\ Follows(r, "put_config", "read_fleet")
              /\ work'[r].config = work[r].config
         /\ ReadFleet(r) =>
              /\ Follows(r, "read_fleet", "set_billing")
              /\ work'[r].config = work[r].config /\ work'[r].fleet = account.fleet
              /\ work'[r].monthly = MonthlyRecurring(work[r].config.items, account.fleet)
         /\ SetBilling(r) =>
              /\ work[r].at = "set_billing"
              /\ work[r].kind \in {"sign", "heal"} =>
                   /\ Follows(r, "set_billing", "list_payments")
                   /\ work'[r].config = work[r].config
              /\ work[r].kind \notin {"sign", "heal"} => Stops(r)
<1>1. ASSUME ReadTerms(r)
      PROVE  /\ Follows(r, "read_terms", "put_config")
             /\ work'[r].config = ConfigOf(work[r].cycle)
  <2> DEFINE w == [work[r] EXCEPT !.at = "put_config", !.config = ConfigOf(work[r].cycle)]
  <2>1. Goes(r, w) /\ work[r].at = "read_terms"
    BY <1>1 DEF ReadTerms
  <2>2. work'[r] = w /\ OthersAlike(r) /\ work[r] = [f \in Fields |-> work[r][f]]
    BY <2>1, GoesAlike
  <2> QED
    BY <2>1, <2>2 DEF Fields, Follows
<1>2. ASSUME PutConfig(r)
      PROVE  Follows(r, "put_config", "read_fleet") /\ work'[r].config = work[r].config
  <2> DEFINE w == [work[r] EXCEPT !.at = "read_fleet"]
  <2>1. Goes(r, w) /\ work[r].at = "put_config"
    BY <1>2 DEF PutConfig
  <2>2. work'[r] = w /\ OthersAlike(r) /\ work[r] = [f \in Fields |-> work[r][f]]
    BY <2>1, GoesAlike
  <2> QED
    BY <2>1, <2>2 DEF Fields, Follows
<1>3. ASSUME ReadFleet(r)
      PROVE  /\ Follows(r, "read_fleet", "set_billing")
             /\ work'[r].config = work[r].config /\ work'[r].fleet = account.fleet
             /\ work'[r].monthly = MonthlyRecurring(work[r].config.items, account.fleet)
  <2> DEFINE w == [work[r] EXCEPT !.at = "set_billing", !.fleet = account.fleet,
                     !.monthly = MonthlyRecurring(work[r].config.items, account.fleet)]
  <2>1. Goes(r, w) /\ work[r].at = "read_fleet"
    BY <1>3 DEF ReadFleet
  <2>2. work'[r] = w /\ OthersAlike(r) /\ work[r] = [f \in Fields |-> work[r][f]]
    BY <2>1, GoesAlike
  <2> QED
    BY <2>1, <2>2 DEF Fields, Follows
<1>4. ASSUME SetBilling(r), work[r].kind \in {"sign", "heal"}
      PROVE  Follows(r, "set_billing", "list_payments") /\ work'[r].config = work[r].config
  <2> DEFINE w == [work[r] EXCEPT !.at = "list_payments"]
  <2>1. Goes(r, w) /\ work[r].at = "set_billing"
    BY <1>4 DEF SetBilling
  <2>2. work'[r] = w /\ OthersAlike(r) /\ work[r] = [f \in Fields |-> work[r][f]]
    BY <2>1, GoesAlike
  <2> QED
    BY <2>1, <2>2 DEF Fields, Follows
<1>5. ASSUME SetBilling(r), work[r].kind \notin {"sign", "heal"}
      PROVE  Stops(r)
  BY <1>5, Stopping DEF SetBilling
<1> QED
  BY <1>1, <1>2, <1>3, <1>4, <1>5 DEF SetBilling

LEMMA ScheduleSteps ==
  ASSUME IInv, NEW r \in Requests
  PROVE  /\ ListPayments(r) =>
              /\ work[r].at = "list_payments"
              /\ DOMAIN payments = {} =>
                   /\ Follows(r, "list_payments", "put_row")
                   /\ work'[r].next = 0 /\ work'[r].config = work[r].config
                   /\ work'[r].row = IF account.start # None THEN account.start
                                     ELSE work[r].config.generated
              /\ DOMAIN payments # {} =>
                   IF work[r].kind = "sign" THEN Follows(r, "list_payments", "ready") ELSE Stops(r)
         /\ PutRow(r) =>
              /\ Follows(r, "put_row", IF work[r].next + 1 = Instalments THEN "set_schedule" ELSE "put_row")
              /\ work'[r].next = work[r].next + 1
              /\ work'[r].config = work[r].config /\ work'[r].row = work[r].row
         /\ SetSchedule(r) =>
              /\ work[r].at = "set_schedule"
              /\ IF work[r].kind = "sign" THEN Follows(r, "set_schedule", "ready") ELSE Stops(r)
         /\ BillingReady(r) => work[r].at = "ready" /\ Stops(r)
<1>1. ASSUME ListPayments(r), DOMAIN payments = {}
      PROVE  /\ Follows(r, "list_payments", "put_row")
             /\ work'[r].next = 0 /\ work'[r].config = work[r].config
             /\ work'[r].row = IF account.start # None THEN account.start
                               ELSE work[r].config.generated
  <2> DEFINE start == IF account.start # None THEN account.start ELSE work[r].config.generated
             w == [work[r] EXCEPT !.at = "put_row", !.next = 0, !.row = start]
  <2>1. Goes(r, w) /\ work[r].at = "list_payments"
    BY <1>1 DEF ListPayments
  <2>2. work'[r] = w /\ OthersAlike(r) /\ work[r] = [f \in Fields |-> work[r][f]]
    BY <2>1, GoesAlike
  <2> HIDE DEF start
  <2>3. Follows(r, "list_payments", "put_row") /\ work'[r].next = 0
        /\ work'[r].config = work[r].config /\ work'[r].row = start
    BY <2>1, <2>2 DEF Fields, Follows
  <2> QED
    BY <2>3 DEF start
<1>2. ASSUME ListPayments(r), DOMAIN payments # {}
      PROVE  IF work[r].kind = "sign" THEN Follows(r, "list_payments", "ready") ELSE Stops(r)
  <2> DEFINE w == [work[r] EXCEPT !.at = "ready"]
  <2>1. work[r].at = "list_payments" /\ IF work[r].kind = "sign" THEN Goes(r, w) ELSE Ends(r)
    BY <1>2, Zenon DEF ListPayments
  <2>2. CASE work[r].kind = "sign"
    <3>1. work'[r] = w /\ OthersAlike(r) /\ work[r] = [f \in Fields |-> work[r][f]]
      BY <2>1, <2>2, GoesAlike
    <3> QED
      BY <2>1, <2>2, <3>1 DEF Fields, Follows
  <2> QED
    BY <2>1, <2>2, Stopping
<1>3. ASSUME PutRow(r)
      PROVE  /\ Follows(r, "put_row", IF work[r].next + 1 = Instalments THEN "set_schedule" ELSE "put_row")
             /\ work'[r].next = work[r].next + 1
             /\ work'[r].config = work[r].config /\ work'[r].row = work[r].row
  <2> DEFINE place == IF work[r].next + 1 = Instalments THEN "set_schedule" ELSE "put_row"
             w == [work[r] EXCEPT !.next = @ + 1, !.at = place]
  <2>1. Goes(r, w) /\ work[r].at = "put_row"
    BY <1>3 DEF PutRow
  <2>2. work'[r] = w /\ OthersAlike(r) /\ work[r] = [f \in Fields |-> work[r][f]]
    BY <2>1, GoesAlike
  <2> HIDE DEF place
  <2>3. Follows(r, "put_row", place) /\ work'[r].next = work[r].next + 1
        /\ work'[r].config = work[r].config /\ work'[r].row = work[r].row
    BY <2>1, <2>2 DEF Fields, Follows
  <2> QED
    BY <2>3 DEF place
<1>4. ASSUME SetSchedule(r)
      PROVE  IF work[r].kind = "sign" THEN Follows(r, "set_schedule", "ready") ELSE Stops(r)
  <2> DEFINE w == [work[r] EXCEPT !.at = "ready"]
  <2>1. work[r].at = "set_schedule" /\ IF work[r].kind = "sign" THEN Goes(r, w) ELSE Ends(r)
    BY <1>4 DEF SetSchedule
  <2>2. CASE work[r].kind = "sign"
    <3>1. work'[r] = w /\ OthersAlike(r) /\ work[r] = [f \in Fields |-> work[r][f]]
      BY <2>1, <2>2, GoesAlike
    <3> QED
      BY <2>1, <2>2, <3>1 DEF Fields, Follows
  <2> QED
    BY <2>1, <2>2, Stopping
<1>5. BillingReady(r) => work[r].at = "ready" /\ Stops(r)
  BY Stopping DEF BillingReady
<1> QED
  BY <1>1, <1>2, <1>3, <1>4, <1>5, Zenon DEF ListPayments, SetSchedule

LEMMA FleetSteps ==
  ASSUME IInv, NEW r \in Requests
  PROVE  /\ PutTerm(r) => Follows(r, "put_term", "read_terms")
         /\ SetOverride(r) =>
              Follows(r, "set_override", "price") /\ work'[r].row = work[r].row
         /\ Price(r) =>
              /\ Follows(r, "price", "set_billing")
              /\ work'[r].fleet = EffectiveFleet(assigned, work[r].row)
              /\ \E config \in ReadableConfigs(work[r].cycle) :
                   work'[r].monthly = IF config = None THEN None
                                      ELSE MonthlyRecurring(config.items, work'[r].fleet)
         /\ Count(r) => Follows(r, "count", "sync") /\ work'[r].next = assigned
         /\ PutPayment(r) => work[r].at = "put_payment" /\ Stops(r)
<1>1. ASSUME PutTerm(r)
      PROVE  Follows(r, "put_term", "read_terms")
  <2> DEFINE w == [work[r] EXCEPT !.at = "read_terms", !.next = 0, !.row = None]
  <2>1. Goes(r, w) /\ work[r].at = "put_term"
    BY <1>1 DEF PutTerm
  <2>2. work'[r] = w /\ OthersAlike(r) /\ work[r] = [f \in Fields |-> work[r][f]]
    BY <2>1, GoesAlike
  <2> QED
    BY <2>1, <2>2 DEF Fields, Follows
<1>2. ASSUME SetOverride(r)
      PROVE  Follows(r, "set_override", "price") /\ work'[r].row = work[r].row
  <2> DEFINE w == [work[r] EXCEPT !.at = "price"]
  <2>1. Goes(r, w) /\ work[r].at = "set_override"
    BY <1>2 DEF SetOverride
  <2>2. work'[r] = w /\ OthersAlike(r) /\ work[r] = [f \in Fields |-> work[r][f]]
    BY <2>1, GoesAlike
  <2> QED
    BY <2>1, <2>2 DEF Fields, Follows
<1>3. ASSUME Price(r)
      PROVE  /\ Follows(r, "price", "set_billing")
             /\ work'[r].fleet = EffectiveFleet(assigned, work[r].row)
             /\ \E config \in ReadableConfigs(work[r].cycle) :
                  work'[r].monthly = IF config = None THEN None
                                     ELSE MonthlyRecurring(config.items, work'[r].fleet)
  <2> DEFINE fleet == EffectiveFleet(assigned, work[r].row)
             dues(config) == IF config = None THEN None ELSE MonthlyRecurring(config.items, fleet)
             w(config) == [work[r] EXCEPT !.at = "set_billing", !.fleet = fleet, !.row = None,
                             !.monthly = dues(config)]
  <2>1. PICK config \in ReadableConfigs(work[r].cycle) : Goes(r, w(config))
    BY <1>3, Zenon DEF Price
  <2>2. work'[r] = w(config) /\ OthersAlike(r) /\ work[r] = [f \in Fields |-> work[r][f]]
        /\ work[r].at = "price"
    BY <1>3, <2>1, GoesAlike DEF Price
  <2> HIDE DEF fleet, dues
  <2>3. Follows(r, "price", "set_billing") /\ work'[r].fleet = fleet /\ work'[r].monthly = dues(config)
    BY <2>2 DEF Fields, Follows
  <2> QED
    BY <2>3 DEF fleet, dues
<1>4. ASSUME Count(r)
      PROVE  Follows(r, "count", "sync") /\ work'[r].next = assigned
  <2> DEFINE w == [work[r] EXCEPT !.at = "sync", !.next = assigned]
  <2>1. Goes(r, w) /\ work[r].at = "count"
    BY <1>4 DEF Count
  <2>2. work'[r] = w /\ OthersAlike(r) /\ work[r] = [f \in Fields |-> work[r][f]]
    BY <2>1, GoesAlike
  <2> QED
    BY <2>1, <2>2 DEF Fields, Follows
<1>5. PutPayment(r) => work[r].at = "put_payment" /\ Stops(r)
  BY Stopping DEF PutPayment
<1> QED
  BY <1>1, <1>2, <1>3, <1>4, <1>5

\* A vehicle that moved: its fleet is written, unless billing is live
\* (_sync_engagement_fleet).
LEMMA SyncStep ==
  ASSUME IInv, NEW r \in Requests, Sync(r), work[r].alone \in BOOLEAN
  PROVE  /\ work[r].at = "sync"
         /\ \/ Stops(r)
            \/ /\ ActiveIn(cycles) = {}
               /\ work'[r].at = "set_billing" /\ work'[r].kind = work[r].kind
               /\ work'[r].cycle = work[r].cycle /\ OthersAlike(r)
               /\ work'[r].fleet = FleetFor(work[r].next)
               /\ \E config \in ReadableConfigs(InForce) :
                    /\ work'[r].alone = (work[r].alone /\ config = configs[InForce])
                    /\ work'[r].monthly = IF config = None THEN account.monthly
                                          ELSE MonthlyRecurring(config.items, work'[r].fleet)
<1>1. work[r].at = "sync"
  BY DEF Sync
<1>2. CASE IsLocked(cycles[InForce])
  BY <1>1, <1>2, Stopping DEF Sync
<1>3. CASE ~IsLocked(cycles[InForce])
  <2>1. ActiveIn(cycles) = {}
    BY <1>3, InForceIsLive DEF IInv, IsLocked
  <2> DEFINE fleet == FleetFor(work[r].next)
             dues(config) == IF config = None THEN account.monthly
                             ELSE MonthlyRecurring(config.items, fleet)
             alone(config) == work[r].alone /\ config = configs[InForce]
             w(config) == [work[r] EXCEPT !.at = "set_billing", !.fleet = fleet, !.next = 0,
                             !.alone = alone(config), !.monthly = dues(config)]
  <2>2. PICK config \in ReadableConfigs(InForce) :
          Goes(r, [work[r] EXCEPT !.at = "set_billing", !.fleet = FleetFor(work[r].next), !.next = 0,
                 !.alone = @ /\ (config = configs[InForce]),
                 !.monthly = IF config = None THEN account.monthly
                             ELSE MonthlyRecurring(config.items, FleetFor(work[r].next))])
    BY <1>3, Zenon DEF Sync
  <2>3. Goes(r, w(config))
    BY <2>2
  <2>4. work'[r] = w(config) /\ OthersAlike(r) /\ work[r] = [f \in Fields |-> work[r][f]]
    BY <2>3, GoesAlike
  <2> HIDE DEF fleet, dues, alone
  <2>5. /\ work'[r].at = "set_billing" /\ work'[r].kind = work[r].kind
        /\ work'[r].cycle = work[r].cycle /\ work'[r].fleet = fleet
        /\ work'[r].alone = alone(config) /\ work'[r].monthly = dues(config)
    BY <2>4 DEF Fields
  <2> QED
    BY <1>1, <2>1, <2>4, <2>5 DEF fleet, dues, alone
<1> QED
  BY <1>2, <1>3

\* A request begins.
Starts(r, kind, at) ==
  /\ work[r] = Idle /\ work'[r].kind = kind /\ work'[r].at = at
  /\ work'[r].alone = (Busy(DuesKinds) = {})
  /\ OthersAlike(r)
  /\ kind \in DuesKinds => \A o \in Requests \ {r} : work'[o].at # "idle" => ~work'[o].alone

LEMMA Arrivals ==
  ASSUME IInv, NEW r \in Requests
  PROVE  /\ \A c \in DOMAIN cycles : Sign(r, c) =>
              Starts(r, "sign", "read_terms") /\ work'[r].cycle = c
         /\ \A c \in DOMAIN cycles : ViewBilling(r, c) =>
              /\ work'[r].cycle = c /\ work'[r].config = configs[c]
              /\ IF account.monthly = None
                 THEN /\ Starts(r, "heal", "set_billing")
                      /\ work'[r].fleet = account.fleet
                      /\ work'[r].monthly = MonthlyRecurring(configs[c].items, account.fleet)
                 ELSE Starts(r, "view", "list_payments")
         /\ \A override \in Overrides : SetFleet(r, override) =>
              /\ Starts(r, "fleet", "set_override")
              /\ work'[r].cycle = InForce /\ work'[r].row = override
         /\ \A n \in 0..MaxVehicles : MoveVehicle(r, n) => Starts(r, "vehicle", "count")
         /\ \A i \in DOMAIN payments : Pay(r, i) =>
              /\ Starts(r, "pay", "put_payment") /\ work'[r].next = i
              /\ work'[r].row = [payments[i] EXCEPT !.paid = TRUE, !.amount = AmountDue]
<1>1. ASSUME NEW c \in DOMAIN cycles, Sign(r, c)
      PROVE  Starts(r, "sign", "read_terms") /\ work'[r].cycle = c
  <2> DEFINE w == [Idle EXCEPT !.at = "read_terms", !.cycle = c]
  <2>1. Begin(r, "sign", w)
    BY <1>1 DEF Sign
  <2>2. IsMemory(w) /\ w.at = "read_terms" /\ w.cycle = c
    BY DEF IsMemory, Idle, Fields
  <2> HIDE DEF w
  <2> QED
    BY <2>1, <2>2, BeginsAlike DEF Starts
<1>2. ASSUME NEW c \in DOMAIN cycles, ViewBilling(r, c)
      PROVE  /\ work'[r].cycle = c /\ work'[r].config = configs[c]
             /\ IF account.monthly = None
                THEN /\ Starts(r, "heal", "set_billing")
                     /\ work'[r].fleet = account.fleet
                     /\ work'[r].monthly = MonthlyRecurring(configs[c].items, account.fleet)
                ELSE Starts(r, "view", "list_payments")
  <2> DEFINE seen  == [Idle EXCEPT !.cycle = c, !.config = configs[c]]
             dues  == MonthlyRecurring(configs[c].items, account.fleet)
             fleet == account.fleet
             heals == [seen EXCEPT !.at = "set_billing", !.fleet = fleet, !.monthly = dues]
             views == [seen EXCEPT !.at = "list_payments"]
  <2>1. IF account.monthly = None THEN Begin(r, "heal", heals) ELSE Begin(r, "view", views)
    BY <1>2, Zenon DEF ViewBilling
  <2> HIDE DEF dues, fleet
  <2>2. /\ IsMemory(heals) /\ heals.at = "set_billing" /\ heals.cycle = c
        /\ heals.config = configs[c] /\ heals.fleet = fleet /\ heals.monthly = dues
        /\ IsMemory(views) /\ views.at = "list_payments" /\ views.cycle = c
        /\ views.config = configs[c]
    BY DEF IsMemory, Idle, Fields
  <2> HIDE DEF heals, views
  <2>3. CASE account.monthly = None
    <3>1. Begin(r, "heal", heals)
      BY <2>1, <2>3
    <3> QED
      BY <2>2, <2>3, <3>1, BeginsAlike DEF Starts, dues, fleet
  <2>4. CASE account.monthly # None
    <3>1. Begin(r, "view", views)
      BY <2>1, <2>4
    <3> QED
      BY <2>2, <2>4, <3>1, BeginsAlike DEF Starts
  <2> QED
    BY <2>3, <2>4
<1>3. ASSUME NEW override \in Overrides, SetFleet(r, override)
      PROVE  /\ Starts(r, "fleet", "set_override")
             /\ work'[r].cycle = InForce /\ work'[r].row = override
  <2> DEFINE w == [Idle EXCEPT !.at = "set_override", !.cycle = InForce, !.row = override]
  <2>1. Begin(r, "fleet", w)
    BY <1>3 DEF SetFleet
  <2>2. IsMemory(w) /\ w.at = "set_override" /\ w.cycle = InForce /\ w.row = override
    BY DEF IsMemory, Idle, Fields
  <2> HIDE DEF w
  <2> QED
    BY <2>1, <2>2, BeginsAlike DEF Starts
<1>4. ASSUME NEW n \in 0..MaxVehicles, MoveVehicle(r, n)
      PROVE  Starts(r, "vehicle", "count")
  <2> DEFINE w == [Idle EXCEPT !.at = "count"]
  <2>1. Begin(r, "vehicle", w)
    BY <1>4 DEF MoveVehicle
  <2>2. IsMemory(w) /\ w.at = "count"
    BY DEF IsMemory, Idle, Fields
  <2> HIDE DEF w
  <2> QED
    BY <2>1, <2>2, BeginsAlike DEF Starts
<1>5. ASSUME NEW i \in DOMAIN payments, Pay(r, i)
      PROVE  /\ Starts(r, "pay", "put_payment") /\ work'[r].next = i
             /\ work'[r].row = [payments[i] EXCEPT !.paid = TRUE, !.amount = AmountDue]
  <2> DEFINE row == [payments[i] EXCEPT !.paid = TRUE, !.amount = AmountDue]
             w == [Idle EXCEPT !.at = "put_payment", !.next = i, !.row = row]
  <2>1. Begin(r, "pay", w)
    BY <1>5 DEF Pay
  <2> HIDE DEF row
  <2>2. IsMemory(w) /\ w.at = "put_payment" /\ w.next = i /\ w.row = row
    BY DEF IsMemory, Idle, Fields
  <2> HIDE DEF w
  <2> QED
    BY <2>1, <2>2, BeginsAlike DEF Starts, row
<1> QED
  BY <1>1, <1>2, <1>3, <1>4, <1>5

LEMMA CorrectStarts ==
  ASSUME IInv, NEW r \in Requests, NEW line \in Lines, NEW correction \in Corrections,
         Correct(r, line, correction)
  PROVE  /\ Starts(r, "correct", "put_term")
         /\ work'[r].cycle = InForce /\ work'[r].next = line
         /\ work'[r].row = [terms[InForce].lines[line] EXCEPT !.override = Joins(@, correction)]
<1> DEFINE row == [terms[InForce].lines[line] EXCEPT !.override = Joins(@, correction)]
           w == [Idle EXCEPT !.at = "put_term", !.cycle = InForce, !.next = line, !.row = row]
<1>1. Begin(r, "correct", w)
  BY DEF Correct
<1> HIDE DEF row
<1>2. IsMemory(w) /\ w.at = "put_term" /\ w.cycle = InForce /\ w.next = line /\ w.row = row
  BY DEF IsMemory, Idle, Fields
<1> HIDE DEF w
<1> QED
  BY <1>1, <1>2, BeginsAlike DEF Starts, row

-----------------------------------------------------------------------------
(* Every step keeps TypeInv. *)

\* What nobody's memory of the terms can miss.
TermsStay(ts, us) ==
  /\ DOMAIN ts \subseteq DOMAIN us
  /\ \A c \in DOMAIN ts :
       us[c].frequency = ts[c].frequency /\ DOMAIN us[c].lines = DOMAIN ts[c].lines

LEMMA TypedStays ==
  ASSUME NEW v, NEW w, NEW ts, NEW ps, NEW us, NEW qs,
         Alike(v, w), Placed(w), Typed(w, ts, ps),
         TermsStay(ts, us), DOMAIN ps \subseteq DOMAIN qs
  PROVE  Placed(v) /\ Typed(v, us, qs)
<1>1. Placed(v)
  BY DEF Alike, Placed, Generates
<1>2. (OnCycle(v) <=> OnCycle(w)) /\ (Holds(v) <=> Holds(w)) /\ (Generates(v) <=> Generates(w))
  BY DEF Alike, OnCycle, Holds, Generates
<1>3. Holds(w) \/ w.at = "put_term" => OnCycle(w)
  BY DEF Placed, Holds, OnCycle, Generates
<1>4. OnCycle(w) => w.cycle \in DOMAIN us /\ us[w.cycle].frequency = ts[w.cycle].frequency
        /\ DOMAIN us[w.cycle].lines = DOMAIN ts[w.cycle].lines
  BY DEF Typed, TermsStay
<1>5. Typed(v, us, qs)
  BY <1>2, <1>3, <1>4 DEF Typed, Alike
<1> QED
  BY <1>1, <1>5

LEMMA TypeKept ==
  ASSUME TypeInv, IInv', RowsOK', NEW r \in Requests, OthersAlike(r),
         Placed(work'[r]), Typed(work'[r], terms', payments'),
         TermsStay(terms, terms'), DOMAIN payments \subseteq DOMAIN payments'
  PROVE  TypeInv'
<1>1. \A o \in Requests \ {r} : Placed(work'[o]) /\ Typed(work'[o], terms', payments')
  BY TypedStays DEF TypeInv, OthersAlike
<1> QED
  BY <1>1 DEF TypeInv

\* A request that is idle holds nothing.
LEMMA IdleIsTyped ==
  ASSUME NEW ts, NEW ps
  PROVE  Placed(Idle) /\ Typed(Idle, ts, ps)
BY DEF Idle, Placed, Typed, OnCycle, Holds, Generates

\* Only a memory changed.
LEMMA TypeQuiet ==
  ASSUME TypeInv, IInv', NEW r \in Requests, OthersAlike(r),
         UNCHANGED <<cycles, terms, configs, account, payments, assigned, today, settled>>,
         Placed(work'[r]), Typed(work'[r], terms, payments)
  PROVE  TypeInv'
<1>1. RowsOK'
  BY DEF TypeInv, RowsOK
<1>2. TermsStay(terms, terms') /\ DOMAIN payments \subseteq DOMAIN payments'
  BY DEF TermsStay
<1> QED
  BY <1>1, <1>2, TypeKept

\* What the terms of a cycle make is a configuration (build_billing_config).
LEMMA ConfigIsOne ==
  ASSUME RowsOK, NEW c \in DOMAIN terms
  PROVE  ConfigOf(c) \in Configs /\ ConfigOf(c).frequency = terms[c].frequency
<1>1. terms[c] \in Terms /\ today \in 0..Horizon
  BY DEF RowsOK
<1>2. FeeItems(terms[c].lines) \in {FeeItems(lines) : lines \in Pricings}
  BY <1>1 DEF Terms
<1> QED
  BY <1>1, <1>2 DEF ConfigOf, Configs, Terms

LEMMA CyclesOfRows ==
  ASSUME RowsOK
  PROVE  /\ DOMAIN terms = 1..Len(cycles) /\ DOMAIN configs = 1..Len(cycles)
         /\ DOMAIN cycles = 1..Len(cycles) /\ Len(cycles) \in Nat \ {0}
         /\ \A c \in DOMAIN cycles :
              cycles[c] \in Statuses /\ terms[c] \in Terms /\ configs[c] \in Configs \cup {None}
BY DEF RowsOK

\* The cycle in force is one of the cycles.
LEMMA InForceIsCycle ==
  ASSUME cycles \in Seq(Statuses), Len(cycles) > 0
  PROVE  InForce \in DOMAIN cycles
<1> DEFINE S == IF ActiveIn(cycles) # {} THEN ActiveIn(cycles) ELSE DOMAIN cycles
<1>1. S \subseteq 1..Len(cycles) /\ S # {} /\ Len(cycles) \in Nat
  BY DEF ActiveIn
<1> HIDE DEF S
<1>2. PICK m \in S : \A k \in S : k <= m
  BY <1>1, LastOne
<1>3. \A o \in S \ {m} : ~Later(Rows[o], Rows[m])
  BY <1>1, <1>2 DEF Later, Rows, Cycle
<1>4. Live(Rows) = ActiveIn(cycles) /\ DOMAIN Rows = DOMAIN cycles
  BY DEF Live, Rows, Cycle, ActiveIn
<1>5. IsCycleInForce(Rows, m) /\ m \in DOMAIN cycles
  BY <1>1, <1>2, <1>3, <1>4 DEF S, IsCycleInForce, IsLatest
<1> QED
  BY <1>5, Zenon DEF InForce

LEMMA TypeBuild ==
  ASSUME TypeInv, IInv', NEW r \in Requests,
         ReadTerms(r) \/ PutConfig(r) \/ ReadFleet(r) \/ SetBilling(r)
  PROVE  TypeInv'
<1>1. IInv /\ RowsOK /\ Placed(work[r]) /\ Typed(work[r], terms, payments)
  BY DEF TypeInv
<1>2. CASE ReadTerms(r)
  <2>1. /\ Follows(r, "read_terms", "put_config") /\ work'[r].config = ConfigOf(work[r].cycle)
    BY <1>1, <1>2, BuildSteps
  <2>2. UNCHANGED <<cycles, terms, configs, account, payments, assigned, today, settled>>
    BY <1>2 DEF ReadTerms
  <2>3. Placed(work'[r])
    BY <1>1, <2>1 DEF Placed, Follows, Generates
  <2>4. work[r].cycle \in DOMAIN terms
    BY <1>1, <2>1 DEF Typed, OnCycle, Placed, Follows
  <2>5. Typed(work'[r], terms, payments)
    BY <1>1, <2>1, <2>4, ConfigIsOne DEF Typed, Follows, OnCycle, Holds, Generates
  <2> QED
    BY <2>1, <2>2, <2>3, <2>5, TypeQuiet DEF Follows
<1>3. CASE PutConfig(r)
  <2>1. Follows(r, "put_config", "read_fleet") /\ work'[r].config = work[r].config
    BY <1>1, <1>3, BuildSteps
  <2>2. /\ UNCHANGED <<cycles, terms, account, payments, assigned, today>>
        /\ configs' = [configs EXCEPT ![work[r].cycle] = work[r].config]
        /\ settled' = [settled EXCEPT !.config = work[r].alone]
    BY <1>3 DEF PutConfig
  <2>3. /\ work[r].cycle \in DOMAIN terms /\ work[r].config \in Configs
        /\ work[r].config.frequency = terms[work[r].cycle].frequency /\ work[r].alone \in BOOLEAN
    BY <1>1, <2>1 DEF Typed, OnCycle, Placed, Follows, Holds
  <2>4. Placed(work'[r]) /\ Typed(work'[r], terms, payments)
    BY <1>1, <2>1, <2>3 DEF Placed, Typed, Follows, OnCycle, Holds, Generates
  <2>5. configs' \in Seq(Configs \cup {None}) /\ Len(configs') = Len(configs)
    BY <1>1, <2>2, <2>3 DEF RowsOK
  <2>6. settled' \in Settled
    BY <1>1, <2>2, <2>3 DEF RowsOK, Settled
  <2>7. \A c \in DOMAIN configs' : configs'[c] # None => configs'[c].frequency = terms[c].frequency
    BY <1>1, <2>2, <2>3 DEF RowsOK
  <2>8. RowsOK'
    BY <1>1, <2>2, <2>5, <2>6, <2>7 DEF RowsOK
  <2> QED
    BY <2>1, <2>2, <2>4, <2>8, TypeKept DEF Follows, TermsStay
<1>4. CASE ReadFleet(r)
  <2>1. /\ Follows(r, "read_fleet", "set_billing")
        /\ work'[r].config = work[r].config /\ work'[r].fleet = account.fleet
        /\ work'[r].monthly = MonthlyRecurring(work[r].config.items, account.fleet)
    BY <1>1, <1>4, BuildSteps
  <2>2. UNCHANGED <<cycles, terms, configs, account, payments, assigned, today, settled>>
    BY <1>4 DEF ReadFleet
  <2>3. Placed(work'[r])
    BY <1>1, <2>1 DEF Placed, Follows, Generates, DuesKinds, Kinds
  <2>4. work[r].config \in Configs /\ account.fleet \in Fleets
    BY <1>1, <2>1 DEF Typed, Holds, Follows, RowsOK, Account
  <2>5. MonthlyRecurring(work[r].config.items, account.fleet) \in Amounts
    BY <2>4, DuesAreAmounts
  <2>6. Typed(work'[r], terms, payments)
    BY <1>1, <2>1, <2>4, <2>5 DEF Typed, Follows, OnCycle, Holds, Generates
  <2> QED
    BY <2>1, <2>2, <2>3, <2>6, TypeQuiet DEF Follows
<1>5. CASE SetBilling(r)
  <2>1. /\ UNCHANGED <<cycles, terms, configs, payments, assigned, today>>
        /\ account' = [account EXCEPT !.fleet = work[r].fleet, !.monthly = work[r].monthly]
        /\ work[r].at = "set_billing"
    BY <1>5 DEF SetBilling
  <2>2. settled' \in Settled
    <3> DEFINE dues  == work[r].alone /\ (work[r].kind # "heal" \/ settled.dues)
               fleet == work[r].alone /\ (work[r].kind \in {"fleet", "vehicle"} \/ settled.fleet)
    <3>1. settled' = [settled EXCEPT !.dues = dues, !.fleet = fleet]
      BY <1>5 DEF SetBilling
    <3>2. dues \in BOOLEAN /\ fleet \in BOOLEAN
      BY <1>1 DEF Typed
    <3> HIDE DEF dues, fleet
    <3> QED
      BY <1>1, <3>1, <3>2 DEF RowsOK, Settled
  <2>3. account' \in Account
    BY <1>1, <2>1 DEF RowsOK, Account, Typed
  <2>4. RowsOK'
    BY <1>1, <2>1, <2>2, <2>3 DEF RowsOK
  <2>5. CASE work[r].kind \in {"sign", "heal"}
    <3>1. Follows(r, "set_billing", "list_payments") /\ work'[r].config = work[r].config
      BY <1>1, <1>5, <2>5, BuildSteps
    <3>2. Placed(work'[r]) /\ Typed(work'[r], terms, payments)
      BY <1>1, <2>5, <3>1 DEF Placed, Typed, Follows, OnCycle, Holds, Generates
    <3> QED
      BY <2>1, <2>4, <3>1, <3>2, TypeKept DEF Follows, TermsStay
  <2>6. CASE work[r].kind \notin {"sign", "heal"}
    <3>1. Stops(r)
      BY <1>1, <1>5, <2>6, BuildSteps
    <3> QED
      BY <2>1, <2>4, <3>1, IdleIsTyped, TypeKept DEF Stops, TermsStay
  <2> QED
    BY <2>5, <2>6
<1> QED
  BY <1>2, <1>3, <1>4, <1>5

LEMMA TypeSchedule ==
  ASSUME TypeInv, IInv', NEW r \in Requests,
         ListPayments(r) \/ PutRow(r) \/ SetSchedule(r) \/ BillingReady(r)
  PROVE  TypeInv'
<1>1. IInv /\ RowsOK /\ Placed(work[r]) /\ Typed(work[r], terms, payments)
  BY DEF TypeInv
<1>2. CASE ListPayments(r)
  <2>1. UNCHANGED <<cycles, terms, configs, account, payments, assigned, today, settled>>
    BY <1>2 DEF ListPayments
  <2>2. CASE DOMAIN payments = {}
    <3>1. /\ Follows(r, "list_payments", "put_row")
          /\ work'[r].next = 0 /\ work'[r].config = work[r].config
          /\ work'[r].row = IF account.start # None THEN account.start ELSE work[r].config.generated
      BY <1>1, <1>2, <2>2, ScheduleSteps
    <3>2. work[r].config \in Configs /\ account.start \in Amounts
      BY <1>1, <3>1 DEF Typed, Holds, Follows, RowsOK, Account
    <3>3. work'[r].row \in Nat /\ 0 \in Sequence
      BY <3>1, <3>2, BillingBounds DEF Configs, Amounts, Sequence
    <3>4. Placed(work'[r]) /\ Typed(work'[r], terms, payments)
      BY <1>1, <3>1, <3>3 DEF Placed, Typed, Follows, OnCycle, Holds, Generates
    <3> QED
      BY <2>1, <3>1, <3>4, TypeQuiet DEF Follows
  <2>3. CASE DOMAIN payments # {} /\ work[r].kind = "sign"
    <3>1. Follows(r, "list_payments", "ready")
      BY <1>1, <1>2, <2>3, ScheduleSteps
    <3>2. Placed(work'[r]) /\ Typed(work'[r], terms, payments)
      BY <1>1, <2>3, <3>1 DEF Placed, Typed, Follows, OnCycle, Holds, Generates
    <3> QED
      BY <2>1, <3>1, <3>2, TypeQuiet DEF Follows
  <2>4. CASE DOMAIN payments # {} /\ work[r].kind # "sign"
    <3>1. Stops(r)
      BY <1>1, <1>2, <2>4, ScheduleSteps
    <3> QED
      BY <2>1, <3>1, IdleIsTyped, TypeQuiet DEF Stops
  <2> QED
    BY <2>2, <2>3, <2>4
<1>3. CASE PutRow(r)
  <2> DEFINE place == IF work[r].next + 1 = Instalments THEN "set_schedule" ELSE "put_row"
  <2>1. /\ Follows(r, "put_row", place)
        /\ work'[r].next = work[r].next + 1
        /\ work'[r].config = work[r].config /\ work'[r].row = work[r].row
    BY <1>1, <1>3, ScheduleSteps
  <2>2. /\ UNCHANGED <<cycles, terms, configs, account, assigned, today, settled>>
        /\ payments' = [i \in DOMAIN payments \cup {work[r].next} |->
             IF i = work[r].next THEN FreshRow(work[r].row, i) ELSE payments[i]]
    BY <1>3 DEF PutRow
  <2>3. work[r].next \in Sequence /\ work[r].row \in Nat
    BY <1>1, <2>1 DEF Typed, Follows, Generates
  <2>4. FreshRow(work[r].row, work[r].next) \in PaymentRows
        /\ Paid(FreshRow(work[r].row, work[r].next))
    BY <2>3 DEF FreshRow, PaymentRows, Paid, Amounts, Sequence
  <2>5. /\ payments' \in [DOMAIN payments' -> PaymentRows] /\ DOMAIN payments' \subseteq Sequence
        /\ \A i \in DOMAIN payments' : Paid(payments'[i])
        /\ DOMAIN payments \subseteq DOMAIN payments'
    BY <1>1, <2>2, <2>3, <2>4 DEF RowsOK
  <2>6. RowsOK'
    BY <1>1, <2>2, <2>5 DEF RowsOK
  <2>7. place \in {"put_row", "set_schedule"} /\ (place = "put_row" => work'[r].next \in Sequence)
    BY <2>1, <2>3, BillingBounds DEF Sequence
  <2> HIDE DEF place
  <2>8. Placed(work'[r]) /\ Typed(work'[r], terms, payments')
    BY <1>1, <2>1, <2>3, <2>7 DEF Placed, Typed, Follows, OnCycle, Holds, Generates
  <2> QED
    BY <2>1, <2>2, <2>5, <2>6, <2>8, TypeKept DEF Follows, TermsStay
<1>4. CASE SetSchedule(r)
  <2>1. /\ UNCHANGED <<cycles, terms, configs, payments, assigned, today, settled>>
        /\ account' = [account EXCEPT !.start = work[r].row,
                         !.frequency = NormalizeFrequency(work[r].config.frequency)]
        /\ work[r].at = "set_schedule"
    BY <1>4 DEF SetSchedule
  <2>2. work[r].row \in Nat
    BY <1>1, <2>1 DEF Typed, Generates
  <2>3. account' \in Account
    BY <1>1, <2>1, <2>2, FrequencyIsOne DEF RowsOK, Account, Amounts
  <2>4. RowsOK'
    BY <1>1, <2>1, <2>3 DEF RowsOK
  <2>5. CASE work[r].kind = "sign"
    <3>1. Follows(r, "set_schedule", "ready")
      BY <1>1, <1>4, <2>5, ScheduleSteps
    <3>2. Placed(work'[r]) /\ Typed(work'[r], terms, payments)
      BY <1>1, <2>5, <3>1 DEF Placed, Typed, Follows, OnCycle, Holds, Generates
    <3> QED
      BY <2>1, <2>4, <3>1, <3>2, TypeKept DEF Follows, TermsStay
  <2>6. CASE work[r].kind # "sign"
    <3>1. Stops(r)
      BY <1>1, <1>4, <2>6, ScheduleSteps
    <3> QED
      BY <2>1, <2>4, <3>1, IdleIsTyped, TypeKept DEF Stops, TermsStay
  <2> QED
    BY <2>5, <2>6
<1>5. CASE BillingReady(r)
  <2>1. Stops(r) /\ UNCHANGED <<terms, configs, account, payments, assigned, today, settled>>
    BY <1>1, <1>5, ScheduleSteps DEF BillingReady
  <2> DEFINE c == work[r].cycle
  <2>2. cycles' = [cycles EXCEPT ![c] = "PENDING_BILLING_AUDIT"] \/ cycles' = cycles
    BY <1>5 DEF BillingReady
  <2> HIDE DEF c
  <2>3. cycles' \in Seq(Statuses) /\ Len(cycles') = Len(cycles)
    BY <1>1, <2>2 DEF RowsOK, Statuses
  <2>4. RowsOK'
    BY <1>1, <2>1, <2>3 DEF RowsOK
  <2> QED
    BY <2>1, <2>4, IdleIsTyped, TypeKept DEF Stops, TermsStay
<1> QED
  BY <1>2, <1>3, <1>4, <1>5

LEMMA TypeFleet ==
  ASSUME TypeInv, IInv', NEW r \in Requests,
         PutTerm(r) \/ SetOverride(r) \/ Price(r) \/ Count(r) \/ Sync(r) \/ PutPayment(r)
  PROVE  TypeInv'
<1>1. IInv /\ RowsOK /\ Placed(work[r]) /\ Typed(work[r], terms, payments)
  BY DEF TypeInv
<1>2. CASE PutTerm(r)
  <2> DEFINE c == work[r].cycle
             lines == [terms[c].lines EXCEPT ![work[r].next] = work[r].row]
  <2>1. Follows(r, "put_term", "read_terms")
    BY <1>1, <1>2, FleetSteps
  <2>2. /\ UNCHANGED <<cycles, configs, account, payments, assigned, today, settled>>
        /\ terms' = [terms EXCEPT ![c].lines[work[r].next] = work[r].row]
    BY <1>2 DEF PutTerm
  <2>3. /\ c \in DOMAIN terms /\ work[r].row \in PricingRows /\ work[r].next \in DOMAIN terms[c].lines
        /\ terms[c] \in Terms
    BY <1>1, <2>1 DEF Typed, OnCycle, Placed, Follows, RowsOK
  <2>4. lines \in Pricings /\ DOMAIN lines = DOMAIN terms[c].lines
    BY <2>3, CorrectedLines DEF Terms
  <2>5. terms' = [terms EXCEPT ![c] = [terms[c] EXCEPT !.lines = lines]]
    BY <2>2
  <2> HIDE DEF lines
  <2>6. [terms[c] EXCEPT !.lines = lines] \in Terms
        /\ [terms[c] EXCEPT !.lines = lines].lines = lines
        /\ [terms[c] EXCEPT !.lines = lines].frequency = terms[c].frequency
    BY <2>3, <2>4 DEF Terms
  <2>7. terms' \in Seq(Terms) /\ Len(terms') = Len(terms) /\ TermsStay(terms, terms')
    BY <1>1, <2>3, <2>4, <2>5, <2>6 DEF RowsOK, TermsStay
  <2>8. RowsOK'
    BY <1>1, <2>2, <2>7 DEF RowsOK, TermsStay
  <2>9. Placed(work'[r]) /\ Typed(work'[r], terms', payments)
    BY <1>1, <2>1, <2>3, <2>7 DEF Placed, Typed, Follows, OnCycle, Holds, Generates, TermsStay
  <2> QED
    BY <2>1, <2>2, <2>7, <2>8, <2>9, TypeKept DEF Follows
<1>3. CASE SetOverride(r)
  <2>1. Follows(r, "set_override", "price") /\ work'[r].row = work[r].row
    BY <1>1, <1>3, FleetSteps
  <2>2. /\ UNCHANGED <<cycles, terms, configs, payments, assigned, today, settled>>
        /\ account' = [account EXCEPT !.override = work[r].row]
    BY <1>3 DEF SetOverride
  <2>3. account' \in Account
    BY <1>1, <2>1, <2>2 DEF RowsOK, Account, Typed, Follows
  <2>4. RowsOK'
    BY <1>1, <2>2, <2>3 DEF RowsOK
  <2>5. Placed(work'[r]) /\ Typed(work'[r], terms, payments)
    BY <1>1, <2>1 DEF Placed, Typed, Follows, OnCycle, Holds, Generates
  <2> QED
    BY <2>1, <2>2, <2>4, <2>5, TypeKept DEF Follows, TermsStay
<1>4. CASE Price(r)
  <2>1. /\ Follows(r, "price", "set_billing")
        /\ work'[r].fleet = EffectiveFleet(assigned, work[r].row)
    BY <1>1, <1>4, FleetSteps
  <2>2. PICK config \in ReadableConfigs(work[r].cycle) :
          work'[r].monthly = IF config = None THEN None
                             ELSE MonthlyRecurring(config.items, work'[r].fleet)
    BY <1>1, <1>4, FleetSteps
  <2>3. UNCHANGED <<cycles, terms, configs, account, payments, assigned, today, settled>>
    BY <1>4 DEF Price
  <2>4. work'[r].fleet \in Fleets
    BY <1>1, <2>1, FleetIsOne DEF Typed, Follows, RowsOK
  <2>5. config \in Configs \cup {None}
    <3>1. work[r].cycle \in DOMAIN configs
      BY <1>1, <2>1 DEF Placed, Typed, OnCycle, Follows, RowsOK
    <3> QED
      BY <1>1, <3>1 DEF ReadableConfigs, RowsOK
  <2>6. work'[r].monthly \in Amounts
    BY <2>2, <2>4, <2>5, DuesAreAmounts DEF Amounts
  <2>7. Placed(work'[r]) /\ Typed(work'[r], terms, payments)
    BY <1>1, <2>1, <2>4, <2>6 DEF Placed, Typed, Follows, OnCycle, Holds, Generates, DuesKinds, Kinds
  <2> QED
    BY <2>1, <2>3, <2>7, TypeQuiet DEF Follows
<1>5. CASE Count(r)
  <2>1. Follows(r, "count", "sync") /\ work'[r].next = assigned
    BY <1>1, <1>5, FleetSteps
  <2>2. UNCHANGED <<cycles, terms, configs, account, payments, assigned, today, settled>>
    BY <1>5 DEF Count
  <2>3. Placed(work'[r]) /\ Typed(work'[r], terms, payments)
    BY <1>1, <2>1 DEF Placed, Typed, Follows, OnCycle, Holds, Generates, RowsOK
  <2> QED
    BY <2>1, <2>2, <2>3, TypeQuiet DEF Follows
<1>6. CASE Sync(r)
  <2>1. UNCHANGED <<cycles, terms, configs, account, payments, assigned, today, settled>>
    BY <1>6 DEF Sync
  <2>2. CASE Stops(r)
    BY <2>1, <2>2, IdleIsTyped, TypeQuiet DEF Stops
  <2>3. CASE ~Stops(r)
    <3>1. /\ work[r].at = "sync" /\ work'[r].at = "set_billing" /\ work'[r].kind = work[r].kind
          /\ work'[r].cycle = work[r].cycle /\ OthersAlike(r)
          /\ work'[r].fleet = FleetFor(work[r].next)
      BY <1>1, <1>6, <2>3, SyncStep DEF Typed
    <3>2. PICK config \in ReadableConfigs(InForce) :
            /\ work'[r].alone = (work[r].alone /\ config = configs[InForce])
            /\ work'[r].monthly = IF config = None THEN account.monthly
                                  ELSE MonthlyRecurring(config.items, work'[r].fleet)
      BY <1>1, <1>6, <2>3, SyncStep DEF Typed
    <3>3. work'[r].fleet \in Fleets /\ account.monthly \in Amounts
      BY <1>1, <3>1, FleetIsOne DEF Typed, RowsOK, Account, FleetFor
    <3>4. config \in Configs \cup {None}
      BY <1>1, InForceIsCycle DEF ReadableConfigs, RowsOK
    <3>5. work'[r].monthly \in Amounts /\ work'[r].alone \in BOOLEAN
      BY <3>2, <3>3, <3>4, DuesAreAmounts
    <3>6. Placed(work'[r]) /\ Typed(work'[r], terms, payments)
      BY <1>1, <3>1, <3>3, <3>5 DEF Placed, Typed, OnCycle, Holds, Generates, DuesKinds, Kinds
    <3> QED
      BY <2>1, <3>1, <3>6, TypeQuiet
  <2> QED
    BY <2>2, <2>3
<1>7. CASE PutPayment(r)
  <2>1. Stops(r) /\ work[r].at = "put_payment"
    BY <1>1, <1>7, FleetSteps
  <2>2. /\ UNCHANGED <<cycles, terms, configs, account, assigned, today, settled>>
        /\ payments' = [i \in DOMAIN payments \cup {work[r].next} |->
             IF i = work[r].next THEN work[r].row ELSE payments[i]]
    BY <1>7 DEF PutPayment
  <2>3. work[r].next \in DOMAIN payments /\ work[r].row \in PaymentRows /\ Paid(work[r].row)
    BY <1>1, <2>1 DEF Typed, Paid
  <2>4. /\ payments' \in [DOMAIN payments' -> PaymentRows] /\ DOMAIN payments' = DOMAIN payments
        /\ \A i \in DOMAIN payments' : Paid(payments'[i])
    BY <1>1, <2>2, <2>3 DEF RowsOK
  <2>5. RowsOK'
    BY <1>1, <2>2, <2>4 DEF RowsOK
  <2> QED
    BY <2>1, <2>2, <2>4, <2>5, IdleIsTyped, TypeKept DEF Stops, TermsStay
<1> QED
  BY <1>2, <1>3, <1>4, <1>5, <1>6, <1>7

\* What is paid is an amount (pay).
LEMMA AmountIsDue ==
  ASSUME account \in Account
  PROVE  AmountDue \in Nat
<1> DEFINE dues == IF account.monthly = None THEN 0 ELSE account.monthly
           months == Cadence[account.frequency].months
<1>1. dues \in Nat /\ months \in Nat
  BY DEF Account, Amounts, Cadence
<1>2. AmountDue = dues * months
  BY DEF AmountDue
<1> HIDE DEF dues, months
<1> QED
  BY <1>1, <1>2

\* What a request that begins is given.
LEMMA TypeStarts ==
  ASSUME TypeInv, IInv', RowsOK', NEW r \in Requests, NEW kind \in Kinds, NEW at,
         Starts(r, kind, at), UNCHANGED <<terms, payments>>,
         Placed(work'[r]),
         kind \in {"sign", "correct", "heal", "view", "fleet"} => work'[r].cycle \in DOMAIN terms,
         Holds(work'[r]) => /\ work'[r].config \in Configs
                            /\ work'[r].config.frequency = terms[work'[r].cycle].frequency,
         at = "put_term" => /\ work'[r].row \in PricingRows
                            /\ work'[r].next \in DOMAIN terms[work'[r].cycle].lines,
         at = "set_override" => work'[r].row \in Overrides,
         at = "set_billing" => work'[r].fleet \in Fleets /\ work'[r].monthly \in Amounts,
         at = "put_payment" => /\ work'[r].next \in DOMAIN payments /\ work'[r].row \in PaymentRows
                               /\ work'[r].row.paid /\ work'[r].row.amount # None,
         at \notin {"price", "sync", "put_row", "set_schedule"}
  PROVE  TypeInv'
<1> DEFINE company == Busy(DuesKinds) = {}
<1>1. /\ work'[r].kind = kind /\ work'[r].at = at /\ work'[r].alone = company /\ OthersAlike(r)
  BY DEF Starts
<1>2. company \in BOOLEAN
  OBVIOUS
<1> HIDE DEF company
<1>3. Typed(work'[r], terms, payments)
  BY <1>1, <1>2 DEF Typed, OnCycle, Generates
<1> QED
  BY <1>1, <1>3, TypeKept DEF TermsStay

LEMMA TypeArrives ==
  ASSUME TypeInv, IInv', NEW r \in Requests, Arrives(r)
  PROVE  TypeInv'
<1>1. IInv /\ RowsOK
  BY DEF TypeInv
<1>2. ASSUME NEW c \in DOMAIN cycles, Sign(r, c)
      PROVE  TypeInv'
  <2>1. Starts(r, "sign", "read_terms") /\ work'[r].cycle = c
    BY <1>1, <1>2, Arrivals
  <2>2. /\ UNCHANGED <<terms, configs, account, payments, assigned, today, settled>>
        /\ cycles' = [cycles EXCEPT ![c] = "BILLING_SETUP"]
    BY <1>2 DEF Sign
  <2>3. cycles' \in Seq(Statuses) /\ Len(cycles') = Len(cycles)
    BY <1>1, <2>2 DEF RowsOK, Statuses
  <2>4. RowsOK' /\ c \in DOMAIN terms
    BY <1>1, <2>2, <2>3 DEF RowsOK
  <2>5. Placed(work'[r]) /\ ~Holds(work'[r])
    BY <2>1 DEF Starts, Placed, Holds, Generates
  <2> QED
    BY <2>1, <2>2, <2>4, <2>5, TypeStarts DEF Kinds
<1>3. ASSUME NEW c \in DOMAIN cycles, ViewBilling(r, c)
      PROVE  TypeInv'
  <2>1. /\ work'[r].cycle = c /\ work'[r].config = configs[c]
        /\ IF account.monthly = None
           THEN /\ Starts(r, "heal", "set_billing")
                /\ work'[r].fleet = account.fleet
                /\ work'[r].monthly = MonthlyRecurring(configs[c].items, account.fleet)
           ELSE Starts(r, "view", "list_payments")
    BY <1>1, <1>3, Arrivals
  <2>2. /\ UNCHANGED <<cycles, terms, configs, account, payments, assigned, today, settled>>
        /\ configs[c] # None
    BY <1>3 DEF ViewBilling
  <2>3. RowsOK' /\ c \in DOMAIN terms
    BY <1>1, <2>2 DEF RowsOK
  <2>4. /\ configs[c] \in Configs /\ configs[c].frequency = terms[c].frequency
        /\ account.fleet \in Fleets
    BY <1>1, <2>2 DEF RowsOK, Account
  <2>5. MonthlyRecurring(configs[c].items, account.fleet) \in Amounts
    BY <2>4, DuesAreAmounts
  <2>6. CASE account.monthly = None
    <3>1. Starts(r, "heal", "set_billing")
      BY <2>1, <2>6
    <3>2. Placed(work'[r])
      BY <3>1 DEF Starts, Placed, Generates, DuesKinds, Kinds
    <3> QED
      BY <2>1, <2>2, <2>3, <2>4, <2>5, <2>6, <3>1, <3>2, TypeStarts DEF Kinds
  <2>7. CASE account.monthly # None
    <3>1. Starts(r, "view", "list_payments")
      BY <2>1, <2>7
    <3>2. Placed(work'[r])
      BY <3>1 DEF Starts, Placed, Generates
    <3> QED
      BY <2>1, <2>2, <2>3, <2>4, <3>1, <3>2, TypeStarts DEF Kinds
  <2> QED
    BY <2>6, <2>7
<1>4. ASSUME NEW line \in Lines, NEW correction \in Corrections, Correct(r, line, correction)
      PROVE  TypeInv'
  <2>1. /\ Starts(r, "correct", "put_term")
        /\ work'[r].cycle = InForce /\ work'[r].next = line
        /\ work'[r].row = [terms[InForce].lines[line] EXCEPT !.override = Joins(@, correction)]
    BY <1>1, <1>4, CorrectStarts
  <2>2. /\ UNCHANGED <<cycles, terms, configs, account, payments, assigned, today, settled>>
        /\ line \in DOMAIN terms[InForce].lines
    BY <1>4 DEF Correct
  <2>3. RowsOK' /\ InForce \in DOMAIN terms /\ terms[InForce] \in Terms
    BY <1>1, <2>2, InForceIsCycle DEF RowsOK
  <2>4. terms[InForce].lines[line] \in PricingRows
    BY <2>2, <2>3, LineIsRow DEF Terms
  <2>5. work'[r].row \in PricingRows
    BY <2>1, <2>4, CorrectedRow
  <2>6. Placed(work'[r]) /\ ~Holds(work'[r])
    BY <2>1 DEF Starts, Placed, Holds, Generates
  <2> QED
    BY <2>1, <2>2, <2>3, <2>5, <2>6, TypeStarts DEF Kinds
<1>5. ASSUME NEW override \in Overrides, SetFleet(r, override)
      PROVE  TypeInv'
  <2>1. /\ Starts(r, "fleet", "set_override")
        /\ work'[r].cycle = InForce /\ work'[r].row = override
    BY <1>1, <1>5, Arrivals
  <2>2. UNCHANGED <<cycles, terms, configs, account, payments, assigned, today, settled>>
    BY <1>5 DEF SetFleet
  <2>3. RowsOK' /\ InForce \in DOMAIN terms
    BY <1>1, <2>2, InForceIsCycle DEF RowsOK
  <2>4. Placed(work'[r]) /\ ~Holds(work'[r])
    BY <2>1 DEF Starts, Placed, Holds, Generates
  <2> QED
    BY <2>1, <2>2, <2>3, <2>4, TypeStarts DEF Kinds
<1>6. ASSUME NEW n \in 0..MaxVehicles, MoveVehicle(r, n)
      PROVE  TypeInv'
  <2>1. Starts(r, "vehicle", "count")
    BY <1>1, <1>6, Arrivals
  <2>2. /\ UNCHANGED <<cycles, terms, configs, account, payments, today>>
        /\ assigned' = n /\ settled' = [settled EXCEPT !.fleet = FALSE]
    BY <1>6 DEF MoveVehicle
  <2>3. settled' \in Settled
    BY <1>1, <2>2 DEF RowsOK, Settled
  <2>4. RowsOK'
    BY <1>1, <2>2, <2>3 DEF RowsOK
  <2>5. Placed(work'[r]) /\ ~Holds(work'[r])
    BY <2>1 DEF Starts, Placed, Holds, Generates
  <2> QED
    BY <2>1, <2>2, <2>4, <2>5, TypeStarts DEF Kinds
<1>7. ASSUME NEW i \in DOMAIN payments, Pay(r, i)
      PROVE  TypeInv'
  <2>1. /\ Starts(r, "pay", "put_payment") /\ work'[r].next = i
        /\ work'[r].row = [payments[i] EXCEPT !.paid = TRUE, !.amount = AmountDue]
    BY <1>1, <1>7, Arrivals
  <2>2. UNCHANGED <<cycles, terms, configs, account, payments, assigned, today, settled>>
    BY <1>7 DEF Pay
  <2>3. RowsOK' /\ payments[i] \in PaymentRows
    BY <1>1, <2>2 DEF RowsOK
  <2>4. AmountDue \in Nat
    BY <1>1, AmountIsDue DEF RowsOK
  <2> DEFINE due == AmountDue
             row == [payments[i] EXCEPT !.paid = TRUE, !.amount = due]
  <2> HIDE DEF due
  <2>5. due \in Nat => row \in PaymentRows /\ row.paid /\ row.amount # None
    BY <2>3, DuesAreNumbers DEF PaymentRows, Amounts
  <2>6. Placed(work'[r]) /\ ~Holds(work'[r])
    BY <2>1 DEF Starts, Placed, Holds, Generates
  <2>7. work'[r].row \in PaymentRows /\ work'[r].row.paid /\ work'[r].row.amount # None
    BY <2>1, <2>4, <2>5 DEF due
  <2> QED
    BY <2>1, <2>2, <2>3, <2>6, <2>7, TypeStarts DEF Kinds
<1> QED
  BY <1>2, <1>3, <1>4, <1>5, <1>6, <1>7, Zenon DEF Arrives

\* Nobody moves: the cycles do, or time.
LEMMA TypeAround ==
  ASSUME TypeInv, IInv', RowsOK', TermsStay(terms, terms'), UNCHANGED <<payments, work>>
  PROVE  TypeInv'
<1>1. \A r \in Requests : Typed(work[r], terms, payments) => Typed(work[r], terms', payments)
  <2>1. \A r \in Requests : Placed(work[r])
    BY DEF TypeInv
  <2>2. \A w : Holds(w) /\ Placed(w) => OnCycle(w)
    BY DEF Placed, Holds, OnCycle, Generates
  <2>3. \A w : w.at = "put_term" /\ Placed(w) => OnCycle(w)
    BY DEF Placed, OnCycle
  <2> QED
    BY <2>1, <2>2, <2>3 DEF Typed, TermsStay
<1> QED
  BY <1>1 DEF TypeInv

LEMMA TypeStep ==
  ASSUME TypeInv, [Next]_vars
  PROVE  TypeInv'
<1>1. IInv' /\ IInv /\ RowsOK
  BY InductiveStep DEF TypeInv
<1>2. ASSUME NEW r \in Requests, Dies(r)
      PROVE  TypeInv'
  <2>1. Stops(r)
    BY <1>1, <1>2, Stopping DEF Dies
  <2>2. UNCHANGED <<cycles, terms, configs, account, payments, assigned, today>>
    BY <1>2 DEF Dies
  <2>3. settled' \in Settled
    BY <1>1, <1>2 DEF Dies, RowsOK, Settled
  <2>4. RowsOK'
    BY <1>1, <2>2, <2>3 DEF RowsOK
  <2> QED
    BY <1>1, <2>1, <2>2, <2>4, IdleIsTyped, TypeKept DEF Stops, TermsStay
<1>3. ASSUME NEW r \in Requests, Continues(r)
      PROVE  TypeInv'
  BY <1>1, <1>3, TypeBuild, TypeSchedule, TypeFleet, Zenon DEF Continues
<1>4. ASSUME NEW r \in Requests, Arrives(r)
      PROVE  TypeInv'
  BY <1>1, <1>4, TypeArrives
<1>5. ASSUME NEW c \in DOMAIN cycles, ApproveBilling(c)
      PROVE  TypeInv'
  <2>1. /\ UNCHANGED <<terms, configs, account, payments, assigned, today, work, settled>>
        /\ cycles' = [cycles EXCEPT ![c] = "ACTIVE"]
    BY <1>5 DEF ApproveBilling
  <2>2. cycles' \in Seq(Statuses) /\ Len(cycles') = Len(cycles)
    BY <1>1, <2>1 DEF RowsOK, Statuses
  <2>3. RowsOK'
    BY <1>1, <2>1, <2>2 DEF RowsOK
  <2> QED
    BY <1>1, <2>1, <2>3, TypeAround DEF TermsStay
<1>6. ASSUME NEW c \in DOMAIN Readings, NEW reading \in Readings[c], Amend(reading)
      PROVE  TypeInv'
  <2>1. /\ UNCHANGED <<account, payments, assigned, today, work, settled>>
        /\ cycles' = Append(cycles, "PENDING_CLIENT_APPROVAL")
        /\ terms' = Append(terms, reading)
        /\ configs' = Append(configs, None)
    BY <1>6 DEF Amend
  <2>2. reading \in Terms
    BY ReadIsTerms
  <2>3. cycles' \in Seq(Statuses) /\ Len(cycles') = Len(cycles) + 1
    BY <1>1, <2>1 DEF RowsOK, Statuses
  <2>4. terms' \in Seq(Terms) /\ Len(terms') = Len(terms) + 1
        /\ \A i \in DOMAIN terms : terms'[i] = terms[i]
    BY <1>1, <2>1, <2>2 DEF RowsOK
  <2>5. configs' \in Seq(Configs \cup {None}) /\ Len(configs') = Len(configs) + 1
        /\ \A i \in DOMAIN configs : configs'[i] = configs[i]
        /\ configs'[Len(configs) + 1] = None
    BY <1>1, <2>1 DEF RowsOK
  <2>6. \A i \in DOMAIN configs' : configs'[i] # None => configs'[i].frequency = terms'[i].frequency
    BY <1>1, <2>4, <2>5 DEF RowsOK
  <2>7. RowsOK' /\ TermsStay(terms, terms')
    BY <1>1, <2>1, <2>3, <2>4, <2>5, <2>6 DEF RowsOK, TermsStay
  <2> QED
    BY <1>1, <2>1, <2>7, TypeAround
<1>7. CASE DayPasses
  <2>1. RowsOK'
    BY <1>1, <1>7, BillingBounds DEF DayPasses, RowsOK
  <2> QED
    BY <1>1, <1>7, <2>1, TypeAround DEF DayPasses, TermsStay
<1>8. CASE UNCHANGED vars
  <2>1. RowsOK'
    BY <1>1, <1>8 DEF vars, RowsOK
  <2> QED
    BY <1>1, <1>8, <2>1, TypeAround DEF vars, TermsStay
<1> QED
  BY <1>2, <1>3, <1>4, <1>5, <1>6, <1>7, <1>8, Zenon DEF Next

LEMMA TypeInit == Init => TypeInv
<1> SUFFICES ASSUME Init PROVE TypeInv
  OBVIOUS
<1>1. PICK reading \in Readings[1] : terms = <<reading>>
  BY DEF Init
<1>2. reading \in Terms
  BY ReadIsTerms, ReadingsPriceLines
<1>3. /\ cycles = <<"PENDING_CLIENT_APPROVAL">> /\ configs = <<None>> /\ payments = <<>>
      /\ assigned = 0 /\ today = 0
      /\ settled = [config |-> TRUE, dues |-> TRUE, fleet |-> TRUE, schedule |-> TRUE]
      /\ \A r \in Requests : work[r] = Idle
  BY DEF Init
<1>4. 0 \in Fleets
  <2>1. EffectiveFleet(0, None) = 0
    BY DEF EffectiveFleet, AtLeast
  <2> QED
    BY <2>1, FleetIsOne, OverridesAreSizes, BillingBounds
<1>5. account \in Account
  BY <1>4, OverridesAreSizes DEF Init, Account, Amounts, Cadence
<1>6. cycles \in Seq(Statuses) /\ Len(cycles) = 1
  BY <1>3 DEF Statuses
<1>7. terms \in Seq(Terms) /\ Len(terms) = 1
  BY <1>1, <1>2
<1>8. configs \in Seq(Configs \cup {None}) /\ Len(configs) = 1
      /\ \A c \in DOMAIN configs : configs[c] = None
  BY <1>3
<1>9. DOMAIN payments = {} /\ payments \in [DOMAIN payments -> PaymentRows]
  BY <1>3
<1>10. RowsOK
  BY <1>3, <1>5, <1>6, <1>7, <1>8, <1>9, BillingBounds DEF RowsOK, Settled
<1>11. IInv
  BY Beginnings
<1> QED
  BY <1>3, <1>10, <1>11, IdleIsTyped DEF TypeInv

THEOREM Types == Spec => []TypeInv
<1>1. TypeInv /\ [Next]_vars => TypeInv'
  BY TypeStep
<1> QED
  BY TypeInit, <1>1, PTL DEF Spec

\* Every row and every request is what it should be: amounts are amounts, rows
\* are paid when they have one, and sequence numbers are those of a schedule.
THEOREM TypeCorrect == Spec => []TypeOK
<1>1. TypeInv => TypeOK
  <2> SUFFICES ASSUME TypeInv PROVE TypeOK
    OBVIOUS
  <2>1. RowsOK /\ \A r \in Requests : work[r].kind \in Kinds \cup {None}
    BY DEF TypeInv, Typed
  <2>2. account.fleet \in Nat
    BY <2>1, FleetsAreNumbers DEF RowsOK, Account
  <2> QED
    BY <2>1, <2>2 DEF TypeOK, RowsOK, Account, Paid, PaymentRows
<1> QED
  BY Types, <1>1, PTL

-----------------------------------------------------------------------------
(* Every step keeps CycleInv. *)

\* A configuration of any cycle means that the first one has one.
LEMMA FirstConfig ==
  ASSUME RowsOK, CyclesOK, NEW c \in DOMAIN cycles, configs[c] # None
  PROVE  configs[1] # None
<1>1. c \in 1..Len(cycles) /\ 1 \in DOMAIN cycles /\ Len(cycles) \in Nat
  BY DEF RowsOK
<1>2. CASE c # 1
  <2>1. cycles[1] = "ACTIVE"
    BY <1>1, <1>2 DEF CyclesOK, OneAtATime
  <2> QED
    BY <1>1, <2>1 DEF CyclesOK, Audited
<1> QED
  BY <1>2

LEMMA BoundStays ==
  ASSUME NEW v, NEW w, NEW ss, NEW cs, NEW st, NEW ct,
         Alike(v, w), Bound(w, ss, cs), Placed(w), OnCycle(w) => w.cycle \in DOMAIN ss,
         Signs(w) => st[w.cycle] = ss[w.cycle],
         Signs(w) /\ w.at \in {"read_terms", "put_config"} => ct[w.cycle] = cs[w.cycle],
         \A c \in DOMAIN ss : ss[c] \in Audited => st[c] \in Audited,
         \A c \in DOMAIN ss : cs[c] # None => ct[c] # None,
         1 \in DOMAIN ss
  PROVE  Bound(v, st, ct)
<1>1. (Signs(v) <=> Signs(w)) /\ (Stored(v) <=> Stored(w))
  BY DEF Alike, Signs, Stored, Holds
<1>2. Signs(w) \/ Stored(w) \/ w.at = "ready" \/ (w.at # "idle" /\ w.kind = "correct") => OnCycle(w)
  BY DEF Signs, Stored, Holds, OnCycle, Placed, Generates
<1>3. /\ Signs(v) => st[v.cycle] = "BILLING_SETUP"
      /\ Signs(v) /\ v.at \in {"read_terms", "put_config"} => ct[v.cycle] = None
  BY <1>1 DEF Bound, Alike
<1>4. v.at # "idle" /\ v.kind = "correct" => st[v.cycle] \in Audited
  BY <1>2 DEF Bound, Alike
<1>5. Stored(v) \/ v.at = "ready" => ct[v.cycle] # None
  BY <1>1, <1>2 DEF Bound, Alike
<1>6. v.at = "set_billing" /\ v.monthly # None => ct[1] # None
  BY DEF Bound, Alike
<1> QED
  BY <1>3, <1>4, <1>5, <1>6 DEF Bound

LEMMA IdleIsBound ==
  ASSUME NEW ss, NEW cs
  PROVE  Bound(Idle, ss, cs) /\ ~Signs(Idle)
BY DEF Bound, Signs, Stored, Holds, Idle

\* The facts about a request that the steps below start from.
LEMMA Known ==
  ASSUME TypeInv, CycleInv, NEW r \in Requests
  PROVE  /\ IInv /\ RowsOK /\ CyclesOK
         /\ Placed(work[r]) /\ Typed(work[r], terms, payments) /\ Bound(work[r], cycles, configs)
         /\ DOMAIN terms = DOMAIN cycles /\ DOMAIN configs = DOMAIN cycles
         /\ DOMAIN cycles = 1..Len(cycles) /\ Len(cycles) \in Nat \ {0} /\ 1 \in DOMAIN cycles
         /\ OnCycle(work[r]) => work[r].cycle \in DOMAIN cycles
BY DEF TypeInv, CycleInv, RowsOK, Typed

\* A request moved; the cycles and the configurations may have, too.
LEMMA CycleKept ==
  ASSUME TypeInv, CycleInv, CyclesOK', NEW r \in Requests, OthersAlike(r),
         Bound(work'[r], cycles', configs'),
         \A o \in Requests \ {r} :
           /\ Signs(work[o]) => cycles'[work[o].cycle] = cycles[work[o].cycle]
           /\ Signs(work[o]) /\ work[o].at \in {"read_terms", "put_config"} =>
                configs'[work[o].cycle] = configs[work[o].cycle]
           /\ Signs(work[o]) /\ Signs(work'[r]) => work[o].cycle # work'[r].cycle,
         \A c \in DOMAIN cycles : cycles[c] \in Audited => cycles'[c] \in Audited,
         \A c \in DOMAIN cycles : configs[c] # None => configs'[c] # None
  PROVE  CycleInv'
<1>1. \A o \in Requests \ {r} : Bound(work'[o], cycles', configs')
  BY Known, BoundStays DEF OthersAlike
<1>2. \A o \in Requests \ {r} :
        (Signs(work'[o]) <=> Signs(work[o])) /\ work'[o].cycle = work[o].cycle
  BY DEF OthersAlike, Alike, Signs
<1> QED
  BY <1>1, <1>2 DEF CycleInv

LEMMA CycleQuiet ==
  ASSUME TypeInv, CycleInv, NEW r \in Requests, OthersAlike(r),
         UNCHANGED <<cycles, configs>>,
         account'.monthly # None => configs[1] # None,
         Bound(work'[r], cycles, configs),
         Signs(work'[r]) => Signs(work[r]) /\ work'[r].cycle = work[r].cycle
  PROVE  CycleInv'
<1>1. CyclesOK'
  BY DEF CycleInv, CyclesOK
<1> QED
  BY <1>1, CycleKept DEF CycleInv

LEMMA CycleBuild ==
  ASSUME TypeInv, CycleInv, NEW r \in Requests,
         ReadTerms(r) \/ PutConfig(r) \/ ReadFleet(r) \/ SetBilling(r)
  PROVE  CycleInv'
<1>1. /\ IInv /\ RowsOK /\ CyclesOK
      /\ Placed(work[r]) /\ Typed(work[r], terms, payments) /\ Bound(work[r], cycles, configs)
      /\ DOMAIN configs = DOMAIN cycles /\ 1 \in DOMAIN cycles
      /\ OnCycle(work[r]) => work[r].cycle \in DOMAIN cycles
  BY Known
<1>2. CASE ReadTerms(r)
  <2>1. Follows(r, "read_terms", "put_config")
    BY <1>1, <1>2, BuildSteps
  <2>2. UNCHANGED <<cycles, configs, account>>
    BY <1>2 DEF ReadTerms
  <2>3. Bound(work'[r], cycles, configs)
    BY <1>1, <2>1 DEF Follows, Bound, Signs, Stored, Holds
  <2> QED
    BY <1>1, <2>1, <2>2, <2>3, CycleQuiet DEF Follows, Signs, CyclesOK
<1>3. CASE PutConfig(r)
  <2> DEFINE c == work[r].cycle
  <2>1. Follows(r, "put_config", "read_fleet")
    BY <1>1, <1>3, BuildSteps
  <2>2. /\ UNCHANGED <<cycles, account>>
        /\ configs' = [configs EXCEPT ![c] = work[r].config]
    BY <1>3 DEF PutConfig
  <2>3. c \in DOMAIN cycles /\ work[r].config # None /\ work[r].kind \in {"sign", "correct"}
    BY <1>1, <2>1, DuesAreNumbers DEF Follows, Placed, OnCycle, Typed, Holds
  <2>4. cycles[c] \in Audited \cup {"BILLING_SETUP"}
    BY <1>1, <2>1, <2>3 DEF Follows, Bound, Signs
  <2>5. /\ \A d \in DOMAIN cycles : configs[d] # None => configs'[d] # None
        /\ \A d \in DOMAIN cycles : d # c => configs'[d] = configs[d]
        /\ configs'[c] # None
    BY <1>1, <2>2, <2>3
  <2>6. CyclesOK'
    BY <1>1, <2>2, <2>3, <2>4, <2>5 DEF CyclesOK, Audited
  <2>7. Bound(work'[r], cycles, configs')
    BY <1>1, <2>1, <2>3, <2>5 DEF Follows, Bound, Signs, Stored, Holds
  <2>8. ASSUME NEW o \in Requests \ {r}, Signs(work[o])
        PROVE  work[o].cycle # c /\ work[o].cycle \in DOMAIN cycles
    <3>1. cycles[work[o].cycle] = "BILLING_SETUP" /\ work[o].cycle \in DOMAIN cycles
      BY <2>8, Known DEF Bound, Signs, OnCycle
    <3>2. CASE work[r].kind = "sign"
      BY <2>1, <2>8, <3>1, <3>2 DEF CycleInv, Signs, Follows
    <3>3. CASE work[r].kind = "correct"
      BY <1>1, <2>1, <3>1, <3>3 DEF Bound, Follows, Audited
    <3> QED
      BY <2>3, <3>2, <3>3
  <2>9. work'[r].cycle = c
    BY <2>1 DEF Follows
  <2> HIDE DEF c
  <2> QED
    BY <2>1, <2>2, <2>5, <2>6, <2>7, <2>8, <2>9, CycleKept DEF Follows
<1>4. CASE ReadFleet(r)
  <2>1. Follows(r, "read_fleet", "set_billing")
    BY <1>1, <1>4, BuildSteps
  <2>2. UNCHANGED <<cycles, configs, account>>
    BY <1>4 DEF ReadFleet
  <2>3. configs[work[r].cycle] # None /\ work[r].cycle \in DOMAIN cycles
    BY <1>1, <2>1 DEF Follows, Bound, Stored, Holds, Placed, OnCycle
  <2>4. configs[1] # None
    BY <1>1, <2>3, FirstConfig
  <2>5. Bound(work'[r], cycles, configs)
    BY <1>1, <2>1, <2>3, <2>4 DEF Follows, Bound, Signs, Stored, Holds
  <2> QED
    BY <1>1, <2>1, <2>2, <2>5, CycleQuiet DEF Follows, Signs, CyclesOK
<1>5. CASE SetBilling(r)
  <2>1. /\ UNCHANGED <<cycles, configs>> /\ work[r].at = "set_billing"
        /\ account' = [account EXCEPT !.fleet = work[r].fleet, !.monthly = work[r].monthly]
    BY <1>5 DEF SetBilling
  <2>2. account'.monthly # None => configs[1] # None
    BY <1>1, <2>1 DEF Bound, RowsOK, Account
  <2>3. CASE work[r].kind \in {"sign", "heal"}
    <3>1. Follows(r, "set_billing", "list_payments")
      BY <1>1, <1>5, <2>3, BuildSteps
    <3>2. Bound(work'[r], cycles, configs)
      BY <1>1, <2>3, <3>1 DEF Follows, Bound, Signs, Stored, Holds
    <3> QED
      BY <2>1, <2>2, <3>1, <3>2, CycleQuiet DEF Follows, Signs
  <2>4. CASE work[r].kind \notin {"sign", "heal"}
    <3>1. Stops(r)
      BY <1>1, <1>5, <2>4, BuildSteps
    <3> QED
      BY <2>1, <2>2, <3>1, IdleIsBound, CycleQuiet DEF Stops
  <2> QED
    BY <2>3, <2>4
<1> QED
  BY <1>2, <1>3, <1>4, <1>5

LEMMA CycleSchedule ==
  ASSUME TypeInv, CycleInv, NEW r \in Requests,
         ListPayments(r) \/ PutRow(r) \/ SetSchedule(r) \/ BillingReady(r)
  PROVE  CycleInv'
<1>1. /\ IInv /\ RowsOK /\ CyclesOK
      /\ Placed(work[r]) /\ Typed(work[r], terms, payments) /\ Bound(work[r], cycles, configs)
      /\ DOMAIN configs = DOMAIN cycles /\ 1 \in DOMAIN cycles
      /\ OnCycle(work[r]) => work[r].cycle \in DOMAIN cycles
  BY Known
<1>2. CASE ListPayments(r)
  <2>1. UNCHANGED <<cycles, configs, account>>
    BY <1>2 DEF ListPayments
  <2>2. CASE Stops(r)
    BY <1>1, <2>1, <2>2, IdleIsBound, CycleQuiet DEF Stops, CyclesOK
  <2>3. CASE \E to \in {"put_row", "ready"} : Follows(r, "list_payments", to)
    <3>1. Bound(work'[r], cycles, configs)
      BY <1>1, <2>3 DEF Follows, Bound, Signs, Stored, Holds
    <3> QED
      BY <1>1, <2>1, <2>3, <3>1, CycleQuiet DEF Follows, Signs, CyclesOK
  <2> QED
    BY <1>1, <1>2, <2>2, <2>3, ScheduleSteps
<1>3. CASE PutRow(r)
  <2> DEFINE place == IF work[r].next + 1 = Instalments THEN "set_schedule" ELSE "put_row"
  <2>1. Follows(r, "put_row", place)
    BY <1>1, <1>3, ScheduleSteps
  <2>2. UNCHANGED <<cycles, configs, account>>
    BY <1>3 DEF PutRow
  <2>3. place \in {"put_row", "set_schedule"}
    OBVIOUS
  <2> HIDE DEF place
  <2>4. Bound(work'[r], cycles, configs)
    BY <1>1, <2>1, <2>3 DEF Follows, Bound, Signs, Stored, Holds
  <2> QED
    BY <1>1, <2>1, <2>2, <2>4, CycleQuiet DEF Follows, Signs, CyclesOK
<1>4. CASE SetSchedule(r)
  <2>1. UNCHANGED <<cycles, configs>> /\ account'.monthly = account.monthly
    BY <1>1, <1>4 DEF SetSchedule, RowsOK, Account
  <2>2. CASE Stops(r)
    BY <1>1, <2>1, <2>2, IdleIsBound, CycleQuiet DEF Stops, CyclesOK
  <2>3. CASE Follows(r, "set_schedule", "ready")
    <3>1. Bound(work'[r], cycles, configs)
      BY <1>1, <2>3 DEF Follows, Bound, Signs, Stored, Holds
    <3> QED
      BY <1>1, <2>1, <2>3, <3>1, CycleQuiet DEF Follows, Signs, CyclesOK
  <2> QED
    BY <1>1, <1>4, <2>2, <2>3, ScheduleSteps
<1>5. CASE BillingReady(r)
  <2> DEFINE c == work[r].cycle
  <2>1. Stops(r) /\ work[r].at = "ready" /\ UNCHANGED <<configs, account>>
    BY <1>1, <1>5, ScheduleSteps DEF BillingReady
  <2>2. Signs(work[r]) /\ cycles[c] = "BILLING_SETUP" /\ c \in DOMAIN cycles /\ configs[c] # None
    BY <1>1, <2>1 DEF Signs, Placed, Bound, OnCycle
  <2>3. cycles' = [cycles EXCEPT ![c] = "PENDING_BILLING_AUDIT"]
    BY <1>5, <2>2 DEF BillingReady
  <2>4. /\ DOMAIN cycles' = DOMAIN cycles /\ Len(cycles') = Len(cycles)
        /\ cycles'[c] = "PENDING_BILLING_AUDIT" /\ \A d \in DOMAIN cycles : d # c => cycles'[d] = cycles[d]
    BY <1>1, <2>2, <2>3 DEF RowsOK, Statuses
  <2>5. CyclesOK'
    BY <1>1, <2>1, <2>2, <2>4 DEF CyclesOK, OneAtATime, Audited
  <2>6. ASSUME NEW o \in Requests \ {r}, Signs(work[o])
        PROVE  work[o].cycle # c /\ work[o].cycle \in DOMAIN cycles
    BY <2>2, <2>6, Known DEF CycleInv, OnCycle, Signs
  <2>7. \A d \in DOMAIN cycles : cycles[d] \in Audited => cycles'[d] \in Audited
    BY <2>4 DEF Audited
  <2>8. Bound(work'[r], cycles', configs') /\ ~Signs(work'[r])
    BY <2>1, IdleIsBound DEF Stops
  <2> HIDE DEF c
  <2> QED
    BY <2>1, <2>4, <2>5, <2>6, <2>7, <2>8, CycleKept DEF Stops
<1> QED
  BY <1>2, <1>3, <1>4, <1>5

LEMMA CycleFleet ==
  ASSUME TypeInv, CycleInv, NEW r \in Requests,
         PutTerm(r) \/ SetOverride(r) \/ Price(r) \/ Count(r) \/ Sync(r) \/ PutPayment(r)
  PROVE  CycleInv'
<1>1. /\ IInv /\ RowsOK /\ CyclesOK
      /\ Placed(work[r]) /\ Typed(work[r], terms, payments) /\ Bound(work[r], cycles, configs)
      /\ DOMAIN configs = DOMAIN cycles /\ 1 \in DOMAIN cycles
      /\ OnCycle(work[r]) => work[r].cycle \in DOMAIN cycles
  BY Known
<1>2. UNCHANGED <<cycles, configs>>
  BY DEF PutTerm, SetOverride, Price, Count, Sync, PutPayment
<1>3. account'.monthly = account.monthly
  BY <1>1 DEF PutTerm, SetOverride, Price, Count, Sync, PutPayment, RowsOK, Account
<1>4. account'.monthly # None => configs[1] # None
  BY <1>1, <1>3 DEF CyclesOK
<1>5. \A c \in DOMAIN cycles : \A config \in ReadableConfigs(c) : config # None => configs[1] # None
  BY <1>1, FirstConfig DEF ReadableConfigs
<1>6. CASE PutTerm(r)
  <2>1. Follows(r, "put_term", "read_terms") /\ work[r].kind = "correct"
    BY <1>1, <1>6, FleetSteps DEF Follows, Placed
  <2>2. Bound(work'[r], cycles, configs)
    BY <1>1, <2>1 DEF Follows, Bound, Signs, Stored, Holds
  <2> QED
    BY <1>2, <1>4, <2>1, <2>2, CycleQuiet DEF Follows, Signs
<1>7. CASE SetOverride(r)
  <2>1. Follows(r, "set_override", "price")
    BY <1>1, <1>7, FleetSteps
  <2>2. Bound(work'[r], cycles, configs)
    BY <1>1, <2>1 DEF Follows, Bound, Signs, Stored, Holds
  <2> QED
    BY <1>2, <1>4, <2>1, <2>2, CycleQuiet DEF Follows, Signs
<1>8. CASE Price(r)
  <2>1. Follows(r, "price", "set_billing") /\ work[r].kind = "fleet"
    BY <1>1, <1>8, FleetSteps DEF Follows, Placed
  <2>2. work'[r].monthly # None => configs[1] # None
    <3>1. PICK config \in ReadableConfigs(work[r].cycle) :
            work'[r].monthly = IF config = None THEN None
                               ELSE MonthlyRecurring(config.items, work'[r].fleet)
      BY <1>1, <1>8, FleetSteps
    <3>2. work[r].cycle \in DOMAIN cycles
      BY <1>1, <2>1 DEF OnCycle, Follows
    <3> QED
      BY <1>5, <3>1, <3>2
  <2>3. Bound(work'[r], cycles, configs)
    BY <1>1, <2>1, <2>2 DEF Follows, Bound, Signs, Stored, Holds
  <2> QED
    BY <1>2, <1>4, <2>1, <2>3, CycleQuiet DEF Follows, Signs
<1>9. CASE Count(r)
  <2>1. Follows(r, "count", "sync")
    BY <1>1, <1>9, FleetSteps
  <2>2. Bound(work'[r], cycles, configs)
    BY <1>1, <2>1 DEF Follows, Bound, Signs, Stored, Holds
  <2> QED
    BY <1>2, <1>4, <2>1, <2>2, CycleQuiet DEF Follows, Signs
<1>10. CASE Sync(r)
  <2>1. CASE Stops(r)
    BY <1>2, <1>4, <2>1, IdleIsBound, CycleQuiet DEF Stops
  <2>2. CASE ~Stops(r)
    <3>1. /\ work[r].at = "sync" /\ work'[r].at = "set_billing" /\ work'[r].kind = work[r].kind
          /\ work'[r].cycle = work[r].cycle /\ OthersAlike(r)
      BY <1>1, <1>10, <2>2, SyncStep DEF Typed
    <3>2. PICK config \in ReadableConfigs(InForce) :
            work'[r].monthly = IF config = None THEN account.monthly
                               ELSE MonthlyRecurring(config.items, work'[r].fleet)
      BY <1>1, <1>10, <2>2, SyncStep DEF Typed
    <3>3. work'[r].monthly # None => configs[1] # None
      BY <1>1, <1>5, <3>2, InForceIsCycle DEF CyclesOK, RowsOK
    <3>4. Bound(work'[r], cycles, configs) /\ ~Signs(work'[r])
      BY <1>1, <3>1, <3>3 DEF Placed, Bound, Signs, Stored, Holds
    <3> QED
      BY <1>2, <1>4, <3>1, <3>4, CycleQuiet
  <2> QED
    BY <2>1, <2>2
<1>11. CASE PutPayment(r)
  <2>1. Stops(r)
    BY <1>1, <1>11, FleetSteps
  <2> QED
    BY <1>2, <1>4, <2>1, IdleIsBound, CycleQuiet DEF Stops
<1> QED
  BY <1>6, <1>7, <1>8, <1>9, <1>10, <1>11

LEMMA CycleArrives ==
  ASSUME TypeInv, CycleInv, NEW r \in Requests, Arrives(r)
  PROVE  CycleInv'
<1>1. /\ IInv /\ RowsOK /\ CyclesOK
      /\ DOMAIN configs = DOMAIN cycles /\ 1 \in DOMAIN cycles
      /\ DOMAIN cycles = 1..Len(cycles) /\ Len(cycles) \in Nat
  BY Known
<1>2. ASSUME NEW c \in DOMAIN cycles, Sign(r, c)
      PROVE  CycleInv'
  <2>1. Starts(r, "sign", "read_terms") /\ work'[r].cycle = c
    BY <1>1, <1>2, Arrivals
  <2>2. /\ UNCHANGED <<configs, account>> /\ cycles[c] = "PENDING_CLIENT_APPROVAL"
        /\ cycles' = [cycles EXCEPT ![c] = "BILLING_SETUP"]
    BY <1>2 DEF Sign
  <2>3. /\ DOMAIN cycles' = DOMAIN cycles /\ Len(cycles') = Len(cycles)
        /\ cycles'[c] = "BILLING_SETUP" /\ \A d \in DOMAIN cycles : d # c => cycles'[d] = cycles[d]
    BY <1>1, <2>2 DEF RowsOK, Statuses
  <2>4. CyclesOK'
    BY <1>1, <2>2, <2>3 DEF CyclesOK, OneAtATime, Audited
  <2>5. Bound(work'[r], cycles', configs')
    BY <1>1, <2>1, <2>2, <2>3 DEF Starts, Bound, Signs, Stored, Holds, CyclesOK
  <2>6. ASSUME NEW o \in Requests \ {r}, Signs(work[o])
        PROVE  work[o].cycle # c /\ work[o].cycle \in DOMAIN cycles
    BY <2>2, <2>6, Known DEF Bound, OnCycle, Signs
  <2>7. \A d \in DOMAIN cycles : cycles[d] \in Audited => cycles'[d] \in Audited
    BY <2>2, <2>3 DEF Audited
  <2> QED
    BY <2>1, <2>2, <2>3, <2>4, <2>5, <2>6, <2>7, CycleKept DEF Starts
<1>3. ASSUME NEW c \in DOMAIN cycles, ViewBilling(r, c)
      PROVE  CycleInv'
  <2>1. /\ work'[r].cycle = c
        /\ Starts(r, "heal", "set_billing") \/ Starts(r, "view", "list_payments")
    BY <1>1, <1>3, Arrivals
  <2>2. UNCHANGED <<cycles, configs, account>> /\ configs[c] # None
    BY <1>3 DEF ViewBilling
  <2>3. configs[1] # None
    BY <1>1, <2>2, FirstConfig
  <2>4. Bound(work'[r], cycles, configs) /\ ~Signs(work'[r]) /\ OthersAlike(r)
    BY <2>1, <2>2, <2>3 DEF Starts, Bound, Signs, Stored, Holds
  <2> QED
    BY <1>1, <2>2, <2>3, <2>4, CycleQuiet
<1>4. ASSUME NEW line \in Lines, NEW correction \in Corrections, Correct(r, line, correction)
      PROVE  CycleInv'
  <2>1. Starts(r, "correct", "put_term") /\ work'[r].cycle = InForce
    BY <1>1, <1>4, CorrectStarts
  <2>2. UNCHANGED <<cycles, configs, account>> /\ cycles[InForce] = "PENDING_BILLING_AUDIT"
    BY <1>4 DEF Correct
  <2>3. Bound(work'[r], cycles, configs) /\ ~Signs(work'[r]) /\ OthersAlike(r)
    BY <2>1, <2>2 DEF Starts, Bound, Signs, Stored, Holds, Audited
  <2> QED
    BY <1>1, <2>2, <2>3, CycleQuiet DEF CyclesOK
<1>5. ASSUME NEW kind \in {"fleet", "vehicle", "pay"}, NEW at \in {"set_override", "count", "put_payment"},
             Starts(r, kind, at), UNCHANGED <<cycles, configs, account>>
      PROVE  CycleInv'
  <2>1. Bound(work'[r], cycles, configs) /\ ~Signs(work'[r]) /\ OthersAlike(r)
    BY <1>5 DEF Starts, Bound, Signs, Stored, Holds
  <2> QED
    BY <1>1, <1>5, <2>1, CycleQuiet DEF CyclesOK
<1>6. ASSUME NEW override \in Overrides, SetFleet(r, override)
      PROVE  CycleInv'
  <2>1. Starts(r, "fleet", "set_override") /\ UNCHANGED <<cycles, configs, account>>
    BY <1>1, <1>6, Arrivals DEF SetFleet
  <2> QED
    BY <1>5, <2>1
<1>7. ASSUME NEW n \in 0..MaxVehicles, MoveVehicle(r, n)
      PROVE  CycleInv'
  <2>1. Starts(r, "vehicle", "count") /\ UNCHANGED <<cycles, configs, account>>
    BY <1>1, <1>7, Arrivals DEF MoveVehicle
  <2> QED
    BY <1>5, <2>1
<1>8. ASSUME NEW i \in DOMAIN payments, Pay(r, i)
      PROVE  CycleInv'
  <2>1. Starts(r, "pay", "put_payment") /\ UNCHANGED <<cycles, configs, account>>
    BY <1>1, <1>8, Arrivals DEF Pay
  <2> QED
    BY <1>5, <2>1
<1> QED
  BY <1>2, <1>3, <1>4, <1>6, <1>7, <1>8, Zenon DEF Arrives

\* Nobody moves.
LEMMA CycleAround ==
  ASSUME TypeInv, CycleInv, CyclesOK', UNCHANGED <<work, account>>,
         \A r \in Requests : Signs(work[r]) => cycles'[work[r].cycle] = cycles[work[r].cycle],
         \A c \in DOMAIN cycles : cycles[c] \in Audited => cycles'[c] \in Audited,
         \A c \in DOMAIN cycles : configs'[c] = configs[c]
  PROVE  CycleInv'
<1>1. ASSUME NEW r \in Requests
      PROVE  Bound(work[r], cycles', configs')
  <2>1. /\ Bound(work[r], cycles, configs) /\ Placed(work[r]) /\ 1 \in DOMAIN cycles
        /\ OnCycle(work[r]) => work[r].cycle \in DOMAIN cycles
    BY Known
  <2>2. Alike(work[r], work[r])
    BY DEF Alike
  <2>3. Signs(work[r]) => OnCycle(work[r])
    BY DEF Signs, OnCycle
  <2> QED
    BY <2>1, <2>2, <2>3, BoundStays
<1> QED
  BY <1>1 DEF CycleInv

LEMMA CycleStep ==
  ASSUME TypeInv, CycleInv, [Next]_vars
  PROVE  CycleInv'
<1>1. /\ IInv /\ RowsOK /\ CyclesOK
      /\ DOMAIN configs = DOMAIN cycles /\ 1 \in DOMAIN cycles
      /\ DOMAIN cycles = 1..Len(cycles) /\ Len(cycles) \in Nat
  BY DEF TypeInv, CycleInv, RowsOK
<1>2. \A r \in Requests : Signs(work[r]) =>
        work[r].cycle \in DOMAIN cycles /\ cycles[work[r].cycle] = "BILLING_SETUP"
  BY Known DEF Signs, OnCycle, Bound
<1>3. ASSUME NEW r \in Requests, Dies(r)
      PROVE  CycleInv'
  <2>1. Stops(r) /\ UNCHANGED <<cycles, configs, account>>
    BY <1>1, <1>3, Stopping DEF Dies
  <2> QED
    BY <1>1, <2>1, IdleIsBound, CycleQuiet DEF Stops, CyclesOK
<1>4. ASSUME NEW r \in Requests, Continues(r)
      PROVE  CycleInv'
  BY <1>4, CycleBuild, CycleSchedule, CycleFleet, Zenon DEF Continues
<1>5. ASSUME NEW r \in Requests, Arrives(r)
      PROVE  CycleInv'
  BY <1>5, CycleArrives
<1>6. ASSUME NEW c \in DOMAIN cycles, ApproveBilling(c)
      PROVE  CycleInv'
  <2>1. /\ UNCHANGED <<configs, account, work>> /\ cycles[c] = "PENDING_BILLING_AUDIT"
        /\ cycles' = [cycles EXCEPT ![c] = "ACTIVE"]
    BY <1>6 DEF ApproveBilling
  <2>2. /\ DOMAIN cycles' = DOMAIN cycles /\ Len(cycles') = Len(cycles)
        /\ cycles'[c] = "ACTIVE" /\ \A d \in DOMAIN cycles : d # c => cycles'[d] = cycles[d]
    BY <1>1, <2>1 DEF RowsOK, Statuses
  <2>3. CyclesOK'
    BY <1>1, <2>1, <2>2 DEF CyclesOK, OneAtATime, Audited
  <2>4. \A d \in DOMAIN cycles : cycles[d] \in Audited => cycles'[d] \in Audited
    BY <2>2 DEF Audited
  <2> QED
    BY <1>1, <1>2, <2>1, <2>2, <2>3, <2>4, CycleAround
<1>7. ASSUME NEW reading, Amend(reading)
      PROVE  CycleInv'
  <2>1. /\ UNCHANGED <<account, work>> /\ cycles[Len(cycles)] = "ACTIVE"
        /\ cycles' = Append(cycles, "PENDING_CLIENT_APPROVAL")
        /\ configs' = Append(configs, None)
    BY <1>7 DEF Amend, CanOpenAmendment
  <2>2. /\ Len(cycles') = Len(cycles) + 1 /\ DOMAIN cycles' = 1..Len(cycles) + 1
        /\ cycles'[Len(cycles) + 1] = "PENDING_CLIENT_APPROVAL"
        /\ \A c \in DOMAIN cycles : cycles'[c] = cycles[c]
    BY <1>1, <2>1 DEF RowsOK, Statuses
  <2>3. configs'[Len(cycles) + 1] = None /\ \A c \in DOMAIN cycles : configs'[c] = configs[c]
    BY <1>1, <2>1 DEF RowsOK
  <2>4. \A c \in DOMAIN cycles : cycles[c] = "ACTIVE"
    BY <1>1, <2>1 DEF CyclesOK, OneAtATime
  <2>5. CyclesOK'
    BY <1>1, <2>1, <2>2, <2>3, <2>4 DEF CyclesOK, OneAtATime, Audited
  <2> QED
    BY <1>1, <1>2, <2>1, <2>2, <2>3, <2>5, CycleAround
<1>8. CASE DayPasses
  BY <1>1, <1>8, CycleAround DEF DayPasses, CyclesOK
<1>9. CASE UNCHANGED vars
  BY <1>1, <1>9, CycleAround DEF vars, CyclesOK
<1> QED
  BY <1>3, <1>4, <1>5, <1>6, <1>7, <1>8, <1>9, Zenon DEF Next

LEMMA CycleInit == Init => CycleInv
<1> SUFFICES ASSUME Init PROVE CycleInv
  OBVIOUS
<1>1. /\ cycles = <<"PENDING_CLIENT_APPROVAL">> /\ configs = <<None>>
      /\ account.monthly = None /\ \A r \in Requests : work[r] = Idle
  BY DEF Init
<1>2. CyclesOK
  BY <1>1 DEF CyclesOK, OneAtATime, Audited
<1> QED
  BY <1>1, <1>2, IdleIsBound DEF CycleInv

THEOREM OneCycleAtATime == Spec => []CycleInv
<1>1. TypeInv /\ CycleInv /\ [Next]_vars => CycleInv'
  BY CycleStep
<1> QED
  BY CycleInit, Types, <1>1, PTL DEF Spec

-----------------------------------------------------------------------------
(* Every step keeps ScheduleInv. *)

\* Before there are rows there is one cycle, and it is not audited.
LEMMA OnlyCycle ==
  ASSUME TypeInv, CycleInv, ScheduleInv, DOMAIN payments = {}
  PROVE  cycles[1] \notin Audited /\ DOMAIN cycles = {1}
<1>1. cycles[1] \notin Audited
  BY DEF ScheduleInv, PlanOK
<1>2. DOMAIN cycles = 1..Len(cycles) /\ Len(cycles) \in Nat \ {0} /\ 1 \in DOMAIN cycles
  BY DEF TypeInv, RowsOK
<1>3. ~(1 < Len(cycles))
  BY <1>1, <1>2 DEF CycleInv, CyclesOK, OneAtATime, Audited
<1> QED
  BY <1>1, <1>2, <1>3

LEMMA PlansStay ==
  ASSUME NEW v, NEW w, NEW ts, NEW ps, NEW qs,
         Alike(v, w), Typed(w, ts, ps), Plans(w, ps), DOMAIN ps \subseteq DOMAIN qs,
         DOMAIN qs \subseteq Sequence,
         \A i \in DOMAIN ps : qs[i].due = ps[i].due,
         Generates(w) => DatedFrom(w.row, qs)
  PROVE  Plans(v, qs)
BY DEF Alike, Plans, Generates, Typed

LEMMA FirstStays ==
  ASSUME NEW v, NEW w, NEW config, Alike(v, w), First(w, config)
  PROVE  First(v, config)
BY DEF Alike, First, Stored, Holds, Generates

LEMMA IdleIsPlanned ==
  ASSUME NEW ps, NEW config
  PROVE  Plans(Idle, ps) /\ First(Idle, config) /\ ~Generates(Idle) /\ ~HalfWay(Idle)
BY DEF Plans, First, Idle, Stored, Holds, Generates, HalfWay

\* A request moved; rows may have been added, and keep their dates.
LEMMA ScheduleKept ==
  ASSUME TypeInv, RowsOK', ScheduleInv, PlanOK', NEW r \in Requests, OthersAlike(r),
         DOMAIN payments \subseteq DOMAIN payments',
         \A i \in DOMAIN payments : payments'[i].due = payments[i].due,
         \A o \in Requests \ {r} : Generates(work[o]) =>
           /\ DatedFrom(work[o].row, payments')
           /\ Generates(work'[r]) => work'[r].row = work[o].row,
         Plans(work'[r], payments'),
         DOMAIN payments' = {} =>
           /\ First(work'[r], configs'[1])
           /\ \A o \in Requests \ {r} : Stored(work[o]) => configs'[1] = configs[1],
         settled'.schedule => settled.schedule,
         account.start # None => account'.start # None,
         DOMAIN payments' # {} => DOMAIN payments # {} \/ HalfWay(work'[r]),
         HalfWay(work[r]) /\ settled'.schedule => HalfWay(work'[r]) \/ account'.start # None
  PROVE  ScheduleInv'
<1>1. \A o \in Requests \ {r} : Plans(work'[o], payments')
  <2>1. \A o \in Requests \ {r} : Typed(work[o], terms, payments) /\ Plans(work[o], payments)
    BY DEF TypeInv, ScheduleInv
  <2>2. DOMAIN payments' \subseteq Sequence
    BY DEF RowsOK
  <2> QED
    BY <2>1, <2>2, PlansStay DEF OthersAlike
<1>2. \A o \in Requests \ {r} :
        /\ Generates(work'[o]) <=> Generates(work[o])
        /\ HalfWay(work'[o]) <=> HalfWay(work[o])
        /\ work'[o].row = work[o].row
  BY DEF OthersAlike, Alike, Generates, HalfWay
<1>3. \A p, o \in Requests :
        Generates(work'[p]) /\ Generates(work'[o]) => work'[p].row = work'[o].row
  BY <1>2 DEF ScheduleInv
<1>4. ASSUME DOMAIN payments' = {}, NEW o \in Requests \ {r}
      PROVE  First(work'[o], configs'[1])
  <2>1. DOMAIN payments = {}
    BY <1>4
  <2>2. First(work[o], configs[1])
    BY <2>1 DEF ScheduleInv
  <2>3. CASE Stored(work[o])
    BY <1>4, <2>2, <2>3, FirstStays DEF OthersAlike
  <2>4. CASE ~Stored(work[o])
    BY <2>4 DEF OthersAlike, Alike, First, Stored, Holds, Generates
  <2> QED
    BY <2>3, <2>4
<1>5. settled'.schedule /\ DOMAIN payments' # {} =>
        account'.start # None \/ \E o \in Requests : HalfWay(work'[o])
  BY <1>2 DEF ScheduleInv
<1> QED
  BY <1>1, <1>3, <1>4, <1>5 DEF ScheduleInv

\* The rows, and what the account says of them, are as they were.
LEMMA ScheduleQuiet ==
  ASSUME TypeInv, RowsOK', ScheduleInv, NEW r \in Requests, OthersAlike(r),
         UNCHANGED <<payments, account.start, account.frequency, terms[1].frequency>>,
         configs[1] # None => configs'[1] # None,
         cycles'[1] \in Audited => cycles[1] \in Audited \/ DOMAIN payments # {},
         Plans(work'[r], payments), ~Generates(work'[r]), ~HalfWay(work[r]) \/ ~settled'.schedule,
         DOMAIN payments = {} =>
           /\ First(work'[r], configs'[1])
           /\ \A o \in Requests \ {r} : Stored(work[o]) => configs'[1] = configs[1],
         settled'.schedule => settled.schedule
  PROVE  ScheduleInv'
<1>1. PlanOK'
  BY DEF ScheduleInv, PlanOK
<1>2. \A o \in Requests : Generates(work[o]) => DatedFrom(work[o].row, payments')
  BY DEF ScheduleInv, Plans
<1> QED
  BY <1>1, <1>2, ScheduleKept

\* The facts about a request that the steps below start from.
LEMMA Planned ==
  ASSUME TypeInv, CycleInv, ScheduleInv, NEW r \in Requests
  PROVE  /\ Plans(work[r], payments) /\ PlanOK
         /\ DOMAIN payments = {} => First(work[r], configs[1])
         /\ 1 \in DOMAIN configs /\ 1 \in DOMAIN terms
         /\ account \in Account /\ settled \in Settled /\ configs[1] \in Configs \cup {None}
BY Known DEF ScheduleInv, RowsOK

LEMMA ScheduleBuild ==
  ASSUME TypeInv, RowsOK', CycleInv, ScheduleInv, NEW r \in Requests,
         ReadTerms(r) \/ PutConfig(r) \/ ReadFleet(r) \/ SetBilling(r)
  PROVE  ScheduleInv'
<1>1. /\ IInv /\ RowsOK
      /\ Placed(work[r]) /\ Typed(work[r], terms, payments) /\ Bound(work[r], cycles, configs)
      /\ OnCycle(work[r]) => work[r].cycle \in DOMAIN cycles
  BY Known
<1>2. /\ DOMAIN payments = {} => First(work[r], configs[1])
      /\ 1 \in DOMAIN configs /\ account \in Account /\ settled \in Settled
  BY Planned
<1>3. CASE ReadTerms(r)
  <2>1. Follows(r, "read_terms", "put_config")
    BY <1>1, <1>3, BuildSteps
  <2>2. UNCHANGED <<cycles, terms, configs, account, payments, settled>>
    BY <1>3 DEF ReadTerms
  <2>3. /\ Plans(work'[r], payments) /\ ~Generates(work'[r]) /\ ~HalfWay(work[r])
        /\ First(work'[r], configs[1])
    BY <2>1 DEF Follows, Plans, Generates, HalfWay, First, Stored
  <2> QED
    BY <2>1, <2>2, <2>3, ScheduleQuiet DEF Follows
<1>4. CASE PutConfig(r)
  <2>1. Follows(r, "put_config", "read_fleet") /\ work'[r].config = work[r].config
    BY <1>1, <1>4, BuildSteps
  <2>2. /\ UNCHANGED <<cycles, terms, account, payments>>
        /\ configs' = [configs EXCEPT ![work[r].cycle] = work[r].config]
        /\ settled' = [settled EXCEPT !.config = work[r].alone]
    BY <1>4 DEF PutConfig
  <2>3. /\ Plans(work'[r], payments) /\ ~Generates(work'[r]) /\ ~HalfWay(work[r])
    BY <2>1 DEF Follows, Plans, Generates, HalfWay
  <2>4. work[r].kind \in {"sign", "correct"} /\ work[r].cycle \in DOMAIN cycles
        /\ work[r].config # None
    BY <1>1, <2>1, DuesAreNumbers DEF Follows, Placed, OnCycle, Typed, Holds
  <2>5. configs[1] # None => configs'[1] # None
    BY <1>2, <2>2, <2>4
  <2>6. ASSUME DOMAIN payments = {}
        PROVE  /\ First(work'[r], configs'[1])
               /\ \A o \in Requests \ {r} : ~Stored(work[o])
    <3>1. DOMAIN cycles = {1} /\ cycles[1] \notin Audited
      BY <2>6, OnlyCycle
    <3>2. work[r].cycle = 1 /\ work[r].kind = "sign"
      BY <1>1, <2>1, <2>4, <3>1 DEF Bound, Follows
    <3>3. configs[1] = None
      BY <1>1, <2>1, <3>2 DEF Bound, Follows, Signs
    <3>4. configs'[1] = work[r].config
      BY <1>2, <2>2, <3>2
    <3>5. First(work'[r], configs'[1])
      BY <2>1, <3>2, <3>4 DEF First, Follows, Generates
    <3>6. \A o \in Requests \ {r} : ~Stored(work[o])
      BY <2>6, <3>3, Planned, Known DEF First, Bound
    <3> QED
      BY <3>5, <3>6
  <2> QED
    BY <1>2, <2>1, <2>2, <2>3, <2>5, <2>6, ScheduleQuiet DEF Follows, Settled
<1>5. CASE ReadFleet(r)
  <2>1. Follows(r, "read_fleet", "set_billing") /\ work'[r].config = work[r].config
    BY <1>1, <1>5, BuildSteps
  <2>2. UNCHANGED <<cycles, terms, configs, account, payments, settled>>
    BY <1>5 DEF ReadFleet
  <2>3. /\ Plans(work'[r], payments) /\ ~Generates(work'[r]) /\ ~HalfWay(work[r])
        /\ DOMAIN payments = {} => First(work'[r], configs[1])
    BY <1>2, <2>1 DEF Follows, Plans, Generates, HalfWay, First, Stored, Holds
  <2> QED
    BY <2>1, <2>2, <2>3, ScheduleQuiet DEF Follows
<1>6. CASE SetBilling(r)
  <2>1. /\ UNCHANGED <<cycles, terms, configs, payments>> /\ work[r].at = "set_billing"
        /\ account' = [account EXCEPT !.fleet = work[r].fleet, !.monthly = work[r].monthly]
    BY <1>6 DEF SetBilling
  <2>2. account'.start = account.start /\ account'.frequency = account.frequency
    BY <1>2, <2>1 DEF Account
  <2>3. settled'.schedule = settled.schedule
    <3> DEFINE dues  == work[r].alone /\ (work[r].kind # "heal" \/ settled.dues)
               fleet == work[r].alone /\ (work[r].kind \in {"fleet", "vehicle"} \/ settled.fleet)
    <3>1. settled' = [settled EXCEPT !.dues = dues, !.fleet = fleet]
      BY <1>6 DEF SetBilling
    <3> HIDE DEF dues, fleet
    <3> QED
      BY <1>2, <3>1 DEF Settled
  <2>4. CASE work[r].kind \in {"sign", "heal"}
    <3>1. Follows(r, "set_billing", "list_payments") /\ work'[r].config = work[r].config
      BY <1>1, <1>6, <2>4, BuildSteps
    <3>2. /\ Plans(work'[r], payments) /\ ~Generates(work'[r]) /\ ~HalfWay(work[r])
          /\ DOMAIN payments = {} => First(work'[r], configs[1])
      BY <1>2, <2>4, <3>1 DEF Follows, Plans, Generates, HalfWay, First, Stored, Holds
    <3> QED
      BY <2>1, <2>2, <2>3, <3>1, <3>2, ScheduleQuiet DEF Follows
  <2>5. CASE work[r].kind \notin {"sign", "heal"}
    <3>1. Stops(r) /\ ~HalfWay(work[r])
      BY <1>1, <1>6, <2>1, <2>5, BuildSteps DEF HalfWay
    <3> QED
      BY <2>1, <2>2, <2>3, <3>1, IdleIsPlanned, ScheduleQuiet DEF Stops
  <2> QED
    BY <2>4, <2>5
<1> QED
  BY <1>3, <1>4, <1>5, <1>6

LEMMA ScheduleSchedule ==
  ASSUME TypeInv, RowsOK', CycleInv, ScheduleInv, NEW r \in Requests,
         ListPayments(r) \/ PutRow(r) \/ SetSchedule(r) \/ BillingReady(r)
  PROVE  ScheduleInv'
<1>1. /\ IInv /\ RowsOK
      /\ Placed(work[r]) /\ Typed(work[r], terms, payments) /\ Bound(work[r], cycles, configs)
      /\ OnCycle(work[r]) => work[r].cycle \in DOMAIN cycles
  BY Known
<1>2. /\ Plans(work[r], payments) /\ PlanOK
      /\ DOMAIN payments = {} => First(work[r], configs[1])
      /\ 1 \in DOMAIN configs /\ account \in Account
  BY Planned
<1>3. CASE ListPayments(r)
  <2>1. UNCHANGED <<cycles, terms, configs, account, payments, settled>>
    BY <1>3 DEF ListPayments
  <2>2. CASE DOMAIN payments = {}
    <3>1. /\ Follows(r, "list_payments", "put_row")
          /\ work'[r].next = 0 /\ work'[r].config = work[r].config
          /\ work'[r].row = IF account.start # None THEN account.start ELSE work[r].config.generated
      BY <1>1, <1>3, <2>2, ScheduleSteps
    <3>2. work[r].cycle = 1 /\ work[r].config = configs[1] /\ account.start = None
      BY <1>2, <2>2, <3>1 DEF First, Stored, Holds, Follows, PlanOK
    <3>3. First(work'[r], configs[1]) /\ work'[r].row = configs[1].generated
      BY <3>1, <3>2 DEF First, Follows
    <3>4. Plans(work'[r], payments) /\ ~HalfWay(work[r])
      BY <2>2, <3>1, <3>2 DEF Plans, DatedFrom, Follows, HalfWay
    <3>5. \A o \in Requests \ {r} : Generates(work[o]) =>
            DatedFrom(work[o].row, payments) /\ work[o].row = configs[1].generated
      BY <2>2, Planned DEF First, Plans
    <3>6. PlanOK'
      BY <1>2, <2>1 DEF PlanOK
    <3> QED
      BY <2>1, <2>2, <3>1, <3>3, <3>4, <3>5, <3>6, ScheduleKept DEF Follows
  <2>3. CASE DOMAIN payments # {} /\ work[r].kind = "sign"
    <3>1. Follows(r, "list_payments", "ready")
      BY <1>1, <1>3, <2>3, ScheduleSteps
    <3>2. Plans(work'[r], payments) /\ ~Generates(work'[r]) /\ ~HalfWay(work[r])
      BY <2>3, <3>1 DEF Follows, Plans, Generates, HalfWay
    <3> QED
      BY <2>1, <2>3, <3>1, <3>2, ScheduleQuiet DEF Follows
  <2>4. CASE DOMAIN payments # {} /\ work[r].kind # "sign"
    <3>1. Stops(r) /\ ~HalfWay(work[r])
      BY <1>1, <1>3, <2>4, ScheduleSteps DEF HalfWay
    <3> QED
      BY <2>1, <2>4, <3>1, IdleIsPlanned, ScheduleQuiet DEF Stops
  <2> QED
    BY <2>2, <2>3, <2>4
<1>4. CASE PutRow(r)
  <2> DEFINE place == IF work[r].next + 1 = Instalments THEN "set_schedule" ELSE "put_row"
             n == work[r].next
  <2>1. /\ Follows(r, "put_row", place)
        /\ work'[r].next = n + 1
        /\ work'[r].config = work[r].config /\ work'[r].row = work[r].row
    BY <1>1, <1>4, ScheduleSteps
  <2>2. /\ UNCHANGED <<cycles, terms, configs, account, settled>>
        /\ payments' = [i \in DOMAIN payments \cup {n} |->
             IF i = n THEN FreshRow(work[r].row, i) ELSE payments[i]]
    BY <1>4 DEF PutRow
  <2>3. place = "set_schedule" => n + 1 = Instalments
    OBVIOUS
  <2>4. place \in {"put_row", "set_schedule"}
    OBVIOUS
  <2>5. n \in Sequence /\ work[r].row \in Nat /\ Generates(work[r]) /\ n \in Int
    BY <1>1, <2>1 DEF Typed, Follows, Generates, Sequence
  <2> HIDE DEF place, n
  <2>6. /\ work[r].cycle = 1 /\ DatedFrom(work[r].row, payments)
        /\ 0..n - 1 \subseteq DOMAIN payments
    BY <1>2, <2>1, <2>5 DEF Plans, Follows, n
  <2>7. /\ DOMAIN payments' = DOMAIN payments \cup {n}
        /\ DatedFrom(work[r].row, payments')
        /\ \A i \in DOMAIN payments : payments'[i].due = payments[i].due
    BY <2>2, <2>5, <2>6 DEF DatedFrom, FreshRow
  <2>8. PlanOK'
    BY <1>2, <2>2, <2>5, <2>7 DEF PlanOK, DatedFrom
  <2>9. DOMAIN payments' \subseteq Sequence
    BY DEF RowsOK
  <2>10. 0..n \subseteq DOMAIN payments'
    BY <2>5, <2>6, <2>7
  <2>11. place = "set_schedule" => DOMAIN payments' = Sequence
    <3>1. n + 1 = Instalments => 0..n = Sequence
      BY <2>5, BillingBounds DEF Sequence
    <3> QED
      BY <2>3, <2>9, <2>10, <3>1
  <2>12. Plans(work'[r], payments')
    BY <2>1, <2>4, <2>5, <2>6, <2>7, <2>10, <2>11 DEF Plans, Follows, Generates
  <2>13. \A o \in Requests \ {r} : Generates(work[o]) => work[o].row = work[r].row
    BY <2>5 DEF ScheduleInv
  <2>14. HalfWay(work'[r])
    BY <2>1, <2>4, <2>5 DEF HalfWay, Follows, Sequence
  <2> QED
    BY <2>1, <2>2, <2>7, <2>8, <2>12, <2>13, <2>14, ScheduleKept DEF Follows
<1>5. CASE SetSchedule(r)
  <2>1. /\ UNCHANGED <<cycles, terms, configs, payments, settled>>
        /\ account' = [account EXCEPT !.start = work[r].row,
                         !.frequency = NormalizeFrequency(work[r].config.frequency)]
        /\ work[r].at = "set_schedule"
    BY <1>5 DEF SetSchedule
  <2>2. /\ work[r].cycle = 1 /\ DatedFrom(work[r].row, payments) /\ DOMAIN payments = Sequence
    BY <1>2, <2>1 DEF Plans, Generates
  <2>3. /\ work[r].config.frequency = terms[1].frequency /\ configs[1] # None
        /\ work[r].row \in Nat
    BY <1>1, <2>1, <2>2 DEF Typed, Holds, Generates, Bound, Stored
  <2>4. 0 \in Sequence /\ work[r].row # None
    BY <2>3, BillingBounds, DuesAreNumbers DEF Sequence
  <2>5. /\ account'.start = work[r].row
        /\ account'.frequency = NormalizeFrequency(terms[1].frequency)
    BY <1>2, <2>1, <2>3 DEF Account
  <2>6. PlanOK'
    BY <2>1, <2>2, <2>3, <2>4, <2>5 DEF PlanOK
  <2>7. OthersAlike(r) /\ Plans(work'[r], payments) /\ ~Generates(work'[r])
    <3>1. CASE Stops(r)
      BY <3>1, IdleIsPlanned DEF Stops
    <3>2. CASE Follows(r, "set_schedule", "ready")
      BY <2>2, <2>4, <3>2 DEF Follows, Plans, Generates
    <3> QED
      BY <1>1, <1>5, <3>1, <3>2, ScheduleSteps
  <2>8. \A o \in Requests \ {r} : Generates(work[o]) => DatedFrom(work[o].row, payments)
    BY Planned DEF Plans
  <2> QED
    BY <2>1, <2>2, <2>4, <2>5, <2>6, <2>7, <2>8, ScheduleKept
<1>6. CASE BillingReady(r)
  <2> DEFINE c == work[r].cycle
  <2>1. Stops(r) /\ work[r].at = "ready" /\ UNCHANGED <<terms, configs, account, payments, settled>>
    BY <1>1, <1>6, ScheduleSteps DEF BillingReady
  <2>2. DOMAIN payments # {} /\ ~HalfWay(work[r])
    BY <1>2, <2>1 DEF Plans, HalfWay
  <2> QED
    BY <2>1, <2>2, IdleIsPlanned, ScheduleQuiet DEF Stops
<1> QED
  BY <1>3, <1>4, <1>5, <1>6

LEMMA ScheduleFleet ==
  ASSUME TypeInv, RowsOK', CycleInv, ScheduleInv, NEW r \in Requests,
         PutTerm(r) \/ SetOverride(r) \/ Price(r) \/ Count(r) \/ Sync(r) \/ PutPayment(r)
  PROVE  ScheduleInv'
<1>1. /\ IInv /\ RowsOK
      /\ Placed(work[r]) /\ Typed(work[r], terms, payments)
      /\ OnCycle(work[r]) => work[r].cycle \in DOMAIN terms
  BY Known
<1>2. /\ Plans(work[r], payments) /\ PlanOK /\ 1 \in DOMAIN terms /\ account \in Account
  BY Planned
<1>3. UNCHANGED <<cycles, configs, settled>>
  BY DEF PutTerm, SetOverride, Price, Count, Sync, PutPayment
<1>4. account'.start = account.start /\ account'.frequency = account.frequency
  BY <1>2 DEF PutTerm, SetOverride, Price, Count, Sync, PutPayment, Account
<1>5. ASSUME NEW from, NEW to \in {"read_terms", "price", "sync"}, Follows(r, from, to),
             from \notin {"put_row", "set_schedule"},
             UNCHANGED payments, terms'[1].frequency = terms[1].frequency
      PROVE  ScheduleInv'
  <2>1. /\ Plans(work'[r], payments) /\ ~Generates(work'[r]) /\ ~HalfWay(work[r])
        /\ First(work'[r], configs[1])
    BY <1>5 DEF Follows, Plans, Generates, HalfWay, First, Stored, Holds
  <2> QED
    BY <1>3, <1>4, <1>5, <2>1, ScheduleQuiet DEF Follows
<1>6. CASE PutTerm(r)
  <2> DEFINE c == work[r].cycle
  <2>1. Follows(r, "put_term", "read_terms") /\ UNCHANGED payments
        /\ terms' = [terms EXCEPT ![c].lines[work[r].next] = work[r].row]
    BY <1>1, <1>6, FleetSteps DEF PutTerm
  <2>2. terms[1] \in Terms /\ DOMAIN terms' = DOMAIN terms
    BY <1>1, <1>2, <2>1 DEF RowsOK
  <2>3. terms'[1].frequency = terms[1].frequency
    BY <1>2, <2>1, <2>2 DEF Terms
  <2> QED
    BY <1>5, <2>1, <2>3
<1>7. CASE SetOverride(r)
  BY <1>1, <1>5, <1>7, FleetSteps DEF SetOverride
<1>8. CASE Count(r)
  BY <1>1, <1>5, <1>8, FleetSteps DEF Count
<1>9. ASSUME work[r].at \in {"price", "sync"}, OthersAlike(r),
             \/ Stops(r)
             \/ work'[r].at = "set_billing" /\ work'[r].kind \in {"fleet", "vehicle"},
             UNCHANGED <<payments, terms>>
      PROVE  ScheduleInv'
  <2>1. /\ Plans(work'[r], payments) /\ ~Generates(work'[r]) /\ ~HalfWay(work[r])
        /\ First(work'[r], configs[1])
    BY <1>9, IdleIsPlanned DEF Stops, Plans, Generates, HalfWay, First, Stored, Holds
  <2> QED
    BY <1>3, <1>4, <1>9, <2>1, ScheduleQuiet
<1>10. CASE Price(r)
  <2>1. Follows(r, "price", "set_billing") /\ work[r].kind = "fleet" /\ UNCHANGED <<payments, terms>>
    BY <1>1, <1>10, FleetSteps DEF Price, Placed, Follows
  <2> QED
    BY <1>9, <2>1 DEF Follows
<1>11. CASE Sync(r)
  <2>1. work[r].at = "sync" /\ work[r].kind = "vehicle" /\ UNCHANGED <<payments, terms>>
    BY <1>1, <1>11 DEF Sync, Placed
  <2> QED
    BY <1>1, <1>9, <1>11, <2>1, SyncStep DEF Typed, Stops
<1>12. CASE PutPayment(r)
  <2> DEFINE n == work[r].next
  <2>1. Stops(r) /\ work[r].at = "put_payment"
    BY <1>1, <1>12, FleetSteps
  <2>2. /\ UNCHANGED <<cycles, terms, configs, account, settled>>
        /\ payments' = [i \in DOMAIN payments \cup {n} |->
             IF i = n THEN work[r].row ELSE payments[i]]
    BY <1>12 DEF PutPayment
  <2>3. n \in DOMAIN payments /\ work[r].row.due = payments[n].due
    BY <1>1, <1>2, <2>1 DEF Typed, Plans
  <2>4. /\ DOMAIN payments' = DOMAIN payments
        /\ \A i \in DOMAIN payments : payments'[i].due = payments[i].due
    BY <2>2, <2>3
  <2>5. PlanOK'
    BY <1>2, <2>2, <2>4 DEF PlanOK, DatedFrom
  <2>6. \A o \in Requests \ {r} : Generates(work[o]) => DatedFrom(work[o].row, payments')
    BY <2>4, Planned DEF Plans, DatedFrom
  <2>7. ~HalfWay(work[r])
    BY <2>1 DEF HalfWay
  <2> QED
    BY <2>1, <2>2, <2>4, <2>5, <2>6, <2>7, IdleIsPlanned, ScheduleKept DEF Stops
<1> QED
  BY <1>6, <1>7, <1>8, <1>10, <1>11, <1>12

LEMMA ScheduleArrives ==
  ASSUME TypeInv, RowsOK', CycleInv, ScheduleInv, NEW r \in Requests, Arrives(r)
  PROVE  ScheduleInv'
<1>1. /\ IInv /\ RowsOK /\ DOMAIN configs = DOMAIN cycles /\ 1 \in DOMAIN cycles
  BY Known
<1>2. 1 \in DOMAIN configs /\ settled \in Settled /\ account \in Account
  BY Planned
<1>3. ASSUME NEW kind, NEW at, at \notin {"put_row", "set_schedule", "ready"},
             Starts(r, kind, at), UNCHANGED <<terms, configs, account, payments>>,
             cycles'[1] \in Audited => cycles[1] \in Audited,
             settled'.schedule = settled.schedule,
             at = "put_payment" => work'[r].row.due = payments[work'[r].next].due,
             DOMAIN payments = {} => First(work'[r], configs[1])
      PROVE  ScheduleInv'
  <2>1. OthersAlike(r) /\ work'[r].at = at /\ work[r] = Idle
    BY <1>3 DEF Starts
  <2>2. Plans(work'[r], payments) /\ ~Generates(work'[r]) /\ ~HalfWay(work[r])
    BY <1>3, <2>1 DEF Plans, Generates, HalfWay, Idle
  <2> QED
    BY <1>3, <2>1, <2>2, ScheduleQuiet
<1>4. ASSUME NEW kind, NEW at \in {"read_terms", "put_term", "set_override", "count", "put_payment"},
             Starts(r, kind, at)
      PROVE  First(work'[r], configs[1])
  BY <1>4 DEF Starts, First, Stored, Holds, Generates
<1>5. ASSUME NEW c \in DOMAIN cycles, Sign(r, c)
      PROVE  ScheduleInv'
  <2>1. /\ Starts(r, "sign", "read_terms") /\ UNCHANGED <<terms, configs, account, payments, settled>>
        /\ cycles' = [cycles EXCEPT ![c] = "BILLING_SETUP"]
    BY <1>1, <1>5, Arrivals DEF Sign
  <2>2. cycles'[1] \in Audited => cycles[1] \in Audited
    BY <1>1, <2>1 DEF Audited, RowsOK
  <2> QED
    BY <1>3, <1>4, <2>1, <2>2
<1>6. ASSUME NEW c \in DOMAIN cycles, ViewBilling(r, c)
      PROVE  ScheduleInv'
  <2>1. /\ work'[r].cycle = c /\ work'[r].config = configs[c]
        /\ \/ Starts(r, "heal", "set_billing")
           \/ Starts(r, "view", "list_payments")
    BY <1>1, <1>6, Arrivals
  <2>2. UNCHANGED <<cycles, terms, configs, account, payments, settled>>
    BY <1>6 DEF ViewBilling
  <2>3. DOMAIN payments = {} => First(work'[r], configs[1])
    <3>1. DOMAIN payments = {} => c = 1
      BY OnlyCycle
    <3> QED
      BY <2>1, <3>1 DEF Starts, First, Generates
  <2> QED
    BY <1>3, <2>1, <2>2, <2>3
<1>7. ASSUME NEW line \in Lines, NEW correction \in Corrections, Correct(r, line, correction)
      PROVE  ScheduleInv'
  <2>1. /\ Starts(r, "correct", "put_term")
        /\ UNCHANGED <<cycles, terms, configs, account, payments, settled>>
    BY <1>1, <1>7, CorrectStarts DEF Correct
  <2> QED
    BY <1>3, <1>4, <2>1
<1>8. ASSUME NEW override \in Overrides, SetFleet(r, override)
      PROVE  ScheduleInv'
  <2>1. /\ Starts(r, "fleet", "set_override")
        /\ UNCHANGED <<cycles, terms, configs, account, payments, settled>>
    BY <1>1, <1>8, Arrivals DEF SetFleet
  <2> QED
    BY <1>3, <1>4, <2>1
<1>9. ASSUME NEW n \in 0..MaxVehicles, MoveVehicle(r, n)
      PROVE  ScheduleInv'
  <2>1. /\ Starts(r, "vehicle", "count")
        /\ UNCHANGED <<cycles, terms, configs, account, payments>>
        /\ settled' = [settled EXCEPT !.fleet = FALSE]
    BY <1>1, <1>9, Arrivals DEF MoveVehicle
  <2>2. settled'.schedule = settled.schedule
    BY <1>2, <2>1 DEF Settled
  <2> QED
    BY <1>3, <1>4, <2>1, <2>2
<1>10. ASSUME NEW i \in DOMAIN payments, Pay(r, i)
       PROVE  ScheduleInv'
  <2> DEFINE due == AmountDue
  <2>1. /\ Starts(r, "pay", "put_payment") /\ work'[r].next = i
        /\ work'[r].row = [payments[i] EXCEPT !.paid = TRUE, !.amount = due]
        /\ UNCHANGED <<cycles, terms, configs, account, payments, settled>>
    BY <1>1, <1>10, Arrivals DEF Pay
  <2> HIDE DEF due
  <2>2. work'[r].row.due = payments[i].due
    BY <1>1, <2>1 DEF RowsOK, PaymentRows
  <2> QED
    BY <1>3, <1>4, <2>1, <2>2
<1> QED
  BY <1>5, <1>6, <1>7, <1>8, <1>9, <1>10, Zenon DEF Arrives

\* Nobody moves.
LEMMA ScheduleAround ==
  ASSUME TypeInv, CycleInv, ScheduleInv, UNCHANGED <<work, account, payments, settled>>,
         terms'[1].frequency = terms[1].frequency, configs'[1] = configs[1],
         cycles'[1] \in Audited => cycles[1] \in Audited
  PROVE  ScheduleInv'
<1>1. PlanOK'
  BY DEF ScheduleInv, PlanOK
<1> QED
  BY <1>1 DEF ScheduleInv

LEMMA ScheduleStep ==
  ASSUME TypeInv, TypeInv', CycleInv, ScheduleInv, [Next]_vars
  PROVE  ScheduleInv'
<1>1. /\ IInv /\ RowsOK /\ RowsOK' /\ DOMAIN configs = DOMAIN cycles /\ DOMAIN terms = DOMAIN cycles
      /\ 1 \in DOMAIN cycles /\ settled \in Settled
  BY DEF TypeInv, RowsOK
<1>2. ASSUME NEW r \in Requests, Dies(r)
      PROVE  ScheduleInv'
  <2>1. Stops(r) /\ UNCHANGED <<cycles, terms, configs, account, payments>>
    BY <1>1, <1>2, Stopping DEF Dies
  <2>2. settled'.schedule = (settled.schedule /\ ~(work[r].at = "put_row" /\ work[r].next > 0)
                               /\ work[r].at # "set_schedule")
    BY <1>2 DEF Dies
  <2>3. (settled'.schedule => settled.schedule) /\ (~HalfWay(work[r]) \/ ~settled'.schedule)
    BY <2>2 DEF HalfWay
  <2> QED
    BY <1>1, <2>1, <2>3, IdleIsPlanned, ScheduleQuiet DEF Stops
<1>3. ASSUME NEW r \in Requests, Continues(r)
      PROVE  ScheduleInv'
  BY <1>1, <1>3, ScheduleBuild, ScheduleSchedule, ScheduleFleet, Zenon DEF Continues
<1>4. ASSUME NEW r \in Requests, Arrives(r)
      PROVE  ScheduleInv'
  BY <1>1, <1>4, ScheduleArrives
<1>5. ASSUME NEW c \in DOMAIN cycles, ApproveBilling(c)
      PROVE  ScheduleInv'
  <2>1. /\ UNCHANGED <<terms, configs, account, payments, work, settled>>
        /\ cycles[c] = "PENDING_BILLING_AUDIT" /\ cycles' = [cycles EXCEPT ![c] = "ACTIVE"]
    BY <1>5 DEF ApproveBilling
  <2>2. cycles'[1] \in Audited => cycles[1] \in Audited
    BY <1>1, <2>1 DEF Audited, RowsOK
  <2> QED
    BY <2>1, <2>2, ScheduleAround
<1>6. ASSUME NEW reading, Amend(reading)
      PROVE  ScheduleInv'
  <2>1. /\ UNCHANGED <<account, payments, work, settled>>
        /\ cycles' = Append(cycles, "PENDING_CLIENT_APPROVAL")
        /\ terms' = Append(terms, reading) /\ configs' = Append(configs, None)
    BY <1>6 DEF Amend
  <2>2. cycles'[1] = cycles[1] /\ terms'[1] = terms[1] /\ configs'[1] = configs[1]
    BY <1>1, <2>1 DEF RowsOK
  <2> QED
    BY <2>1, <2>2, ScheduleAround
<1>7. CASE DayPasses
  BY <1>7, ScheduleAround DEF DayPasses
<1>8. CASE UNCHANGED vars
  BY <1>8, ScheduleAround DEF vars
<1> QED
  BY <1>2, <1>3, <1>4, <1>5, <1>6, <1>7, <1>8, Zenon DEF Next

LEMMA ScheduleInit == Init => ScheduleInv
<1> SUFFICES ASSUME Init PROVE ScheduleInv
  OBVIOUS
<1>1. /\ cycles = <<"PENDING_CLIENT_APPROVAL">> /\ DOMAIN payments = {}
      /\ account.start = None /\ \A r \in Requests : work[r] = Idle
  BY DEF Init
<1>2. PlanOK
  BY <1>1 DEF PlanOK, Audited
<1> QED
  BY <1>1, <1>2, IdleIsPlanned DEF ScheduleInv

THEOREM OneSchedule == Spec => []ScheduleInv
<1>1. TypeInv /\ TypeInv' /\ CycleInv /\ ScheduleInv /\ [Next]_vars => ScheduleInv'
  BY ScheduleStep
<1> QED
  BY ScheduleInit, Types, OneCycleAtATime, <1>1, PTL DEF Spec

\* Unless a request died while it generated the schedule, there is none or all
\* of it, dated from one start, at the cadence of the first configuration:
\* also when any number of requests generate it at once (ensure_schedule).
THEOREM ScheduleWhole == Spec => []ScheduleIsWhole
<1>1. TypeInv /\ ScheduleInv => ScheduleIsWhole
  <2> SUFFICES ASSUME TypeInv, ScheduleInv, settled.schedule, DOMAIN payments # {},
                      \A r \in Requests : work[r].at \notin {"put_row", "set_schedule"}
               PROVE  /\ DOMAIN payments = Sequence
                      /\ account.start # None
                      /\ \A i \in Sequence : payments[i].due = account.start + i
                      /\ account.frequency = NormalizeFrequency(configs[1].frequency)
    BY DEF ScheduleIsWhole
  <2>1. account.start # None
    BY DEF ScheduleInv, HalfWay
  <2>2. /\ DOMAIN payments = Sequence /\ DatedFrom(account.start, payments)
        /\ account.frequency = NormalizeFrequency(terms[1].frequency) /\ configs[1] # None
    BY <2>1 DEF ScheduleInv, PlanOK
  <2>3. configs[1].frequency = terms[1].frequency
    BY <2>2 DEF TypeInv, RowsOK
  <2> QED
    BY <2>1, <2>2, <2>3 DEF DatedFrom
<1> QED
  BY Types, OneSchedule, <1>1, PTL

-----------------------------------------------------------------------------
(* Every step keeps AloneInv. *)

LastOf(ss) == Max({0} \cup {c \in DOMAIN ss : ss[c] # "PENDING_CLIENT_APPROVAL"})

LEMMA LastOfIs ==
  ASSUME NEW ss \in Seq(Statuses)
  PROVE  /\ LastOf(ss) \in 0..Len(ss)
         /\ \A c \in DOMAIN ss : ss[c] # "PENDING_CLIENT_APPROVAL" => c <= LastOf(ss)
         /\ LastOf(ss) > 0 => ss[LastOf(ss)] # "PENDING_CLIENT_APPROVAL"
<1> DEFINE signed == {c \in DOMAIN ss : ss[c] # "PENDING_CLIENT_APPROVAL"}
           S == {0} \cup signed
<1>1. signed \subseteq 1..Len(ss) /\ Len(ss) \in Nat /\ DOMAIN ss = 1..Len(ss)
  OBVIOUS
<1>2. LastOf(ss) = CHOOSE m \in S : \A k \in S : m >= k
  BY DEF LastOf, Max
<1> HIDE DEF signed
<1>3. PICK m \in S : \A k \in S : k <= m
  <2>1. CASE signed = {}
    BY <2>1
  <2>2. CASE signed # {}
    <3>1. PICK m \in signed : \A k \in signed : k <= m
      BY <1>1, <2>2, LastOne
    <3> QED
      BY <1>1, <3>1
  <2> QED
    BY <2>1, <2>2
<1> HIDE DEF S
<1>4. m \in S /\ \A k \in S : m >= k
  BY <1>1, <1>3 DEF S
<1>5. LastOf(ss) \in S /\ \A k \in S : LastOf(ss) >= k
  BY <1>2, <1>4, Zenon
<1> QED
  BY <1>1, <1>5 DEF S, signed

\* Which cycles are signed is all that the last one of them depends on.
LEMMA LastOfSame ==
  ASSUME NEW ss, NEW st,
         \A c \in DOMAIN ss : c \in DOMAIN st /\
           (ss[c] # "PENDING_CLIENT_APPROVAL" <=> st[c] # "PENDING_CLIENT_APPROVAL"),
         \A c \in DOMAIN st : c \in DOMAIN ss \/ st[c] = "PENDING_CLIENT_APPROVAL"
  PROVE  LastOf(st) = LastOf(ss)
<1>1. {c \in DOMAIN ss : ss[c] # "PENDING_CLIENT_APPROVAL"} =
      {c \in DOMAIN st : st[c] # "PENDING_CLIENT_APPROVAL"}
  OBVIOUS
<1> QED
  BY <1>1 DEF LastOf

LEMMA LastSignedIs ==
  ASSUME TypeInv, CycleInv
  PROVE  /\ LastSigned \in 0..Len(cycles)
         /\ \A c \in DOMAIN cycles : cycles[c] # "PENDING_CLIENT_APPROVAL" => c <= LastSigned
         /\ InForce \in DOMAIN cycles
         /\ configs[InForce] # None => InForce <= LastSigned
         /\ ActiveIn(cycles) = {} => Len(cycles) = 1 /\ InForce = 1 /\ LastSigned <= 1
<1>1. cycles \in Seq(Statuses) /\ Len(cycles) \in Nat \ {0} /\ DOMAIN cycles = 1..Len(cycles)
      /\ CyclesOK
  BY DEF TypeInv, RowsOK, CycleInv
<1>2. LastSigned = LastOf(cycles)
  BY DEF LastSigned, LastOf
<1>3. InForce \in DOMAIN cycles
  BY <1>1, InForceIsCycle
<1>4. ActiveIn(cycles) = {} => Len(cycles) = 1
  <2>1. 1 < Len(cycles) => 1 \in ActiveIn(cycles)
    BY <1>1 DEF CyclesOK, OneAtATime, ActiveIn
  <2> QED
    BY <1>1, <2>1
<1> QED
  BY <1>1, <1>2, <1>3, <1>4, LastOfIs DEF CyclesOK

\* Before a second signature, a configuration that can be read is the one the
\* dues come from (_sync_engagement_fleet, update_billing_settings).
LEMMA SignedPrices ==
  ASSUME TypeInv, CycleInv, LastSigned <= 1, NEW c \in DOMAIN cycles,
         NEW config \in ReadableConfigs(c), config # None, NEW fleet
  PROVE  Dues(MonthlyRecurring(config.items, fleet), fleet)
<1>1. config = configs[c] /\ c \in 1..Len(cycles) /\ CyclesOK
  BY DEF ReadableConfigs, TypeInv, RowsOK, CycleInv
<1>2. c <= LastSigned
  BY <1>1, LastSignedIs DEF CyclesOK
<1>3. c = 1 /\ LastSigned = 1
  BY <1>1, <1>2, LastSignedIs
<1> QED
  BY <1>1, <1>3 DEF Dues

\* Where a request has nothing left to compute.
OffDues(w) ==
  w.at \notin {"put_term", "read_terms", "put_config", "read_fleet", "set_billing",
               "set_override", "price", "count", "sync"}

LEMMA OffDuesIsOff ==
  ASSUME NEW w, OffDues(w)
  PROVE  ~Reprices(w) /\ ~Redues(w) /\ ~Refleets(w)
BY DEF OffDues, Reprices, Redues, Refleets

LEMMA AlikeComputes ==
  ASSUME NEW v, NEW w, Alike(v, w)
  PROVE  /\ Reprices(v) <=> Reprices(w)
         /\ Redues(v) <=> Redues(w)
         /\ Refleets(v) <=> Refleets(w)
         /\ Works(v) <=> Works(w)
         /\ Works(v) /\ v.alone => w.alone
BY DEF Alike, Reprices, Redues, Refleets, Works

\* Nobody computes: at most a request without anything to compute moves.
Idles(v, w) ==
  /\ OffDues(v) /\ OffDues(w)
  /\ Works(v) => /\ Works(w) /\ v.kind = w.kind /\ v.cycle = w.cycle
                 /\ v.alone => w.alone

LEMMA KnowsStays ==
  ASSUME TypeInv, LastSigned' = LastSigned,
         \A c \in DOMAIN cycles : configs'[c] = configs[c] /\ terms'[c] = terms[c],
         LastSigned \in 0..Len(cycles),
         account'.fleet = account.fleet, account'.override = account.override,
         UNCHANGED assigned, settled'.dues => settled.dues,
         NEW o \in Requests, Alike(work'[o], work[o]), Works(work[o]), Knows(work[o])
  PROVE  Knows(work[o])'
<1>1. /\ Placed(work[o]) /\ DOMAIN cycles = 1..Len(cycles)
      /\ OnCycle(work[o]) => work[o].cycle \in DOMAIN cycles
  BY DEF TypeInv, Typed, RowsOK
<1>2. work[o].at \in {"put_config", "read_fleet"} =>
        configs'[work[o].cycle] = configs[work[o].cycle] /\ terms'[work[o].cycle] = terms[work[o].cycle]
  BY <1>1 DEF Placed, OnCycle
<1>3. LastSigned > 0 => configs'[LastSigned] = configs[LastSigned]
  BY <1>1
<1>4. Dues(work[o].monthly, work[o].fleet) => Dues(work[o].monthly, work[o].fleet)'
  BY <1>3 DEF Dues, Alike
<1> QED
  BY <1>2, <1>4 DEF Knows, Alike

LEMMA AloneStays ==
  ASSUME TypeInv, CycleInv, AloneInv,
         \A o \in Requests : Alike(work'[o], work[o]) \/ Idles(work'[o], work[o]),
         LastSigned' = LastSigned, ActiveIn(cycles) \subseteq ActiveIn(cycles'),
         \A c \in DOMAIN cycles : configs'[c] = configs[c] /\ terms'[c] = terms[c],
         account'.fleet = account.fleet, account'.override = account.override,
         account'.monthly = account.monthly, UNCHANGED assigned,
         settled'.config => settled.config, settled'.dues => settled.dues,
         settled'.fleet => settled.fleet
  PROVE  AloneInv'
<1>1. LastSigned \in 0..Len(cycles) /\ DOMAIN cycles = 1..Len(cycles)
  BY LastSignedIs DEF TypeInv, RowsOK
<1>2. LastSigned > 0 => configs'[LastSigned] = configs[LastSigned] /\ terms'[LastSigned] = terms[LastSigned]
  BY <1>1
<1>3. \A o \in Requests :
        /\ Works(work'[o]) => Works(work[o])
        /\ Works(work'[o]) /\ work'[o].alone => work[o].alone
        /\ Reprices(work[o]) => Reprices(work'[o])
        /\ Redues(work[o]) => Redues(work'[o])
        /\ Refleets(work[o]) => Refleets(work'[o])
  BY AlikeComputes, OffDuesIsOff DEF Idles
<1>4. \A r, o \in Requests :
        r # o /\ Works(work'[r]) /\ Works(work'[o]) => ~work'[r].alone
  BY <1>3 DEF AloneInv
<1>5. ASSUME NEW o \in Requests, Works(work'[o]), work'[o].alone
      PROVE  Knows(work[o])'
  <2>1. Works(work[o]) /\ Knows(work[o])
    BY <1>3, <1>5 DEF AloneInv
  <2>2. CASE Alike(work'[o], work[o])
    BY <1>1, <2>1, <2>2, KnowsStays
  <2>3. CASE Idles(work'[o], work[o])
    BY <1>5, <2>1, <2>3 DEF Idles, OffDues, Knows
  <2> QED
    BY <2>2, <2>3
<1>6. settled'.config /\ (\A o \in Requests : ~Reprices(work'[o])) => ConfigHolds'
  BY <1>2, <1>3 DEF AloneInv, ConfigHolds
<1>7. settled'.dues /\ (\A o \in Requests : ~Redues(work'[o])) => DuesHold'
  BY <1>2, <1>3 DEF AloneInv, DuesHold, Dues
<1>8. settled'.fleet /\ (\A o \in Requests : ~Refleets(work'[o])) => FleetHolds'
  BY <1>3 DEF AloneInv, FleetHolds
<1> QED
  BY <1>4, <1>5, <1>6, <1>7, <1>8 DEF AloneInv

\* One request moved, and either it alone computes dues or nobody is alone.
LEMMA AloneMoves ==
  ASSUME TypeInv, AloneInv, NEW r \in Requests, OthersAlike(r),
         \/ Works(work[r]) /\ (Works(work'[r]) /\ work'[r].alone => work[r].alone)
         \/ /\ work'[r].alone => Busy(DuesKinds) = {}
            /\ \A o \in Requests \ {r} : work'[o].at # "idle" => ~work'[o].alone,
         Works(work'[r]) /\ work'[r].alone => Knows(work[r])',
         (settled.config /\ ~Reprices(work[r]) => ConfigHolds) /\ settled'.config
           /\ ~Reprices(work'[r]) => ConfigHolds',
         (settled.dues /\ ~Redues(work[r]) => DuesHold) /\ settled'.dues
           /\ ~Redues(work'[r]) => DuesHold',
         (settled.fleet /\ ~Refleets(work[r]) => FleetHolds) /\ settled'.fleet
           /\ ~Refleets(work'[r]) => FleetHolds'
  PROVE  AloneInv'
<1>1. \A o \in Requests \ {r} :
        /\ Works(work'[o]) <=> Works(work[o])
        /\ Works(work'[o]) /\ work'[o].alone => work[o].alone
        /\ Reprices(work'[o]) <=> Reprices(work[o])
        /\ Redues(work'[o]) <=> Redues(work[o])
        /\ Refleets(work'[o]) <=> Refleets(work[o])
  BY AlikeComputes DEF OthersAlike
<1>2. Works(work'[r]) /\ work'[r].alone => \A o \in Requests \ {r} : ~Works(work[o])
  BY DEF AloneInv, Works, Busy
<1>3. \A o \in Requests \ {r} : Works(work'[o]) /\ work'[o].alone => ~Works(work[r]) /\ FALSE
  <2>1. ASSUME NEW o \in Requests \ {r}, Works(work'[o]), work'[o].alone
        PROVE  ~Works(work[r])
    BY <1>1, <2>1 DEF AloneInv
  <2> QED
    BY <2>1 DEF Works
<1>4. \A p, o \in Requests :
        p # o /\ Works(work'[p]) /\ Works(work'[o]) => ~work'[p].alone
  BY <1>1, <1>2, <1>3
<1>5. \A o \in Requests : Works(work'[o]) /\ work'[o].alone => o = r
  BY <1>3
<1>6. \A o \in Requests : Works(work'[o]) /\ work'[o].alone => Knows(work[o])'
  BY <1>5
<1>7. /\ settled'.config /\ (\A o \in Requests : ~Reprices(work'[o])) => ConfigHolds'
      /\ settled'.dues /\ (\A o \in Requests : ~Redues(work'[o])) => DuesHold'
      /\ settled'.fleet /\ (\A o \in Requests : ~Refleets(work'[o])) => FleetHolds'
  BY <1>1 DEF AloneInv
<1> QED
  BY <1>4, <1>6, <1>7 DEF AloneInv

\* Only the memory of a request changed.
LEMMA HoldsStay ==
  ASSUME UNCHANGED <<cycles, terms, configs, account, assigned>>
  PROVE  /\ ConfigHolds' <=> ConfigHolds
         /\ DuesHold' <=> DuesHold
         /\ FleetHolds' <=> FleetHolds
         /\ LastSigned' = LastSigned
BY DEF ConfigHolds, DuesHold, FleetHolds, Dues, LastSigned

\* The facts about a request at work that the steps below start from.
LEMMA KnownAlone ==
  ASSUME TypeInv, CycleInv, AloneInv, NEW r \in Requests, work[r].at # "idle", work[r].kind \in DuesKinds
  PROVE  /\ Works(work[r]) /\ work[r].alone => Knows(work[r])
         /\ Works(work[r])
         /\ DOMAIN configs = DOMAIN cycles /\ DOMAIN terms = DOMAIN cycles
         /\ LastSigned \in Nat /\ work[r].alone \in BOOLEAN
         /\ settled \in Settled /\ account \in Account
BY LastSignedIs, Known DEF AloneInv, Works, Typed, RowsOK

LEMMA AloneBuild ==
  ASSUME TypeInv, CycleInv, AloneInv, NEW r \in Requests,
         ReadTerms(r) \/ PutConfig(r) \/ ReadFleet(r) \/ SetBilling(r)
  PROVE  AloneInv'
<1>1. /\ IInv /\ RowsOK
      /\ Placed(work[r]) /\ Typed(work[r], terms, payments) /\ Bound(work[r], cycles, configs)
      /\ OnCycle(work[r]) => work[r].cycle \in DOMAIN cycles
  BY Known
<1>2. work[r].at \in {"read_terms", "put_config", "read_fleet", "set_billing"}
  BY DEF ReadTerms, PutConfig, ReadFleet, SetBilling
<1>3. work[r].kind \in DuesKinds
  BY <1>1, <1>2 DEF Placed, DuesKinds, Kinds
<1>4. /\ Works(work[r]) /\ work[r].alone => Knows(work[r])
      /\ Works(work[r])
      /\ DOMAIN configs = DOMAIN cycles /\ DOMAIN terms = DOMAIN cycles
      /\ LastSigned \in Nat /\ work[r].alone \in BOOLEAN
      /\ settled \in Settled /\ account \in Account
  BY <1>2, <1>3, KnownAlone
<1>5. CASE ReadTerms(r)
  <2>1. Follows(r, "read_terms", "put_config") /\ work'[r].config = ConfigOf(work[r].cycle)
        /\ work[r].kind \in {"sign", "correct"}
    BY <1>1, <1>5, BuildSteps DEF Follows, Placed
  <2>2. UNCHANGED <<cycles, terms, configs, account, assigned, settled>>
    BY <1>5 DEF ReadTerms
  <2>3. work'[r].alone => Knows(work[r])'
    BY <1>4, <2>1, <2>2, HoldsStay DEF Knows, Follows, ConfigOf
  <2>4. Reprices(work'[r]) /\ Redues(work'[r]) /\ ~Refleets(work[r]) /\ ~Refleets(work'[r])
    BY <2>1 DEF Follows, Reprices, Redues, Refleets
  <2> QED
    BY <1>4, <2>1, <2>2, <2>3, <2>4, HoldsStay, AloneMoves DEF Follows
<1>6. CASE PutConfig(r)
  <2> DEFINE c == work[r].cycle
  <2>1. Follows(r, "put_config", "read_fleet") /\ work'[r].config = work[r].config
        /\ work[r].kind \in {"sign", "correct"} /\ c \in DOMAIN cycles
    BY <1>1, <1>6, BuildSteps DEF Follows, Placed, OnCycle
  <2>2. /\ UNCHANGED <<cycles, terms, account, assigned>>
        /\ configs' = [configs EXCEPT ![c] = work[r].config]
        /\ settled' = [settled EXCEPT !.config = work[r].alone]
    BY <1>6 DEF PutConfig
  <2>3. /\ LastSigned' = LastSigned /\ configs'[c] = work[r].config
        /\ settled'.config = work[r].alone /\ settled'.dues = settled.dues
        /\ settled'.fleet = settled.fleet
    BY <1>4, <2>1, <2>2 DEF LastSigned, Settled
  <2>4. work[r].alone => c = LastSigned /\ work[r].config.items = FeeItems(terms[c].lines)
    BY <1>4, <2>1 DEF Knows, Follows
  <2>5. work'[r].alone => Knows(work[r])'
    BY <2>1, <2>3, <2>4 DEF Knows, Follows
  <2>6. settled'.config => ConfigHolds'
    BY <2>2, <2>3, <2>4 DEF ConfigHolds
  <2>7. Redues(work'[r]) /\ ~Refleets(work[r]) /\ ~Refleets(work'[r])
    BY <2>1 DEF Follows, Redues, Refleets
  <2>8. FleetHolds' <=> FleetHolds
    BY <2>2 DEF FleetHolds
  <2> QED
    BY <1>4, <2>1, <2>3, <2>5, <2>6, <2>7, <2>8, AloneMoves DEF Follows
<1>7. CASE ReadFleet(r)
  <2>1. /\ Follows(r, "read_fleet", "set_billing") /\ work[r].kind \in {"sign", "correct"}
        /\ work'[r].config = work[r].config /\ work'[r].fleet = account.fleet
        /\ work'[r].monthly = MonthlyRecurring(work[r].config.items, account.fleet)
    BY <1>1, <1>7, BuildSteps DEF Follows, Placed
  <2>2. UNCHANGED <<cycles, terms, configs, account, assigned, settled>>
    BY <1>7 DEF ReadFleet
  <2>3. configs[work[r].cycle] # None /\ work[r].cycle \in DOMAIN cycles /\ DOMAIN cycles \subseteq Nat \ {0}
    BY <1>1, <2>1 DEF Follows, Bound, Stored, Holds, OnCycle, RowsOK
  <2>4. work'[r].alone => Knows(work[r])'
    BY <1>4, <2>1, <2>2, <2>3, HoldsStay DEF Knows, Follows, Dues
  <2>5. /\ ~Reprices(work[r]) /\ Redues(work'[r]) /\ ~Refleets(work[r]) /\ ~Refleets(work'[r])
    BY <2>1 DEF Follows, Reprices, Redues, Refleets
  <2> QED
    BY <1>4, <2>1, <2>2, <2>4, <2>5, HoldsStay, AloneMoves DEF Follows
<1>8. CASE SetBilling(r)
  <2> DEFINE w == work[r]
  <2>1. /\ UNCHANGED <<cycles, terms, configs, payments, assigned>> /\ w.at = "set_billing"
        /\ account' = [account EXCEPT !.fleet = w.fleet, !.monthly = w.monthly]
    BY <1>8 DEF SetBilling
  <2>2. /\ account'.fleet = w.fleet /\ account'.monthly = w.monthly
        /\ account'.override = account.override /\ LastSigned' = LastSigned
    BY <1>4, <2>1 DEF Account, LastSigned
  <2>3. /\ settled'.config = settled.config
        /\ settled'.dues => w.alone /\ (w.kind # "heal" \/ settled.dues)
        /\ settled'.fleet => w.alone /\ (w.kind \in {"fleet", "vehicle"} \/ settled.fleet)
    <3> DEFINE dues  == w.alone /\ (w.kind # "heal" \/ settled.dues)
               fleet == w.alone /\ (w.kind \in {"fleet", "vehicle"} \/ settled.fleet)
    <3>1. settled' = [settled EXCEPT !.dues = dues, !.fleet = fleet]
      BY <1>8 DEF SetBilling
    <3> HIDE DEF dues, fleet
    <3>2. settled'.config = settled.config /\ settled'.dues = dues /\ settled'.fleet = fleet
      BY <1>4, <3>1 DEF Settled
    <3> QED
      BY <3>2 DEF dues, fleet
  <2>4. /\ OthersAlike(r) /\ OffDues(work'[r])
        /\ Works(work'[r]) => work'[r].kind = w.kind /\ work'[r].cycle = w.cycle /\ work'[r].alone = w.alone
    <3>1. Follows(r, "set_billing", "list_payments") \/ Stops(r)
      BY <1>1, <1>8, BuildSteps
    <3> QED
      BY <3>1 DEF Follows, Stops, Idle, OffDues, Works
  <2>5. Works(work'[r]) /\ work'[r].alone => Knows(work[r])'
    BY <1>4, <2>2, <2>4 DEF Knows, OffDues
  <2>6. ~Reprices(w) /\ ~Reprices(work'[r]) /\ (ConfigHolds' <=> ConfigHolds)
    BY <2>1, <2>2, <2>4, OffDuesIsOff DEF Reprices, ConfigHolds
  <2>7. settled'.dues => DuesHold'
    BY <1>4, <2>1, <2>2, <2>3 DEF Knows, DuesHold, Dues
  <2>8. settled'.fleet /\ (settled.fleet /\ ~Refleets(w) => FleetHolds) => FleetHolds'
    <3>1. CASE w.kind \in {"fleet", "vehicle"}
      BY <1>4, <2>1, <2>2, <2>3, <3>1 DEF Knows, FleetHolds
    <3>2. CASE w.kind \notin {"fleet", "vehicle"}
      BY <1>4, <2>1, <2>2, <2>3, <3>2 DEF Knows, FleetHolds, Refleets
    <3> QED
      BY <3>1, <3>2
  <2> QED
    BY <1>4, <2>3, <2>4, <2>5, <2>6, <2>7, <2>8, AloneMoves
<1> QED
  BY <1>5, <1>6, <1>7, <1>8

LEMMA IdleComputes ==
  ~Works(Idle) /\ OffDues(Idle) /\ ~Reprices(Idle) /\ ~Redues(Idle) /\ ~Refleets(Idle)
BY DEF Idle, Works, OffDues, Reprices, Redues, Refleets

LEMMA AloneSchedule ==
  ASSUME TypeInv, CycleInv, AloneInv, NEW r \in Requests,
         \/ ListPayments(r) \/ PutRow(r) \/ SetSchedule(r) \/ BillingReady(r)
         \/ PutPayment(r)
  PROVE  AloneInv'
<1>1. IInv /\ RowsOK /\ DOMAIN cycles = 1..Len(cycles)
  BY Known
<1>2. OthersAlike(r) /\ Idles(work'[r], work[r])
  <2>1. ASSUME NEW from \in {"list_payments", "put_row", "set_schedule"},
               NEW to \in {"put_row", "set_schedule", "ready"}, Follows(r, from, to)
        PROVE  OthersAlike(r) /\ Idles(work'[r], work[r])
    BY <2>1 DEF Follows, Idles, OffDues, Works
  <2>2. ASSUME Stops(r),
               work[r].at \in {"list_payments", "put_row", "set_schedule", "ready", "put_payment"}
        PROVE  OthersAlike(r) /\ Idles(work'[r], work[r])
    BY <2>2, IdleComputes DEF Stops, Idles, OffDues
  <2>3. CASE ListPayments(r)
    BY <1>1, <2>1, <2>2, <2>3, ScheduleSteps
  <2>4. CASE PutRow(r)
    <3> DEFINE place == IF work[r].next + 1 = Instalments THEN "set_schedule" ELSE "put_row"
    <3>1. Follows(r, "put_row", place)
      BY <1>1, <2>4, ScheduleSteps
    <3>2. place \in {"put_row", "set_schedule"}
      OBVIOUS
    <3> HIDE DEF place
    <3> QED
      BY <2>1, <3>1, <3>2
  <2>5. CASE SetSchedule(r)
    BY <1>1, <2>1, <2>2, <2>5, ScheduleSteps
  <2>6. CASE BillingReady(r)
    BY <1>1, <2>2, <2>6, ScheduleSteps
  <2>7. CASE PutPayment(r)
    BY <1>1, <2>2, <2>7, FleetSteps
  <2> QED
    BY <2>3, <2>4, <2>5, <2>6, <2>7
<1>3. UNCHANGED <<terms, configs, assigned, settled>>
  BY DEF ListPayments, PutRow, SetSchedule, BillingReady, PutPayment
<1>4. /\ account'.fleet = account.fleet /\ account'.monthly = account.monthly
      /\ account'.override = account.override
  BY <1>1 DEF ListPayments, PutRow, SetSchedule, BillingReady, PutPayment, RowsOK, Account
<1>5. LastSigned' = LastSigned /\ ActiveIn(cycles) \subseteq ActiveIn(cycles')
  <2> DEFINE c == work[r].cycle
  <2>1. \/ cycles' = cycles
        \/ BillingReady(r) /\ cycles[c] = "BILLING_SETUP"
             /\ cycles' = [cycles EXCEPT ![c] = "PENDING_BILLING_AUDIT"]
    BY DEF ListPayments, PutRow, SetSchedule, BillingReady, PutPayment
  <2>2. /\ DOMAIN cycles' = DOMAIN cycles
        /\ \A d \in DOMAIN cycles :
             cycles[d] # "PENDING_CLIENT_APPROVAL" <=> cycles'[d] # "PENDING_CLIENT_APPROVAL"
        /\ \A d \in DOMAIN cycles : cycles[d] = "ACTIVE" => cycles'[d] = "ACTIVE"
    BY <1>1, <2>1 DEF RowsOK
  <2>3. LastOf(cycles') = LastOf(cycles)
    BY <2>2, LastOfSame
  <2> QED
    BY <2>2, <2>3 DEF LastSigned, LastOf, ActiveIn
<1> QED
  BY <1>2, <1>3, <1>4, <1>5, AloneStays DEF OthersAlike

LEMMA AloneFleet ==
  ASSUME TypeInv, CycleInv, AloneInv, NEW r \in Requests,
         PutTerm(r) \/ SetOverride(r) \/ Price(r) \/ Count(r) \/ Sync(r)
  PROVE  AloneInv'
<1>1. /\ IInv /\ RowsOK /\ CyclesOK
      /\ Placed(work[r]) /\ Typed(work[r], terms, payments) /\ Bound(work[r], cycles, configs)
  BY Known
<1>2. work[r].at \in {"put_term", "set_override", "price", "count", "sync"}
  BY DEF PutTerm, SetOverride, Price, Count, Sync
<1>3. work[r].kind \in DuesKinds
  BY <1>1, <1>2 DEF Placed, DuesKinds, Kinds
<1>4. /\ Works(work[r]) /\ work[r].alone => Knows(work[r])
      /\ Works(work[r])
      /\ LastSigned \in Nat /\ work[r].alone \in BOOLEAN
      /\ settled \in Settled /\ account \in Account
  BY <1>2, <1>3, KnownAlone
<1>5. CASE PutTerm(r)
  <2>1. Follows(r, "put_term", "read_terms") /\ work[r].kind = "correct"
    BY <1>1, <1>5, FleetSteps DEF Follows, Placed
  <2>2. UNCHANGED <<cycles, configs, account, assigned, settled>>
    BY <1>5 DEF PutTerm
  <2>3. LastSigned' = LastSigned /\ (FleetHolds' <=> FleetHolds)
    BY <2>2 DEF LastSigned, FleetHolds
  <2>4. work'[r].alone => Knows(work[r])'
    BY <1>4, <2>1, <2>3 DEF Knows, Follows
  <2>5. Reprices(work'[r]) /\ Redues(work'[r]) /\ ~Refleets(work[r])
    BY <2>1 DEF Follows, Reprices, Redues, Refleets
  <2> QED
    BY <1>4, <2>1, <2>2, <2>3, <2>4, <2>5, AloneMoves DEF Follows
<1>6. CASE SetOverride(r)
  <2>1. Follows(r, "set_override", "price") /\ work'[r].row = work[r].row /\ work[r].kind = "fleet"
    BY <1>1, <1>6, FleetSteps DEF Follows, Placed
  <2>2. /\ UNCHANGED <<cycles, terms, configs, assigned, settled>>
        /\ account' = [account EXCEPT !.override = work[r].row]
    BY <1>6 DEF SetOverride
  <2>3. /\ account'.override = work[r].row /\ account'.fleet = account.fleet
        /\ account'.monthly = account.monthly /\ LastSigned' = LastSigned
    BY <1>4, <2>2 DEF Account, LastSigned
  <2>4. (ConfigHolds' <=> ConfigHolds) /\ (DuesHold' <=> DuesHold)
    BY <2>2, <2>3 DEF ConfigHolds, DuesHold, Dues
  <2>5. work'[r].alone => Knows(work[r])'
    BY <1>4, <2>1, <2>3 DEF Knows, Follows
  <2>6. /\ ~Reprices(work[r]) /\ ~Redues(work[r]) /\ Refleets(work'[r])
        /\ ~Reprices(work'[r]) /\ ~Redues(work'[r])
    BY <2>1 DEF Follows, Reprices, Redues, Refleets
  <2> QED
    BY <1>4, <2>1, <2>2, <2>4, <2>5, <2>6, AloneMoves DEF Follows
<1>7. CASE Price(r)
  <2>1. /\ Follows(r, "price", "set_billing") /\ work[r].kind = "fleet"
        /\ work'[r].fleet = EffectiveFleet(assigned, work[r].row)
    BY <1>1, <1>7, FleetSteps DEF Follows, Placed
  <2>2. PICK config \in ReadableConfigs(work[r].cycle) :
          work'[r].monthly = IF config = None THEN None
                             ELSE MonthlyRecurring(config.items, work'[r].fleet)
    BY <1>1, <1>7, FleetSteps
  <2>3. UNCHANGED <<cycles, terms, configs, account, assigned, settled>>
    BY <1>7 DEF Price
  <2>4. work'[r].alone => Dues(work'[r].monthly, work'[r].fleet)
    <3>1. work'[r].alone => LastSigned <= 1
      BY <1>4, <2>1 DEF Knows, Follows
    <3>2. CASE config = None
      BY <2>2, <3>1, <3>2 DEF Dues
    <3>3. CASE config # None
      <4>1. work[r].cycle \in DOMAIN cycles
        BY <1>1, <2>1 DEF OnCycle, Typed, Follows, RowsOK
      <4> QED
        BY <2>2, <3>1, <3>3, <4>1, SignedPrices
    <3> QED
      BY <3>2, <3>3
  <2>5. Dues(work'[r].monthly, work'[r].fleet) => Dues(work[r].monthly, work[r].fleet)'
    BY <2>3, HoldsStay DEF Dues
  <2>6. work'[r].alone => Knows(work[r])'
    BY <1>4, <2>1, <2>3, <2>4, <2>5, HoldsStay DEF Knows, Follows
  <2>7. /\ ~Reprices(work[r]) /\ ~Redues(work[r]) /\ Refleets(work'[r])
        /\ ~Reprices(work'[r]) /\ ~Redues(work'[r])
    BY <2>1 DEF Follows, Reprices, Redues, Refleets
  <2> QED
    BY <1>4, <2>1, <2>3, <2>6, <2>7, HoldsStay, AloneMoves DEF Follows
<1>8. CASE Count(r)
  <2>1. Follows(r, "count", "sync") /\ work'[r].next = assigned /\ work[r].kind = "vehicle"
    BY <1>1, <1>8, FleetSteps DEF Follows, Placed
  <2>2. UNCHANGED <<cycles, terms, configs, account, assigned, settled>>
    BY <1>8 DEF Count
  <2>3. work'[r].alone => Knows(work[r])'
    BY <1>4, <2>1, <2>2 DEF Knows, Follows
  <2>4. /\ ~Reprices(work[r]) /\ ~Redues(work[r]) /\ ~Refleets(work[r])
        /\ ~Reprices(work'[r]) /\ ~Redues(work'[r])
    BY <2>1 DEF Follows, Reprices, Redues, Refleets
  <2> QED
    BY <1>4, <2>1, <2>2, <2>3, <2>4, HoldsStay, AloneMoves DEF Follows
<1>9. CASE Sync(r)
  <2>1. UNCHANGED <<cycles, terms, configs, account, assigned, settled>>
    BY <1>9 DEF Sync
  <2>2. work[r].at = "sync" /\ work[r].kind = "vehicle"
    BY <1>1, <1>9 DEF Placed, Sync
  <2>3. ~Reprices(work[r]) /\ ~Redues(work[r]) /\ ~Refleets(work[r])
    BY <2>2 DEF Reprices, Redues, Refleets
  <2>4. CASE Stops(r)
    BY <1>4, <2>1, <2>3, <2>4, IdleComputes, HoldsStay, AloneMoves DEF Stops
  <2>5. CASE ~Stops(r)
    <3>1. /\ ActiveIn(cycles) = {} /\ work'[r].at = "set_billing" /\ work'[r].kind = "vehicle"
          /\ work'[r].cycle = work[r].cycle /\ OthersAlike(r)
          /\ work'[r].fleet = FleetFor(work[r].next)
      BY <1>1, <1>4, <1>9, <2>2, <2>5, SyncStep
    <3>2. PICK config \in ReadableConfigs(InForce) :
            /\ work'[r].alone = (work[r].alone /\ config = configs[InForce])
            /\ work'[r].monthly = IF config = None THEN account.monthly
                                  ELSE MonthlyRecurring(config.items, work'[r].fleet)
      BY <1>1, <1>4, <1>9, <2>5, SyncStep
    <3>3. InForce = 1 /\ LastSigned <= 1
      BY <3>1, LastSignedIs
    <3>4. work'[r].alone => Dues(work'[r].monthly, work'[r].fleet)
      <4>1. CASE config = None
        BY <1>1, <3>2, <3>3, <4>1 DEF Dues, CyclesOK
      <4>2. CASE config # None
        BY <3>2, <3>3, <4>2, SignedPrices, LastSignedIs
      <4> QED
        BY <4>1, <4>2
    <3>5. Dues(work'[r].monthly, work'[r].fleet) => Dues(work[r].monthly, work[r].fleet)'
      BY <2>1, HoldsStay DEF Dues
    <3>6. work'[r].alone => work[r].alone /\ work'[r].fleet = EffectiveFleet(assigned, account.override)
      BY <1>4, <2>2, <3>1, <3>2 DEF Knows, FleetFor
    <3>7. work'[r].alone => Knows(work[r])'
      BY <2>1, <3>1, <3>4, <3>5, <3>6 DEF Knows
    <3>8. ~Reprices(work'[r]) /\ ~Redues(work'[r])
      BY <3>1 DEF Reprices, Redues
    <3> QED
      BY <1>4, <2>1, <2>3, <3>1, <3>6, <3>7, <3>8, HoldsStay, AloneMoves
  <2> QED
    BY <2>4, <2>5
<1> QED
  BY <1>5, <1>6, <1>7, <1>8, <1>9

LEMMA AloneArrives ==
  ASSUME TypeInv, CycleInv, AloneInv, NEW r \in Requests, Arrives(r)
  PROVE  AloneInv'
<1>1. /\ IInv /\ RowsOK /\ CyclesOK /\ settled \in Settled
      /\ DOMAIN cycles = 1..Len(cycles) /\ Len(cycles) \in Nat \ {0}
  BY Known DEF RowsOK
<1>2. LastSigned \in 0..Len(cycles)
  BY LastSignedIs
\* A request that computes no dues, and one that has changed nothing yet.
<1>3. ASSUME NEW kind \in {"view", "pay"}, NEW at \in {"list_payments", "put_payment"},
             Starts(r, kind, at),
             UNCHANGED <<cycles, terms, configs, account, assigned, settled>>
      PROVE  AloneInv'
  <2>1. OthersAlike(r) /\ Idles(work'[r], work[r])
    BY <1>3, IdleComputes DEF Starts, Idles, OffDues, Works, DuesKinds
  <2> QED
    BY <1>3, <2>1, HoldsStay, AloneStays DEF OthersAlike
<1>4. ASSUME NEW kind \in DuesKinds, NEW at, Starts(r, kind, at),
             at \notin {"read_terms", "put_config", "read_fleet", "price"},
             at = "set_billing" => kind = "heal",
             UNCHANGED <<cycles, terms, configs, account, assigned, settled>>,
             work'[r].alone => Knows(work[r])'
      PROVE  AloneInv'
  <2>1. /\ work[r] = Idle /\ OthersAlike(r)
        /\ work'[r].alone => Busy(DuesKinds) = {}
        /\ \A o \in Requests \ {r} : work'[o].at # "idle" => ~work'[o].alone
    BY <1>4 DEF Starts
  <2>2. ~Reprices(work'[r]) /\ ~Redues(work'[r]) /\ ~Refleets(work'[r])
    BY <1>4 DEF Starts, Reprices, Redues, Refleets
  <2>3. ~Reprices(work[r]) /\ ~Redues(work[r]) /\ ~Refleets(work[r])
    BY <2>1, IdleComputes
  <2> QED
    BY <1>4, <2>1, <2>2, <2>3, HoldsStay, AloneMoves
<1>5. ASSUME NEW c \in DOMAIN cycles, Sign(r, c)
      PROVE  AloneInv'
  <2>1. Starts(r, "sign", "read_terms") /\ work'[r].cycle = c
    BY <1>1, <1>5, Arrivals
  <2>2. /\ UNCHANGED <<terms, configs, account, assigned, settled>>
        /\ cycles[c] = "PENDING_CLIENT_APPROVAL" /\ cycles' = [cycles EXCEPT ![c] = "BILLING_SETUP"]
    BY <1>5 DEF Sign
  <2>3. c = Len(cycles)
    BY <1>1, <2>2 DEF CyclesOK, OneAtATime
  <2>4. /\ cycles' \in Seq(Statuses) /\ Len(cycles') = Len(cycles) /\ DOMAIN cycles' = DOMAIN cycles
        /\ cycles'[c] = "BILLING_SETUP" /\ \A d \in DOMAIN cycles : d # c => cycles'[d] = cycles[d]
    BY <1>1, <2>2 DEF RowsOK, Statuses
  <2>5. LastSigned' = c
    <3>1. LastSigned' = LastOf(cycles')
      BY DEF LastSigned, LastOf
    <3>2. LastOf(cycles') \in 0..Len(cycles') /\ c <= LastOf(cycles')
      BY <2>4, LastOfIs
    <3> QED
      BY <1>1, <2>3, <2>4, <3>1, <3>2
  <2>6. FleetHolds => FleetHolds'
    <3>1. ActiveIn(cycles') = ActiveIn(cycles)
      BY <2>2, <2>4 DEF ActiveIn
    <3> QED
      BY <2>2, <3>1 DEF FleetHolds
  <2>7. Knows(work[r])'
    BY <2>1, <2>5 DEF Starts, Knows
  <2>8. /\ Reprices(work'[r]) /\ Redues(work'[r]) /\ ~Refleets(work[r]) /\ work[r] = Idle
        /\ OthersAlike(r) /\ (work'[r].alone => Busy(DuesKinds) = {})
        /\ \A o \in Requests \ {r} : work'[o].at # "idle" => ~work'[o].alone
    BY <2>1, IdleComputes DEF Starts, Reprices, Redues, DuesKinds, Kinds
  <2> QED
    BY <2>2, <2>6, <2>7, <2>8, AloneMoves
<1>6. ASSUME NEW c \in DOMAIN cycles, ViewBilling(r, c)
      PROVE  AloneInv'
  <2>1. /\ UNCHANGED <<cycles, terms, configs, account, assigned, settled>>
        /\ cycles[c] # "PENDING_CLIENT_APPROVAL" /\ configs[c] # None
    BY <1>6 DEF ViewBilling, ScheduledStatuses
  <2>2. CASE account.monthly = None
    <3>1. /\ Starts(r, "heal", "set_billing") /\ work'[r].fleet = account.fleet
          /\ work'[r].monthly = MonthlyRecurring(configs[c].items, account.fleet)
      BY <1>1, <1>6, <2>2, Arrivals
    <3>2. work'[r].alone /\ settled.dues => LastSigned = 1 /\ c = 1
      <4>1. ASSUME Busy(DuesKinds) = {}, settled.dues
            PROVE  LastSigned = 1 /\ c = 1
        <5>1. DuesHold
          <6>1. \A o \in Requests : ~Redues(work[o])
            BY <4>1, Known DEF Busy, Redues, Reprices, Placed, DuesKinds, Kinds
          <6> QED
            BY <4>1, <6>1 DEF AloneInv
        <5>2. LastSigned > 0 /\ configs[LastSigned] # None =>
                MonthlyRecurring(configs[LastSigned].items, account.fleet) # None
          BY <1>1, <1>2, DuesAreAmounts DEF RowsOK, Account
        <5>3. LastSigned <= 1
          BY <2>2, <5>1, <5>2 DEF DuesHold, Dues
        <5>4. c <= LastSigned
          BY <2>1, LastSignedIs
        <5> QED
          BY <1>1, <1>2, <5>3, <5>4
      <4> QED
        BY <3>1, <4>1 DEF Starts
    <3>3. work'[r].alone /\ settled.dues => Dues(work[r].monthly, work[r].fleet)'
      BY <2>1, <3>1, <3>2, HoldsStay DEF Dues
    <3>4. work'[r].alone => Knows(work[r])'
      BY <2>1, <3>1, <3>3 DEF Starts, Knows
    <3> QED
      BY <1>4, <2>1, <3>1, <3>4 DEF DuesKinds, Kinds
  <2>3. CASE account.monthly # None
    BY <1>1, <1>3, <1>6, <2>1, <2>3, Arrivals
  <2> QED
    BY <2>2, <2>3
<1>7. ASSUME NEW line \in Lines, NEW correction \in Corrections, Correct(r, line, correction)
      PROVE  AloneInv'
  <2>1. /\ Starts(r, "correct", "put_term") /\ work'[r].cycle = InForce
        /\ UNCHANGED <<cycles, terms, configs, account, assigned, settled>>
        /\ cycles[InForce] = "PENDING_BILLING_AUDIT"
    BY <1>1, <1>7, CorrectStarts DEF Correct
  <2>2. ActiveIn(cycles) = {}
    BY <1>1, <2>1, InForceIsLive DEF RowsOK
  <2>3. InForce = LastSigned
    BY <1>2, <2>1, <2>2, LastSignedIs
  <2>4. Knows(work[r])'
    BY <2>1, <2>3, HoldsStay DEF Starts, Knows
  <2> QED
    BY <1>4, <2>1, <2>4 DEF DuesKinds, Kinds
<1>8. ASSUME NEW override \in Overrides, SetFleet(r, override)
      PROVE  AloneInv'
  <2>1. /\ Starts(r, "fleet", "set_override") /\ ~IsLocked(cycles[InForce])
        /\ UNCHANGED <<cycles, terms, configs, account, assigned, settled>>
    BY <1>1, <1>8, Arrivals DEF SetFleet
  <2>2. ActiveIn(cycles) = {}
    BY <1>1, <2>1, InForceIsLive DEF RowsOK, IsLocked
  <2>3. Knows(work[r])'
    BY <2>1, <2>2, LastSignedIs, HoldsStay DEF Starts, Knows
  <2> QED
    BY <1>4, <2>1, <2>3 DEF DuesKinds, Kinds
<1>9. ASSUME NEW n \in 0..MaxVehicles, MoveVehicle(r, n)
      PROVE  AloneInv'
  <2>1. /\ Starts(r, "vehicle", "count")
        /\ UNCHANGED <<cycles, terms, configs, account>>
        /\ settled' = [settled EXCEPT !.fleet = FALSE]
    BY <1>1, <1>9, Arrivals DEF MoveVehicle
  <2>2. /\ settled'.config = settled.config /\ settled'.dues = settled.dues /\ ~settled'.fleet
    BY <1>1, <2>1 DEF Settled
  <2>3. (ConfigHolds' <=> ConfigHolds) /\ (DuesHold' <=> DuesHold)
    BY <2>1 DEF ConfigHolds, DuesHold, Dues, LastSigned
  <2>4. Knows(work[r])'
    BY <2>1 DEF Starts, Knows
  <2>5. /\ ~Reprices(work[r]) /\ ~Redues(work[r]) /\ work[r] = Idle
        /\ OthersAlike(r) /\ (work'[r].alone => Busy(DuesKinds) = {})
        /\ \A o \in Requests \ {r} : work'[o].at # "idle" => ~work'[o].alone
    BY <2>1, IdleComputes DEF Starts, DuesKinds, Kinds
  <2> QED
    BY <2>2, <2>3, <2>4, <2>5, AloneMoves
<1>10. ASSUME NEW i \in DOMAIN payments, Pay(r, i)
       PROVE  AloneInv'
  <2>1. /\ Starts(r, "pay", "put_payment")
        /\ UNCHANGED <<cycles, terms, configs, account, assigned, settled>>
    BY <1>1, <1>10, Arrivals DEF Pay
  <2> QED
    BY <1>3, <2>1
<1> QED
  BY <1>5, <1>6, <1>7, <1>8, <1>9, <1>10, Zenon DEF Arrives

LEMMA AloneStep ==
  ASSUME TypeInv, CycleInv, AloneInv, [Next]_vars
  PROVE  AloneInv'
<1>1. /\ IInv /\ RowsOK /\ settled \in Settled
      /\ DOMAIN cycles = 1..Len(cycles) /\ Len(cycles) \in Nat \ {0}
      /\ DOMAIN configs = DOMAIN cycles /\ DOMAIN terms = DOMAIN cycles
  BY DEF TypeInv, RowsOK
<1>2. \A o \in Requests : Alike(work[o], work[o])
  BY DEF Alike
<1>3. ASSUME NEW r \in Requests, Dies(r)
      PROVE  AloneInv'
  <2>1. Stops(r) /\ UNCHANGED <<cycles, terms, configs, account, assigned>>
    BY <1>1, <1>3, Stopping DEF Dies
  <2>2. /\ settled'.config => settled.config /\ ~Reprices(work[r])
        /\ settled'.dues => settled.dues /\ ~Redues(work[r])
        /\ settled'.fleet => settled.fleet /\ ~Refleets(work[r])
    BY <1>3 DEF Dies, Reprices, Redues, Refleets
  <2>3. CASE Works(work[r])
    BY <2>1, <2>2, <2>3, IdleComputes, HoldsStay, AloneMoves DEF Stops
  <2>4. CASE ~Works(work[r])
    <3>1. OffDues(work[r])
      BY <2>4, Known DEF Works, Placed, OffDues, DuesKinds, Kinds
    <3>2. Idles(work'[r], work[r]) /\ OthersAlike(r)
      BY <2>1, <3>1, IdleComputes DEF Idles, Stops
    <3> QED
      BY <2>1, <2>2, <3>2, HoldsStay, AloneStays DEF OthersAlike
  <2> QED
    BY <2>3, <2>4
<1>4. ASSUME NEW r \in Requests, Continues(r)
      PROVE  AloneInv'
  BY <1>4, AloneBuild, AloneSchedule, AloneFleet, Zenon DEF Continues
<1>5. ASSUME NEW r \in Requests, Arrives(r)
      PROVE  AloneInv'
  BY <1>5, AloneArrives
<1>6. ASSUME NEW c \in DOMAIN cycles, ApproveBilling(c)
      PROVE  AloneInv'
  <2>1. /\ UNCHANGED <<terms, configs, account, assigned, work, settled>>
        /\ cycles[c] = "PENDING_BILLING_AUDIT" /\ cycles' = [cycles EXCEPT ![c] = "ACTIVE"]
    BY <1>6 DEF ApproveBilling
  <2>2. /\ DOMAIN cycles' = DOMAIN cycles
        /\ \A d \in DOMAIN cycles :
             cycles[d] # "PENDING_CLIENT_APPROVAL" <=> cycles'[d] # "PENDING_CLIENT_APPROVAL"
        /\ \A d \in DOMAIN cycles : cycles[d] = "ACTIVE" => cycles'[d] = "ACTIVE"
    BY <1>1, <2>1 DEF RowsOK
  <2>3. LastSigned' = LastSigned /\ ActiveIn(cycles) \subseteq ActiveIn(cycles')
    BY <2>2, LastOfSame DEF LastSigned, LastOf, ActiveIn
  <2> QED
    BY <1>2, <2>1, <2>3, AloneStays
<1>7. ASSUME NEW reading, Amend(reading)
      PROVE  AloneInv'
  <2>1. /\ UNCHANGED <<account, assigned, work, settled>>
        /\ cycles' = Append(cycles, "PENDING_CLIENT_APPROVAL")
        /\ terms' = Append(terms, reading) /\ configs' = Append(configs, None)
    BY <1>7 DEF Amend
  <2>2. /\ DOMAIN cycles' = 1..Len(cycles) + 1
        /\ cycles'[Len(cycles) + 1] = "PENDING_CLIENT_APPROVAL"
        /\ \A c \in DOMAIN cycles : cycles'[c] = cycles[c]
    BY <1>1, <2>1 DEF RowsOK, Statuses
  <2>3. \A c \in DOMAIN cycles : configs'[c] = configs[c] /\ terms'[c] = terms[c]
    BY <1>1, <2>1 DEF RowsOK
  <2>4. LastOf(cycles') = LastOf(cycles)
    <3>1. \A c \in DOMAIN cycles' : c \in DOMAIN cycles \/ cycles'[c] = "PENDING_CLIENT_APPROVAL"
      BY <1>1, <2>2
    <3>2. \A c \in DOMAIN cycles : c \in DOMAIN cycles'
      BY <1>1, <2>2
    <3> QED
      BY <2>2, <3>1, <3>2, LastOfSame
  <2>5. LastSigned' = LastSigned /\ ActiveIn(cycles) \subseteq ActiveIn(cycles')
    BY <1>1, <2>2, <2>4 DEF LastSigned, LastOf, ActiveIn
  <2> QED
    BY <1>2, <2>1, <2>3, <2>5, AloneStays
<1>8. ASSUME UNCHANGED <<cycles, terms, configs, account, assigned, work, settled>>
      PROVE  AloneInv'
  BY <1>2, <1>8, HoldsStay, AloneStays
<1>9. CASE DayPasses
  BY <1>8, <1>9 DEF DayPasses
<1>10. CASE UNCHANGED vars
  BY <1>8, <1>10 DEF vars
<1> QED
  BY <1>3, <1>4, <1>5, <1>6, <1>7, <1>9, <1>10, Zenon DEF Next

LEMMA AloneInit == Init => AloneInv
<1> SUFFICES ASSUME Init PROVE AloneInv
  OBVIOUS
<1>1. /\ cycles = <<"PENDING_CLIENT_APPROVAL">> /\ assigned = 0
      /\ account.monthly = None /\ account.fleet = 0 /\ account.override = None
      /\ \A r \in Requests : work[r] = Idle
  BY DEF Init
<1>2. LastSigned = 0
  <2>1. cycles \in Seq(Statuses) /\ Len(cycles) = 1 /\ cycles[1] = "PENDING_CLIENT_APPROVAL"
    BY <1>1 DEF Statuses
  <2>2. LastOf(cycles) \in 0..1 /\ LastOf(cycles) # 1
    BY <2>1, LastOfIs
  <2> QED
    BY <2>2 DEF LastSigned, LastOf
<1>3. ConfigHolds /\ DuesHold
  BY <1>1, <1>2 DEF ConfigHolds, DuesHold, Dues
<1>4. FleetHolds
  BY <1>1 DEF FleetHolds, EffectiveFleet, AtLeast
<1> QED
  BY <1>1, <1>3, <1>4, IdleComputes DEF AloneInv

THEOREM AloneIsSafe == Spec => []AloneInv
<1>1. TypeInv /\ CycleInv /\ AloneInv /\ [Next]_vars => AloneInv'
  BY AloneStep
<1> QED
  BY AloneInit, Types, OneCycleAtATime, <1>1, PTL DEF Spec

\* Nobody who computes dues is at work, so nobody is half-way.
LEMMA RestIsDone ==
  ASSUME TypeInv, AtRest, NEW r \in Requests
  PROVE  ~Reprices(work[r]) /\ ~Redues(work[r]) /\ ~Refleets(work[r])
BY DEF TypeInv, AtRest, Busy, Reprices, Redues, Refleets, Placed, DuesKinds, Kinds

\* Once nobody computes and nobody was interrupted or overtaken, the dues shown
\* are the configuration of the last signed cycle times the fleet shown, which
\* before go-live is the override or the count (_sync_engagement_fleet,
\* update_billing_settings, correct_billing_item, _build_billing).
THEOREM DuesFollow == Spec => []DuesFollowConfigAndFleet
<1>1. TypeInv /\ AloneInv => DuesFollowConfigAndFleet
  <2> SUFFICES ASSUME TypeInv, AloneInv, AtRest
               PROVE  /\ settled.dues /\ account.monthly # None =>
                           /\ LastSigned > 0 /\ configs[LastSigned] # None
                           /\ account.monthly = MonthlyRecurring(configs[LastSigned].items, account.fleet)
                      /\ settled.fleet /\ LiveCycles = {} =>
                           account.fleet = EffectiveFleet(assigned, account.override)
    BY DEF DuesFollowConfigAndFleet
  <2>1. (settled.dues => DuesHold) /\ (settled.fleet => FleetHolds)
    BY RestIsDone DEF AloneInv
  <2> QED
    BY <2>1, LiveIsActive DEF DuesHold, Dues, FleetHolds
<1> QED
  BY Types, AloneIsSafe, <1>1, PTL

\* At the same moments the stored configuration of that cycle prices its terms
\* with every correction the audit made (build_billing_config).
THEOREM ConfigFollows == Spec => []ConfigHoldsCorrections
<1>1. TypeInv /\ AloneInv => ConfigHoldsCorrections
  BY RestIsDone DEF AloneInv, ConfigHolds, ConfigHoldsCorrections
<1> QED
  BY Types, AloneIsSafe, <1>1, PTL
=============================================================================
