----------------------------- MODULE DeskProofs -----------------------------
(***************************************************************************)
(* Theorems about the parts that work beside the engagements: the          *)
(* inventory of vehicles, the service catalog, people and the finance      *)
(* dashboard, each for any constants and however many requests cross, and  *)
(* what they are side by side.                                             *)
(*                                                                         *)
(* A request acts on what it read. So the invariant of the inventory says  *)
(* of what each one remembers how much of it still holds: of any request,  *)
(* that the owner of the row it will put back, and the customer a unit     *)
(* belongs to, are those in the table; of one that has been alone since    *)
(* it began, that the whole row is.                                        *)
(*                                                                         *)
(* A snapshot of the catalog may be old. The invariant dates what it       *)
(* resolves: whatever has been known since before it was taken, it knows.  *)
(*                                                                         *)
(* A person's rows are written one by one. The invariant says who may be   *)
(* between an account and its group, and which names a running onboarding  *)
(* has put and has yet to put, as long as no other one of the person under *)
(* another name crosses it.                                                *)
(*                                                                         *)
(* A report is made of sums. A sum unfolds member by member, so two sums   *)
(* that agree on every member are one, the sum over a set is that over its *)
(* parts, and the sum of sums may be taken in either order, all by a set   *)
(* of least size for which it fails. A number of days is in one bucket; so *)
(* a line's payments are each of one age, what it owes is late or falls    *)
(* due today, and the book inherits both. A new draft moves no line: the   *)
(* cycle in force of a live engagement is the one that is live.            *)
(***************************************************************************)
EXTENDS Desk, AnswerRepairProofs, FirstAndLast, FiniteSetTheorems, SequenceTheorems, TLAPS

Steps == {"idle", "check", "reread", "put", "record", "count", "write"}
Memories ==
  [at : Steps, todo : Seq(Vehicles), engagement : Engagements \cup {None},
   row : VehicleRows \cup {None}, free : BOOLEAN,
   patch : VehicleStatuses \cup {"release", "notes", None},
   count : 0..Cardinality(Vehicles), alone : BOOLEAN, owes : BOOLEAN]

\* Two rows of one unit, as of different times.
SameUnit(row, now) ==
  /\ row.owner = now.owner
  /\ row.owner = "CUSTOMER_OWNED" => row.customer = now.customer

\* What a request at work on a vehicle may rely on, whoever crosses it.
HoldsVehicle(w, table) ==
  w.at \in {"reread", "put", "record"} =>
    /\ w.todo # <<>>
    /\ table[Head(w.todo)] # None
    /\ w.at = "put" => w.row # None /\ SameUnit(w.row, table[Head(w.todo)])
    /\ w.patch = None /\ w.at # "record" =>
         w.free /\ IsOfCustomer(table[Head(w.todo)], w.engagement)

\* It has an engagement to count, unless it only patches or releases; a patch or
\* a release that has put nothing owes no count.
HasEngagement(w) ==
  /\ w.at # "idle" /\ (w.patch = None \/ w.at \in {"count", "write"})
       => w.engagement \in Engagements
  /\ w.at \in {"check", "record"} => w.patch = None
  /\ w.at \in {"reread", "put"} /\ w.patch # None => ~w.owes

\* What it may rely on besides while it has been alone.
OnIn(table, e) == {v \in Vehicles : table[v] # None /\ table[v].engagement = e}
HoldsAlone(w, table) ==
  w.at # "idle" /\ w.alone =>
    /\ w.at = "put" => w.row = table[Head(w.todo)]
    /\ w.at \in {"reread", "put"} =>
         /\ w.patch = None => table[Head(w.todo)].engagement \in {None, w.engagement}
         /\ w.patch = "release" => table[Head(w.todo)].engagement = w.engagement
    /\ w.at = "write" => w.count = Cardinality(OnIn(table, w.engagement))

\* It has changed what is on this engagement, and will count it before it is
\* over or take it off the counted.
Owes(w, e) == w.at # "idle" /\ w.engagement = e /\ w.owes

RowsOK ==
  /\ vehicle \in [Vehicles -> VehicleRows \cup {None}]
  /\ \A v \in Vehicles : vehicle[v] # None => IsValid(vehicle[v])
FleetOK ==
  /\ fleet \in [Engagements -> 0..Cardinality(Vehicles)]
  /\ counted \subseteq Engagements
MemoriesOK ==
  /\ desk \in [FleetRequests -> Memories]
  /\ \A r \in FleetRequests :
       HoldsVehicle(desk[r], vehicle) /\ HasEngagement(desk[r]) /\ HoldsAlone(desk[r], vehicle)
  /\ \A r, o \in FleetRequests : Working(r) /\ desk[r].alone /\ o # r => ~Working(o)
CountsOK ==
  \A e \in counted \ Locked :
    fleet[e] = Cardinality(On(e)) \/ \E r \in FleetRequests : Owes(desk[r], e)

FleetInv == RowsOK /\ FleetOK /\ MemoriesOK /\ CountsOK

-----------------------------------------------------------------------------
(* The inventory: facts about the operators.                               *)

\* The vehicles on an engagement are no more than there are vehicles
\* (_sync_engagement_fleet).
LEMMA CountsAreBounded ==
  ASSUME NEW e
  PROVE  Cardinality(On(e)) \in 0..Cardinality(Vehicles)
<1>1. On(e) \subseteq Vehicles /\ IsFiniteSet(Vehicles)
  BY FleetLinks DEF On
<1>2. Cardinality(On(e)) <= Cardinality(Vehicles) /\ IsFiniteSet(On(e))
  BY <1>1, FS_Subset
<1> QED
  BY <1>1, <1>2, FS_CardinalityType

\* A change of one vehicle leaves every engagement alone but the one it was on
\* and the one it is on.
LEMMA OthersKeepTheirVehicles ==
  ASSUME NEW v \in Vehicles, NEW row \in VehicleRows, RowsOK, vehicle[v] # None,
         vehicle' = [vehicle EXCEPT ![v] = row],
         NEW e, e \in {row.engagement, vehicle[v].engagement}
                  => row.engagement = vehicle[v].engagement
  PROVE  On(e)' = On(e)
<1>1. row # None
  BY FleetLinks
<1>2. ASSUME NEW u \in Vehicles
      PROVE  vehicle'[u] # None /\ vehicle'[u].engagement = e
               <=> vehicle[u] # None /\ vehicle[u].engagement = e
  <2>1. CASE u = v
    BY <1>1, <2>1 DEF RowsOK
  <2>2. CASE u # v
    BY <2>2 DEF RowsOK
  <2> QED
    BY <2>1, <2>2
<1> QED
  BY <1>2 DEF On

\* A customer-owned unit keeps its customer through the checks of an assignment
\* and the validator (_assign_one, Vehicle).
LEMMA AssignmentKeepsCustomers ==
  ASSUME NEW row \in VehicleRows, NEW now \in VehicleRows, NEW e \in Engagements,
         SameUnit(row, now), IsOfCustomer(now, e), IsValid(now), Accepted(Assigned(row, e))
  PROVE  /\ Assigned(row, e) \in VehicleRows
         /\ IsValid(Assigned(row, e))
         /\ SameUnit(Assigned(row, e), now) /\ SameUnit(now, Assigned(row, e))
<1>1. Assigned(row, e) \in VehicleRows
  BY FleetLinks DEF Assigned, VehicleRows, VehicleStatuses
<1>2. SameUnit(Assigned(row, e), now)
  BY FleetLinks DEF Assigned, VehicleRows, SameUnit, IsOfCustomer, Accepted, IsValid
<1> QED
  BY <1>1, <1>2 DEF Accepted, SameUnit

\* Neither a release nor a PATCH touches the owner or the customer.
LEMMA PatchKeepsCustomers ==
  ASSUME NEW row \in VehicleRows,
         NEW patch \in VehicleStatuses \cup {"release", "notes"}
  PROVE  /\ Patched(row, patch) \in VehicleRows
         /\ Patched(row, patch).owner = row.owner
         /\ Patched(row, patch).customer = row.customer
         /\ Patched(row, patch).engagement =
              IF patch = "release" THEN None ELSE row.engagement
BY FleetLinks DEF Patched, BackTo, VehicleRows, VehicleStatuses

-----------------------------------------------------------------------------
(* The ways a request goes on.                                            *)

\* A request that goes on without a write.
LEMMA GoingOn ==
  ASSUME FleetInv, NEW r \in FleetRequests, NEW w \in Memories, Working(r), Goes(r, w),
         UNCHANGED <<vehicle, fleet, counted>>,
         HoldsVehicle(w, vehicle), HasEngagement(w), HoldsAlone(w, vehicle),
         w.alone = desk[r].alone \/ w = OffDuty,
         \A e : Owes(desk[r], e) => Owes(w, e)
  PROVE  FleetInv'
<1>1. desk' = [desk EXCEPT ![r] = w] /\ desk'[r] = w
      /\ \A o \in FleetRequests \ {r} : desk'[o] = desk[o]
  BY DEF FleetInv, MemoriesOK, Goes
<1>2. MemoriesOK'
  <2>1. desk' \in [FleetRequests -> Memories]
    BY <1>1 DEF FleetInv, MemoriesOK
  <2>2. ASSUME NEW o \in FleetRequests
        PROVE  /\ HoldsVehicle(desk'[o], vehicle') /\ HasEngagement(desk'[o])
               /\ HoldsAlone(desk'[o], vehicle')
    BY <1>1, <2>2 DEF FleetInv, MemoriesOK
  <2>3. ASSUME NEW p \in FleetRequests, NEW o \in FleetRequests,
               desk'[p] # OffDuty, desk'[p].alone, o # p
        PROVE  desk'[o] = OffDuty
    BY <1>1, <2>3 DEF FleetInv, MemoriesOK, Working
  <2> QED
    BY <2>1, <2>2, <2>3 DEF MemoriesOK, Working
<1>3. CountsOK'
  <2> SUFFICES ASSUME NEW e \in counted \ Locked
               PROVE  fleet[e] = Cardinality(On(e)) \/ \E o \in FleetRequests : Owes(desk'[o], e)
    BY DEF CountsOK, On
  <2> QED
    BY <1>1 DEF FleetInv, CountsOK
<1> QED
  BY <1>2, <1>3 DEF FleetInv, RowsOK, FleetOK

\* A request that begins: whoever is at work is not alone any more.
LEMMA Beginning ==
  ASSUME FleetInv, NEW r \in FleetRequests, NEW w \in Memories, Begin(r, w),
         UNCHANGED <<vehicle, fleet, counted>>,
         HoldsVehicle(w, vehicle), HasEngagement(w), HoldsAlone(w, vehicle), w.alone
  PROVE  FleetInv'
<1> DEFINE alone == \A o \in FleetRequests \ {r} : ~Working(o)
<1>1. /\ desk'[r] = [w EXCEPT !.alone = alone]
      /\ \A o \in FleetRequests \ {r} : desk'[o] = [desk[o] EXCEPT !.alone = ~Working(o)]
      /\ desk[r] = OffDuty
  BY DEF Begin, Working
<1>2. desk' \in [FleetRequests -> Memories]
  <2>1. ASSUME NEW o \in FleetRequests, NEW b \in BOOLEAN
        PROVE  [desk[o] EXCEPT !.alone = b] \in Memories /\ [w EXCEPT !.alone = b] \in Memories
    BY DEF FleetInv, MemoriesOK, Memories
  <2>2. \A o \in FleetRequests : Working(o) \in BOOLEAN /\ alone \in BOOLEAN
    BY DEF Working
  <2> QED
    BY <2>1, <2>2 DEF Begin
<1>3. ASSUME NEW o \in FleetRequests \ {r}
      PROVE  IF Working(o) THEN desk'[o] = [desk[o] EXCEPT !.alone = FALSE] ELSE desk'[o] = OffDuty
  <2>1. desk'[o] = [desk[o] EXCEPT !.alone = ~Working(o)]
    BY <1>1
  <2>2. CASE Working(o)
    <3>1. (~Working(o)) = FALSE
      BY <2>2
    <3> QED
      BY <2>1, <2>2, <3>1, Zenon
  <2>3. CASE ~Working(o)
    <3>1. (~Working(o)) = TRUE
      BY <2>3
    <3>2. desk'[o] = [desk[o] EXCEPT !.alone = TRUE]
      BY <2>1, <3>1, Zenon
    <3>3. desk[o] = OffDuty
      BY <2>3 DEF Working
    <3>4. desk'[o] = [OffDuty EXCEPT !.alone = TRUE]
      BY <3>2, <3>3, Zenon
    <3>5. [OffDuty EXCEPT !.alone = TRUE] = OffDuty
      <4>1. OffDuty = [x \in {"at", "todo", "engagement", "row", "free", "patch", "count", "alone", "owes"}
                        |-> OffDuty[x]]
        BY DEF OffDuty
      <4>2. OffDuty.alone = TRUE
        BY DEF OffDuty
      <4> QED
        BY <4>1, <4>2
    <3>6. desk'[o] = OffDuty
      BY <3>4, <3>5, Zenon
    <3> QED
      BY <2>3, <3>6
  <2> QED
    BY <2>2, <2>3
<1>4. ASSUME NEW o \in FleetRequests
      PROVE  /\ HoldsVehicle(desk'[o], vehicle) /\ HasEngagement(desk'[o])
             /\ HoldsAlone(desk'[o], vehicle)
  <2>1. CASE o = r
    <3>1. HoldsVehicle(desk'[r], vehicle) /\ HasEngagement(desk'[r])
      BY <1>1 DEF HoldsVehicle, HasEngagement, Memories
    <3>2. HoldsAlone(desk'[r], vehicle)
      BY <1>1 DEF HoldsAlone, Memories
    <3> QED
      BY <2>1, <3>1, <3>2
  <2>2. CASE o # r
    <3>1. desk[o] \in Memories /\ HoldsVehicle(desk[o], vehicle) /\ HasEngagement(desk[o])
      BY DEF FleetInv, MemoriesOK
    <3>2. HoldsVehicle(desk'[o], vehicle) /\ HasEngagement(desk'[o])
      <4>1. CASE Working(o)
        <5>1. desk'[o] = [desk[o] EXCEPT !.alone = FALSE]
          BY <1>3, <2>2, <4>1
        <5> QED
          BY <3>1, <5>1 DEF HoldsVehicle, HasEngagement, Memories
      <4>2. CASE ~Working(o)
        <5>1. desk'[o] = OffDuty
          BY <1>3, <2>2, <4>2
        <5> QED
          BY <5>1 DEF HoldsVehicle, HasEngagement, OffDuty
      <4> QED
        BY <4>1, <4>2
    <3>3. HoldsAlone(desk'[o], vehicle)
      <4>1. CASE Working(o)
        BY <1>3, <2>2, <3>1, <4>1 DEF HoldsAlone, Memories
      <4>2. CASE ~Working(o)
        <5>1. desk'[o] = OffDuty
          BY <1>3, <2>2, <4>2
        <5> QED
          BY <5>1 DEF HoldsAlone, OffDuty
      <4> QED
        BY <4>1, <4>2
    <3> QED
      BY <3>2, <3>3
  <2> QED
    BY <2>1, <2>2
<1>5. ASSUME NEW p \in FleetRequests, NEW o \in FleetRequests,
             desk'[p] # OffDuty, desk'[p].alone, o # p
      PROVE  desk'[o] = OffDuty
  <2>1. CASE p = r
    <3>1. alone
      BY <1>1, <1>5, <2>1 DEF Memories
    <3> QED
      BY <1>3, <1>5, <2>1, <3>1
  <2>2. CASE p # r
    <3>1. ~Working(p)
      BY <1>3, <1>5, <2>2 DEF FleetInv, MemoriesOK, Memories
    <3> QED
      BY <1>3, <1>5, <2>2, <3>1
  <2> QED
    BY <2>1, <2>2
<1>6. MemoriesOK'
  BY <1>2, <1>4, <1>5 DEF MemoriesOK, Working
<1>7. CountsOK'
  <2> SUFFICES ASSUME NEW e \in counted \ Locked
               PROVE  fleet[e] = Cardinality(On(e)) \/ \E o \in FleetRequests : Owes(desk'[o], e)
    BY DEF CountsOK, On
  <2>1. CASE fleet[e] = Cardinality(On(e))
    BY <2>1
  <2>2. CASE \E o \in FleetRequests : Owes(desk[o], e)
    <3>1. PICK o \in FleetRequests : Owes(desk[o], e)
      BY <2>2
    <3>2. o # r
      BY <1>1, <3>1 DEF Owes, OffDuty
    <3>3. Working(o)
      BY <3>1 DEF Owes, OffDuty, Working
    <3>4. desk'[o] = [desk[o] EXCEPT !.alone = FALSE] /\ desk[o] \in Memories
      BY <1>3, <3>2, <3>3 DEF FleetInv, MemoriesOK
    <3>5. Owes(desk'[o], e)
      BY <3>1, <3>4 DEF Owes, Memories
    <3> QED
      BY <3>5
  <2> QED
    BY <2>1, <2>2 DEF FleetInv, CountsOK
<1> QED
  BY <1>6, <1>7 DEF FleetInv, RowsOK, FleetOK

\* A request that puts a row of the same unit.  Whoever is at work besides it is
\* not alone, and what the others may rely on still holds.
LEMMA PuttingARow ==
  ASSUME FleetInv, NEW r \in FleetRequests, NEW w \in Memories, Working(r), Goes(r, w),
         UNCHANGED fleet, counted' \subseteq counted,
         NEW v \in Vehicles, NEW row \in VehicleRows, vehicle[v] # None,
         vehicle' = [vehicle EXCEPT ![v] = row], IsValid(row), SameUnit(row, vehicle[v]),
         HoldsVehicle(w, vehicle'), HasEngagement(w), HoldsAlone(w, vehicle'),
         w.alone = desk[r].alone \/ w = OffDuty,
         \A e : Owes(desk[r], e) => Owes(w, e),
         \A e \in counted' \ Locked : On(e)' = On(e) \/ Owes(w, e)
  PROVE  FleetInv'
<1>1. desk' = [desk EXCEPT ![r] = w] /\ desk'[r] = w
      /\ \A o \in FleetRequests \ {r} : desk'[o] = desk[o]
  BY DEF FleetInv, MemoriesOK, Goes
<1>2. row # None /\ vehicle'[v] = row /\ \A u \in Vehicles \ {v} : vehicle'[u] = vehicle[u]
  BY FleetLinks DEF FleetInv, RowsOK
<1>3. RowsOK'
  BY <1>2 DEF FleetInv, RowsOK
<1>4. ASSUME NEW o \in FleetRequests \ {r}
      PROVE  HoldsVehicle(desk[o], vehicle') /\ HasEngagement(desk[o]) /\ HoldsAlone(desk[o], vehicle')
  <2>1. /\ HoldsVehicle(desk[o], vehicle) /\ HasEngagement(desk[o])
        /\ Working(o) => ~desk[o].alone
        /\ desk[o] \in Memories
    BY DEF FleetInv, MemoriesOK
  <2>2. ASSUME desk[o].todo # <<>>
        PROVE  Head(desk[o].todo) \in Vehicles
    BY <2>1, <2>2, HeadTailProperties DEF Memories
  <2>3. ASSUME NEW u \in Vehicles, vehicle[u] # None
        PROVE  /\ vehicle'[u] # None
               /\ \A x \in VehicleRows : SameUnit(x, vehicle[u]) => SameUnit(x, vehicle'[u])
               /\ \A e : IsOfCustomer(vehicle[u], e) => IsOfCustomer(vehicle'[u], e)
    BY <1>2, <2>3 DEF SameUnit, IsOfCustomer
  <2>4. HoldsVehicle(desk[o], vehicle')
    BY <2>1, <2>2, <2>3 DEF HoldsVehicle, Memories
  <2>5. HoldsAlone(desk[o], vehicle')
    BY <2>1 DEF HoldsAlone, Working, OffDuty
  <2> QED
    BY <2>1, <2>4, <2>5
<1>5. MemoriesOK'
  <2>1. desk' \in [FleetRequests -> Memories]
    BY <1>1 DEF FleetInv, MemoriesOK
  <2>2. ASSUME NEW o \in FleetRequests
        PROVE  /\ HoldsVehicle(desk'[o], vehicle') /\ HasEngagement(desk'[o])
               /\ HoldsAlone(desk'[o], vehicle')
    BY <1>1, <1>4
  <2>3. ASSUME NEW p \in FleetRequests, NEW o \in FleetRequests,
               desk'[p] # OffDuty, desk'[p].alone, o # p
        PROVE  desk'[o] = OffDuty
    BY <1>1, <2>3 DEF FleetInv, MemoriesOK, Working
  <2> QED
    BY <2>1, <2>2, <2>3 DEF MemoriesOK, Working
<1>6. CountsOK'
  <2> SUFFICES ASSUME NEW e \in counted' \ Locked
               PROVE  fleet[e] = Cardinality(On(e)') \/ \E o \in FleetRequests : Owes(desk'[o], e)
    BY DEF CountsOK
  <2> QED
    BY <1>1 DEF FleetInv, CountsOK
<1> QED
  BY <1>3, <1>5, <1>6 DEF FleetInv, FleetOK

-----------------------------------------------------------------------------
(* The invariant holds.                                                   *)

LEMMA FleetInitHolds == Init => FleetInv
<1> SUFFICES ASSUME Init PROVE FleetInv
  OBVIOUS
<1> USE FleetLinks, RequestsAssumption
<1>1. Cardinality(Vehicles) \in Nat
  BY FS_CardinalityType
<1>2. OffDuty \in Memories
  BY <1>1, EmptySeq DEF OffDuty, Memories, Steps
<1>3. RowsOK
  BY DEF Init, RowsOK
<1>4. FleetOK
  BY <1>1 DEF Init, FleetOK
<1>5. MemoriesOK
  BY <1>2 DEF Init, MemoriesOK, OffDuty, Working, HoldsVehicle, HasEngagement, HoldsAlone
<1>6. CountsOK
  <2>1. \A e : On(e) = {}
    BY DEF Init, On
  <2> QED
    BY <2>1, FS_EmptySet DEF Init, CountsOK
<1> QED
  BY <1>3, <1>4, <1>5, <1>6 DEF FleetInv

LEMMA OverIsFine ==
  ASSUME NEW table
  PROVE  /\ OffDuty \in Memories /\ HoldsVehicle(OffDuty, table) /\ HasEngagement(OffDuty)
         /\ HoldsAlone(OffDuty, table)
<1>1. Cardinality(Vehicles) \in Nat
  BY FleetLinks, FS_CardinalityType
<1> QED
  BY <1>1, FleetLinks, RequestsAssumption, EmptySeq
  DEF OffDuty, Memories, Steps, HoldsVehicle, HasEngagement, HoldsAlone

\* What the steps below read of the request they move.
LEMMA AtWork ==
  ASSUME FleetInv, NEW r \in FleetRequests, desk[r].at # "idle"
  PROVE  /\ desk[r] \in Memories /\ Working(r)
         /\ HoldsVehicle(desk[r], vehicle) /\ HasEngagement(desk[r]) /\ HoldsAlone(desk[r], vehicle)
         /\ desk[r].todo # <<>> =>
              Head(desk[r].todo) \in Vehicles /\ Tail(desk[r].todo) \in Seq(Vehicles)
BY HeadTailProperties DEF FleetInv, MemoriesOK, Memories, Working, OffDuty

LEMMA CreateHolds ==
  ASSUME FleetInv, NEW d \in Deliveries, CreateVehicle(d.id, d.owner, d.status, d.customer)
  PROVE  FleetInv'
<1> DEFINE v == d.id
<1>1. /\ v \in Vehicles /\ d.owner \in Ownerships
      /\ d.status \in VehicleStatuses \cup {None} /\ d.customer \in Customers \cup {None}
  BY RequestsAssumption
<1>2. PICK row \in VehicleRows :
        IsValid(row) /\ row.engagement = None /\ vehicle' = [vehicle EXCEPT ![v] = row]
  BY <1>1 DEF CreateVehicle, Row, VehicleRows, VehicleStatuses, Accepted
<1>3. row # None /\ vehicle[v] = None
  BY FleetLinks DEF CreateVehicle
<1>4. /\ UNCHANGED <<fleet, desk, counted>>
      /\ vehicle'[v] = row /\ \A u \in Vehicles \ {v} : vehicle'[u] = vehicle[u]
  BY <1>1, <1>2 DEF CreateVehicle, FleetInv, RowsOK
<1>5. RowsOK'
  BY <1>1, <1>2, <1>4 DEF FleetInv, RowsOK
<1>6. \A e \in Engagements : OnIn(vehicle', e) = OnIn(vehicle, e)
  BY <1>2, <1>3, <1>4, FleetLinks DEF OnIn
<1>7. ASSUME NEW r \in FleetRequests
      PROVE  HoldsVehicle(desk[r], vehicle') /\ HoldsAlone(desk[r], vehicle')
  <2>1. /\ desk[r] \in Memories /\ HoldsVehicle(desk[r], vehicle) /\ HoldsAlone(desk[r], vehicle)
        /\ HasEngagement(desk[r])
    BY DEF FleetInv, MemoriesOK
  <2>2. desk[r].at \in {"reread", "put", "record"} =>
          vehicle'[Head(desk[r].todo)] = vehicle[Head(desk[r].todo)]
    BY <1>3, <1>4, <2>1, HeadTailProperties DEF HoldsVehicle, Memories
  <2>3. HoldsVehicle(desk[r], vehicle')
    BY <2>1, <2>2 DEF HoldsVehicle
  <2>4. HoldsAlone(desk[r], vehicle')
    BY <1>6, <2>1, <2>2 DEF HoldsAlone, HasEngagement
  <2> QED
    BY <2>3, <2>4
<1>8. MemoriesOK'
  BY <1>4, <1>7 DEF FleetInv, MemoriesOK, Working
<1>9. CountsOK'
  BY <1>4, <1>6 DEF FleetInv, FleetOK, CountsOK, On, OnIn
<1> QED
  BY <1>4, <1>5, <1>8, <1>9 DEF FleetInv, FleetOK

\* The requests that begin remember nothing of the table but that the vehicle
\* is there.
LEMMA BeginsHold ==
  ASSUME FleetInv, NEW r \in FleetRequests,
         \/ \E list \in Lists, e \in Engagements : StartAssign(r, list, e)
         \/ \E v \in Vehicles : StartRelease(r, v)
         \/ \E v \in Vehicles, status \in Patches : StartPatch(r, v, status)
  PROVE  FleetInv'
<1> USE RequestsAssumption
<1>1. /\ OffDuty \in Memories
      /\ \A v \in Vehicles : <<v>> \in Seq(Vehicles) /\ <<v>> # <<>> /\ Head(<<v>>) = v
  BY OverIsFine
<1>2. ASSUME NEW list \in Lists, NEW e \in Engagements, StartAssign(r, list, e)
      PROVE  FleetInv'
  <2> DEFINE w == [OffDuty EXCEPT !.at = "check", !.todo = list, !.engagement = e]
  <2>1. w \in Memories /\ w.at = "check" /\ w.engagement = e /\ w.patch = None /\ w.alone
        /\ ~w.owes
    BY <1>1 DEF OffDuty, Memories, Steps
  <2>2. HoldsVehicle(w, vehicle) /\ HasEngagement(w) /\ HoldsAlone(w, vehicle)
    BY <2>1 DEF HoldsVehicle, HasEngagement, HoldsAlone
  <2> QED
    BY <1>2, <2>1, <2>2, Beginning DEF StartAssign
<1>3. ASSUME NEW v \in Vehicles, StartRelease(r, v)
      PROVE  FleetInv'
  <2> DEFINE w == [OffDuty EXCEPT !.at = "reread", !.todo = <<v>>, !.patch = "release",
                                  !.engagement = vehicle[v].engagement]
  <2>1. vehicle[v] # None /\ vehicle[v].engagement \in Engagements \cup {None}
    BY <1>3 DEF StartRelease, FleetInv, RowsOK, VehicleRows
  <2>2. /\ w \in Memories /\ w.at = "reread" /\ w.todo = <<v>> /\ w.patch = "release"
        /\ w.engagement = vehicle[v].engagement /\ w.alone /\ ~w.owes
    BY <1>1, <2>1 DEF OffDuty, Memories, Steps
  <2>3. HoldsVehicle(w, vehicle) /\ HasEngagement(w) /\ HoldsAlone(w, vehicle)
    BY <1>1, <2>1, <2>2 DEF HoldsVehicle, HasEngagement, HoldsAlone
  <2> QED
    BY <1>3, <2>2, <2>3, Beginning DEF StartRelease
<1>4. ASSUME NEW v \in Vehicles, NEW status \in Patches, StartPatch(r, v, status)
      PROVE  FleetInv'
  <2> DEFINE patch == IF status = None THEN "notes" ELSE status
             w == [OffDuty EXCEPT !.at = "reread", !.todo = <<v>>, !.patch = patch]
  <2>1. vehicle[v] # None /\ patch \in VehicleStatuses \cup {"notes"} /\ patch # None
    BY <1>4 DEF StartPatch
  <2>2. w \in Memories /\ w.at = "reread" /\ w.todo = <<v>> /\ w.patch = patch /\ w.alone
        /\ ~w.owes
    BY <1>1, <2>1 DEF OffDuty, Memories, Steps
  <2>3. HoldsVehicle(w, vehicle) /\ HasEngagement(w) /\ HoldsAlone(w, vehicle)
    BY <1>1, <2>1, <2>2 DEF HoldsVehicle, HasEngagement, HoldsAlone, VehicleStatuses
  <2> QED
    BY <1>4, <2>2, <2>3, Beginning DEF StartPatch
<1> QED
  BY <1>2, <1>3, <1>4

LEMMA CheckHolds ==
  ASSUME FleetInv, NEW r \in FleetRequests, CheckVehicle(r)
  PROVE  FleetInv'
<1>1. /\ desk[r] \in Memories /\ Working(r) /\ desk[r].engagement \in Engagements
      /\ desk[r].todo # <<>> =>
           Head(desk[r].todo) \in Vehicles /\ Tail(desk[r].todo) \in Seq(Vehicles)
      /\ UNCHANGED <<vehicle, fleet, counted>> /\ desk[r].at = "check" /\ desk[r].patch = None
  BY AtWork DEF CheckVehicle, HasEngagement
<1>2. CASE desk[r].todo = <<>>
  <2> DEFINE w == [desk[r] EXCEPT !.at = "count"]
  <2>1. w \in Memories /\ w.at = "count" /\ w.engagement = desk[r].engagement /\ w.alone = desk[r].alone
    BY <1>1 DEF Memories, Steps
  <2>2. HoldsVehicle(w, vehicle) /\ HasEngagement(w) /\ HoldsAlone(w, vehicle)
    BY <1>1, <2>1 DEF HoldsVehicle, HasEngagement, HoldsAlone
  <2>3. \A e : Owes(desk[r], e) => Owes(w, e)
    BY <2>1 DEF Owes
  <2> QED
    BY <1>1, <1>2, <2>1, <2>2, <2>3, GoingOn DEF CheckVehicle
<1> DEFINE row == vehicle[Head(desk[r].todo)]
<1>3. CASE desk[r].todo # <<>> /\ row # None /\ MayTake(row, desk[r].engagement)
  <2> DEFINE free == row.engagement \in {None, desk[r].engagement}
             w == [desk[r] EXCEPT !.at = "reread", !.free = free]
  <2>1. free /\ IsOfCustomer(row, desk[r].engagement)
    BY <1>3 DEF MayTake
  <2>2. /\ w \in Memories /\ w.at = "reread" /\ w.engagement = desk[r].engagement
        /\ w.alone = desk[r].alone /\ w.todo = desk[r].todo /\ w.free /\ w.patch = None
    BY <1>1, <2>1 DEF Memories, Steps
  <2>3. HoldsVehicle(w, vehicle) /\ HasEngagement(w) /\ HoldsAlone(w, vehicle)
    BY <1>1, <1>3, <2>1, <2>2, RequestsAssumption DEF HoldsVehicle, HasEngagement, HoldsAlone
  <2>4. \A e : Owes(desk[r], e) => Owes(w, e)
    BY <2>2 DEF Owes
  <2>5. Goes(r, w)
    BY <1>3 DEF CheckVehicle
  <2> QED
    BY <1>1, <2>2, <2>3, <2>4, <2>5, GoingOn
<1>4. CASE desk[r].todo # <<>> /\ ~(row # None /\ MayTake(row, desk[r].engagement))
  <2> DEFINE w == [desk[r] EXCEPT !.todo = Tail(@)]
  <2>1. /\ w \in Memories /\ w.at = "check" /\ w.engagement = desk[r].engagement
        /\ w.alone = desk[r].alone /\ w.patch = None
    BY <1>1, <1>4 DEF Memories, Steps
  <2>2. HoldsVehicle(w, vehicle) /\ HasEngagement(w) /\ HoldsAlone(w, vehicle)
    BY <1>1, <2>1 DEF HoldsVehicle, HasEngagement, HoldsAlone
  <2>3. \A e : Owes(desk[r], e) => Owes(w, e)
    BY <2>1 DEF Owes
  <2>4. Goes(r, w)
    BY <1>4 DEF CheckVehicle
  <2> QED
    BY <1>1, <2>1, <2>2, <2>3, <2>4, GoingOn
<1> QED
  BY <1>2, <1>3, <1>4

LEMMA RereadHolds ==
  ASSUME FleetInv, NEW r \in FleetRequests, RereadVehicle(r)
  PROVE  FleetInv'
<1> DEFINE v == Head(desk[r].todo)
           w == [desk[r] EXCEPT !.at = "put", !.row = vehicle[v]]
<1>1. /\ desk[r] \in Memories /\ Working(r) /\ desk[r].at = "reread" /\ Goes(r, w)
      /\ HoldsVehicle(desk[r], vehicle) /\ HasEngagement(desk[r]) /\ HoldsAlone(desk[r], vehicle)
      /\ UNCHANGED <<vehicle, fleet, counted>>
      /\ v \in Vehicles /\ vehicle[v] # None /\ vehicle[v] \in VehicleRows
  BY AtWork DEF RereadVehicle, HoldsVehicle, FleetInv, RowsOK
<1>2. /\ w \in Memories /\ w.at = "put" /\ w.row = vehicle[v] /\ w.alone = desk[r].alone
      /\ w.todo = desk[r].todo /\ w.patch = desk[r].patch /\ w.free = desk[r].free
      /\ w.engagement = desk[r].engagement
  BY <1>1 DEF Memories, Steps
<1>3. HoldsVehicle(w, vehicle) /\ HasEngagement(w) /\ HoldsAlone(w, vehicle)
  BY <1>1, <1>2 DEF HoldsVehicle, HasEngagement, HoldsAlone, SameUnit
<1>4. \A e : Owes(desk[r], e) => Owes(w, e)
  BY <1>1, <1>2 DEF Owes
<1> QED
  BY <1>1, <1>2, <1>3, <1>4, GoingOn

LEMMA RecordHolds ==
  ASSUME FleetInv, NEW r \in FleetRequests, RecordAssignment(r)
  PROVE  FleetInv'
<1> DEFINE w == [desk[r] EXCEPT !.at = "check", !.todo = Tail(@), !.free = FALSE]
<1>1. /\ desk[r] \in Memories /\ Working(r) /\ desk[r].at = "record" /\ Goes(r, w)
      /\ HasEngagement(desk[r]) /\ desk[r].patch = None
      /\ UNCHANGED <<vehicle, fleet, counted>> /\ Tail(desk[r].todo) \in Seq(Vehicles)
  BY AtWork DEF RecordAssignment, HoldsVehicle, HasEngagement
<1>2. /\ w \in Memories /\ w.at = "check" /\ w.alone = desk[r].alone
      /\ w.patch = None /\ w.engagement = desk[r].engagement
  BY <1>1 DEF Memories, Steps
<1>3. HoldsVehicle(w, vehicle) /\ HasEngagement(w) /\ HoldsAlone(w, vehicle)
  BY <1>1, <1>2 DEF HoldsVehicle, HasEngagement, HoldsAlone
<1>4. \A e : Owes(desk[r], e) => Owes(w, e)
  BY <1>1, <1>2 DEF Owes
<1> QED
  BY <1>1, <1>2, <1>3, <1>4, GoingOn

LEMMA CountHolds ==
  ASSUME FleetInv, NEW r \in FleetRequests, CountFleet(r)
  PROVE  FleetInv'
<1> DEFINE n == Cardinality(On(desk[r].engagement))
           w == [desk[r] EXCEPT !.at = "write", !.count = n]
<1>1. /\ desk[r] \in Memories /\ Working(r) /\ desk[r].at = "count" /\ Goes(r, w)
      /\ HasEngagement(desk[r]) /\ UNCHANGED <<vehicle, fleet, counted>>
      /\ n \in 0..Cardinality(Vehicles)
  BY AtWork, CountsAreBounded DEF CountFleet
<1>2. /\ w \in Memories /\ w.at = "write" /\ w.alone = desk[r].alone
      /\ w.patch = desk[r].patch /\ w.engagement = desk[r].engagement
      /\ w.count = Cardinality(OnIn(vehicle, w.engagement))
  BY <1>1 DEF Memories, Steps, On, OnIn
<1>3. HoldsVehicle(w, vehicle) /\ HasEngagement(w) /\ HoldsAlone(w, vehicle)
  BY <1>1, <1>2 DEF HoldsVehicle, HasEngagement, HoldsAlone
<1>4. \A e : Owes(desk[r], e) => Owes(w, e)
  BY <1>1, <1>2 DEF Owes
<1> QED
  BY <1>1, <1>2, <1>3, <1>4, GoingOn

\* A fleet that is written is the one counted, if nobody crossed; otherwise its
\* engagement is not counted any more.
LEMMA WriteHolds ==
  ASSUME FleetInv, NEW r \in FleetRequests, WriteFleet(r)
  PROVE  FleetInv'
<1> DEFINE e == desk[r].engagement
<1>1. /\ desk[r] \in Memories /\ Working(r) /\ desk[r].at = "write" /\ e \in Engagements
      /\ Goes(r, OffDuty) /\ UNCHANGED vehicle /\ HoldsAlone(desk[r], vehicle)
  BY AtWork DEF WriteFleet, HasEngagement, Ends
<1>2. desk' = [desk EXCEPT ![r] = OffDuty] /\ desk'[r] = OffDuty
      /\ \A o \in FleetRequests \ {r} : desk'[o] = desk[o]
  BY <1>1 DEF FleetInv, MemoriesOK, Goes
<1>3. MemoriesOK'
  <2>1. desk' \in [FleetRequests -> Memories]
    BY <1>2, OverIsFine DEF FleetInv, MemoriesOK
  <2>2. ASSUME NEW o \in FleetRequests
        PROVE  /\ HoldsVehicle(desk'[o], vehicle') /\ HasEngagement(desk'[o])
               /\ HoldsAlone(desk'[o], vehicle')
    BY <1>1, <1>2, OverIsFine DEF FleetInv, MemoriesOK
  <2>3. ASSUME NEW p \in FleetRequests, NEW o \in FleetRequests,
               desk'[p] # OffDuty, desk'[p].alone, o # p
        PROVE  desk'[o] = OffDuty
    BY <1>2, <2>3 DEF FleetInv, MemoriesOK, Working
  <2> QED
    BY <2>1, <2>2, <2>3 DEF MemoriesOK, Working
<1>4. CASE e \in Locked
  <2>1. UNCHANGED <<fleet, counted>>
    BY <1>4 DEF WriteFleet
  <2>2. CountsOK'
    <3> SUFFICES ASSUME NEW x \in counted \ Locked
                 PROVE  fleet[x] = Cardinality(On(x)) \/ \E o \in FleetRequests : Owes(desk'[o], x)
      BY <1>1, <2>1 DEF CountsOK, On
    <3> QED
      BY <1>2, <1>4 DEF FleetInv, CountsOK, Owes
  <2> QED
    BY <1>1, <1>3, <2>1, <2>2 DEF FleetInv, RowsOK, FleetOK
<1>5. CASE e \notin Locked
  <2>1. /\ fleet' = [fleet EXCEPT ![e] = desk[r].count]
        /\ counted' = IF desk[r].alone THEN counted \cup {e} ELSE counted \ {e}
    BY <1>5 DEF WriteFleet
  <2>2. desk[r].count \in 0..Cardinality(Vehicles)
    BY <1>1 DEF Memories
  <2>3. FleetOK'
    BY <1>1, <2>1, <2>2 DEF FleetInv, FleetOK
  <2>4. CountsOK'
    <3> SUFFICES ASSUME NEW x \in counted' \ Locked
                 PROVE  fleet'[x] = Cardinality(On(x)) \/ \E o \in FleetRequests : Owes(desk'[o], x)
      BY <1>1 DEF CountsOK, On
    <3>1. CASE x = e
      <4>1. desk[r].alone
        BY <2>1, <3>1
      <4>2. desk[r].count = Cardinality(On(e))
        BY <1>1, <4>1 DEF HoldsAlone, On, OnIn
      <4> QED
        BY <1>1, <2>1, <3>1, <4>2 DEF FleetInv, FleetOK
    <3>2. CASE x # e
      <4>1. x \in counted /\ x \in Engagements /\ fleet'[x] = fleet[x]
        BY <2>1, <3>2 DEF FleetInv, FleetOK
      <4>2. \A o \in FleetRequests : Owes(desk[o], x) => Owes(desk'[o], x)
        BY <1>2, <3>2 DEF Owes
      <4> QED
        BY <4>1, <4>2 DEF FleetInv, CountsOK
    <3> QED
      BY <3>1, <3>2
  <2> QED
    BY <1>1, <1>3, <2>3, <2>4 DEF FleetInv, RowsOK
<1> QED
  BY <1>4, <1>5

\* What a put of a request knows of the row it puts back.
LEMMA AtPut ==
  ASSUME FleetInv, NEW r \in FleetRequests, desk[r].at = "put"
  PROVE  LET v == Head(desk[r].todo)
         IN  /\ desk[r] \in Memories /\ Working(r)
             /\ HasEngagement(desk[r]) /\ HoldsAlone(desk[r], vehicle)
             /\ v \in Vehicles /\ desk[r].todo # <<>>
             /\ vehicle[v] # None /\ vehicle[v] \in VehicleRows /\ IsValid(vehicle[v])
             /\ desk[r].row \in VehicleRows /\ SameUnit(desk[r].row, vehicle[v])
             /\ desk[r].patch = None =>
                  desk[r].free /\ IsOfCustomer(vehicle[v], desk[r].engagement)
<1>1. /\ desk[r] \in Memories /\ Working(r) /\ HoldsVehicle(desk[r], vehicle)
      /\ HasEngagement(desk[r]) /\ HoldsAlone(desk[r], vehicle)
      /\ desk[r].todo # <<>> => Head(desk[r].todo) \in Vehicles
  BY AtWork
<1>2. /\ desk[r].todo # <<>> /\ vehicle[Head(desk[r].todo)] # None /\ desk[r].row # None
      /\ SameUnit(desk[r].row, vehicle[Head(desk[r].todo)])
      /\ desk[r].patch = None =>
           desk[r].free /\ IsOfCustomer(vehicle[Head(desk[r].todo)], desk[r].engagement)
  BY <1>1 DEF HoldsVehicle
<1>3. desk[r].row \in VehicleRows
  BY <1>1, <1>2 DEF Memories
<1> QED
  BY <1>1, <1>2, <1>3 DEF FleetInv, RowsOK

\* A request that ends without a put, taking its engagement off the counted.
LEMMA GivingUp ==
  ASSUME FleetInv, NEW r \in FleetRequests, Working(r), Goes(r, OffDuty),
         UNCHANGED <<vehicle, fleet>>, counted' \subseteq counted,
         \A e \in counted' : ~Owes(desk[r], e)
  PROVE  FleetInv'
<1>1. desk' = [desk EXCEPT ![r] = OffDuty] /\ desk'[r] = OffDuty
      /\ \A o \in FleetRequests \ {r} : desk'[o] = desk[o]
  BY DEF FleetInv, MemoriesOK, Goes
<1>2. MemoriesOK'
  <2>1. desk' \in [FleetRequests -> Memories]
    BY <1>1, OverIsFine DEF FleetInv, MemoriesOK
  <2>2. ASSUME NEW o \in FleetRequests
        PROVE  /\ HoldsVehicle(desk'[o], vehicle') /\ HasEngagement(desk'[o])
               /\ HoldsAlone(desk'[o], vehicle')
    BY <1>1, OverIsFine DEF FleetInv, MemoriesOK
  <2>3. ASSUME NEW p \in FleetRequests, NEW o \in FleetRequests,
               desk'[p] # OffDuty, desk'[p].alone, o # p
        PROVE  desk'[o] = OffDuty
    BY <1>1, <2>3 DEF FleetInv, MemoriesOK, Working
  <2> QED
    BY <2>1, <2>2, <2>3 DEF MemoriesOK, Working
<1>3. CountsOK'
  <2> SUFFICES ASSUME NEW e \in counted' \ Locked
               PROVE  fleet[e] = Cardinality(On(e)) \/ \E o \in FleetRequests : Owes(desk'[o], e)
    BY DEF CountsOK, On
  <2> QED
    BY <1>1 DEF FleetInv, CountsOK
<1> QED
  BY <1>2, <1>3 DEF FleetInv, RowsOK, FleetOK

\* A request that is over before its count takes what it owes off the counted.
LEMMA AbandonedHolds ==
  ASSUME FleetInv, NEW r \in FleetRequests, Working(r), Abandons(r), UNCHANGED <<vehicle, fleet>>
  PROVE  FleetInv'
<1>1. Goes(r, OffDuty) /\ counted' \subseteq counted
  BY DEF Abandons, Ends
<1>2. \A e \in counted' : ~Owes(desk[r], e)
  BY DEF Abandons, Owes
<1> QED
  BY <1>1, <1>2, GivingUp

LEMMA BreaksOffHolds ==
  ASSUME FleetInv, NEW r \in FleetRequests, BreaksOff(r)
  PROVE  FleetInv'
BY AbandonedHolds DEF BreaksOff

LEMMA PutAssignedHolds ==
  ASSUME FleetInv, NEW r \in FleetRequests, PutAssigned(r)
  PROVE  FleetInv'
<1> DEFINE v == Head(desk[r].todo)
           e == desk[r].engagement
           row == Assigned(desk[r].row, e)
<1>1. /\ desk[r].at = "put" /\ desk[r].patch = None
      /\ desk[r] \in Memories /\ Working(r) /\ HoldsAlone(desk[r], vehicle)
      /\ v \in Vehicles /\ desk[r].todo # <<>>
      /\ vehicle[v] # None /\ vehicle[v] \in VehicleRows /\ IsValid(vehicle[v])
      /\ desk[r].row \in VehicleRows /\ SameUnit(desk[r].row, vehicle[v])
      /\ IsOfCustomer(vehicle[v], e) /\ e \in Engagements
  BY AtPut DEF PutAssigned, HasEngagement
<1>2. CASE Accepted(row)
  <2> DEFINE w == [desk[r] EXCEPT !.at = "record", !.row = None, !.owes = TRUE]
  <2>1. /\ vehicle' = [vehicle EXCEPT ![v] = row] /\ Goes(r, w)
        /\ counted' = Crossed(r, {e, vehicle[v].engagement}) /\ UNCHANGED fleet
    BY <1>2, Zenon DEF PutAssigned
  <2>2. row \in VehicleRows /\ IsValid(row) /\ SameUnit(row, vehicle[v]) /\ row.engagement = e
    BY <1>1, <1>2, AssignmentKeepsCustomers DEF Assigned, VehicleRows
  <2>3. /\ w \in Memories /\ w.at = "record" /\ w.alone = desk[r].alone /\ w.todo = desk[r].todo
        /\ w.patch = None /\ w.engagement = e /\ w.owes
    BY <1>1 DEF Memories, Steps
  <2>4. HoldsVehicle(w, vehicle') /\ HasEngagement(w) /\ HoldsAlone(w, vehicle')
    <3>1. vehicle'[v] = row /\ row # None
      BY <1>1, <2>1, <2>2, FleetLinks DEF FleetInv, RowsOK
    <3> QED
      BY <1>1, <2>3, <3>1 DEF HoldsVehicle, HasEngagement, HoldsAlone
  <2>5. \A x : Owes(desk[r], x) => Owes(w, x)
    BY <1>1, <2>3 DEF Owes
  <2>6. counted' \subseteq counted
    BY <2>1 DEF Crossed
  <2>7. ASSUME NEW x \in counted' \ Locked
        PROVE  On(x)' = On(x) \/ Owes(w, x)
    <3>1. CASE x = e
      BY <2>3, <3>1 DEF Owes
    <3>2. CASE x # e
      <4>1. x # vehicle[v].engagement
        <5>1. CASE desk[r].alone
          <6>1. vehicle[v].engagement \in {None, e}
            BY <1>1, <5>1, RequestsAssumption DEF HoldsAlone
          <6>2. x \in Engagements
            BY <2>6 DEF FleetInv, FleetOK
          <6> QED
            BY <3>2, <6>1, <6>2, FleetLinks
        <5>2. CASE ~desk[r].alone
          BY <2>1, <5>2 DEF Crossed
        <5> QED
          BY <5>1, <5>2
      <4> QED
        BY <1>1, <2>1, <2>2, <3>2, <4>1, OthersKeepTheirVehicles DEF FleetInv
    <3> QED
      BY <3>1, <3>2
  <2> HIDE DEF w, row
  <2> QED
    BY <1>1, <2>1, <2>2, <2>3, <2>4, <2>5, <2>6, <2>7, PuttingARow
<1>3. CASE ~Accepted(row)
  <2>1. Abandons(r) /\ UNCHANGED <<vehicle, fleet>>
    BY <1>3 DEF PutAssigned
  <2> QED
    BY <1>1, <2>1, AbandonedHolds
<1> QED
  BY <1>2, <1>3

LEMMA PutPatchedHolds ==
  ASSUME FleetInv, NEW r \in FleetRequests, PutPatched(r)
  PROVE  FleetInv'
<1> DEFINE v == Head(desk[r].todo)
           e == desk[r].engagement
           row == Patched(desk[r].row, desk[r].patch)
<1>1. /\ desk[r].at = "put" /\ desk[r].patch # None
      /\ desk[r] \in Memories /\ Working(r) /\ HoldsAlone(desk[r], vehicle)
      /\ HasEngagement(desk[r])
      /\ v \in Vehicles /\ desk[r].todo # <<>>
      /\ vehicle[v] # None /\ vehicle[v] \in VehicleRows /\ IsValid(vehicle[v])
      /\ desk[r].row \in VehicleRows /\ SameUnit(desk[r].row, vehicle[v])
      /\ UNCHANGED fleet
  BY AtPut DEF PutPatched
<1>2. desk[r].patch \in VehicleStatuses \cup {"release", "notes"}
  BY <1>1 DEF Memories
<1>3. /\ row \in VehicleRows /\ SameUnit(row, vehicle[v])
      /\ row.engagement = IF desk[r].patch = "release" THEN None ELSE desk[r].row.engagement
  BY <1>1, <1>2, PatchKeepsCustomers DEF SameUnit
<1>4. \A x : ~Owes(desk[r], x)
  BY <1>1 DEF Owes, HasEngagement
<1>5. CASE ~Accepted(row)
  <2>1. Goes(r, OffDuty) /\ UNCHANGED <<vehicle, fleet, counted>>
    BY <1>5 DEF PutPatched, Ends
  <2> QED
    BY <1>1, <1>4, <2>1, GivingUp
<1>6. CASE Accepted(row)
  <2>1. /\ vehicle' = [vehicle EXCEPT ![v] = row]
        /\ counted' = Crossed(r, {row.engagement, vehicle[v].engagement})
    BY <1>6 DEF PutPatched
  <2>2. counted' \subseteq counted /\ IsValid(row)
    BY <1>6, <2>1 DEF Crossed, Accepted
  \* When it was alone the vehicle left what the request read, and nothing else.
  <2>3. ASSUME NEW x \in counted' \ Locked,
               ~(desk[r].patch = "release" /\ desk[r].alone /\ x = e)
        PROVE  On(x)' = On(x)
    <3>1. CASE desk[r].alone
      <4>1. desk[r].patch # "release" => row.engagement = vehicle[v].engagement
        BY <1>1, <1>3, <3>1 DEF HoldsAlone
      <4>2. desk[r].patch = "release" => vehicle[v].engagement = e /\ row.engagement = None
        BY <1>1, <1>3, <3>1 DEF HoldsAlone
      <4>3. x # None
        BY <2>2, FleetLinks DEF FleetInv, FleetOK
      <4> QED
        BY <1>1, <1>3, <2>1, <2>3, <3>1, <4>1, <4>2, <4>3, OthersKeepTheirVehicles DEF FleetInv
    <3>2. CASE ~desk[r].alone
      <4>1. x \notin {row.engagement, vehicle[v].engagement}
        BY <2>1, <3>2 DEF Crossed
      <4> QED
        BY <1>1, <1>3, <2>1, <4>1, OthersKeepTheirVehicles DEF FleetInv
    <3> QED
      BY <3>1, <3>2
  <2>4. CASE CountsAfter(desk[r])
    <3> DEFINE w == [desk[r] EXCEPT !.at = "count", !.todo = <<>>, !.row = None, !.owes = TRUE]
    <3>1. Goes(r, w)
      BY <1>6, <2>4 DEF PutPatched
    <3>2. /\ w \in Memories /\ w.at = "count" /\ w.alone = desk[r].alone
          /\ w.engagement = e /\ e \in Engagements /\ w.owes
      BY <1>1, <2>4, EmptySeq DEF Memories, Steps, CountsAfter
    <3>3. HoldsVehicle(w, vehicle') /\ HasEngagement(w) /\ HoldsAlone(w, vehicle')
      BY <3>2 DEF HoldsVehicle, HasEngagement, HoldsAlone
    <3>4. \A x \in counted' \ Locked : On(x)' = On(x) \/ Owes(w, x)
      BY <2>3, <3>2 DEF Owes
    <3> HIDE DEF w, row
    <3> QED
      BY <1>1, <1>3, <1>4, <2>1, <2>2, <3>1, <3>2, <3>3, <3>4, PuttingARow
  <2>5. CASE ~CountsAfter(desk[r])
    <3>1. Goes(r, OffDuty)
      BY <1>6, <2>5 DEF PutPatched, Ends
    <3>2. \A x \in counted' \ Locked : On(x)' = On(x)
      <4>1. desk[r].patch = "release" => e = None
        BY <2>5 DEF CountsAfter
      <4>2. \A x \in counted' : x # None
        BY <2>2, FleetLinks DEF FleetInv, FleetOK
      <4> QED
        BY <2>3, <4>1, <4>2
    <3> HIDE DEF row
    <3> QED
      BY <1>1, <1>3, <1>4, <2>1, <2>2, <3>1, <3>2, OverIsFine, PuttingARow
  <2> QED
    BY <2>4, <2>5
<1> QED
  BY <1>5, <1>6

\* The inductive step.
LEMMA NextHolds == FleetInv /\ [Next]_fleetVars => FleetInv'
<1> SUFFICES ASSUME FleetInv, [Next]_fleetVars PROVE FleetInv'
  OBVIOUS
<1>1. ASSUME NEW d \in Deliveries, CreateVehicle(d.id, d.owner, d.status, d.customer)
      PROVE  FleetInv'
  BY <1>1, CreateHolds
<1>2. ASSUME NEW r \in FleetRequests,
             \/ \E list \in Lists, e \in Engagements : StartAssign(r, list, e)
             \/ \E v \in Vehicles : StartRelease(r, v)
             \/ \E v \in Vehicles, status \in Patches : StartPatch(r, v, status)
      PROVE  FleetInv'
  BY <1>2, BeginsHold
<1>3. ASSUME NEW r \in FleetRequests,
             \/ CheckVehicle(r) \/ RereadVehicle(r) \/ PutAssigned(r) \/ RecordAssignment(r)
             \/ PutPatched(r) \/ CountFleet(r) \/ WriteFleet(r) \/ BreaksOff(r)
      PROVE  FleetInv'
  BY <1>3, CheckHolds, RereadHolds, PutAssignedHolds, RecordHolds, PutPatchedHolds,
     CountHolds, WriteHolds, BreaksOffHolds
<1>4. CASE UNCHANGED fleetVars
  BY <1>4 DEF fleetVars, FleetInv, RowsOK, FleetOK, MemoriesOK, CountsOK, HoldsVehicle, HasEngagement,
              HoldsAlone, Working, On, Owes
<1> QED
  BY <1>1, <1>2, <1>3, <1>4 DEF Next

\* The inductive invariant holds in every reachable state (api/vehicles.py).
THEOREM FleetInvariance == Spec => []FleetInv
BY FleetInitHolds, NextHolds, PTL DEF Spec

-----------------------------------------------------------------------------
(* What follows from it.                                                  *)

\* The rows of the inventory pass Vehicle's validator, the counts stay within
\* the inventory.
THEOREM FleetTypes == Spec => []TypeOK
<1>1. FleetInv => TypeOK
  BY DEF FleetInv, RowsOK, FleetOK, TypeOK
<1> QED
  BY <1>1, FleetInvariance, PTL

\* With every request over, at whatever call and whoever crossed whom, an
\* engagement whose last change was neither crossed nor left without its count
\* shows the vehicles the inventory has on it (_sync_engagement_fleet).
THEOREM FleetsAreCounted == Spec => []FleetIsWhatIsAssigned
<1>1. FleetInv => FleetIsWhatIsAssigned
  <2> SUFFICES ASSUME FleetInv, \A r \in FleetRequests : ~Working(r),
                      NEW e \in counted \ Locked
               PROVE  fleet[e] = Cardinality(On(e))
    BY DEF FleetIsWhatIsAssigned
  <2>1. \A r \in FleetRequests : ~Owes(desk[r], e)
    BY DEF Working, OffDuty, Owes
  <2> QED
    BY <2>1 DEF FleetInv, CountsOK
<1> QED
  BY <1>1, FleetInvariance, PTL

\* What a step may do to a vehicle that is in the inventory.
LEMMA VehicleSteps ==
  ASSUME FleetInv, [Next]_fleetVars, NEW v \in Vehicles, vehicle[v] # None
  PROVE  \/ vehicle'[v] = vehicle[v]
         \/ /\ vehicle'[v] \in VehicleRows /\ SameUnit(vehicle'[v], vehicle[v])
            /\ \E r \in FleetRequests :
                 desk'[r] # desk[r] /\ (desk[r].free \/ desk[r].patch # None)
<1>1. ASSUME NEW d \in Deliveries, CreateVehicle(d.id, d.owner, d.status, d.customer)
      PROVE  vehicle'[v] = vehicle[v]
  BY <1>1, RequestsAssumption DEF CreateVehicle, FleetInv, RowsOK
<1>2. ASSUME NEW r \in FleetRequests, PutAssigned(r), vehicle'[v] # vehicle[v]
      PROVE  /\ vehicle'[v] \in VehicleRows /\ SameUnit(vehicle'[v], vehicle[v])
             /\ desk'[r] # desk[r] /\ desk[r].free
  <2> DEFINE row == Assigned(desk[r].row, desk[r].engagement)
  <2>1. /\ desk[r].at = "put" /\ desk[r].patch = None /\ Working(r) /\ desk[r] \in Memories
        /\ desk[r].row \in VehicleRows /\ desk[r].free
        /\ desk[r].engagement \in Engagements
        /\ Head(desk[r].todo) \in Vehicles
        /\ vehicle[Head(desk[r].todo)] \in VehicleRows /\ IsValid(vehicle[Head(desk[r].todo)])
        /\ SameUnit(desk[r].row, vehicle[Head(desk[r].todo)])
        /\ IsOfCustomer(vehicle[Head(desk[r].todo)], desk[r].engagement)
    BY <1>2, AtPut DEF PutAssigned, HasEngagement
  <2>2. /\ Accepted(row) /\ vehicle' = [vehicle EXCEPT ![Head(desk[r].todo)] = row]
        /\ Goes(r, [desk[r] EXCEPT !.at = "record", !.row = None, !.owes = TRUE])
    BY <1>2 DEF PutAssigned
  <2>3. v = Head(desk[r].todo) /\ vehicle'[v] = row
    BY <1>2, <2>2 DEF FleetInv, RowsOK
  <2>4. row \in VehicleRows /\ SameUnit(row, vehicle[v])
    BY <2>1, <2>2, <2>3, AssignmentKeepsCustomers
  <2>5. desk'[r].at = "record"
    BY <2>1, <2>2 DEF Goes, FleetInv, MemoriesOK, Memories
  <2> QED
    BY <2>1, <2>3, <2>4, <2>5
<1>3. ASSUME NEW r \in FleetRequests, PutPatched(r), vehicle'[v] # vehicle[v]
      PROVE  /\ vehicle'[v] \in VehicleRows /\ SameUnit(vehicle'[v], vehicle[v])
             /\ desk'[r] # desk[r] /\ desk[r].patch # None
  <2> DEFINE row == Patched(desk[r].row, desk[r].patch)
  <2>1. /\ desk[r].at = "put" /\ desk[r].patch # None /\ Working(r) /\ desk[r] \in Memories
        /\ desk[r].row \in VehicleRows
        /\ SameUnit(desk[r].row, vehicle[Head(desk[r].todo)])
    BY <1>3, AtPut DEF PutPatched
  <2>2. /\ vehicle' = [vehicle EXCEPT ![Head(desk[r].todo)] = row]
        /\ \/ Goes(r, [desk[r] EXCEPT !.at = "count", !.todo = <<>>, !.row = None, !.owes = TRUE])
           \/ Goes(r, OffDuty)
    BY <1>3 DEF PutPatched, Ends
  <2>3. v = Head(desk[r].todo) /\ vehicle'[v] = row
    BY <1>3, <2>2 DEF FleetInv, RowsOK
  <2>4. desk[r].patch \in VehicleStatuses \cup {"release", "notes"}
    BY <2>1 DEF Memories
  <2>5. row \in VehicleRows /\ SameUnit(row, vehicle[v])
    BY <2>1, <2>3, <2>4, PatchKeepsCustomers DEF SameUnit
  <2>6. desk'[r] # desk[r]
    <3>1. \A w : Goes(r, w) => desk'[r] = w
      BY DEF Goes, FleetInv, MemoriesOK
    <3>2. [desk[r] EXCEPT !.at = "count", !.todo = <<>>, !.row = None, !.owes = TRUE].at = "count"
      BY <2>1 DEF Memories
    <3>3. OffDuty.at = "idle"
      BY DEF OffDuty
    <3> QED
      BY <2>1, <2>2, <3>1, <3>2, <3>3
  <2> QED
    BY <2>1, <2>3, <2>5, <2>6
<1>4. ASSUME NEW r \in FleetRequests,
             \/ \E list \in Lists, e \in Engagements : StartAssign(r, list, e)
             \/ \E u \in Vehicles : StartRelease(r, u)
             \/ \E u \in Vehicles, status \in Patches : StartPatch(r, u, status)
             \/ CheckVehicle(r) \/ RereadVehicle(r) \/ RecordAssignment(r)
             \/ CountFleet(r) \/ WriteFleet(r)
      PROVE  vehicle' = vehicle
  BY <1>4 DEF StartAssign, StartRelease, StartPatch, CheckVehicle, RereadVehicle, RecordAssignment,
              CountFleet, WriteFleet
<1>5. ASSUME NEW r \in FleetRequests, BreaksOff(r)
      PROVE  vehicle' = vehicle
  BY <1>5 DEF BreaksOff
<1>6. CASE UNCHANGED fleetVars
  BY <1>6 DEF fleetVars
<1> QED
  BY <1>1, <1>2, <1>3, <1>4, <1>5, <1>6 DEF Next

\* A unit that belongs to a customer stays that customer's, whoever assigns and
\* releases it, and however late (_assign_one, Vehicle).
THEOREM CustomersAreKept == Spec => CustomersKeepTheirUnits
<1>1. FleetInv /\ [Next]_fleetVars =>
        [\A v \in Vehicles :
           vehicle[v] # None /\ vehicle[v].owner = "CUSTOMER_OWNED" =>
             vehicle'[v].customer = vehicle[v].customer]_fleetVars
  BY VehicleSteps DEF SameUnit
<1> QED
  BY <1>1, FleetInvariance, PTL DEF Spec, CustomersKeepTheirUnits

\* No vehicle goes from one engagement to another but by a request that had
\* found it free (_assign_one's 409).
THEOREM TakenVehiclesStayTaken == Spec => TakenVehiclesStay
<1> DEFINE Was(v) == IF vehicle[v] = None THEN None ELSE vehicle[v].engagement
           Is(v) == IF vehicle[v] = None THEN None ELSE vehicle'[v].engagement
<1>1. FleetInv /\ [Next]_fleetVars =>
        [\A v \in Vehicles :
           Was(v) # None /\ Is(v) \notin {None, Was(v)} =>
             \E r \in FleetRequests :
               desk'[r] # desk[r] /\ (desk[r].free \/ desk[r].patch # None)]_fleetVars
  BY VehicleSteps
<1> QED
  BY <1>1, FleetInvariance, PTL DEF Spec, TakenVehiclesStay

-----------------------------------------------------------------------------
(* The catalog: what the rows and the requests hold.                       *)

Lookup == [at : {"idle", "read", "queue"}, name : Names \cup {None}, began : Nat, fresh : BOOLEAN]
Change == [at : {"idle", "put", "unqueue"}, id : Ids \cup {None}, row : ProgramRow \cup {None},
           key : Keys \cup {None}]

CatalogRows ==
  /\ programs \in [Ids -> ProgramRow \cup {None}]
  /\ queue \in [Keys -> Names \cup {None}]
  /\ cache \in [Extractions -> Snapshot \cup {None}]
  /\ clock \in Nat
  /\ reading \in [Extractions -> Lookup]
  /\ editing \in [Editors -> Change]
  /\ known \in [Names -> Nat \cup {None}]

\* A name is queued under its own normalised form.
QueueInv == \A key \in Keys : queue[key] # None => KeyOf[queue[key]] = key

\* What history knows is what the catalog resolves.
KnownInv == \A n \in Names : known[n] # None <=> Resolves(programs, n)

\* Since a time t or later, or not at all.
KnownFrom(n, t) == known[n] = None \/ known[n] >= t

\* What a snapshot lacks, the catalog has resolved at most since its date; and
\* what a look-up missed, since less than a TTL before it began.
CacheInv ==
  \A w \in Extractions : cache[w] # None =>
    /\ cache[w].at <= clock
    /\ \A n \in Names \ cache[w].resolves : KnownFrom(n, cache[w].at)
ReadingInv ==
  \A w \in Extractions : reading[w].at # "idle" =>
    /\ reading[w].name \in Names
    /\ reading[w].began <= clock
    /\ reading[w].at = "read" => reading[w].fresh
    /\ reading[w].fresh => KnownFrom(reading[w].name, reading[w].began - TTL + 1)

\* An edit's row carries a name with the key it takes off the queue.
EditInv ==
  \A p \in Editors : editing[p].at # "idle" =>
    /\ editing[p].id \in Ids /\ editing[p].row \in ProgramRow
    /\ editing[p].key # None =>
         \E n \in {editing[p].row.name} \cup editing[p].row.aliases : KeyOf[n] = editing[p].key

CatalogInv == CatalogRows /\ QueueInv /\ KnownInv /\ CacheInv /\ ReadingInv /\ EditInv

-----------------------------------------------------------------------------
(* Resolution.                                                             *)

\* A program that is active resolves a name it has, and a name that some name
\* it has is normalised alike, unless nothing is left of it.
LEMMA ActiveResolves ==
  ASSUME NEW snapshot \in [Ids -> ProgramRow \cup {None}], NEW id \in Ids, snapshot[id] # None,
         snapshot[id].status = "ACTIVE", NEW n \in Names,
         KeyOf[n] # NoKey, NEW m \in {snapshot[id].name} \cup snapshot[id].aliases,
         KeyOf[m] = KeyOf[n]
  PROVE  Resolves(snapshot, n)
  <1> DEFINE entries == Active(snapshot)
  <1>1. id \in DOMAIN entries /\ entries[id] = snapshot[id]
    BY DEF Active
  <1> HIDE DEF entries
  <1>2. KeyOf[n] \in KeysOf(entries[id])
    BY <1>1 DEF KeysOf
  <1>3. {i \in DOMAIN entries : KeyOf[n] \in KeysOf(entries[i])} # {}
    BY <1>1, <1>2
  <1>4. Ladder(entries, n).kind \in {"exact", "alias", "normalised"}
    BY <1>3, Zenon DEF Ladder
  <1>5. Ladder(entries, n) # Unmatched
    BY <1>4 DEF Unmatched
  <1> QED BY <1>5 DEF Resolves, Resolve, entries

LEMMA ResolvesIsBoolean == \A snapshot, n : Resolves(snapshot, n) \in BOOLEAN
  BY DEF Resolves

-----------------------------------------------------------------------------
(* The steps.                                                              *)

LEMMA IdleIsTyped ==
  /\ NotReading \in Lookup /\ NotReading.at = "idle"
  /\ NotEditing \in Change /\ NotEditing.at = "idle"
  BY DEF NotReading, Lookup, NotEditing, Change

\* The edits that read a row and remember the one to put.
LEMMA RememberKeeps ==
  ASSUME CatalogInv, NEW p \in Editors, NEW at \in {"put", "unqueue"},
         NEW id \in Ids, NEW row \in ProgramRow, NEW key \in Keys \cup {None},
         key # None => \E n \in {row.name} \cup row.aliases : KeyOf[n] = key,
         Remember(p, at, id, row, key)
  PROVE  CatalogInv'
  <1> DEFINE c == [at |-> at, id |-> id, row |-> row, key |-> key]
  <1>1. editing' = [editing EXCEPT ![p] = c]
        /\ UNCHANGED <<shift, programs, queue, cache, clock, reading, known>>
    BY DEF Remember
  <1>2. c \in Change /\ c.at # "idle" /\ c.id = id /\ c.row = row /\ c.key = key
    BY DEF Change
  <1> HIDE DEF c
  <1>3. CatalogRows'
    BY <1>1, <1>2 DEF CatalogInv, CatalogRows
  <1>4. EditInv'
    <2> SUFFICES ASSUME NEW q \in Editors, editing'[q].at # "idle"
                 PROVE  /\ editing'[q].id \in Ids /\ editing'[q].row \in ProgramRow
                        /\ editing'[q].key # None =>
                             \E n \in {editing'[q].row.name} \cup editing'[q].row.aliases :
                               KeyOf[n] = editing'[q].key
      BY DEF EditInv
    <2>1. CASE q = p
      <3>1. editing'[q] = c
        BY <1>1, <2>1 DEF CatalogInv, CatalogRows
      <3> QED BY <1>2, <3>1
    <2>2. CASE q # p
      BY <1>1, <2>2 DEF CatalogInv, CatalogRows, EditInv
    <2> QED BY <2>1, <2>2
  <1>5. QueueInv' /\ KnownInv' /\ CacheInv' /\ ReadingInv'
    BY <1>1 DEF CatalogInv, QueueInv, KnownInv, CacheInv, ReadingInv, KnownFrom
  <1> QED BY <1>3, <1>4, <1>5 DEF CatalogInv

LEMMA RowsAreRows ==
  ASSUME CatalogInv
  PROVE  /\ \A id \in Ids : programs[id] # None => programs[id] \in ProgramRow
         /\ \A n \in Names : \A aliases \in SUBSET Names :
              /\ Program(n, aliases) \in ProgramRow
              /\ Program(n, aliases).name = n /\ Program(n, aliases).aliases = aliases
         /\ \A n \in Names : KeyOf[n] \in Keys /\ Slug[n] \in Ids
         /\ \A key \in Keys : queue[key] # None => queue[key] \in Names
  BY DEF CatalogInv, CatalogRows, Program, ProgramRow, Ids, Keys

LEMMA CreateServiceKeeps ==
  ASSUME CatalogInv, NEW p \in Editors, NEW n \in Typed, NEW aliases \in SUBSET Typed,
         CreateService(p, n, aliases)
  PROVE  CatalogInv'
  <1>1. Program(n, aliases) \in ProgramRow /\ Slug[n] \in Ids
    BY RowsAreRows, CatalogBounds
  <1>2. Remember(p, "put", Slug[n], Program(n, aliases), None)
    BY DEF CreateService, Edit
  <1> QED BY <1>1, <1>2, RememberKeeps

LEMMA UpdateServiceKeeps ==
  ASSUME CatalogInv, NEW p \in Editors, NEW id \in Ids,
         NEW name \in Typed \cup {None}, NEW status \in {"ACTIVE", "RETIRED"},
         UpdateService(p, id, name, status)
  PROVE  CatalogInv'
  <1> DEFINE row == [programs[id] EXCEPT !.name = IF name = None THEN @ ELSE name, !.status = status]
  <1>1. programs[id] \in ProgramRow
    BY RowsAreRows DEF UpdateService
  <1>2. row \in ProgramRow
    BY <1>1, CatalogBounds DEF ProgramRow
  <1>3. Remember(p, "put", id, row, None)
    BY DEF UpdateService, Edit
  <1> HIDE DEF row
  <1> QED BY <1>2, <1>3, RememberKeeps

\* What an alias adds to a row.
LEMMA AliasAdded ==
  ASSUME NEW row \in ProgramRow, NEW n \in Names
  PROVE  /\ [row EXCEPT !.aliases = @ \cup {n}] \in ProgramRow
         /\ n \in [row EXCEPT !.aliases = @ \cup {n}].aliases
  BY DEF ProgramRow

LEMMA AddAliasKeeps ==
  ASSUME CatalogInv, NEW p \in Editors, NEW id \in Ids, NEW alias \in Typed,
         AddAlias(p, id, alias)
  PROVE  CatalogInv'
  <1> DEFINE row == [programs[id] EXCEPT !.aliases = @ \cup {alias}]
  <1>1. programs[id] \in ProgramRow /\ alias \in Names /\ KeyOf[alias] \in Keys
    BY RowsAreRows, CatalogBounds DEF AddAlias
  <1>2. row \in ProgramRow /\ alias \in row.aliases
    BY <1>1, AliasAdded
  <1>3. \/ /\ alias \in {programs[id].name} \cup programs[id].aliases
           /\ Remember(p, "unqueue", id, programs[id], KeyOf[alias])
        \/ Remember(p, "put", id, row, KeyOf[alias])
    BY DEF AddAlias, Edit
  <1> HIDE DEF row
  <1>4. CASE /\ alias \in {programs[id].name} \cup programs[id].aliases
             /\ Remember(p, "unqueue", id, programs[id], KeyOf[alias])
    BY <1>1, <1>4, RememberKeeps
  <1>5. CASE Remember(p, "put", id, row, KeyOf[alias])
    BY <1>1, <1>2, <1>5, RememberKeeps
  <1> QED BY <1>3, <1>4, <1>5

LEMMA LinkUnmatchedKeeps ==
  ASSUME CatalogInv, NEW p \in Editors, NEW key \in Keys, NEW id \in Ids,
         LinkUnmatched(p, key, id)
  PROVE  CatalogInv'
  <1> DEFINE row == [programs[id] EXCEPT !.aliases = @ \cup {queue[key]}]
  <1>1. programs[id] \in ProgramRow /\ queue[key] \in Names /\ KeyOf[queue[key]] = key
    BY RowsAreRows DEF LinkUnmatched, CatalogInv, QueueInv
  <1>2. row \in ProgramRow /\ queue[key] \in row.aliases
    BY <1>1, AliasAdded
  <1>3. Remember(p, "put", id, row, key)
    BY DEF LinkUnmatched, Edit
  <1> HIDE DEF row
  <1> QED BY <1>1, <1>2, <1>3, RememberKeeps

LEMMA PromoteUnmatchedKeeps ==
  ASSUME CatalogInv, NEW p \in Editors, NEW key \in Keys,
         NEW n \in Typed \cup {queue[key]}, PromoteUnmatched(p, key, n)
  PROVE  CatalogInv'
  <1> DEFINE row == Promoted(queue[key], n)
  <1>1. queue[key] \in Names /\ KeyOf[queue[key]] = key
    BY RowsAreRows DEF PromoteUnmatched, CatalogInv, QueueInv
  <1>2. n \in Names /\ Slug[n] \in Ids
    BY <1>1, RowsAreRows, CatalogBounds
  <1>3. row \in ProgramRow /\ row.name = n /\ row.aliases = {queue[key]} \ {n}
    BY <1>1, <1>2, RowsAreRows DEF Promoted
  <1>4. Remember(p, "put", Slug[n], row, key)
    BY DEF PromoteUnmatched, Edit
  <1> HIDE DEF row
  <1>5. \E m \in {row.name} \cup row.aliases : KeyOf[m] = key
    BY <1>1, <1>3
  <1> QED BY <1>2, <1>3, <1>4, <1>5, RememberKeeps

\* What is known goes on being known since when it was, or stops being known,
\* or is known from now on.
LEMMA KnownFromNow ==
  ASSUME NEW n, NEW t, KnownFrom(n, t),
         known'[n] \in {None, known[n], clock}, clock >= t
  PROVE  known'[n] = None \/ known'[n] >= t
  BY DEF KnownFrom

LEMMA PutProgramKeeps ==
  ASSUME CatalogInv, NEW p \in Editors, PutProgram(p)
  PROVE  CatalogInv'
  <1> DEFINE c == [editing[p] EXCEPT !.at = "unqueue"]
  <1>1. /\ programs' = [programs EXCEPT ![editing[p].id] = editing[p].row]
        /\ editing' = [editing EXCEPT ![p] = c]
        /\ UNCHANGED <<shift, queue, cache, clock, reading>>
        /\ editing[p].at = "put"
    BY DEF PutProgram
  <1>2. editing[p] \in Change /\ editing[p].id \in Ids /\ editing[p].row \in ProgramRow
    BY <1>1 DEF CatalogInv, CatalogRows, EditInv
  <1>3. c \in Change /\ c.at # "idle" /\ c.id = editing[p].id /\ c.row = editing[p].row
        /\ c.key = editing[p].key
    BY <1>2 DEF Change
  <1> HIDE DEF c
  <1>4. known' = [n \in Names |-> IF n \notin Resolvable(programs') THEN None
                                  ELSE IF known[n] # None THEN known[n] ELSE clock]
    BY DEF PutProgram
  <1>5. clock \in Nat /\ clock # None
    BY CatalogBounds DEF CatalogInv, CatalogRows
  <1>6. \A n \in Names : known'[n] \in {None, known[n], clock}
    BY <1>4
  <1>7. CatalogRows'
    <2>1. programs' \in [Ids -> ProgramRow \cup {None}] /\ editing' \in [Editors -> Change]
      BY <1>1, <1>2, <1>3 DEF CatalogInv, CatalogRows
    <2>2. known' \in [Names -> Nat \cup {None}]
      BY <1>4, <1>5 DEF CatalogInv, CatalogRows
    <2> QED BY <1>1, <2>1, <2>2 DEF CatalogInv, CatalogRows
  <1>8. QueueInv'
    BY <1>1 DEF CatalogInv, QueueInv
  <1>9. KnownInv'
    <2>1. \A n \in Names : known'[n] # None <=> n \in Resolvable(programs')
      BY <1>4, <1>5
    <2> QED BY <2>1 DEF KnownInv, Resolvable
  <1>10. CacheInv'
    <2> SUFFICES ASSUME NEW w \in Extractions, cache'[w] # None
                 PROVE  /\ cache'[w].at <= clock'
                        /\ \A n \in Names \ cache'[w].resolves : KnownFrom(n, cache[w].at)'
      BY DEF CacheInv, KnownFrom
    <2>1. cache[w] \in Snapshot /\ cache[w].at <= clock
          /\ \A n \in Names \ cache[w].resolves : KnownFrom(n, cache[w].at)
      BY <1>1 DEF CatalogInv, CatalogRows, CacheInv
    <2>2. cache[w].at \in Nat
      BY <2>1 DEF Snapshot
    <2>3. \A n \in Names \ cache[w].resolves : known'[n] = None \/ known'[n] >= cache[w].at
      BY <1>5, <1>6, <2>1, <2>2, KnownFromNow
    <2> QED BY <1>1, <2>1, <2>3 DEF KnownFrom
  <1>11. ReadingInv'
    <2> SUFFICES ASSUME NEW w \in Extractions, reading[w].at # "idle"
                 PROVE  /\ reading[w].name \in Names
                        /\ reading[w].began <= clock
                        /\ reading[w].at = "read" => reading[w].fresh
                        /\ reading[w].fresh => \/ known'[reading[w].name] = None
                                               \/ known'[reading[w].name] >= reading[w].began - TTL + 1
      BY <1>1 DEF ReadingInv, KnownFrom
    <2>1. /\ reading[w].name \in Names
          /\ reading[w].began <= clock
          /\ reading[w].at = "read" => reading[w].fresh
          /\ reading[w].fresh => KnownFrom(reading[w].name, reading[w].began - TTL + 1)
      BY DEF CatalogInv, ReadingInv
    <2>2. reading[w].began \in Nat /\ TTL \in Nat \ {0}
      BY CatalogBounds DEF CatalogInv, CatalogRows, Lookup
    <2>3. clock >= reading[w].began - TTL + 1
      BY <1>5, <2>1, <2>2
    <2> QED BY <1>6, <2>1, <2>3, KnownFromNow
  <1>12. EditInv'
    <2> SUFFICES ASSUME NEW q \in Editors, editing'[q].at # "idle"
                 PROVE  /\ editing'[q].id \in Ids /\ editing'[q].row \in ProgramRow
                        /\ editing'[q].key # None =>
                             \E n \in {editing'[q].row.name} \cup editing'[q].row.aliases :
                               KeyOf[n] = editing'[q].key
      BY DEF EditInv
    <2>1. CASE q = p
      <3>1. editing'[q] = c
        BY <1>1, <2>1 DEF CatalogInv, CatalogRows
      <3> QED BY <1>1, <1>2, <1>3, <3>1 DEF CatalogInv, EditInv
    <2>2. CASE q # p
      BY <1>1, <2>2 DEF CatalogInv, CatalogRows, EditInv
    <2> QED BY <2>1, <2>2
  <1> QED BY <1>7, <1>8, <1>9, <1>10, <1>11, <1>12 DEF CatalogInv

LEMMA UnqueueKeeps ==
  ASSUME CatalogInv, NEW p \in Editors, Unqueue(p)
  PROVE  CatalogInv'
  <1>1. /\ editing' = [editing EXCEPT ![p] = NotEditing]
        /\ UNCHANGED <<shift, programs, cache, clock, reading, known>>
        /\ \/ queue' = queue
           \/ queue' = [queue EXCEPT ![editing[p].key] = None]
    BY DEF Unqueue
  <1>2. queue' \in [Keys -> Names \cup {None}]
    BY <1>1 DEF CatalogInv, CatalogRows
  <1>3. \A key \in Keys : queue'[key] \in {queue[key], None}
    BY <1>1 DEF CatalogInv, CatalogRows
  <1>4. CatalogRows'
    BY <1>1, <1>2, IdleIsTyped DEF CatalogInv, CatalogRows
  <1>5. QueueInv'
    BY <1>3 DEF CatalogInv, QueueInv
  <1>6. EditInv'
    BY <1>1, IdleIsTyped DEF CatalogInv, CatalogRows, EditInv
  <1>7. KnownInv' /\ CacheInv' /\ ReadingInv'
    BY <1>1 DEF CatalogInv, KnownInv, CacheInv, ReadingInv, KnownFrom
  <1> QED BY <1>4, <1>5, <1>6, <1>7 DEF CatalogInv

LEMMA TimePassesKeeps ==
  ASSUME CatalogInv, TimePasses
  PROVE  CatalogInv'
  <1>1. /\ clock' = clock + 1
        /\ UNCHANGED <<shift, programs, queue, cache, reading, editing, known>>
    BY DEF TimePasses
  <1>2. CatalogRows'
    BY <1>1 DEF CatalogInv, CatalogRows
  <1>3. CacheInv'
    BY <1>1 DEF CatalogInv, CatalogRows, Snapshot, CacheInv, KnownFrom
  <1>4. ReadingInv'
    BY <1>1 DEF CatalogInv, CatalogRows, Lookup, ReadingInv, KnownFrom
  <1>5. QueueInv' /\ KnownInv' /\ EditInv'
    BY <1>1 DEF CatalogInv, QueueInv, KnownInv, EditInv
  <1> QED BY <1>2, <1>3, <1>4, <1>5 DEF CatalogInv

\* A snapshot that serves was current less than a TTL ago.
LEMMA LookUpKeeps ==
  ASSUME CatalogInv, NEW w \in Extractions, NEW n \in Names, LookUp(w, n)
  PROVE  CatalogInv'
  <1> DEFINE held == IF IsWarm(cache[w]) THEN cache[w]
                     ELSE [resolves |-> Resolvable(programs), at |-> clock]
             r == [NotReading EXCEPT !.at = "read", !.name = n, !.began = clock]
  <1>1. /\ cache' = [cache EXCEPT ![w] = held]
        /\ \/ n \in held.resolves /\ reading' = reading
           \/ n \notin held.resolves /\ reading' = [reading EXCEPT ![w] = r]
        /\ UNCHANGED <<shift, programs, queue, clock, editing, known>>
    BY DEF LookUp
  <1>2. clock \in Nat /\ TTL \in Nat \ {0}
    BY CatalogBounds DEF CatalogInv, CatalogRows
  <1>3. /\ held \in Snapshot /\ held.at <= clock /\ held.at >= clock - TTL + 1
        /\ \A m \in Names \ held.resolves : KnownFrom(m, held.at)
    <2>1. CASE IsWarm(cache[w])
      <3>1. held = cache[w] /\ cache[w] # None /\ clock - cache[w].at < TTL
        BY <2>1 DEF IsWarm
      <3>2. cache[w] \in Snapshot
        BY <3>1 DEF CatalogInv, CatalogRows
      <3>3. cache[w].at \in Nat
        BY <3>2 DEF Snapshot
      <3> QED BY <1>2, <3>1, <3>2, <3>3 DEF CatalogInv, CacheInv
    <2>2. CASE ~IsWarm(cache[w])
      <3>1. held = [resolves |-> Resolvable(programs), at |-> clock]
        BY <2>2
      <3>2. held \in Snapshot /\ held.at = clock /\ held.resolves = Resolvable(programs)
        BY <1>2, <3>1 DEF Snapshot, Resolvable
      <3>3. \A m \in Names \ Resolvable(programs) : known[m] = None
        BY DEF CatalogInv, KnownInv, Resolvable
      <3> QED BY <1>2, <3>2, <3>3 DEF KnownFrom
    <2> QED BY <2>1, <2>2
  <1>4. r \in Lookup /\ r.at = "read" /\ r.name = n /\ r.began = clock /\ r.fresh
    BY <1>2 DEF NotReading, Lookup
  <1> HIDE DEF held, r
  <1>5. CatalogRows'
    BY <1>1, <1>3, <1>4 DEF CatalogInv, CatalogRows
  <1>6. CacheInv'
    <2> SUFFICES ASSUME NEW v \in Extractions, cache'[v] # None
                 PROVE  /\ cache'[v].at <= clock
                        /\ \A m \in Names \ cache'[v].resolves : KnownFrom(m, cache'[v].at)
      BY <1>1 DEF CacheInv, KnownFrom
    <2>1. CASE v = w
      <3>1. cache'[v] = held
        BY <1>1, <2>1 DEF CatalogInv, CatalogRows
      <3> QED BY <1>3, <3>1
    <2>2. CASE v # w
      <3>1. cache'[v] = cache[v]
        BY <1>1, <2>2 DEF CatalogInv, CatalogRows
      <3> QED BY <3>1 DEF CatalogInv, CacheInv
    <2> QED BY <2>1, <2>2
  <1>7. ReadingInv'
    <2> SUFFICES ASSUME NEW v \in Extractions, reading'[v].at # "idle"
                 PROVE  /\ reading'[v].name \in Names
                        /\ reading'[v].began <= clock
                        /\ reading'[v].at = "read" => reading'[v].fresh
                        /\ reading'[v].fresh =>
                             KnownFrom(reading'[v].name, reading'[v].began - TTL + 1)
      BY <1>1 DEF ReadingInv, KnownFrom
    <2>1. CASE v = w /\ n \notin held.resolves /\ reading' = [reading EXCEPT ![w] = r]
      <3>1. reading'[v] = r
        BY <2>1 DEF CatalogInv, CatalogRows
      <3>2. KnownFrom(n, held.at) /\ held.at \in Nat
        BY <1>3, <2>1 DEF Snapshot
      <3>3. KnownFrom(n, clock - TTL + 1)
        <4>1. known[n] = None \/ known[n] \in Nat
          BY DEF CatalogInv, CatalogRows
        <4> QED BY <1>2, <1>3, <3>2, <4>1 DEF KnownFrom
      <3> QED BY <1>2, <1>4, <3>1, <3>3
    <2>2. CASE reading'[v] = reading[v]
      BY <2>2 DEF CatalogInv, ReadingInv
    <2> QED BY <1>1, <2>1, <2>2 DEF CatalogInv, CatalogRows
  <1>8. QueueInv' /\ KnownInv' /\ EditInv'
    BY <1>1 DEF CatalogInv, QueueInv, KnownInv, EditInv
  <1> QED BY <1>5, <1>6, <1>7, <1>8 DEF CatalogInv

\* A worker reads the entry there is: only when there is none does it queue the
\* name it looked up.
LEMMA ReadEntryKeeps ==
  ASSUME CatalogInv, NEW w \in Extractions, ReadEntry(w)
  PROVE  CatalogInv'
  <1> DEFINE n == reading[w].name
             entry == queue[KeyOf[n]]
             r == [reading[w] EXCEPT !.at = "queue", !.fresh = entry = None,
                                     !.name = IF entry # None THEN entry ELSE n]
  <1>1. /\ reading' = [reading EXCEPT ![w] = r]
        /\ UNCHANGED <<shift, programs, queue, cache, clock, editing, known>>
        /\ reading[w].at = "read"
    BY DEF ReadEntry
  <1>2. /\ reading[w] \in Lookup /\ n \in Names /\ reading[w].began <= clock
        /\ KnownFrom(n, reading[w].began - TTL + 1)
    BY <1>1 DEF CatalogInv, CatalogRows, ReadingInv
  <1>3. entry \in Names \cup {None} /\ (entry # None => KeyOf[entry] = KeyOf[n])
    BY <1>2, RowsAreRows DEF CatalogInv, CatalogRows, QueueInv
  <1> HIDE DEF entry
  <1>4. /\ r \in Lookup /\ r.at = "queue" /\ r.name \in Names /\ r.began = reading[w].began
        /\ r.fresh => r.name = n
    BY <1>2, <1>3 DEF Lookup
  <1> HIDE DEF r
  <1>5. CatalogRows'
    BY <1>1, <1>4 DEF CatalogInv, CatalogRows
  <1>6. QueueInv' /\ KnownInv' /\ EditInv' /\ CacheInv'
    BY <1>1 DEF CatalogInv, QueueInv, KnownInv, EditInv, CacheInv, KnownFrom
  <1>7. ReadingInv'
    <2> SUFFICES ASSUME NEW v \in Extractions, reading'[v].at # "idle"
                 PROVE  /\ reading'[v].name \in Names
                        /\ reading'[v].began <= clock
                        /\ reading'[v].at = "read" => reading'[v].fresh
                        /\ reading'[v].fresh =>
                             KnownFrom(reading'[v].name, reading'[v].began - TTL + 1)
      BY <1>1 DEF ReadingInv, KnownFrom
    <2>1. CASE v = w
      <3>1. reading'[v] = r
        BY <1>1, <2>1 DEF CatalogInv, CatalogRows
      <3> QED BY <1>2, <1>4, <3>1
    <2>2. CASE v # w
      <3>1. reading'[v] = reading[v]
        BY <1>1, <2>2 DEF CatalogInv, CatalogRows
      <3> QED BY <3>1 DEF CatalogInv, ReadingInv
    <2> QED BY <2>1, <2>2
  <1> QED BY <1>5, <1>6, <1>7 DEF CatalogInv

LEMMA QueueNameKeeps ==
  ASSUME CatalogInv, NEW w \in Extractions, QueueName(w)
  PROVE  CatalogInv'
  <1> DEFINE n == reading[w].name
  <1>1. /\ queue' = [queue EXCEPT ![KeyOf[n]] = n]
        /\ reading' = [reading EXCEPT ![w] = NotReading]
        /\ UNCHANGED <<shift, programs, cache, clock, editing, known>>
        /\ reading[w].at = "queue"
    BY DEF QueueName
  <1>2. n \in Names /\ KeyOf[n] \in Keys
    BY <1>1, RowsAreRows DEF CatalogInv, ReadingInv
  <1> HIDE DEF n
  <1>3. CatalogRows'
    BY <1>1, <1>2, IdleIsTyped DEF CatalogInv, CatalogRows
  <1>4. QueueInv'
    BY <1>1, <1>2 DEF CatalogInv, CatalogRows, QueueInv
  <1>5. ReadingInv'
    BY <1>1, IdleIsTyped DEF CatalogInv, CatalogRows, ReadingInv, KnownFrom
  <1>6. KnownInv' /\ EditInv' /\ CacheInv'
    BY <1>1 DEF CatalogInv, KnownInv, EditInv, CacheInv, KnownFrom
  <1> QED BY <1>3, <1>4, <1>5, <1>6 DEF CatalogInv

LEMMA CatalogInitHolds ==
  ASSUME CatalogInit
  PROVE  CatalogInv
  <1>1. Seeded \in [Ids -> ProgramRow \cup {None}]
    <2>1. ASSUME NEW id \in Ids, \E n \in Seeds : Slug[n] = id
          PROVE  Program(CHOOSE n \in Seeds : Slug[n] = id, {}) \in ProgramRow
      <3>1. (CHOOSE n \in Seeds : Slug[n] = id) \in Names
        BY <2>1, CatalogBounds
      <3> QED BY <3>1 DEF Program, ProgramRow
    <2> QED BY <2>1 DEF Seeded
  <1>2. CatalogRows
    BY <1>1, IdleIsTyped DEF CatalogInit, CatalogRows
  <1>3. KnownInv
    BY CatalogBounds DEF CatalogInit, KnownInv, Resolvable
  <1>4. QueueInv /\ CacheInv /\ ReadingInv /\ EditInv
    BY IdleIsTyped DEF CatalogInit, QueueInv, CacheInv, ReadingInv, EditInv
  <1> QED BY <1>2, <1>3, <1>4 DEF CatalogInv

LEMMA NextKeeps ==
  ASSUME CatalogInv, CatalogNext
  PROVE  CatalogInv'
  BY CreateServiceKeeps, UpdateServiceKeeps, AddAliasKeeps, LinkUnmatchedKeeps,
     PromoteUnmatchedKeeps, PutProgramKeeps, UnqueueKeeps, TimePassesKeeps, LookUpKeeps,
     ReadEntryKeeps, QueueNameKeeps, Zenon DEF CatalogNext

-----------------------------------------------------------------------------
(* The theorems.                                                           *)

\* Rows, snapshots, look-ups and edits keep the invariant together.
THEOREM CatalogInvariance ==
  CatalogSpec => []CatalogInv
  <1>1. CatalogInit => CatalogInv
    BY CatalogInitHolds
  <1>2. CatalogInv /\ [CatalogNext]_catalogVars => CatalogInv'
    <2>1. CatalogInv /\ UNCHANGED catalogVars => CatalogInv'
      BY DEF catalogVars, CatalogInv, CatalogRows, QueueInv, KnownInv, CacheInv, ReadingInv, EditInv, KnownFrom
    <2> QED BY <2>1, NextKeeps
  <1> QED BY <1>1, <1>2, PTL DEF CatalogSpec

\* Programs are named, names are queued under their own form, and history knows
\* what the catalog resolves (catalog/models.py, record_unmatched).
THEOREM CatalogTypes ==
  CatalogSpec => []CatalogTypeOK
  <1>1. CatalogInv => CatalogTypeOK
    <2> SUFFICES ASSUME CatalogInv PROVE CatalogTypeOK
      OBVIOUS
    <2>1. \A id \in Ids : programs[id] # None =>
            /\ programs[id].name \in Names /\ programs[id].aliases \subseteq Names
            /\ programs[id].status \in {"ACTIVE", "RETIRED"}
      BY DEF CatalogInv, CatalogRows, ProgramRow
    <2>2. \A n \in Names : (known[n] # None) = Resolves(programs, n)
      BY ResolvesIsBoolean, Zenon DEF CatalogInv, KnownInv
    <2> QED BY <2>1, <2>2 DEF CatalogInv, QueueInv, CatalogTypeOK
  <1> QED BY <1>1, CatalogInvariance, PTL

\* Nobody queues a name the catalog has resolved since a whole TTL before the
\* look-up began (load_snapshot, record_unmatched).
THEOREM KnownStayOffTheQueue ==
  CatalogSpec => KnownNamesAreNotQueued
  <1> DEFINE Current ==
        \A w \in Extractions :
          reading[w].at = "queue" /\ reading'[w].at # "queue" /\ reading[w].fresh =>
            LET since == known[reading[w].name]
            IN  since = None \/ since > reading[w].began - TTL
  <1>1. CatalogInv => Current
    <2> SUFFICES ASSUME CatalogInv, NEW w \in Extractions, reading[w].at = "queue", reading[w].fresh
                 PROVE  known[reading[w].name] = None
                        \/ known[reading[w].name] > reading[w].began - TTL
      OBVIOUS
    <2>1. reading[w].name \in Names /\ KnownFrom(reading[w].name, reading[w].began - TTL + 1)
      BY DEF CatalogInv, ReadingInv
    <2>2. reading[w].began \in Nat /\ TTL \in Nat \ {0}
          /\ known[reading[w].name] \in Nat \cup {None}
      BY <2>1, CatalogBounds DEF CatalogInv, CatalogRows, Lookup
    <2> QED BY <2>1, <2>2 DEF KnownFrom
  <1> HIDE DEF Current
  <1>2. CatalogSpec => [][Current]_catalogVars
    BY <1>1, CatalogInvariance, PTL DEF CatalogSpec
  <1> QED BY <1>2 DEF KnownNamesAreNotQueued, Current

\* Only the end of an edit takes a name off the queue.
LEMMA QueueLoses ==
  ASSUME CatalogInv, CatalogNext, NEW key \in Keys, queue[key] # None, queue'[key] = None
  PROVE  \E p \in Editors : Unqueue(p) /\ editing[p].key = key
  <1>1. \/ UNCHANGED queue
        \/ \E w \in Extractions : QueueName(w)
        \/ \E p \in Editors : Unqueue(p)
    BY Zenon DEF CatalogNext, TimePasses, PutProgram, LookUp, ReadEntry, CreateService, UpdateService,
       AddAlias, LinkUnmatched, PromoteUnmatched, Edit, Remember
  <1>2. ASSUME NEW w \in Extractions, QueueName(w) PROVE FALSE
    <2>1. reading[w].name \in Names
      BY <1>2 DEF QueueName, CatalogInv, ReadingInv
    <2>2. queue' = [queue EXCEPT ![KeyOf[reading[w].name]] = reading[w].name]
      BY <1>2 DEF QueueName
    <2> QED BY <2>1, <2>2, CatalogBounds DEF CatalogInv, CatalogRows
  <1>3. ASSUME NEW p \in Editors, Unqueue(p) PROVE editing[p].key = key
    BY <1>3 DEF Unqueue, CatalogInv, CatalogRows
  <1> QED BY <1>1, <1>2, <1>3

\* What an edit put goes on resolving the name it takes off the queue, unless
\* its program is retired or was overwritten.
LEMMA LeavesPlaced ==
  ASSUME CatalogInv, CatalogNext, NEW key \in Keys \ {NoKey}
  PROVE  LeavesKnown(key)
  <1> SUFFICES ASSUME queue[key] # None, queue'[key] = None
               PROVE  \/ Resolves(programs, queue[key])
                      \/ \E p \in Editors :
                           /\ editing[p].at = "unqueue" /\ editing[p].key = key
                           /\ \/ editing[p].row.status = "RETIRED"
                              \/ programs[editing[p].id] # editing[p].row
    BY DEF LeavesKnown
  <1>1. PICK p \in Editors : Unqueue(p) /\ editing[p].key = key
    BY QueueLoses
  <1> DEFINE id == editing[p].id
             row == editing[p].row
  <1>2. editing[p].at = "unqueue"
    BY <1>1 DEF Unqueue
  <1>3. id \in Ids /\ row \in ProgramRow
    BY <1>2 DEF CatalogInv, EditInv
  <1>4. PICK m \in {row.name} \cup row.aliases : KeyOf[m] = key
    BY <1>1, <1>2, CatalogBounds DEF CatalogInv, EditInv
  <1>5. queue[key] \in Names /\ KeyOf[queue[key]] = key
    BY RowsAreRows DEF CatalogInv, QueueInv
  <1>6. CASE row.status = "RETIRED" \/ programs[id] # row
    BY <1>1, <1>2, <1>6
  <1>7. CASE row.status # "RETIRED" /\ programs[id] = row
    <2>1. row.status = "ACTIVE" /\ row # None
      BY <1>3, <1>7, CatalogBounds DEF ProgramRow
    <2>2. programs \in [Ids -> ProgramRow \cup {None}]
      BY DEF CatalogInv, CatalogRows
    <2>3. Resolves(programs, queue[key])
      BY <1>3, <1>4, <1>5, <1>7, <2>1, <2>2, ActiveResolves
    <2> QED BY <2>3
  <1> QED BY <1>6, <1>7

\* A name leaves the queue only when it is placed, whatever edits interleave
\* (link_unmatched, promote_unmatched, add_alias).
THEOREM NamesLeaveKnown ==
  CatalogSpec => NamesLeaveTheQueueKnown
  <1> DEFINE Placed == \A key \in Keys \ {NoKey} : LeavesKnown(key)
  <1>1. CatalogInv /\ [CatalogNext]_catalogVars => [Placed]_catalogVars
    BY LeavesPlaced, Zenon
  <1> HIDE DEF Placed
  <1>2. CatalogSpec => [][Placed]_catalogVars
    BY <1>1, CatalogInvariance, PTL DEF CatalogSpec
  <1> QED BY <1>2 DEF NamesLeaveTheQueueKnown, Placed

-----------------------------------------------------------------------------
(* People: what the stores hold, and what a request remembers at each call. *)

JobStages ==
  {"idle", "account", "group", "row", "lookup", "join", "seat", "list", "rename", "sync"}
Job ==
  [at : JobStages, kind : {"invite", "hire", "add", "onboard", None}, who : Persons \cup {None},
   where : Desks \cup {None}, name : PersonNames \cup {None}, todo : SUBSET Desks,
   role : {"client", "provider", None}, clear : BOOLEAN]

PeopleStores ==
  /\ pool \in [Persons -> Account \cup {None}]
  /\ member \in [Desks \X Persons -> Membership \cup {None}]
  /\ staff \in [Persons -> PersonNames \cup {None}]
  /\ profile \in [Persons -> PersonNames \cup {None}]
  /\ job \in [PeopleRequests -> Job]
  /\ stale \subseteq Persons

\* What is true of a request w at the stage it has come to; A is the pool.
StageOK(w, A) ==
  /\ w.at = "idle" => w = Free
  /\ w.at # "idle" => w.who \in Persons /\ w.name \in PersonNames
  /\ w.at \in {"account", "group", "row"} =>
       \/ w.kind = "hire" /\ w.role = "provider"
       \/ w.kind = "invite" /\ w.role = "client"
  /\ w.at \in {"lookup", "join", "seat"} => w.kind \in {"invite", "add"} /\ w.where \in Desks
  /\ w.at = "lookup" => w.kind = "invite"
  /\ w.kind = "invite" => w.where \in Desks
  /\ w.at \in {"join", "seat"} => w.clear
  /\ w.at \in {"list", "rename", "sync"} <=> w.kind = "onboard"
  /\ w.at \in {"group", "row", "lookup", "join", "seat", "list", "rename", "sync"}
       => A[w.who] # None
  /\ (w.at = "row" \/ (w.kind = "onboard" /\ w.role # None)) => w.role \in A[w.who].groups

\* Whoever has a membership row has an account, and so has whoever is in the
\* staff directory, in the provider group.
RowsHaveAccounts == \A p \in Desks \X Persons : member[p] # None => pool[p[2]] # None
DirectoryIsStaff == \A u \in Persons : staff[u] # None => IsProvider(u)

PlacesInv ==
  /\ PeopleStores
  /\ \A r \in PeopleRequests : StageOK(job[r], pool)
  /\ RowsHaveAccounts
  /\ DirectoryIsStaff

-----------------------------------------------------------------------------
(* An account is created once, and the request that did is the only one    *)
(* that gives it its group.                                                *)

Creates(w, u) == w.at \in {"group", "row"} /\ w.who = u

CreatorsInv ==
  /\ \A r, o \in PeopleRequests : \A u \in Persons :
       Creates(job[r], u) /\ Creates(job[o], u) => r = o
  /\ \A r \in PeopleRequests : \A u \in Persons :
       Creates(job[r], u) /\ job[r].kind = "invite" => ~IsStaff(u)

-----------------------------------------------------------------------------
(* The names a running onboarding has put, and those it has yet to put.    *)

Onboards(w, u) == w.kind = "onboard" /\ w.who = u
RowSays(e, u, n) == member[<<e, u>>] # None => member[<<e, u>>].name = n

\* Every onboarding of u that is going on gives the name of the profile.
Agreed(u) == \A o \in PeopleRequests : Onboards(job[o], u) => job[o].name = profile[u]

RowsOf(w, u) ==
  /\ \A e \in w.todo : w.at = "rename" => member[<<e, u>>] # None
  /\ w.at = "rename" /\ w.clear => \A e \in Desks \ w.todo : RowSays(e, u, w.name)

NamesInv ==
  /\ \A r \in PeopleRequests : \A u \in Persons : Onboards(job[r], u) => RowsOf(job[r], u)
  /\ \A r \in PeopleRequests : \A u \in Persons :
       Onboards(job[r], u) /\ job[r].clear => Agreed(u)
  /\ \A u \in Persons \ stale : profile[u] # None => Agreed(u)
  /\ NamesFollowTheProfile

PeopleInv == PlacesInv /\ CreatorsInv /\ NamesInv

-----------------------------------------------------------------------------
(* What a step leaves of the other requests and of the accounts there were. *)

PoolGrows ==
  \A u \in Persons : pool[u] # None => pool'[u] # None /\ pool[u].groups \subseteq pool'[u].groups

\* The request o is where it was, and may have learned of a name that is not
\* the one it gives.
Undisturbed(o) ==
  \/ job'[o] = job[o]
  \/ job[o].kind = "onboard" /\ job'[o] = [job[o] EXCEPT !.clear = FALSE]

\* An account that was there stays, so a request is still where it was.
LEMMA StageKept ==
  ASSUME PeopleStores, PoolGrows, NEW o \in PeopleRequests, StageOK(job[o], pool), Undisturbed(o)
  PROVE  StageOK(job'[o], pool')
  <1>1. job[o] \in Job
    BY DEF PeopleStores
  <1>2. CASE job'[o] = job[o]
    BY <1>1, <1>2 DEF PoolGrows, StageOK, Job
  <1>3. CASE job[o].kind = "onboard" /\ job'[o] = [job[o] EXCEPT !.clear = FALSE]
    BY <1>1, <1>3 DEF PoolGrows, StageOK, Job, Free, JobStages
  <1> QED BY <1>2, <1>3 DEF Undisturbed

\* Noticing a name is all that happens to the others when a row is put.
LEMMA NoticingUndisturbs ==
  ASSUME NEW u, NEW n, NEW o \in PeopleRequests, job'[o] = Noticing(u, n, o)
  PROVE  Undisturbed(o)
  BY DEF Noticing, Undisturbed, Contradicts

\* Noticing a name keeps a request a request.
LEMMA NoticingIsJob ==
  ASSUME PeopleStores, NEW u, NEW n, NEW o \in PeopleRequests
  PROVE  Noticing(u, n, o) \in Job
  <1>1. job[o] \in Job
    BY DEF PeopleStores
  <1>2. [job[o] EXCEPT !.clear = FALSE] \in Job
    BY <1>1 DEF Job
  <1> QED BY <1>1, <1>2 DEF Noticing

\* The stages of the requests after a step that moves at most r.
LEMMA PlacesKept ==
  ASSUME PlacesInv, PeopleStores', PoolGrows,
         \A o \in PeopleRequests : Undisturbed(o) \/ StageOK(job'[o], pool'),
         RowsHaveAccounts', DirectoryIsStaff'
  PROVE  PlacesInv'
  BY StageKept DEF PlacesInv

\* What a request remembers.
LEMMA FreeIsJob ==
  /\ Free \in Job
  /\ \A A : StageOK(Free, A)
  BY PeopleConstants DEF Free, Job, JobStages, StageOK

-----------------------------------------------------------------------------
(* The steps of the requests that keep the stores as they are.             *)

\* The stores are as they were, and r moves to a stage it may be at.
LEMMA MovesKeepPlaces ==
  ASSUME PlacesInv, NEW r \in PeopleRequests, NEW w \in Job, Continues(r, w), StageOK(w, pool),
         UNCHANGED <<pool, member, staff>>,
         profile' \in [Persons -> PersonNames \cup {None}], stale' \subseteq Persons
  PROVE  PlacesInv'
  <1>1. PeopleStores'
    BY DEF PlacesInv, PeopleStores, Continues
  <1>2. PoolGrows
    BY DEF PoolGrows
  <1>3. \A o \in PeopleRequests : Undisturbed(o) \/ StageOK(job'[o], pool')
    BY DEF Continues, Undisturbed, PlacesInv, PeopleStores
  <1>4. RowsHaveAccounts' /\ DirectoryIsStaff'
    BY DEF PlacesInv, RowsHaveAccounts, DirectoryIsStaff, IsProvider
  <1> QED BY <1>1, <1>2, <1>3, <1>4, PlacesKept

LEMMA StartInvitePlaces ==
  ASSUME PlacesInv, NEW r \in PeopleRequests, NEW e \in Desks,
         NEW u \in Persons, NEW n \in PersonNames, StartInvite(r, e, u, n)
  PROVE  PlacesInv'
  <1> DEFINE w == [[Free EXCEPT !.at = "account", !.who = u, !.where = e, !.name = n,
                                !.role = "client"] EXCEPT !.kind = "invite"]
  <1>1. w \in Job /\ StageOK(w, pool)
    BY DEF Free, Job, JobStages, StageOK
  <1>2. Continues(r, w) /\ UNCHANGED <<pool, member, staff, profile, stale>>
    BY DEF StartInvite, Start
  <1> HIDE DEF w
  <1> QED BY <1>1, <1>2, MovesKeepPlaces DEF PlacesInv, PeopleStores

LEMMA StartHirePlaces ==
  ASSUME PlacesInv, NEW r \in PeopleRequests,
         NEW u \in Persons, NEW n \in PersonNames, StartHire(r, u, n)
  PROVE  PlacesInv'
  <1> DEFINE w == [[Free EXCEPT !.at = "account", !.who = u, !.name = n, !.role = "provider"]
                     EXCEPT !.kind = "hire"]
  <1>1. w \in Job /\ StageOK(w, pool)
    BY DEF Free, Job, JobStages, StageOK
  <1>2. Continues(r, w) /\ UNCHANGED <<pool, member, staff, profile, stale>>
    BY DEF StartHire, Start
  <1> HIDE DEF w
  <1> QED BY <1>1, <1>2, MovesKeepPlaces DEF PlacesInv, PeopleStores

LEMMA StartOnboardPlaces ==
  ASSUME PlacesInv, NEW r \in PeopleRequests,
         NEW u \in Persons, NEW n \in PersonNames, StartOnboard(r, u, n)
  PROVE  PlacesInv'
  <1> DEFINE role == IF IsProvider(u) THEN "provider" ELSE None
             clear == \A o \in PeopleRequests : ~Contradicts(o, u, n)
             w == [Free EXCEPT !.at = "list", !.kind = "onboard", !.who = u, !.name = n,
                               !.role = role, !.clear = clear]
  <1>1. role \in {"provider", None} /\ (role # None => role \in pool[u].groups) /\ clear \in BOOLEAN
    BY DEF IsProvider
  <1>2. pool[u] # None /\ UNCHANGED <<pool, member, staff>>
    BY DEF StartOnboard
  <1>3. profile' \in [Persons -> PersonNames \cup {None}] /\ stale' \subseteq Persons
    BY DEF StartOnboard, PlacesInv, PeopleStores
  <1>4. job' = [o \in PeopleRequests |-> IF o = r THEN w ELSE Noticing(u, n, o)]
    BY Zenon DEF StartOnboard
  <1> HIDE DEF role, clear
  <1>5. w \in Job /\ StageOK(w, pool)
    BY <1>1, <1>2 DEF Free, Job, JobStages, StageOK
  <1> HIDE DEF w
  <1>6. job' \in [PeopleRequests -> Job]
    BY <1>4, <1>5, NoticingIsJob DEF PlacesInv
  <1>7. \A o \in PeopleRequests : Undisturbed(o) \/ StageOK(job'[o], pool')
    BY <1>2, <1>4, <1>5, NoticingUndisturbs
  <1>8. PeopleStores' /\ PoolGrows
    BY <1>2, <1>3, <1>6 DEF PlacesInv, PeopleStores, PoolGrows
  <1>9. RowsHaveAccounts' /\ DirectoryIsStaff'
    BY <1>2 DEF PlacesInv, RowsHaveAccounts, DirectoryIsStaff, IsProvider
  <1> QED BY <1>7, <1>8, <1>9, PlacesKept

\* Whoever has a membership row is in the pool, under a name.
LEMMA StartAddPlaces ==
  ASSUME PlacesInv, NEW r \in PeopleRequests, NEW e \in Desks,
         NEW u \in Persons, NEW readable \in BOOLEAN, StartAdd(r, e, u, readable)
  PROVE  PlacesInv'
  <1>1. UNCHANGED <<pool, member, staff, profile, stale>>
    BY DEF StartAdd
  <1>2. CASE Contacts(u) # {}
    <2>1. PICK c \in Contacts(u) :
            Start(r, "add", [Free EXCEPT !.at = "seat", !.who = u, !.where = e,
                               !.clear = TRUE, !.name = member[<<c, u>>].name])
      BY <1>2 DEF StartAdd
    <2> DEFINE w == [[Free EXCEPT !.at = "seat", !.who = u, !.where = e, !.clear = TRUE,
                                  !.name = member[<<c, u>>].name] EXCEPT !.kind = "add"]
    <2>2. c \in Desks /\ member[<<c, u>>] # None
      BY DEF Contacts, IsMember
    <2>3. member[<<c, u>>] \in Membership /\ pool[u] # None
      BY <2>2 DEF PlacesInv, PeopleStores, RowsHaveAccounts
    <2>4. member[<<c, u>>].name \in PersonNames
      BY <2>3 DEF Membership
    <2>5. w \in Job /\ StageOK(w, pool)
      BY <2>3, <2>4 DEF Free, Job, JobStages, StageOK
    <2>6. Continues(r, w)
      BY <2>1 DEF Start
    <2> HIDE DEF w
    <2> QED BY <1>1, <2>5, <2>6, MovesKeepPlaces DEF PlacesInv, PeopleStores
  <1>3. CASE Contacts(u) = {}
    <2> DEFINE w == [[Free EXCEPT !.at = "join", !.who = u, !.where = e,
                                  !.clear = ~IsStaff(u), !.name = pool[u].name]
                       EXCEPT !.kind = "add"]
    <2>1. pool[u] # None /\ ~IsStaff(u) /\ Continues(r, w)
      BY <1>3 DEF StartAdd, Start, MayBeContact
    <2>2. pool[u].name \in PersonNames
      BY <2>1 DEF PlacesInv, PeopleStores, Account
    <2>3. w \in Job /\ StageOK(w, pool)
      BY <2>1, <2>2 DEF Free, Job, JobStages, StageOK
    <2> HIDE DEF w
    <2> QED BY <1>1, <2>1, <2>3, MovesKeepPlaces DEF PlacesInv, PeopleStores
  <1> QED BY <1>2, <1>3

LEMMA LookUpPlaces ==
  ASSUME PlacesInv, NEW r \in PeopleRequests, NEW readable \in BOOLEAN,
         LookUpAccount(r, readable)
  PROVE  PlacesInv'
  <1> DEFINE u == job[r].who
             n == IF pool[u].name # None THEN pool[u].name ELSE job[r].name
             w == [job[r] EXCEPT !.at = "join", !.clear = ~IsStaff(u), !.name = n]
  <1>1. job[r] \in Job /\ StageOK(job[r], pool) /\ job[r].at = "lookup"
    BY DEF LookUpAccount, PlacesInv, PeopleStores
  <1>2. u \in Persons /\ pool[u] # None
    BY <1>1 DEF StageOK
  <1>3. n \in PersonNames
    BY <1>1, <1>2 DEF StageOK, PlacesInv, PeopleStores, Account
  <1>4. Continues(r, Free) \/ (~IsStaff(u) /\ Continues(r, w))
    BY DEF LookUpAccount, Over, MayBeContact
  <1> HIDE DEF n
  <1>5. ~IsStaff(u) => w \in Job /\ StageOK(w, pool)
    BY <1>1, <1>2, <1>3 DEF Job, JobStages, StageOK
  <1>6. UNCHANGED <<pool, member, staff, profile, stale>>
    BY DEF LookUpAccount
  <1> HIDE DEF w
  <1> QED BY <1>4, <1>5, <1>6, FreeIsJob, MovesKeepPlaces DEF PlacesInv, PeopleStores

LEMMA ListPlaces ==
  ASSUME PlacesInv, NEW r \in PeopleRequests, ListRows(r)
  PROVE  PlacesInv'
  <1> DEFINE w == [job[r] EXCEPT !.at = "rename", !.todo = {e \in Desks : IsMember(e, job[r].who)}]
  <1>1. job[r] \in Job /\ StageOK(job[r], pool) /\ job[r].at = "list"
    BY DEF ListRows, PlacesInv, PeopleStores
  <1>2. {e \in Desks : IsMember(e, job[r].who)} \in SUBSET Desks
    OBVIOUS
  <1>3. w \in Job /\ StageOK(w, pool)
    BY <1>1, <1>2 DEF Job, JobStages, StageOK
  <1>4. Continues(r, w) /\ UNCHANGED <<pool, member, staff, profile, stale>>
    BY DEF ListRows
  <1> HIDE DEF w
  <1> QED BY <1>3, <1>4, MovesKeepPlaces DEF PlacesInv, PeopleStores

LEMMA FailsPlaces ==
  ASSUME PlacesInv, NEW r \in PeopleRequests, Fails(r)
  PROVE  PlacesInv'
  BY FreeIsJob, MovesKeepPlaces DEF Fails, Over, PlacesInv, PeopleStores

-----------------------------------------------------------------------------
(* The steps that write a store.                                           *)

\* Of the stores a request may write, the ones a step does not write.
LEMMA WritesKeepPlaces ==
  ASSUME PlacesInv, PoolGrows,
         pool' \in [Persons -> Account \cup {None}],
         member' \in [Desks \X Persons -> Membership \cup {None}],
         staff' \in [Persons -> PersonNames \cup {None}],
         job' \in [PeopleRequests -> Job],
         UNCHANGED profile, stale' \subseteq Persons,
         \A o \in PeopleRequests : Undisturbed(o) \/ StageOK(job'[o], pool'),
         \A p \in Desks \X Persons : member'[p] # None => member[p] # None \/ pool'[p[2]] # None,
         \A u \in Persons : staff'[u] # None => staff[u] # None \/ IsProvider(u)'
  PROVE  PlacesInv'
  <1>1. PeopleStores'
    BY DEF PlacesInv, PeopleStores
  <1>2. RowsHaveAccounts'
    BY DEF PlacesInv, RowsHaveAccounts, PoolGrows
  <1>3. DirectoryIsStaff'
    BY DEF PlacesInv, DirectoryIsStaff, PoolGrows, IsProvider
  <1> QED BY <1>1, <1>2, <1>3, PlacesKept

LEMMA CreateAccountPlaces ==
  ASSUME PlacesInv, NEW r \in PeopleRequests, CreateAccount(r)
  PROVE  PlacesInv'
  <1> DEFINE u == job[r].who
  <1>1. job[r] \in Job /\ StageOK(job[r], pool) /\ job[r].at = "account"
    BY DEF CreateAccount, PlacesInv, PeopleStores
  <1>2. u \in Persons /\ job[r].name \in PersonNames
    BY <1>1 DEF StageOK
  <1>3. UNCHANGED <<member, staff, profile, stale>>
    BY DEF CreateAccount
  <1>4. CASE pool[u] = None
    <2> DEFINE a == [groups |-> {}, name |-> job[r].name]
               w == [job[r] EXCEPT !.at = "group"]
    <2>1. pool' = [pool EXCEPT ![u] = a] /\ Continues(r, w)
      BY <1>4 DEF CreateAccount
    <2>2. a \in Account /\ a # None
      BY <1>2, PeopleConstants DEF Account
    <2> HIDE DEF a
    <2>3. pool' \in [Persons -> Account \cup {None}] /\ pool'[u] # None
      BY <1>2, <2>1, <2>2 DEF PlacesInv, PeopleStores
    <2>4. PoolGrows
      BY <1>2, <1>4, <2>1 DEF PoolGrows, PlacesInv, PeopleStores
    <2>5. w \in Job /\ StageOK(w, pool')
      BY <1>1, <2>3 DEF Job, JobStages, StageOK
    <2> HIDE DEF w
    <2>6. job' \in [PeopleRequests -> Job]
      BY <2>1, <2>5 DEF Continues, PlacesInv, PeopleStores
    <2>7. \A o \in PeopleRequests : Undisturbed(o) \/ StageOK(job'[o], pool')
      BY <2>1, <2>5 DEF Continues, Undisturbed, PlacesInv, PeopleStores
    <2> QED BY <1>3, <2>3, <2>4, <2>6, <2>7, WritesKeepPlaces DEF PlacesInv, PeopleStores
  <1>5. CASE pool[u] # None
    <2>1. Continues(r, Taken(job[r])) /\ UNCHANGED pool
      BY <1>5 DEF CreateAccount
    <2>2. Taken(job[r]) \in Job /\ StageOK(Taken(job[r]), pool)
      BY <1>1, <1>5, FreeIsJob DEF Taken, Job, JobStages, StageOK
    <2> QED BY <1>3, <2>1, <2>2, MovesKeepPlaces DEF PlacesInv, PeopleStores
  <1> QED BY <1>4, <1>5

\* A group more is all a step does to an account.
LEMMA GroupAdded ==
  ASSUME PeopleStores, NEW u \in Persons, pool[u] # None,
         NEW g \in {"client", "provider"},
         pool' = [pool EXCEPT ![u].groups = @ \cup {g}]
  PROVE  /\ pool' \in [Persons -> Account \cup {None}]
         /\ PoolGrows
         /\ pool'[u].groups = pool[u].groups \cup {g}
         /\ \A o \in Persons \ {u} : pool'[o] = pool[o]
         /\ pool'[u].name = pool[u].name
  <1> DEFINE a == [pool[u] EXCEPT !.groups = @ \cup {g}]
  <1>1. pool[u] \in Account
    BY DEF PeopleStores
  <1>2. a \in Account /\ a.groups = pool[u].groups \cup {g} /\ a.name = pool[u].name
    BY <1>1 DEF Account
  <1>3. a # None
    BY <1>2, PeopleConstants
  <1>4. pool' = [pool EXCEPT ![u] = a]
    OBVIOUS
  <1> HIDE DEF a
  <1> QED BY <1>2, <1>3, <1>4 DEF PeopleStores, PoolGrows

LEMMA AddToGroupPlaces ==
  ASSUME PlacesInv, NEW r \in PeopleRequests, AddToGroup(r)
  PROVE  PlacesInv'
  <1> DEFINE u == job[r].who
             w == [job[r] EXCEPT !.at = "row"]
  <1>1. job[r] \in Job /\ StageOK(job[r], pool) /\ job[r].at = "group"
    BY DEF AddToGroup, PlacesInv, PeopleStores
  <1>2. u \in Persons /\ pool[u] # None /\ job[r].role \in {"client", "provider"}
    BY <1>1 DEF StageOK
  <1>3. pool' = [pool EXCEPT ![u].groups = @ \cup {job[r].role}] /\ Continues(r, w)
        /\ UNCHANGED <<member, staff, profile, stale>>
    BY DEF AddToGroup
  <1>4. /\ pool' \in [Persons -> Account \cup {None}] /\ PoolGrows
        /\ pool'[u].groups = pool[u].groups \cup {job[r].role}
    BY <1>2, <1>3, GroupAdded DEF PlacesInv
  <1>5. w \in Job /\ StageOK(w, pool')
    BY <1>1, <1>2, <1>4 DEF Job, JobStages, StageOK, PoolGrows
  <1> HIDE DEF w
  <1>6. job' \in [PeopleRequests -> Job]
    BY <1>3, <1>5 DEF Continues, PlacesInv, PeopleStores
  <1>7. \A o \in PeopleRequests : Undisturbed(o) \/ StageOK(job'[o], pool')
    BY <1>3, <1>5 DEF Continues, Undisturbed, PlacesInv, PeopleStores
  <1> QED BY <1>3, <1>4, <1>6, <1>7, WritesKeepPlaces DEF PlacesInv, PeopleStores

-----------------------------------------------------------------------------
(* A membership row is put.                                                *)

\* The row of u at e now says n, and r is done.
Puts(r, e, u, n) ==
  /\ member' = [member EXCEPT ![<<e, u>>] = [role |-> "client", name |-> n]]
  /\ Named(u, n)
  /\ OverNoticed(r, u, n)

LEMMA NamedIsTyped ==
  ASSUME PeopleStores, NEW u \in Persons, NEW n, Named(u, n)
  PROVE  stale' \subseteq Persons
  BY DEF PeopleStores, Named

LEMMA PutsEffect ==
  ASSUME PlacesInv, NEW r \in PeopleRequests, NEW e \in Desks,
         NEW u \in Persons, NEW n \in PersonNames, Puts(r, e, u, n)
  PROVE  /\ member' \in [Desks \X Persons -> Membership \cup {None}]
         /\ member'[<<e, u>>] = [role |-> "client", name |-> n]
         /\ member'[<<e, u>>] # None
         /\ \A p \in Desks \X Persons : p # <<e, u>> => member'[p] = member[p]
         /\ job' \in [PeopleRequests -> Job]
         /\ job'[r] = Free
         /\ \A o \in PeopleRequests \ {r} : job'[o] = Noticing(u, n, o)
         /\ \A o \in PeopleRequests : Undisturbed(o) \/ StageOK(job'[o], pool')
         /\ stale' \subseteq Persons
  <1> DEFINE m == [role |-> "client", name |-> n]
  <1>1. m \in Membership /\ m # None
    BY PeopleConstants DEF Membership
  <1>2. member' = [member EXCEPT ![<<e, u>>] = m]
    BY DEF Puts
  <1> HIDE DEF m
  <1>3. /\ member' \in [Desks \X Persons -> Membership \cup {None}]
        /\ member'[<<e, u>>] = m
        /\ \A p \in Desks \X Persons : p # <<e, u>> => member'[p] = member[p]
    BY <1>1, <1>2 DEF PlacesInv, PeopleStores
  <1>4. job' = [o \in PeopleRequests |-> IF o = r THEN Free ELSE Noticing(u, n, o)]
    BY DEF Puts, OverNoticed
  <1>5. job' \in [PeopleRequests -> Job]
    BY <1>4, FreeIsJob, NoticingIsJob DEF PlacesInv
  <1>6. job'[r] = Free /\ \A o \in PeopleRequests \ {r} : job'[o] = Noticing(u, n, o)
    BY <1>4
  <1>7. \A o \in PeopleRequests : Undisturbed(o) \/ StageOK(job'[o], pool')
    BY <1>6, NoticingUndisturbs, FreeIsJob
  <1>8. stale' \subseteq Persons
    BY NamedIsTyped DEF Puts, PlacesInv
  <1> USE DEF m
  <1> QED BY <1>1, <1>3, <1>5, <1>6, <1>7, <1>8

LEMMA PutRowPlaces ==
  ASSUME PlacesInv, NEW r \in PeopleRequests, PutRow(r)
  PROVE  PlacesInv'
  <1> DEFINE u == job[r].who
             n == job[r].name
             e == job[r].where
  <1>1. job[r] \in Job /\ StageOK(job[r], pool) /\ job[r].at = "row"
    BY DEF PutRow, PlacesInv, PeopleStores
  <1>2. u \in Persons /\ n \in PersonNames /\ pool[u] # None /\ job[r].role \in pool[u].groups
    BY <1>1 DEF StageOK
  <1>3. UNCHANGED <<pool, profile>>
    BY DEF PutRow
  <1>4. PoolGrows
    BY <1>3 DEF PoolGrows
  <1>5. CASE job[r].kind = "hire"
    <2>1. staff' = [staff EXCEPT ![u] = n] /\ Continues(r, Free) /\ UNCHANGED <<member, stale>>
      BY <1>5 DEF PutRow, Over
    <2>2. IsProvider(u)
      BY <1>1, <1>2, <1>5 DEF StageOK, IsProvider
    <2>3. job' \in [PeopleRequests -> Job]
      BY <2>1, FreeIsJob DEF Continues, PlacesInv, PeopleStores
    <2>4. \A o \in PeopleRequests : Undisturbed(o) \/ StageOK(job'[o], pool')
      BY <2>1, FreeIsJob DEF Continues, Undisturbed, PlacesInv, PeopleStores
    <2>5. staff' \in [Persons -> PersonNames \cup {None}]
      BY <1>2, <2>1 DEF PlacesInv, PeopleStores
    <2>6. \A o \in Persons : staff'[o] # None => staff[o] # None \/ IsProvider(o)'
      BY <1>2, <1>3, <2>1, <2>2 DEF PlacesInv, PeopleStores, IsProvider
    <2> QED BY <1>3, <1>4, <2>1, <2>3, <2>4, <2>5, <2>6, WritesKeepPlaces DEF PlacesInv, PeopleStores
  <1>6. CASE job[r].kind # "hire"
    <2>1. e \in Desks
      BY <1>1, <1>6 DEF StageOK
    <2>2. Puts(r, e, u, n) /\ UNCHANGED staff
      BY <1>6 DEF PutRow, Puts
    <2>3. /\ member' \in [Desks \X Persons -> Membership \cup {None}]
          /\ \A p \in Desks \X Persons : p # <<e, u>> => member'[p] = member[p]
          /\ job' \in [PeopleRequests -> Job]
          /\ \A o \in PeopleRequests : Undisturbed(o) \/ StageOK(job'[o], pool')
          /\ stale' \subseteq Persons
      BY <1>2, <2>1, <2>2, PutsEffect
    <2>4. \A p \in Desks \X Persons : member'[p] # None => member[p] # None \/ pool'[p[2]] # None
      BY <1>2, <1>3, <2>3
    <2> QED BY <1>3, <1>4, <2>2, <2>3, <2>4, WritesKeepPlaces DEF PlacesInv, PeopleStores
  <1> QED BY <1>5, <1>6

LEMMA EnsureGroupEffect ==
  ASSUME PlacesInv, NEW r \in PeopleRequests, NEW grouped \in BOOLEAN,
         EnsureGroup(r, grouped)
  PROVE  /\ job[r] \in Job /\ StageOK(job[r], pool) /\ job[r].at = "join"
         /\ job[r].kind # "onboard"
         /\ Continues(r, [job[r] EXCEPT !.at = "seat"])
         /\ pool' \in [Persons -> Account \cup {None}] /\ PoolGrows
         /\ \A o \in Persons : IsProvider(o)' => IsProvider(o)
         /\ UNCHANGED <<member, staff, profile, stale>>
  <1> DEFINE u == job[r].who
  <1>1. job[r] \in Job /\ StageOK(job[r], pool) /\ job[r].at = "join"
    BY DEF EnsureGroup, PlacesInv, PeopleStores
  <1>2. u \in Persons /\ pool[u] # None /\ job[r].kind # "onboard"
    BY <1>1 DEF StageOK
  <1>3. pool' = [pool EXCEPT ![u].groups = @ \cup {"client"}] \/ pool' = pool
    BY DEF EnsureGroup
  <1>4. Continues(r, [job[r] EXCEPT !.at = "seat"]) /\ UNCHANGED <<member, staff, profile, stale>>
    BY DEF EnsureGroup
  <1>5. CASE pool' = pool
    BY <1>1, <1>2, <1>4, <1>5 DEF PoolGrows, PlacesInv, PeopleStores, IsProvider
  <1>6. CASE pool' = [pool EXCEPT ![u].groups = @ \cup {"client"}]
    <2>1. /\ pool' \in [Persons -> Account \cup {None}] /\ PoolGrows
          /\ pool'[u].groups = pool[u].groups \cup {"client"}
          /\ \A o \in Persons \ {u} : pool'[o] = pool[o]
      BY <1>2, <1>6, GroupAdded DEF PlacesInv
    <2>2. \A o \in Persons : IsProvider(o)' => IsProvider(o)
      BY <1>2, <2>1 DEF IsProvider
    <2> QED BY <1>1, <1>2, <1>4, <2>1, <2>2
  <1> QED BY <1>3, <1>5, <1>6

LEMMA EnsureGroupPlaces ==
  ASSUME PlacesInv, NEW r \in PeopleRequests, NEW grouped \in BOOLEAN,
         EnsureGroup(r, grouped)
  PROVE  PlacesInv'
  <1> DEFINE w == [job[r] EXCEPT !.at = "seat"]
  <1>1. /\ job[r] \in Job /\ StageOK(job[r], pool) /\ job[r].at = "join"
        /\ Continues(r, w)
        /\ pool' \in [Persons -> Account \cup {None}] /\ PoolGrows
        /\ UNCHANGED <<member, staff, profile, stale>>
    BY EnsureGroupEffect
  <1>2. w \in Job /\ StageOK(w, pool')
    BY <1>1 DEF Job, JobStages, StageOK, PoolGrows
  <1> HIDE DEF w
  <1>3. job' \in [PeopleRequests -> Job]
    BY <1>1, <1>2 DEF Continues, PlacesInv, PeopleStores
  <1>4. \A o \in PeopleRequests : Undisturbed(o) \/ StageOK(job'[o], pool')
    BY <1>1, <1>2 DEF Continues, Undisturbed, PlacesInv, PeopleStores
  <1> QED BY <1>1, <1>3, <1>4, WritesKeepPlaces DEF PlacesInv, PeopleStores

LEMMA JoinPlaces ==
  ASSUME PlacesInv, NEW r \in PeopleRequests, Join(r)
  PROVE  PlacesInv'
  <1> DEFINE u == job[r].who
             n == job[r].name
             e == job[r].where
  <1>1. job[r] \in Job /\ StageOK(job[r], pool) /\ job[r].at = "seat"
    BY DEF Join, PlacesInv, PeopleStores
  <1>2. u \in Persons /\ n \in PersonNames /\ pool[u] # None /\ e \in Desks
    BY <1>1 DEF StageOK
  <1>3. Puts(r, e, u, n) /\ UNCHANGED <<pool, staff, profile>>
    BY DEF Join, Puts
  <1>4. PoolGrows
    BY <1>3 DEF PoolGrows
  <1>5. /\ member' \in [Desks \X Persons -> Membership \cup {None}]
        /\ \A p \in Desks \X Persons : p # <<e, u>> => member'[p] = member[p]
        /\ job' \in [PeopleRequests -> Job]
        /\ \A o \in PeopleRequests : Undisturbed(o) \/ StageOK(job'[o], pool')
        /\ stale' \subseteq Persons
    BY <1>2, <1>3, PutsEffect
  <1>6. \A p \in Desks \X Persons : member'[p] # None => member[p] # None \/ pool'[p[2]] # None
    BY <1>2, <1>3, <1>5
  <1> QED BY <1>3, <1>4, <1>5, <1>6, WritesKeepPlaces DEF PlacesInv, PeopleStores

LEMMA FoundPlaces ==
  ASSUME PlacesInv, NEW e \in Desks, NEW u \in Persons, Found(e, u)
  PROVE  PlacesInv'
  <1> DEFINE n == pool[u].name
             m == [role |-> "provider", name |-> n]
  <1>1. pool[u] # None /\ n \in PersonNames
    BY DEF Found, IsProvider, PlacesInv, PeopleStores, Account
  <1>2. m \in Membership
    BY <1>1 DEF Membership
  <1>3. /\ member' = [member EXCEPT ![<<e, u>>] = m] /\ Named(u, n)
        /\ job' = [o \in PeopleRequests |-> Noticing(u, n, o)]
        /\ UNCHANGED <<pool, staff, profile>>
    BY DEF Found
  <1> HIDE DEF m, n
  <1>4. /\ member' \in [Desks \X Persons -> Membership \cup {None}]
        /\ \A p \in Desks \X Persons : p # <<e, u>> => member'[p] = member[p]
    BY <1>2, <1>3 DEF PlacesInv, PeopleStores
  <1>5. job' \in [PeopleRequests -> Job]
    BY <1>3, NoticingIsJob DEF PlacesInv
  <1>6. \A o \in PeopleRequests : Undisturbed(o)
    BY <1>3, NoticingUndisturbs
  <1>7. stale' \subseteq Persons
    BY <1>3, NamedIsTyped DEF PlacesInv
  <1>8. PoolGrows
    BY <1>3 DEF PoolGrows
  <1>9. \A p \in Desks \X Persons : member'[p] # None => member[p] # None \/ pool'[p[2]] # None
    BY <1>1, <1>3, <1>4
  <1> QED BY <1>3, <1>4, <1>5, <1>6, <1>7, <1>8, <1>9, WritesKeepPlaces DEF PlacesInv, PeopleStores

-----------------------------------------------------------------------------
(* The steps of an onboarding.                                             *)

\* A row that is to be renamed is there: what the step does to it.
LEMMA RenameEffect ==
  ASSUME PlacesInv, NamesInv, NEW r \in PeopleRequests, NEW e \in Desks,
         Rename(r, e)
  PROVE  /\ job[r] \in Job /\ job[r].kind = "onboard" /\ job[r].who \in Persons
         /\ job[r].name \in PersonNames /\ RowsOf(job[r], job[r].who)
         /\ member' \in [Desks \X Persons -> Membership \cup {None}]
         /\ member[<<e, job[r].who>>] # None /\ member'[<<e, job[r].who>>] # None
         /\ member'[<<e, job[r].who>>].name = job[r].name
         /\ \A p \in Desks \X Persons : p # <<e, job[r].who>> => member'[p] = member[p]
  <1> DEFINE u == job[r].who
             n == job[r].name
             m == [member[<<e, u>>] EXCEPT !.name = n]
  <1>1. job[r] \in Job /\ StageOK(job[r], pool) /\ job[r].at = "rename" /\ e \in job[r].todo
    BY DEF Rename, PlacesInv, PeopleStores
  <1>2. job[r].kind = "onboard" /\ u \in Persons /\ n \in PersonNames
    BY <1>1 DEF StageOK
  <1>3. RowsOf(job[r], u)
    BY <1>2 DEF NamesInv, Onboards
  <1>4. member[<<e, u>>] # None
    BY <1>1, <1>3 DEF RowsOf
  <1>5. member[<<e, u>>] \in Membership
    BY <1>2, <1>4 DEF PlacesInv, PeopleStores
  <1>6. m \in Membership /\ m.name = n
    BY <1>2, <1>5 DEF Membership
  <1>7. m # None
    BY <1>6, PeopleConstants
  <1>8. member' = [member EXCEPT ![<<e, u>>] = m]
    BY DEF Rename
  <1> HIDE DEF m
  <1>9. /\ member' \in [Desks \X Persons -> Membership \cup {None}]
        /\ member'[<<e, u>>] = m
        /\ \A p \in Desks \X Persons : p # <<e, u>> => member'[p] = member[p]
    BY <1>2, <1>6, <1>8 DEF PlacesInv, PeopleStores
  <1> QED BY <1>1, <1>2, <1>3, <1>4, <1>6, <1>7, <1>9

LEMMA RenamePlaces ==
  ASSUME PlacesInv, NamesInv, NEW r \in PeopleRequests, NEW e \in Desks,
         Rename(r, e)
  PROVE  PlacesInv'
  <1> DEFINE u == job[r].who
             w == [job[r] EXCEPT !.todo = @ \ {e}]
  <1>1. /\ job[r] \in Job /\ u \in Persons
        /\ member' \in [Desks \X Persons -> Membership \cup {None}]
        /\ member[<<e, u>>] # None
        /\ \A p \in Desks \X Persons : p # <<e, u>> => member'[p] = member[p]
    BY RenameEffect
  <1>2. Continues(r, w) /\ UNCHANGED <<pool, staff, profile, stale>>
    BY DEF Rename
  <1>3. w \in Job /\ StageOK(w, pool)
    BY <1>1 DEF PlacesInv, Rename, StageOK, Job, Free
  <1> HIDE DEF w
  <1>4. job' \in [PeopleRequests -> Job]
    BY <1>2, <1>3 DEF Continues, PlacesInv, PeopleStores
  <1>5. \A o \in PeopleRequests : Undisturbed(o) \/ StageOK(job'[o], pool')
    BY <1>2, <1>3 DEF Continues, Undisturbed, PlacesInv, PeopleStores
  <1>6. PoolGrows
    BY <1>2 DEF PoolGrows
  <1>7. \A p \in Desks \X Persons : member'[p] # None => member[p] # None \/ pool'[p[2]] # None
    BY <1>1
  <1> QED BY <1>1, <1>2, <1>4, <1>5, <1>6, <1>7, WritesKeepPlaces DEF PlacesInv, PeopleStores

LEMMA DirectoryEffect ==
  ASSUME PlacesInv, NEW r \in PeopleRequests, PutInDirectory(r)
  PROVE  /\ job[r] \in Job /\ StageOK(job[r], pool)
         /\ job[r].kind = "onboard" /\ job[r].who \in Persons
         /\ staff' \in [Persons -> PersonNames \cup {None}]
         /\ \A o \in Persons : staff'[o] # None => staff[o] # None \/ IsProvider(o)
         /\ Continues(r, [job[r] EXCEPT !.at = "sync"])
         /\ UNCHANGED <<pool, member, profile>>
  <1> DEFINE u == job[r].who
             n == job[r].name
  <1>1. job[r] \in Job /\ StageOK(job[r], pool) /\ job[r].at = "rename"
    BY DEF PutInDirectory, PlacesInv, PeopleStores
  <1>2. job[r].kind = "onboard" /\ u \in Persons /\ n \in PersonNames /\ pool[u] # None
    BY <1>1 DEF StageOK
  <1>3. job[r].role = "provider" => IsProvider(u)
    BY <1>1, <1>2, PeopleConstants DEF StageOK, IsProvider, Job
  <1>4. staff' = staff \/ (IsProvider(u) /\ staff' = [staff EXCEPT ![u] = n])
    BY <1>3 DEF PutInDirectory
  <1>5. /\ staff' \in [Persons -> PersonNames \cup {None}]
        /\ \A o \in Persons : staff'[o] # None => staff[o] # None \/ IsProvider(o)
    BY <1>2, <1>4 DEF PlacesInv, PeopleStores
  <1>6. Continues(r, [job[r] EXCEPT !.at = "sync"]) /\ UNCHANGED <<pool, member, profile>>
    BY DEF PutInDirectory
  <1> QED BY <1>1, <1>2, <1>5, <1>6

LEMMA DirectoryPlaces ==
  ASSUME PlacesInv, NEW r \in PeopleRequests, PutInDirectory(r)
  PROVE  PlacesInv'
  <1> DEFINE w == [job[r] EXCEPT !.at = "sync"]
  <1>1. /\ job[r] \in Job /\ StageOK(job[r], pool) /\ job[r].kind = "onboard"
        /\ staff' \in [Persons -> PersonNames \cup {None}]
        /\ \A o \in Persons : staff'[o] # None => staff[o] # None \/ IsProvider(o)
        /\ Continues(r, w)
        /\ UNCHANGED <<pool, member, profile>>
    BY DirectoryEffect
  <1>2. w \in Job /\ StageOK(w, pool)
    <2>1. job[r].at = "rename"
      BY DEF PutInDirectory
    <2> QED BY <1>1, <2>1 DEF Job, JobStages, StageOK
  <1> HIDE DEF w
  <1>3. job' \in [PeopleRequests -> Job]
    BY <1>1, <1>2 DEF Continues, PlacesInv, PeopleStores
  <1>4. \A o \in PeopleRequests : Undisturbed(o) \/ StageOK(job'[o], pool')
    BY <1>1, <1>2 DEF Continues, Undisturbed, PlacesInv, PeopleStores
  <1>5. stale' \subseteq Persons
    BY DEF PutInDirectory, PlacesInv, PeopleStores
  <1>6. PoolGrows /\ \A o \in Persons : staff'[o] # None => staff[o] # None \/ IsProvider(o)'
    BY <1>1 DEF IsProvider, PoolGrows
  <1> QED BY <1>1, <1>3, <1>4, <1>5, <1>6, WritesKeepPlaces DEF PlacesInv, PeopleStores

LEMMA SyncEffect ==
  ASSUME PlacesInv, NEW r \in PeopleRequests, NEW synced \in BOOLEAN, SyncName(r, synced)
  PROVE  /\ pool' \in [Persons -> Account \cup {None}]
         /\ PoolGrows
         /\ \A o \in Persons : IsProvider(o)' => IsProvider(o)
         /\ Continues(r, Free)
         /\ UNCHANGED <<member, staff, profile, stale>>
  <1> DEFINE u == job[r].who
             n == job[r].name
             a == [pool[u] EXCEPT !.name = n]
  <1>1. job[r] \in Job /\ StageOK(job[r], pool) /\ job[r].at = "sync"
    BY DEF SyncName, PlacesInv, PeopleStores
  <1>2. u \in Persons /\ n \in PersonNames /\ pool[u] # None
    BY <1>1 DEF StageOK
  <1>3. pool[u] \in Account
    BY <1>2 DEF PlacesInv, PeopleStores
  <1>4. a \in Account /\ a.groups = pool[u].groups
    BY <1>2, <1>3 DEF Account
  <1>5. a # None
    BY <1>4, PeopleConstants
  <1>6. pool' = pool \/ pool' = [pool EXCEPT ![u] = a]
    BY DEF SyncName
  <1> HIDE DEF a
  <1>7. /\ pool' \in [Persons -> Account \cup {None}]
        /\ \A o \in Persons : pool[o] # None => pool'[o] # None /\ pool'[o].groups = pool[o].groups
        /\ \A o \in Persons : pool[o] = None => pool'[o] = None
    BY <1>2, <1>4, <1>5, <1>6 DEF PlacesInv, PeopleStores
  <1>8. PoolGrows /\ \A o \in Persons : IsProvider(o)' => IsProvider(o)
    BY <1>7 DEF PoolGrows, IsProvider
  <1>9. Continues(r, Free) /\ UNCHANGED <<member, staff, profile, stale>>
    BY DEF SyncName, Over
  <1> QED BY <1>7, <1>8, <1>9

LEMMA SyncPlaces ==
  ASSUME PlacesInv, NEW r \in PeopleRequests, NEW synced \in BOOLEAN, SyncName(r, synced)
  PROVE  PlacesInv'
  <1>1. /\ pool' \in [Persons -> Account \cup {None}]
        /\ PoolGrows
        /\ Continues(r, Free)
        /\ UNCHANGED <<member, staff, profile, stale>>
    BY SyncEffect
  <1>2. job' \in [PeopleRequests -> Job]
    BY <1>1, FreeIsJob DEF Continues, PlacesInv, PeopleStores
  <1>3. \A o \in PeopleRequests : Undisturbed(o) \/ StageOK(job'[o], pool')
    BY <1>1, FreeIsJob DEF Continues, Undisturbed, PlacesInv, PeopleStores
  <1> QED BY <1>1, <1>2, <1>3, WritesKeepPlaces DEF PlacesInv, PeopleStores

LEMMA InitPlaces ==
  ASSUME PeopleInit
  PROVE  PlacesInv
  <1>1. PeopleStores
    BY FreeIsJob DEF PeopleInit, PeopleStores
  <1>2. \A r \in PeopleRequests : StageOK(job[r], pool)
    BY FreeIsJob DEF PeopleInit
  <1> QED BY <1>1, <1>2 DEF PeopleInit, PlacesInv, RowsHaveAccounts, DirectoryIsStaff

LEMMA PlacesStep ==
  ASSUME PlacesInv, NamesInv, PeopleNext
  PROVE  PlacesInv'
  BY StartInvitePlaces, StartHirePlaces, StartOnboardPlaces, StartAddPlaces, LookUpPlaces,
     ListPlaces, FailsPlaces, CreateAccountPlaces, AddToGroupPlaces, PutRowPlaces,
     EnsureGroupPlaces, JoinPlaces, FoundPlaces, RenamePlaces, DirectoryPlaces, SyncPlaces, Zenon
  DEF PeopleNext

-----------------------------------------------------------------------------
(* Who created an account stays alone with it until the row is put.        *)

LEMMA UndisturbedFields ==
  ASSUME PeopleStores, NEW o \in PeopleRequests, Undisturbed(o)
  PROVE  /\ job'[o].at = job[o].at /\ job'[o].kind = job[o].kind /\ job'[o].who = job[o].who
         /\ job'[o].name = job[o].name /\ job'[o].todo = job[o].todo
         /\ job'[o].clear => job[o].clear
  BY DEF Undisturbed, PeopleStores, Job

\* No request becomes the creator of an account, and no account with a creator
\* becomes one of the staff.
LEMMA CreatorsKept ==
  ASSUME CreatorsInv,
         \A o \in PeopleRequests : \A u \in Persons : Creates(job'[o], u) =>
           /\ Creates(job[o], u) /\ job'[o].kind = job[o].kind
           /\ job'[o].kind = "invite" /\ IsStaff(u)' => IsStaff(u)
  PROVE  CreatorsInv'
  BY DEF CreatorsInv

\* Neither the pool nor the directory changes, and r goes where nothing is
\* created.
LEMMA QuietCreators ==
  ASSUME CreatorsInv, PeopleStores, NEW r \in PeopleRequests,
         \A o \in PeopleRequests \ {r} : Undisturbed(o),
         job'[r].at \notin {"group", "row"},
         UNCHANGED <<pool, staff>>
  PROVE  CreatorsInv'
  BY CreatorsKept, UndisturbedFields DEF Creates, IsStaff, IsProvider

\* Where a request that starts, or looks, goes on.
LEMMA MovesUndisturbed ==
  ASSUME PeopleStores, NEW r \in PeopleRequests, NEW w, Continues(r, w)
  PROVE  /\ \A o \in PeopleRequests \ {r} : job'[o] = job[o] /\ Undisturbed(o)
         /\ job'[r] = w
  BY DEF Continues, Undisturbed, PeopleStores

\* An onboarding that starts, and what the others learn of it.
LEMMA StartOnboardEffect ==
  ASSUME NEW r \in PeopleRequests, NEW u \in Persons, NEW n \in PersonNames, StartOnboard(r, u, n)
  PROVE  /\ job'[r].at = "list" /\ job'[r].kind = "onboard" /\ job'[r].who = u
         /\ job'[r].name = n /\ job'[r].todo = {}
         /\ job'[r].clear <=> \A o \in PeopleRequests : ~Contradicts(o, u, n)
         /\ \A o \in PeopleRequests \ {r} : job'[o] = Noticing(u, n, o)
         /\ job[r] = Free
  <1> DEFINE role == IF IsProvider(u) THEN "provider" ELSE None
             clear == \A o \in PeopleRequests : ~Contradicts(o, u, n)
             w == [Free EXCEPT !.at = "list", !.kind = "onboard", !.who = u, !.name = n,
                               !.role = role, !.clear = clear]
  <1>1. job' = [o \in PeopleRequests |-> IF o = r THEN w ELSE Noticing(u, n, o)]
    BY Zenon DEF StartOnboard
  <1>2. job[r] = Free
    BY DEF StartOnboard
  <1> HIDE DEF role, clear
  <1>3. w.at = "list" /\ w.kind = "onboard" /\ w.who = u /\ w.name = n /\ w.todo = {}
        /\ w.clear = clear
    BY DEF Free
  <1> HIDE DEF w
  <1>4. job'[r] = w /\ \A o \in PeopleRequests \ {r} : job'[o] = Noticing(u, n, o)
    BY <1>1
  <1>5. job'[r].clear <=> clear
    BY <1>3, <1>4
  <1> USE DEF clear
  <1> QED BY <1>2, <1>3, <1>4, <1>5

LEMMA StartCreators ==
  ASSUME CreatorsInv, PlacesInv, NEW r \in PeopleRequests,
         \/ \E e \in Desks, u \in Persons, n \in PersonNames : StartInvite(r, e, u, n)
         \/ \E u \in Persons, n \in PersonNames : StartHire(r, u, n) \/ StartOnboard(r, u, n)
         \/ \E e \in Desks, u \in Persons, readable \in BOOLEAN : StartAdd(r, e, u, readable)
         \/ \E ok \in BOOLEAN : LookUpAccount(r, ok)
         \/ ListRows(r)
         \/ Fails(r)
  PROVE  CreatorsInv'
  <1> DEFINE Elsewhere == /\ \A o \in PeopleRequests \ {r} : Undisturbed(o)
                          /\ job'[r].at \notin {"group", "row"}
  <1>1. PeopleStores /\ job[r] \in Job
    BY DEF PlacesInv, PeopleStores
  <1>2. Elsewhere
    <2>0. ASSUME NEW w, Continues(r, w), w.at \notin {"group", "row"}
          PROVE  Elsewhere
      BY <1>1, <2>0, MovesUndisturbed
    <2>1. ASSUME NEW e \in Desks, NEW u \in Persons, NEW n \in PersonNames, StartInvite(r, e, u, n)
          PROVE  Elsewhere
      BY <2>0, <2>1 DEF StartInvite, Start, Free
    <2>2. ASSUME NEW u \in Persons, NEW n \in PersonNames, StartHire(r, u, n)
          PROVE  Elsewhere
      BY <2>0, <2>2 DEF StartHire, Start, Free
    <2>3. ASSUME NEW u \in Persons, NEW n \in PersonNames, StartOnboard(r, u, n)
          PROVE  Elsewhere
      BY <2>3, StartOnboardEffect, NoticingUndisturbs
    <2>4. ASSUME NEW e \in Desks, NEW u \in Persons, NEW readable \in BOOLEAN,
                 StartAdd(r, e, u, readable)
          PROVE  Elsewhere
      BY <2>0, <2>4 DEF StartAdd, Start, Free
    <2>5. ASSUME NEW ok \in BOOLEAN, LookUpAccount(r, ok)
          PROVE  Elsewhere
      <3> DEFINE u == job[r].who
                 n == IF pool[u].name # None THEN pool[u].name ELSE job[r].name
                 w == [job[r] EXCEPT !.at = "join", !.clear = ~IsStaff(u), !.name = n]
      <3>1. Continues(r, Free) \/ Continues(r, w)
        BY <2>5 DEF LookUpAccount, Over
      <3>2. w.at = "join"
        BY <1>1 DEF Job
      <3> HIDE DEF w
      <3> QED BY <1>1, <3>1, <3>2, MovesUndisturbed DEF Free
    <2>6. ASSUME ListRows(r)
          PROVE  Elsewhere
      <3> DEFINE w == [job[r] EXCEPT !.at = "rename",
                                     !.todo = {e \in Desks : IsMember(e, job[r].who)}]
      <3>1. Continues(r, w)
        BY <2>6 DEF ListRows
      <3>2. w.at = "rename"
        BY <1>1 DEF Job
      <3> HIDE DEF w
      <3> QED BY <2>0, <3>1, <3>2
    <2>7. ASSUME Fails(r)
          PROVE  Elsewhere
      BY <2>0, <2>7 DEF Fails, Over, Free
    <2> QED BY <2>1, <2>2, <2>3, <2>4, <2>5, <2>6, <2>7, Zenon
  <1>3. UNCHANGED <<pool, staff>>
    BY DEF StartInvite, StartHire, StartOnboard, StartAdd, LookUpAccount, ListRows, Fails
  <1> QED BY <1>1, <1>2, <1>3, QuietCreators

\* Nobody else is creating the account of an address that had none.
LEMMA CreateAccountCreators ==
  ASSUME CreatorsInv, PlacesInv, NEW r \in PeopleRequests, CreateAccount(r)
  PROVE  CreatorsInv'
  <1> DEFINE u == job[r].who
  <1>1. PeopleStores /\ job[r] \in Job /\ StageOK(job[r], pool) /\ job[r].at = "account"
    BY DEF CreateAccount, PlacesInv, PeopleStores
  <1>2. u \in Persons
    BY <1>1 DEF StageOK
  <1>3. CASE pool[u] = None
    <2> DEFINE a == [groups |-> {}, name |-> job[r].name]
    <2>1. pool' = [pool EXCEPT ![u] = a] /\ Continues(r, [job[r] EXCEPT !.at = "group"])
          /\ UNCHANGED staff
      BY <1>3 DEF CreateAccount
    <2>2. /\ \A o \in PeopleRequests \ {r} : job'[o] = job[o]
          /\ job'[r].who = u
      BY <1>1, <2>1, MovesUndisturbed DEF Job
    <2>3. \A o \in PeopleRequests : ~Creates(job[o], u)
      BY <1>3 DEF Creates, PlacesInv, StageOK
    <2>4. pool'[u].groups = {} /\ \A o \in Persons \ {u} : pool'[o] = pool[o]
      BY <1>2, <2>1 DEF PlacesInv, PeopleStores
    <2>5. staff'[u] = None
      BY <1>2, <1>3, <2>1 DEF PlacesInv, DirectoryIsStaff, IsProvider
    <2>6. \A v \in Persons : v = u => ~IsStaff(v)'
      BY <2>4, <2>5 DEF IsStaff, IsProvider
    <2>7. \A o \in Persons \ {u} : IsStaff(o)' => IsStaff(o)
      BY <2>1, <2>4 DEF IsStaff, IsProvider
    <2>8. \A o \in PeopleRequests : \A v \in Persons : Creates(job'[o], v) =>
             \/ o = r /\ v = u
             \/ v # u /\ Creates(job[o], v) /\ job'[o] = job[o]
      <3> SUFFICES ASSUME NEW o \in PeopleRequests, NEW v \in Persons, Creates(job'[o], v)
                   PROVE  \/ o = r /\ v = u
                          \/ v # u /\ Creates(job[o], v) /\ job'[o] = job[o]
        OBVIOUS
      <3>1. CASE o = r
        BY <2>2, <3>1 DEF Creates
      <3>2. CASE o # r
        <4>1. job'[o] = job[o] /\ Creates(job[o], v)
          BY <2>2, <3>2
        <4>2. v # u
          BY <2>3, <4>1
        <4> QED BY <4>1, <4>2
      <3> QED BY <3>1, <3>2
    <2> QED BY <2>6, <2>7, <2>8 DEF CreatorsInv
  <1>4. CASE pool[u] # None
    <2>1. Continues(r, Taken(job[r])) /\ UNCHANGED <<pool, staff>>
      BY <1>4 DEF CreateAccount
    <2>2. Taken(job[r]).at \notin {"group", "row"}
      BY <1>1 DEF Taken, Free, Job
    <2> QED BY <1>1, <2>1, <2>2, MovesUndisturbed, QuietCreators
  <1> QED BY <1>3, <1>4

LEMMA AddToGroupCreators ==
  ASSUME CreatorsInv, PlacesInv, NEW r \in PeopleRequests, AddToGroup(r)
  PROVE  CreatorsInv'
  <1> DEFINE u == job[r].who
  <1>1. PeopleStores /\ job[r] \in Job /\ StageOK(job[r], pool) /\ job[r].at = "group"
    BY DEF AddToGroup, PlacesInv, PeopleStores
  <1>2. u \in Persons /\ pool[u] # None /\ job[r].role \in {"client", "provider"}
    BY <1>1 DEF StageOK
  <1>3. pool' = [pool EXCEPT ![u].groups = @ \cup {job[r].role}]
        /\ Continues(r, [job[r] EXCEPT !.at = "row"]) /\ UNCHANGED staff
    BY DEF AddToGroup
  <1>4. /\ pool'[u].groups = pool[u].groups \cup {job[r].role}
        /\ \A o \in Persons \ {u} : pool'[o] = pool[o]
    BY <1>1, <1>2, <1>3, GroupAdded
  <1>5. /\ \A o \in PeopleRequests \ {r} : job'[o] = job[o]
        /\ job'[r].who = u /\ job'[r].kind = job[r].kind
    BY <1>1, <1>3, MovesUndisturbed DEF Job
  <1>6. \A v \in Persons : v = u /\ job[r].kind = "invite" /\ IsStaff(v)' => IsStaff(v)
    BY <1>1, <1>2, <1>3, <1>4 DEF StageOK, IsStaff, IsProvider
  <1>7. \A o \in Persons \ {u} : IsStaff(o)' => IsStaff(o)
    BY <1>3, <1>4 DEF IsStaff, IsProvider
  <1>8. Creates(job[r], u) /\ \A o \in PeopleRequests : Creates(job[o], u) => o = r
    BY <1>1, <1>2 DEF Creates, CreatorsInv
  <1>9. ASSUME NEW o \in PeopleRequests, NEW v \in Persons, Creates(job'[o], v)
        PROVE  /\ Creates(job[o], v) /\ job'[o].kind = job[o].kind
               /\ job'[o].kind = "invite" /\ IsStaff(v)' => IsStaff(v)
    <2>1. CASE o = r
      BY <1>5, <1>6, <1>8, <1>9, <2>1 DEF Creates
    <2>2. CASE o # r
      BY <1>5, <1>7, <1>8, <1>9, <2>2
    <2> QED BY <2>1, <2>2
  <1> QED BY <1>9, CreatorsKept

LEMMA PutRowCreators ==
  ASSUME CreatorsInv, PlacesInv, NEW r \in PeopleRequests, PutRow(r)
  PROVE  CreatorsInv'
  <1> DEFINE u == job[r].who
             n == job[r].name
  <1>1. PeopleStores /\ job[r] \in Job /\ StageOK(job[r], pool) /\ job[r].at = "row"
    BY DEF PutRow, PlacesInv, PeopleStores
  <1>2. u \in Persons
    BY <1>1 DEF StageOK
  <1>3. UNCHANGED pool
    BY DEF PutRow
  <1>4. CASE job[r].kind = "hire"
    <2>1. staff' = [staff EXCEPT ![u] = n] /\ Continues(r, Free)
      BY <1>4 DEF PutRow, Over
    <2>2. /\ \A o \in PeopleRequests \ {r} : job'[o] = job[o]
          /\ job'[r] = Free
      BY <1>1, <2>1, MovesUndisturbed
    <2>3. \A o \in Persons \ {u} : IsStaff(o)' => IsStaff(o)
      BY <1>3, <2>1 DEF PeopleStores, PlacesInv, IsStaff, IsProvider
    <2>4. \A o \in PeopleRequests : Creates(job[o], u) => o = r
      BY <1>1, <1>2 DEF Creates, CreatorsInv
    <2>5. \A o \in PeopleRequests : \A v \in Persons : Creates(job'[o], v) =>
            o # r /\ v # u
      BY <2>2, <2>4 DEF Creates, Free
    <2> QED BY <2>2, <2>3, <2>5, CreatorsKept
  <1>5. CASE job[r].kind # "hire"
    <2>1. UNCHANGED staff /\ OverNoticed(r, u, n)
      BY <1>5 DEF PutRow
    <2>2. job'[r] = Free /\ \A o \in PeopleRequests \ {r} : Undisturbed(o)
      BY <2>1, NoticingUndisturbs DEF OverNoticed
    <2> QED BY <1>1, <1>3, <2>1, <2>2, QuietCreators DEF Free
  <1> QED BY <1>4, <1>5

\* A customer's group makes nobody one of the staff.
LEMMA EnsureGroupCreators ==
  ASSUME CreatorsInv, PlacesInv, NEW r \in PeopleRequests,
         NEW grouped \in BOOLEAN, EnsureGroup(r, grouped)
  PROVE  CreatorsInv'
  <1> DEFINE w == [job[r] EXCEPT !.at = "seat"]
  <1>1. /\ job[r] \in Job /\ Continues(r, w)
        /\ \A o \in Persons : IsProvider(o)' => IsProvider(o)
        /\ UNCHANGED staff
    BY EnsureGroupEffect
  <1>2. w.at = "seat"
    BY <1>1 DEF Job
  <1> HIDE DEF w
  <1>3. /\ \A o \in PeopleRequests \ {r} : job'[o] = job[o]
        /\ job'[r] = w
    BY <1>1, MovesUndisturbed DEF PlacesInv
  <1>4. \A o \in Persons : IsStaff(o)' => IsStaff(o)
    BY <1>1 DEF IsStaff
  <1>5. \A o \in PeopleRequests : \A v \in Persons : Creates(job'[o], v) => o # r
    BY <1>2, <1>3 DEF Creates
  <1> QED BY <1>3, <1>4, <1>5, CreatorsKept

LEMMA JoinCreators ==
  ASSUME CreatorsInv, PlacesInv, NEW r \in PeopleRequests, Join(r)
  PROVE  CreatorsInv'
  <1>1. OverNoticed(r, job[r].who, job[r].name) /\ UNCHANGED <<pool, staff>>
    BY DEF Join
  <1>2. job'[r] = Free /\ \A o \in PeopleRequests \ {r} : Undisturbed(o)
    BY <1>1, NoticingUndisturbs DEF OverNoticed
  <1> QED BY <1>1, <1>2, QuietCreators DEF Free, PlacesInv

LEMMA FoundCreators ==
  ASSUME CreatorsInv, PlacesInv, NEW e \in Desks, NEW u \in Persons, Found(e, u)
  PROVE  CreatorsInv'
  <1>1. \A o \in PeopleRequests : Undisturbed(o)
    BY NoticingUndisturbs DEF Found
  <1>2. UNCHANGED <<pool, staff>>
    BY DEF Found
  <1> QED BY <1>1, <1>2, UndisturbedFields, CreatorsKept
          DEF Creates, IsStaff, IsProvider, PlacesInv

LEMMA RenameCreators ==
  ASSUME CreatorsInv, PlacesInv, NEW r \in PeopleRequests, NEW e \in Desks, Rename(r, e)
  PROVE  CreatorsInv'
  <1>1. PeopleStores /\ job[r] \in Job /\ job[r].at = "rename"
    BY DEF Rename, PlacesInv, PeopleStores
  <1>2. Continues(r, [job[r] EXCEPT !.todo = @ \ {e}]) /\ UNCHANGED <<pool, staff>>
    BY DEF Rename
  <1>3. /\ \A o \in PeopleRequests \ {r} : Undisturbed(o)
        /\ job'[r].at = "rename"
    BY <1>1, <1>2, MovesUndisturbed DEF Job
  <1> QED BY <1>1, <1>2, <1>3, QuietCreators

LEMMA DirectoryCreators ==
  ASSUME CreatorsInv, PlacesInv, NEW r \in PeopleRequests, PutInDirectory(r)
  PROVE  CreatorsInv'
  <1> DEFINE w == [job[r] EXCEPT !.at = "sync"]
  <1>1. /\ job[r] \in Job
        /\ \A o \in Persons : staff'[o] # None => staff[o] # None \/ IsProvider(o)
        /\ Continues(r, w)
        /\ UNCHANGED pool
    BY DirectoryEffect
  <1>2. w.at = "sync"
    BY <1>1 DEF Job
  <1> HIDE DEF w
  <1>3. /\ \A o \in PeopleRequests \ {r} : job'[o] = job[o]
        /\ job'[r] = w
    BY <1>1, MovesUndisturbed DEF PlacesInv
  <1>4. \A o \in Persons : IsStaff(o)' => IsStaff(o)
    BY <1>1 DEF IsStaff, IsProvider
  <1>5. \A o \in PeopleRequests : \A v \in Persons : Creates(job'[o], v) => o # r
    BY <1>2, <1>3 DEF Creates
  <1> QED BY <1>3, <1>4, <1>5, CreatorsKept

LEMMA SyncCreators ==
  ASSUME CreatorsInv, PlacesInv, NEW r \in PeopleRequests,
         NEW synced \in BOOLEAN, SyncName(r, synced)
  PROVE  CreatorsInv'
  <1>1. /\ \A o \in Persons : IsProvider(o)' => IsProvider(o)
        /\ Continues(r, Free)
        /\ UNCHANGED staff
    BY SyncEffect
  <1>2. /\ \A o \in PeopleRequests \ {r} : job'[o] = job[o]
        /\ job'[r] = Free
    BY <1>1, MovesUndisturbed DEF PlacesInv
  <1>3. \A o \in Persons : IsStaff(o)' => IsStaff(o)
    BY <1>1 DEF IsStaff
  <1>4. \A o \in PeopleRequests : \A v \in Persons : Creates(job'[o], v) => o # r
    BY <1>2 DEF Creates, Free
  <1> QED BY <1>2, <1>3, <1>4, CreatorsKept

LEMMA CreatorsStep ==
  ASSUME PlacesInv, CreatorsInv, PeopleNext
  PROVE  CreatorsInv'
  BY StartCreators, CreateAccountCreators, AddToGroupCreators, PutRowCreators,
     EnsureGroupCreators, JoinCreators, FoundCreators, RenameCreators, DirectoryCreators,
     SyncCreators, Zenon DEF PeopleNext

-----------------------------------------------------------------------------
(* The names of the rows and the name of the profile.                      *)

\* What a step has to keep for the names: an onboarding that goes on gives the
\* name it gave, the rows are as it says, and a person whose names follow the
\* profile has them follow it, with every onboarding agreeing.
LEMMA NamesKept ==
  ASSUME NamesInv, UNCHANGED profile,
         \A o \in PeopleRequests : \A v \in Persons : Onboards(job'[o], v) =>
           /\ Onboards(job[o], v) /\ job'[o].name = job[o].name
           /\ job'[o].clear => job[o].clear,
         \A o \in PeopleRequests : \A v \in Persons : Onboards(job'[o], v) => RowsOf(job[o], v)',
         \A v \in Persons \ stale' : profile[v] # None =>
           Agreed(v) /\ \A e \in Desks : RowSays(e, v, profile[v])'
  PROVE  NamesInv'
  <1>1. \A v \in Persons : Agreed(v) => Agreed(v)'
    BY DEF Agreed
  <1>2. \A o \in PeopleRequests : \A v \in Persons :
          Onboards(job'[o], v) /\ job'[o].clear => Agreed(v)
    BY DEF NamesInv
  <1>3. NamesFollowTheProfile'
    BY DEF NamesFollowTheProfile, IsMember, RowSays
  <1> QED BY <1>1, <1>2, <1>3 DEF NamesInv

\* The rows of whose names follow the profile say what the profile says.
LEMMA RowsFollow ==
  ASSUME NamesInv, NEW v \in Persons \ stale, profile[v] # None
  PROVE  Agreed(v) /\ \A e \in Desks : RowSays(e, v, profile[v])
  BY DEF NamesInv, NamesFollowTheProfile, RowSays, IsMember

\* No row, no profile and no history changes, and no onboarding begins or goes
\* on.
LEMMA QuietNames ==
  ASSUME NamesInv, UNCHANGED <<member, profile, stale>>,
         \A o \in PeopleRequests : job'[o] = job[o] \/ job'[o].kind # "onboard"
  PROVE  NamesInv'
  <1>1. \A o \in PeopleRequests : \A v \in Persons : Onboards(job'[o], v) =>
          Onboards(job[o], v) /\ job'[o] = job[o] /\ RowsOf(job[o], v)
    BY DEF NamesInv, Onboards
  <1>2. \A o \in PeopleRequests : \A v \in Persons : Onboards(job'[o], v) => RowsOf(job[o], v)'
    BY <1>1 DEF RowsOf, RowSays
  <1>3. \A v \in Persons \ stale' : profile[v] # None =>
          Agreed(v) /\ \A e \in Desks : RowSays(e, v, profile[v])'
    BY RowsFollow DEF RowSays
  <1> QED BY <1>1, <1>2, <1>3, NamesKept

LEMMA FreeIsNoOnboarding ==
  Free.kind # "onboard"
  BY PeopleConstants DEF Free

LEMMA QuietStepsNames ==
  ASSUME PlacesInv, NamesInv, NEW r \in PeopleRequests,
         \/ \E e \in Desks, u \in Persons, n \in PersonNames : StartInvite(r, e, u, n)
         \/ \E u \in Persons, n \in PersonNames : StartHire(r, u, n)
         \/ \E e \in Desks, u \in Persons, readable \in BOOLEAN : StartAdd(r, e, u, readable)
         \/ \E ok \in BOOLEAN : LookUpAccount(r, ok) \/ EnsureGroup(r, ok) \/ SyncName(r, ok)
         \/ CreateAccount(r)
         \/ AddToGroup(r)
         \/ PutRow(r) /\ job[r].kind = "hire"
         \/ Fails(r)
  PROVE  NamesInv'
  <1> DEFINE Elsewhere == /\ \A o \in PeopleRequests \ {r} : job'[o] = job[o]
                          /\ job'[r].kind # "onboard"
  <1>1. PeopleStores /\ job[r] \in Job /\ StageOK(job[r], pool)
    BY DEF PlacesInv, PeopleStores
  <1>2. UNCHANGED <<member, profile, stale>>
    BY DEF StartInvite, StartHire, StartAdd, LookUpAccount, CreateAccount, AddToGroup, PutRow,
           EnsureGroup, SyncName, Fails
  <1>3. Elsewhere
    <2>1. ASSUME NEW e \in Desks, NEW u \in Persons, NEW n \in PersonNames, StartInvite(r, e, u, n)
          PROVE  Elsewhere
      BY <1>1, <2>1 DEF StartInvite, Start, Continues, Free, PeopleStores
    <2>2. ASSUME NEW u \in Persons, NEW n \in PersonNames, StartHire(r, u, n)
          PROVE  Elsewhere
      BY <1>1, <2>2 DEF StartHire, Start, Continues, Free, PeopleStores
    <2>3. ASSUME NEW e \in Desks, NEW u \in Persons, NEW readable \in BOOLEAN,
                 StartAdd(r, e, u, readable)
          PROVE  Elsewhere
      BY <1>1, <2>3 DEF StartAdd, Start, Continues, Free, PeopleStores
    <2>4. ASSUME NEW ok \in BOOLEAN, LookUpAccount(r, ok)
          PROVE  Elsewhere
      <3> DEFINE u == job[r].who
                 n == IF pool[u].name # None THEN pool[u].name ELSE job[r].name
                 w == [job[r] EXCEPT !.at = "join", !.clear = ~IsStaff(u), !.name = n]
      <3>1. (Continues(r, Free) \/ Continues(r, w)) /\ job[r].at = "lookup"
        BY <2>4 DEF LookUpAccount, Over
      <3>2. w.kind = "invite"
        BY <1>1, <3>1 DEF Job, StageOK
      <3> HIDE DEF w
      <3> QED BY <1>1, <3>1, <3>2, MovesUndisturbed, FreeIsNoOnboarding
    <2>5. CASE CreateAccount(r)
      <3>1. PICK w : Continues(r, w) /\ w \in {[job[r] EXCEPT !.at = "group"],
                                          [job[r] EXCEPT !.at = "lookup"], Free}
        BY <2>5 DEF CreateAccount, Taken
      <3>2. job[r].kind \in {"invite", "hire"}
        BY <1>1, <2>5 DEF CreateAccount, StageOK
      <3>3. w.kind # "onboard"
        <4>1. [job[r] EXCEPT !.at = "group"].kind = job[r].kind
              /\ [job[r] EXCEPT !.at = "lookup"].kind = job[r].kind
          BY <1>1 DEF Job
        <4> QED BY <3>1, <3>2, <4>1, FreeIsNoOnboarding
      <3> QED BY <1>1, <3>1, <3>3, MovesUndisturbed
    <2>6. CASE AddToGroup(r)
      <3>1. Continues(r, [job[r] EXCEPT !.at = "row"]) /\ job[r].kind # "onboard"
        BY <1>1, <2>6 DEF AddToGroup, StageOK
      <3> QED BY <1>1, <3>1, MovesUndisturbed DEF Job
    <2>7. CASE PutRow(r) /\ job[r].kind = "hire"
      <3>1. Continues(r, Free)
        BY <2>7 DEF PutRow, Over
      <3> QED BY <1>1, <3>1, MovesUndisturbed, FreeIsNoOnboarding
    <2>8. CASE Fails(r)
      <3>1. Continues(r, Free)
        BY <2>8 DEF Fails, Over
      <3> QED BY <1>1, <3>1, MovesUndisturbed, FreeIsNoOnboarding
    <2>9. ASSUME NEW ok \in BOOLEAN, EnsureGroup(r, ok)
          PROVE  Elsewhere
      <3>1. Continues(r, [job[r] EXCEPT !.at = "seat"]) /\ job[r].kind # "onboard"
        BY <2>9, EnsureGroupEffect
      <3> QED BY <1>1, <3>1, MovesUndisturbed DEF Job
    <2>10. ASSUME NEW ok \in BOOLEAN, SyncName(r, ok)
          PROVE  Elsewhere
      <3>1. Continues(r, Free)
        BY <2>10 DEF SyncName, Over
      <3> QED BY <1>1, <3>1, MovesUndisturbed, FreeIsNoOnboarding
    <2> QED BY <2>1, <2>2, <2>3, <2>4, <2>5, <2>6, <2>7, <2>8, <2>9, <2>10, Zenon
  <1> QED BY <1>2, <1>3, QuietNames

\* What a request that goes on learns when the name n is put for u: an
\* onboarding of u that stays clear gives that name.
LEMMA NoticedFields ==
  ASSUME PeopleStores, NEW u, NEW n, NEW o \in PeopleRequests, NEW v \in Persons,
         job'[o] = Noticing(u, n, o), Onboards(job'[o], v)
  PROVE  /\ Onboards(job[o], v)
         /\ job'[o].at = job[o].at /\ job'[o].name = job[o].name /\ job'[o].todo = job[o].todo
         /\ job'[o].clear => job[o].clear
         /\ job'[o].clear /\ v = u => job[o].name = n
  <1>1. job[o] \in Job
    BY DEF PeopleStores
  <1>2. CASE Contradicts(o, u, n)
    <2>1. job'[o] = [job[o] EXCEPT !.clear = FALSE]
      BY <1>2 DEF Noticing
    <2> QED BY <1>1, <2>1 DEF Job, Onboards
  <1>3. CASE ~Contradicts(o, u, n)
    <2>1. job'[o] = job[o]
      BY <1>3 DEF Noticing
    <2> QED BY <1>3, <2>1 DEF Onboards, Contradicts
  <1> QED BY <1>2, <1>3

\* A row of u is put under the name n, and whoever onboards u under another
\* learns of it.
LEMMA RowPutNames ==
  ASSUME PlacesInv, NamesInv, NEW e \in Desks, NEW u \in Persons, NEW n,
         member'[<<e, u>>] # None, member'[<<e, u>>].name = n,
         \A p \in Desks \X Persons : p # <<e, u>> => member'[p] = member[p],
         \A o \in PeopleRequests : job'[o] = Free \/ job'[o] = Noticing(u, n, o),
         Named(u, n), UNCHANGED profile, Free.kind # "onboard"
  PROVE  NamesInv'
  <1>1. ASSUME NEW o \in PeopleRequests, NEW v \in Persons, Onboards(job'[o], v)
        PROVE  /\ Onboards(job[o], v)
               /\ job'[o].at = job[o].at /\ job'[o].name = job[o].name
               /\ job'[o].todo = job[o].todo
               /\ job'[o].clear => job[o].clear
               /\ job'[o].clear /\ v = u => job[o].name = n
    <2>1. job'[o] = Noticing(u, n, o)
      BY <1>1 DEF Onboards
    <2> QED BY <1>1, <2>1, NoticedFields DEF PlacesInv
  <1>2. \A d \in Desks : \A v \in Persons :
          /\ member[<<d, v>>] # None => member'[<<d, v>>] # None
          /\ <<d, v>> # <<e, u>> => member'[<<d, v>>] = member[<<d, v>>]
    <2> TAKE d \in Desks
    <2> TAKE v \in Persons
    <2>1. <<d, v>> \in Desks \X Persons
      OBVIOUS
    <2> QED BY <2>1
  <1>3. stale \subseteq stale' /\ (u \in stale' \/ profile[u] \in {None, n})
    BY DEF Named, PlacesInv, PeopleStores
  <1>4. ASSUME NEW r \in PeopleRequests, NEW v \in Persons, Onboards(job'[r], v)
        PROVE  RowsOf(job[r], v)'
    <2>1. RowsOf(job[r], v) /\ job[r] \in Job
      BY <1>1, <1>4 DEF NamesInv, PlacesInv, PeopleStores
    <2>2. \A d \in job'[r].todo : job'[r].at = "rename" => member'[<<d, v>>] # None
      BY <1>1, <1>2, <1>4, <2>1 DEF RowsOf, Job
    <2>3. ASSUME job'[r].at = "rename", job'[r].clear, NEW d \in Desks \ job'[r].todo,
                 member'[<<d, v>>] # None
          PROVE  member'[<<d, v>>].name = job'[r].name
      <3>1. job[r].clear /\ job[r].at = "rename" /\ d \notin job[r].todo
        BY <1>1, <1>4, <2>3
      <3>2. CASE d = e /\ v = u
        BY <1>1, <1>4, <2>3, <3>2
      <3>3. CASE <<d, v>> # <<e, u>>
        BY <1>1, <1>2, <1>4, <2>1, <2>3, <3>1, <3>3 DEF RowsOf, RowSays
      <3> QED BY <3>2, <3>3
    <2> QED BY <2>2, <2>3 DEF RowsOf, RowSays
  <1>5. ASSUME NEW v \in Persons \ stale', profile[v] # None
        PROVE  Agreed(v) /\ \A d \in Desks : RowSays(d, v, profile[v])'
    <2>1. Agreed(v) /\ \A d \in Desks : RowSays(d, v, profile[v])
      BY <1>3, <1>5, RowsFollow
    <2>2. ASSUME NEW d \in Desks, member'[<<d, v>>] # None
          PROVE  member'[<<d, v>>].name = profile[v]
      <3>1. CASE d = e /\ v = u
        BY <1>3, <1>5, <3>1
      <3>2. CASE <<d, v>> # <<e, u>>
        BY <1>2, <2>1, <2>2, <3>2 DEF RowSays
      <3> QED BY <3>1, <3>2
    <2> QED BY <2>1, <2>2 DEF RowSays
  <1>6. \A o \in PeopleRequests : \A v \in Persons : Onboards(job'[o], v) =>
          /\ Onboards(job[o], v) /\ job'[o].name = job[o].name
          /\ job'[o].clear => job[o].clear
    BY <1>1
  <1>7. \A o \in PeopleRequests : \A v \in Persons : Onboards(job'[o], v) => RowsOf(job[o], v)'
    BY <1>4
  <1>8. \A v \in Persons \ stale' : profile[v] # None =>
          Agreed(v) /\ \A d \in Desks : RowSays(d, v, profile[v])'
    BY <1>5
  <1> QED BY <1>6, <1>7, <1>8, NamesKept

LEMMA PutRowNames ==
  ASSUME PlacesInv, NamesInv, NEW r \in PeopleRequests, PutRow(r)
  PROVE  NamesInv'
  <1>1. CASE job[r].kind = "hire"
    BY <1>1, QuietStepsNames
  <1>2. CASE job[r].kind # "hire"
    <2> DEFINE u == job[r].who
               n == job[r].name
               e == job[r].where
    <2>1. job[r] \in Job /\ StageOK(job[r], pool) /\ job[r].at = "row"
      BY DEF PutRow, PlacesInv, PeopleStores
    <2>2. u \in Persons /\ n \in PersonNames /\ e \in Desks
      BY <1>2, <2>1 DEF StageOK
    <2>3. Puts(r, e, u, n) /\ UNCHANGED profile
      BY <1>2 DEF PutRow, Puts
    <2> HIDE DEF u, n, e
    <2>4. /\ member'[<<e, u>>] = [role |-> "client", name |-> n]
          /\ member'[<<e, u>>] # None
          /\ \A p \in Desks \X Persons : p # <<e, u>> => member'[p] = member[p]
          /\ job'[r] = Free
          /\ \A o \in PeopleRequests \ {r} : job'[o] = Noticing(u, n, o)
      BY <2>2, <2>3, PutsEffect
    <2>5. member'[<<e, u>>].name = n
      BY <2>4
    <2>6. Named(u, n)
      BY <2>3 DEF Puts
    <2>7. \A o \in PeopleRequests : job'[o] = Free \/ job'[o] = Noticing(u, n, o)
      BY <2>4
    <2> QED BY <2>2, <2>3, <2>4, <2>5, <2>6, <2>7, FreeIsNoOnboarding, RowPutNames
  <1> QED BY <1>1, <1>2

LEMMA JoinNames ==
  ASSUME PlacesInv, NamesInv, NEW r \in PeopleRequests, Join(r)
  PROVE  NamesInv'
  <1> DEFINE u == job[r].who
             n == job[r].name
             e == job[r].where
  <1>1. job[r] \in Job /\ StageOK(job[r], pool) /\ job[r].at = "seat"
    BY DEF Join, PlacesInv, PeopleStores
  <1>2. u \in Persons /\ n \in PersonNames /\ e \in Desks
    BY <1>1 DEF StageOK
  <1>3. Puts(r, e, u, n) /\ UNCHANGED profile
    BY DEF Join, Puts
  <1> HIDE DEF u, n, e
  <1>4. /\ member'[<<e, u>>] = [role |-> "client", name |-> n]
        /\ member'[<<e, u>>] # None
        /\ \A p \in Desks \X Persons : p # <<e, u>> => member'[p] = member[p]
        /\ job'[r] = Free
        /\ \A o \in PeopleRequests \ {r} : job'[o] = Noticing(u, n, o)
    BY <1>2, <1>3, PutsEffect
  <1>5. member'[<<e, u>>].name = n
    BY <1>4
  <1>6. Named(u, n)
    BY <1>3 DEF Puts
  <1>7. \A o \in PeopleRequests : job'[o] = Free \/ job'[o] = Noticing(u, n, o)
    BY <1>4
  <1> QED BY <1>2, <1>3, <1>4, <1>5, <1>6, <1>7, FreeIsNoOnboarding, RowPutNames

LEMMA FoundNames ==
  ASSUME PlacesInv, NamesInv, NEW e \in Desks, NEW u \in Persons, Found(e, u)
  PROVE  NamesInv'
  <1> DEFINE n == pool[u].name
             m == [role |-> "provider", name |-> n]
  <1>1. n \in PersonNames
    BY DEF Found, IsProvider, PlacesInv, PeopleStores, Account
  <1>2. m \in Membership /\ m.name = n
    BY <1>1 DEF Membership
  <1>3. m # None
    BY <1>2, PeopleConstants
  <1>4. /\ member' = [member EXCEPT ![<<e, u>>] = m] /\ Named(u, n)
        /\ job' = [o \in PeopleRequests |-> Noticing(u, n, o)]
        /\ UNCHANGED profile
    BY DEF Found
  <1> HIDE DEF m, n
  <1>5. /\ member'[<<e, u>>] = m
        /\ \A p \in Desks \X Persons : p # <<e, u>> => member'[p] = member[p]
    BY <1>4 DEF PlacesInv, PeopleStores
  <1>6. \A o \in PeopleRequests : job'[o] = Noticing(u, n, o)
    BY <1>4
  <1> QED BY <1>2, <1>3, <1>4, <1>5, <1>6, FreeIsNoOnboarding, RowPutNames

\* Whoever starts finds no onboarding under another name, or is not clear, and
\* the others under another name are not clear any more.
LEMMA StartOnboardNames ==
  ASSUME PlacesInv, NamesInv, NEW r \in PeopleRequests,
         NEW u \in Persons, NEW n \in PersonNames, StartOnboard(r, u, n)
  PROVE  NamesInv'
  <1>1. profile' = [profile EXCEPT ![u] = n] /\ stale' = stale \cup {u} /\ UNCHANGED member
    BY DEF StartOnboard
  <1>2. /\ job'[r].at = "list" /\ job'[r].who = u /\ job'[r].name = n /\ job'[r].todo = {}
        /\ job'[r].clear => \A o \in PeopleRequests : ~Contradicts(o, u, n)
        /\ \A o \in PeopleRequests \ {r} : job'[o] = Noticing(u, n, o)
    BY StartOnboardEffect
  <1>3. profile'[u] = n /\ \A v \in Persons \ {u} : profile'[v] = profile[v]
    BY <1>1 DEF PlacesInv, PeopleStores
  <1>4. ASSUME NEW o \in PeopleRequests \ {r}, NEW v \in Persons, Onboards(job'[o], v)
        PROVE  /\ Onboards(job[o], v)
               /\ job'[o].at = job[o].at /\ job'[o].name = job[o].name
               /\ job'[o].todo = job[o].todo
               /\ job'[o].clear => job[o].clear
               /\ job'[o].clear /\ v = u => job[o].name = n
    BY <1>2, <1>4, NoticedFields DEF PlacesInv
  <1>5. ASSUME NEW o \in PeopleRequests, NEW v \in Persons, Onboards(job'[o], v)
        PROVE  RowsOf(job[o], v)'
    <2>1. CASE o = r
      BY <1>2, <2>1 DEF RowsOf
    <2>2. CASE o # r
      <3>1. RowsOf(job[o], v)
        BY <1>4, <1>5, <2>2 DEF NamesInv
      <3>2. /\ job'[o].at = job[o].at /\ job'[o].name = job[o].name
            /\ job'[o].todo = job[o].todo /\ (job'[o].clear => job[o].clear)
        BY <1>4, <1>5, <2>2
      <3> QED BY <1>1, <3>1, <3>2 DEF RowsOf, RowSays
    <2> QED BY <2>1, <2>2
  <1>6. \A v \in Persons \ {u} : Agreed(v) => Agreed(v)'
    <2> SUFFICES ASSUME NEW v \in Persons \ {u}, Agreed(v), NEW o \in PeopleRequests,
                        Onboards(job'[o], v)
                 PROVE  job'[o].name = profile'[v]
      BY DEF Agreed
    <2>1. o # r
      BY <1>2 DEF Onboards
    <2> QED BY <1>3, <1>4, <2>1 DEF Agreed
  <1>7. ASSUME NEW o \in PeopleRequests, Onboards(job'[o], u), job'[o].clear
        PROVE  Agreed(u)'
    <2>1. \A q \in PeopleRequests \ {r} : Onboards(job[q], u) => job[q].name = n
      <3>1. CASE o = r
        BY <1>2, <1>7, <3>1 DEF Contradicts, Onboards
      <3>2. CASE o # r
        <4>1. Onboards(job[o], u) /\ job[o].clear /\ job[o].name = n
          BY <1>4, <1>7, <3>2
        <4>2. Agreed(u)
          BY <4>1 DEF NamesInv
        <4> QED BY <4>1, <4>2 DEF Agreed
      <3> QED BY <3>1, <3>2
    <2>2. ASSUME NEW q \in PeopleRequests, Onboards(job'[q], u)
          PROVE  job'[q].name = n
      BY <1>2, <1>4, <2>1, <2>2
    <2> QED BY <1>3, <2>2 DEF Agreed
  <1>8. \A o \in PeopleRequests : \A v \in Persons :
          Onboards(job'[o], v) /\ job'[o].clear => Agreed(v)'
    <2> SUFFICES ASSUME NEW o \in PeopleRequests, NEW v \in Persons,
                        Onboards(job'[o], v), job'[o].clear
                 PROVE  Agreed(v)'
      OBVIOUS
    <2>1. CASE v = u
      BY <1>7, <2>1
    <2>2. CASE v # u
      <3>1. o # r
        BY <1>2, <2>2 DEF Onboards
      <3>2. Agreed(v)
        BY <1>4, <3>1 DEF NamesInv
      <3> QED BY <1>6, <2>2, <3>2
    <2> QED BY <2>1, <2>2
  <1>9. \A v \in Persons \ stale' : profile'[v] # None => Agreed(v)'
    BY <1>1, <1>3, <1>6 DEF NamesInv
  <1>10. NamesFollowTheProfile'
    BY <1>1, <1>3 DEF NamesInv, NamesFollowTheProfile, IsMember
  <1>11. \A o \in PeopleRequests : \A v \in Persons : Onboards(job'[o], v) => RowsOf(job[o], v)'
    BY <1>5
  <1> QED BY <1>8, <1>9, <1>10, <1>11 DEF NamesInv

\* What an onboarding does for u leaves the requests of the others alone, and
\* puts no name but its own: whoever else is clear gives the same.
LEMMA OwnStepNames ==
  ASSUME PlacesInv, NamesInv, NEW r \in PeopleRequests, NEW u \in Persons, Onboards(job[r], u),
         \A o \in PeopleRequests \ {r} : job'[o] = job[o],
         \A v \in Persons : Onboards(job'[r], v) =>
           /\ v = u /\ job'[r].name = job[r].name /\ (job'[r].clear => job[r].clear)
           /\ RowsOf(job[r], v)',
         \A e \in Desks : \A v \in Persons :
           /\ member[<<e, v>>] # None => member'[<<e, v>>] # None
           /\ \/ member'[<<e, v>>] = member[<<e, v>>]
              \/ v = u /\ member'[<<e, v>>].name = job[r].name,
         \A v \in Persons \ {u} : v \in stale' <=> v \in stale,
         UNCHANGED profile,
         \/ u \in stale'
         \/ u \notin stale
         \/ Agreed(u) /\ \A e \in Desks : RowSays(e, u, profile[u])'
  PROVE  NamesInv'
  <1>1. \A o \in PeopleRequests : \A v \in Persons : Onboards(job'[o], v) =>
          /\ Onboards(job[o], v) /\ job'[o].name = job[o].name
          /\ job'[o].clear => job[o].clear
    <2> TAKE o \in PeopleRequests
    <2> TAKE v \in Persons
    <2>1. CASE o = r
      BY <2>1
    <2>2. CASE o # r
      BY <2>2
    <2> QED BY <2>1, <2>2
  <1>2. ASSUME NEW o \in PeopleRequests, NEW v \in Persons, Onboards(job'[o], v)
        PROVE  RowsOf(job[o], v)'
    <2>1. CASE o = r
      BY <1>2, <2>1
    <2>2. CASE o # r
      <3>1. job'[o] = job[o] /\ Onboards(job[o], v) /\ RowsOf(job[o], v)
        BY <1>1, <1>2, <2>2 DEF NamesInv
      <3>2. job[o].todo \subseteq Desks
        BY DEF PlacesInv, PeopleStores, Job
      <3>3. \A d \in job[o].todo : job[o].at = "rename" => member'[<<d, v>>] # None
        BY <3>1, <3>2 DEF RowsOf
      <3>4. v = u /\ job[o].clear => job[r].name = job[o].name
        BY <3>1 DEF NamesInv, Agreed
      <3>5. job[o].at = "rename" /\ job[o].clear =>
              \A d \in Desks \ job[o].todo :
                member'[<<d, v>>] # None => member'[<<d, v>>].name = job[o].name
        BY <3>1, <3>4 DEF RowsOf, RowSays
      <3> QED BY <3>1, <3>3, <3>5 DEF RowsOf, RowSays
    <2> QED BY <2>1, <2>2
  <1>3. ASSUME NEW v \in Persons \ stale', profile[v] # None
        PROVE  Agreed(v) /\ \A e \in Desks : RowSays(e, v, profile[v])'
    <2>1. CASE v \notin stale
      <3>1. Agreed(v) /\ \A e \in Desks : RowSays(e, v, profile[v])
        BY <1>3, <2>1, RowsFollow
      <3>2. v = u => job[r].name = profile[v]
        BY <3>1 DEF Agreed
      <3>3. \A e \in Desks : member'[<<e, v>>] # None => member'[<<e, v>>].name = profile[v]
        BY <3>1, <3>2 DEF RowSays
      <3> QED BY <3>1, <3>3 DEF RowSays
    <2>2. CASE v \in stale
      BY <1>3, <2>2
    <2> QED BY <2>1, <2>2
  <1>4. \A o \in PeopleRequests : \A v \in Persons : Onboards(job'[o], v) => RowsOf(job[o], v)'
    BY <1>2
  <1>5. \A v \in Persons \ stale' : profile[v] # None =>
          Agreed(v) /\ \A e \in Desks : RowSays(e, v, profile[v])'
    BY <1>3
  <1> QED BY <1>1, <1>4, <1>5, NamesKept

\* The rows that are to be renamed are all the rows there are.
LEMMA ListNames ==
  ASSUME PlacesInv, NamesInv, NEW r \in PeopleRequests, ListRows(r)
  PROVE  NamesInv'
  <1> DEFINE u == job[r].who
             w == [job[r] EXCEPT !.at = "rename", !.todo = {e \in Desks : IsMember(e, u)}]
  <1>1. job[r] \in Job /\ StageOK(job[r], pool) /\ job[r].at = "list"
    BY DEF ListRows, PlacesInv, PeopleStores
  <1>2. u \in Persons /\ Onboards(job[r], u)
    BY <1>1 DEF StageOK, Onboards
  <1>3. Continues(r, w) /\ UNCHANGED <<member, profile, stale>>
    BY DEF ListRows
  <1>4. w.who = u /\ w.name = job[r].name /\ w.todo = {e \in Desks : member[<<e, u>>] # None}
        /\ w.clear = job[r].clear
    BY <1>1 DEF Job, IsMember
  <1> HIDE DEF w
  <1>5. \A o \in PeopleRequests \ {r} : job'[o] = job[o]
    BY <1>3, MovesUndisturbed DEF PlacesInv
  <1>6. job'[r] = w
    BY <1>3, MovesUndisturbed DEF PlacesInv
  <1>7. \A v \in Persons : Onboards(job'[r], v) =>
          /\ v = u /\ job'[r].name = job[r].name /\ (job'[r].clear => job[r].clear)
          /\ RowsOf(job[r], v)'
    BY <1>3, <1>4, <1>6 DEF Onboards, RowsOf, RowSays
  <1>8. u \in stale' \/ u \notin stale
    BY <1>3
  <1> HIDE DEF u
  <1> QED BY <1>2, <1>3, <1>5, <1>7, <1>8, OwnStepNames

LEMMA RenameNames ==
  ASSUME PlacesInv, NamesInv, NEW r \in PeopleRequests, NEW e \in Desks,
         Rename(r, e)
  PROVE  NamesInv'
  <1> DEFINE u == job[r].who
             n == job[r].name
             w == [job[r] EXCEPT !.todo = @ \ {e}]
  <1>1. /\ job[r] \in Job /\ job[r].kind = "onboard" /\ u \in Persons
        /\ RowsOf(job[r], u)
        /\ member'[<<e, u>>] # None /\ member'[<<e, u>>].name = n
        /\ \A p \in Desks \X Persons : p # <<e, u>> => member'[p] = member[p]
    BY RenameEffect
  <1>2. Continues(r, w) /\ UNCHANGED <<profile, stale>>
    BY DEF Rename
  <1>3. /\ w.who = u /\ w.name = n /\ w.todo = job[r].todo \ {e} /\ w.clear = job[r].clear
        /\ w.at = job[r].at
    BY <1>1 DEF Job
  <1> HIDE DEF w
  <1>4. \A o \in PeopleRequests \ {r} : job'[o] = job[o]
    BY <1>2, MovesUndisturbed DEF PlacesInv
  <1>5. job'[r] = w
    BY <1>2, MovesUndisturbed DEF PlacesInv
  <1>6. \A d \in Desks : \A v \in Persons :
          <<d, v>> # <<e, u>> => member'[<<d, v>>] = member[<<d, v>>]
    <2> TAKE d \in Desks
    <2> TAKE v \in Persons
    <2>1. <<d, v>> \in Desks \X Persons
      OBVIOUS
    <2> QED BY <1>1, <2>1
  <1>7. \A d \in Desks : \A v \in Persons :
          /\ member[<<d, v>>] # None => member'[<<d, v>>] # None
          /\ \/ member'[<<d, v>>] = member[<<d, v>>]
             \/ v = u /\ member'[<<d, v>>].name = job[r].name
    <2> TAKE d \in Desks
    <2> TAKE v \in Persons
    <2>1. CASE <<d, v>> = <<e, u>>
      BY <1>1, <2>1
    <2>2. CASE <<d, v>> # <<e, u>>
      BY <1>6, <2>2
    <2> QED BY <2>1, <2>2
  <1>8. ASSUME NEW v \in Persons, Onboards(job'[r], v)
        PROVE  /\ v = u /\ job'[r].name = job[r].name /\ (job'[r].clear => job[r].clear)
               /\ RowsOf(job[r], v)'
    <2>1. v = u
      BY <1>3, <1>5, <1>8 DEF Onboards
    <2>2. \A d \in job'[r].todo : job'[r].at = "rename" => member'[<<d, v>>] # None
      BY <1>1, <1>3, <1>5, <1>6, <2>1 DEF RowsOf, Job
    <2>3. ASSUME job'[r].at = "rename", job'[r].clear, NEW d \in Desks \ job'[r].todo,
                 member'[<<d, v>>] # None
          PROVE  member'[<<d, v>>].name = job'[r].name
      <3>1. CASE d = e
        BY <1>1, <1>3, <1>5, <2>1, <3>1
      <3>2. CASE d # e
        <4>1. d \notin job[r].todo
          BY <1>3, <1>5, <2>3, <3>2
        <4>2. member'[<<d, v>>] = member[<<d, v>>]
          BY <1>6, <3>2
        <4> QED BY <1>1, <1>3, <1>5, <2>1, <2>3, <4>1, <4>2 DEF RowsOf, RowSays
      <3> QED BY <3>1, <3>2
    <2>4. RowsOf(job[r], v)'
      BY <2>2, <2>3 DEF RowsOf, RowSays
    <2> QED BY <1>3, <1>5, <2>1, <2>4
  <1>9. Onboards(job[r], u) /\ (u \in stale' \/ u \notin stale)
    BY <1>1, <1>2 DEF Onboards
  <1>10. \A v \in Persons : Onboards(job'[r], v) =>
           /\ v = u /\ job'[r].name = job[r].name /\ (job'[r].clear => job[r].clear)
           /\ RowsOf(job[r], v)'
    BY <1>8
  <1> HIDE DEF u, n
  <1> QED BY <1>1, <1>2, <1>4, <1>7, <1>9, <1>10, OwnStepNames

\* When nothing is left to rename and nothing was noticed, all the rows there
\* are show the profile's name.
LEMMA DirectoryNames ==
  ASSUME PlacesInv, NamesInv, NEW r \in PeopleRequests, PutInDirectory(r)
  PROVE  NamesInv'
  <1>0. job[r].who \in Persons
    BY DirectoryEffect
  <1> PICK u \in Persons : u = job[r].who
    BY <1>0
  <1> DEFINE w == [job[r] EXCEPT !.at = "sync"]
  <1>1. /\ job[r] \in Job /\ job[r].kind = "onboard" /\ u \in Persons
        /\ Continues(r, w) /\ UNCHANGED <<member, profile>>
    BY DirectoryEffect
  <1>2. job[r].at = "rename" /\ job[r].todo = {}
        /\ stale' = IF job[r].clear THEN stale \ {u} ELSE stale
    BY DEF PutInDirectory
  <1>3. Onboards(job[r], u) /\ RowsOf(job[r], u)
    BY <1>1 DEF Onboards, NamesInv
  <1>4. w.at = "sync" /\ w.who = u /\ w.name = job[r].name /\ w.clear = job[r].clear
        /\ w.todo = job[r].todo
    BY <1>1 DEF Job
  <1> HIDE DEF w
  <1>5. /\ \A o \in PeopleRequests \ {r} : job'[o] = job[o]
        /\ job'[r] = w
    BY <1>1, MovesUndisturbed DEF PlacesInv
  <1>6. \A v \in Persons : Onboards(job'[r], v) =>
          /\ v = u /\ job'[r].name = job[r].name /\ (job'[r].clear => job[r].clear)
          /\ RowsOf(job[r], v)'
    BY <1>4, <1>5 DEF Onboards, RowsOf
  <1>7. job[r].clear => Agreed(u) /\ \A e \in Desks : RowSays(e, u, profile[u])'
    <2> SUFFICES ASSUME job[r].clear
                 PROVE  Agreed(u) /\ \A e \in Desks : RowSays(e, u, profile[u])'
      OBVIOUS
    <2>1. Agreed(u)
      BY <1>1, <1>3 DEF NamesInv
    <2>2. job[r].name = profile[u]
      BY <1>3, <2>1 DEF Agreed
    <2>3. \A e \in Desks : member[<<e, u>>] # None => member[<<e, u>>].name = profile[u]
      BY <1>2, <1>3, <2>2 DEF RowsOf, RowSays
    <2> QED BY <1>1, <2>1, <2>3 DEF RowSays
  <1>8. \/ u \in stale' \/ u \notin stale
        \/ Agreed(u) /\ \A e \in Desks : RowSays(e, u, profile[u])'
    BY <1>2, <1>7
  <1>9. \A v \in Persons \ {u} : v \in stale' <=> v \in stale
    BY <1>2
  <1>10. \A e \in Desks : \A v \in Persons : member'[<<e, v>>] = member[<<e, v>>]
    BY <1>1
  <1> QED BY <1>1, <1>3, <1>5, <1>6, <1>8, <1>9, <1>10, OwnStepNames

LEMMA InitNames ==
  ASSUME PeopleInit
  PROVE  NamesInv
  <1>1. \A r \in PeopleRequests : job[r].kind # "onboard"
    BY FreeIsNoOnboarding DEF PeopleInit
  <1> QED BY <1>1 DEF PeopleInit, NamesInv, Onboards, NamesFollowTheProfile

LEMMA NamesStep ==
  ASSUME PlacesInv, NamesInv, PeopleNext
  PROVE  NamesInv'
  BY QuietStepsNames, PutRowNames, JoinNames, FoundNames, StartOnboardNames, ListNames,
     RenameNames, DirectoryNames, Zenon DEF PeopleNext

-----------------------------------------------------------------------------
(* The theorems.                                                           *)

\* The stores, the stages of the requests, the creators of the accounts and the
\* names keep their invariants together.
THEOREM PeopleInvariance ==
  PeopleSpec => []PeopleInv
  <1>1. PeopleInit => PeopleInv
    <2>1. ASSUME PeopleInit PROVE CreatorsInv
      BY <2>1 DEF PeopleInit, CreatorsInv, Creates, Free
    <2> QED BY <2>1, InitPlaces, InitNames DEF PeopleInv
  <1>2. PeopleInv /\ [PeopleNext]_peopleVars => PeopleInv'
    <2> SUFFICES ASSUME PeopleInv, [PeopleNext]_peopleVars
                 PROVE  PeopleInv'
      OBVIOUS
    <2>1. CASE PeopleNext
      BY <2>1, PlacesStep, CreatorsStep, NamesStep DEF PeopleInv
    <2>2. CASE UNCHANGED peopleVars
      <3>1. PlacesInv'
        BY <2>2 DEF peopleVars, PeopleInv, PlacesInv, PeopleStores, RowsHaveAccounts, DirectoryIsStaff,
                    IsProvider
      <3>2. CreatorsInv'
        BY <2>2 DEF peopleVars, PeopleInv, CreatorsInv, IsStaff, IsProvider
      <3>3. NamesInv'
        BY <2>2, QuietNames DEF peopleVars, PeopleInv
      <3> QED BY <3>1, <3>2, <3>3 DEF PeopleInv
    <2> QED BY <2>1, <2>2
  <1> QED BY <1>1, <1>2, PTL DEF PeopleSpec

\* Whoever has a row has an account, whoever is in the directory is a provider,
\* and a row says who is a customer and who is not (invites.py, users.py).
THEOREM PeopleTypes ==
  PeopleSpec => []PeopleTypeOK
  <1>1. PeopleInv => PeopleTypeOK
    <2> SUFFICES ASSUME PeopleInv PROVE PeopleTypeOK
      OBVIOUS
    <2>1. \A u \in Persons : pool[u] # None => pool[u].groups \subseteq {"client", "provider"}
      BY DEF PeopleInv, PlacesInv, PeopleStores, Account
    <2>2. \A p \in Desks \X Persons : member[p] # None => member[p].role \in {"client", "provider"}
      BY DEF PeopleInv, PlacesInv, PeopleStores, Membership
    <2> QED BY <2>1, <2>2 DEF PeopleInv, PlacesInv, PeopleStores, PeopleTypeOK, RowsHaveAccounts, DirectoryIsStaff
  <1> QED BY <1>1, PeopleInvariance, PTL

\* When a person's last onboarding has renamed the rows it found, and no other
\* name was put and no onboarding under another name was going on meanwhile,
\* every row shows the name it gave, for any number of onboardings (update_me).
THEOREM NamesFollow ==
  PeopleSpec => []NamesFollowTheProfile
  <1>1. PeopleInv => NamesFollowTheProfile
    BY DEF PeopleInv, NamesInv
  <1> QED BY <1>1, PeopleInvariance, PTL

-----------------------------------------------------------------------------
(* Who becomes a customer's contact, and what an invitation comes to.      *)

\* A customer's row appears where none was by an invitation to an address that
\* is not one of the staff's, or by a request that had looked, or copied a row.
LEMMA RowsAppear ==
  ASSUME PeopleInv, PeopleNext, NEW p \in Desks \X Persons,
         member[p] = None, member'[p] # None, member'[p].role = "client"
  PROVE  \/ ~IsStaff(p[2])
         \/ \E r \in PeopleRequests :
              job'[r] # job[r] /\ job[r].kind # "onboard" /\ job[r].clear
  <1> DEFINE Allowed == \/ ~IsStaff(p[2])
                        \/ \E r \in PeopleRequests :
                             job'[r] # job[r] /\ job[r].kind # "onboard" /\ job[r].clear
  <1>1. ASSUME NEW r \in PeopleRequests, PutRow(r)
        PROVE  Allowed
    <2> DEFINE u == job[r].who
               e == job[r].where
    <2>1. StageOK(job[r], pool) /\ job[r].at = "row" /\ job[r].kind # "hire"
      BY <1>1 DEF PutRow, PeopleInv, PlacesInv
    <2>2. u \in Persons /\ job[r].name \in PersonNames /\ e \in Desks /\ job[r].kind = "invite"
      BY <2>1 DEF StageOK
    <2>3. ~IsStaff(u)
      BY <2>1, <2>2 DEF PeopleInv, CreatorsInv, Creates
    <2>4. Puts(r, e, u, job[r].name)
      BY <1>1, <2>1 DEF PutRow, Puts
    <2> HIDE DEF u, e
    <2>5. \A q \in Desks \X Persons : q # <<e, u>> => member'[q] = member[q]
      BY <2>2, <2>4, PutsEffect DEF PeopleInv
    <2>6. p = <<e, u>>
      BY <2>5
    <2> QED BY <2>3, <2>6
  <1>2. ASSUME NEW r \in PeopleRequests, Join(r)
        PROVE  Allowed
    <2>1. StageOK(job[r], pool) /\ job[r].at = "seat"
      BY <1>2 DEF Join, PeopleInv, PlacesInv
    <2>2. job'[r] = Free
      BY <1>2 DEF Join, OverNoticed
    <2> QED BY <2>1, <2>2 DEF StageOK, Free
  <1>3. ASSUME NEW e \in Desks, NEW u \in Persons, Found(e, u)
        PROVE  FALSE
    <2>1. member' = [member EXCEPT ![<<e, u>>] = [role |-> "provider", name |-> pool[u].name]]
      BY <1>3 DEF Found
    <2>2. CASE p = <<e, u>>
      BY <2>1, <2>2 DEF PeopleInv, PlacesInv, PeopleStores
    <2>3. CASE p # <<e, u>>
      BY <2>1, <2>3 DEF PeopleInv, PlacesInv, PeopleStores
    <2> QED BY <2>2, <2>3
  <1>4. ASSUME NEW r \in PeopleRequests, NEW e \in Desks, Rename(r, e)
        PROVE  FALSE
    <2>1. /\ member[<<e, job[r].who>>] # None
          /\ \A q \in Desks \X Persons : q # <<e, job[r].who>> => member'[q] = member[q]
      BY <1>4, RenameEffect DEF PeopleInv
    <2> QED BY <2>1
  <1>5. \/ \E r \in PeopleRequests : PutRow(r)
        \/ \E r \in PeopleRequests : Join(r)
        \/ \E e \in Desks, u \in Persons : Found(e, u)
        \/ \E r \in PeopleRequests, e \in Desks : Rename(r, e)
        \/ UNCHANGED member
    BY Zenon DEF PeopleNext, StartInvite, StartHire, StartOnboard, StartAdd, LookUpAccount,
       CreateAccount, AddToGroup, EnsureGroup, ListRows, PutInDirectory, SyncName, Fails
  <1> QED BY <1>1, <1>2, <1>3, <1>4, <1>5

\* Nobody becomes a customer's contact while on the staff, unless the request
\* had looked before (invite_or_add, add_member).
THEOREM StaffStayStaff ==
  PeopleSpec => StaffAreNotCustomers
  <1> DEFINE Appoints ==
        \A p \in Desks \X Persons :
          member[p] = None /\ member'[p] # None /\ member'[p].role = "client" =>
            \/ ~IsStaff(p[2])
            \/ \E r \in PeopleRequests :
                 job'[r] # job[r] /\ job[r].kind # "onboard" /\ job[r].clear
  <1>1. PeopleInv /\ [PeopleNext]_peopleVars => [Appoints]_peopleVars
    BY RowsAppear, Zenon
  <1> HIDE DEF Appoints
  <1>2. PeopleSpec => [][Appoints]_peopleVars
    BY <1>1, PeopleInvariance, PTL DEF PeopleSpec
  <1> QED BY <1>2 DEF StaffAreNotCustomers, Appoints

\* A call of an invitation that is answered leaves the address with a row, or
\* finds it is one of the staff's.
LEMMA AnsweredInvitation ==
  ASSUME PeopleInv, NEW r \in PeopleRequests,
         job[r].kind = "invite", job'[r] = Free,
         CreateAccount(r) \/ LookUpAccount(r, TRUE) \/ PutRow(r) \/ Join(r)
  PROVE  IsStaff(job[r].who) \/ member'[<<job[r].where, job[r].who>>] # None
  <1> DEFINE u == job[r].who
             n == job[r].name
             e == job[r].where
  <1>1. PlacesInv /\ PeopleStores /\ job[r] \in Job /\ StageOK(job[r], pool)
    BY DEF PeopleInv, PlacesInv, PeopleStores
  <1>2. job[r].at # "idle" => u \in Persons /\ n \in PersonNames /\ e \in Desks
    BY <1>1 DEF StageOK
  <1>3. CASE CreateAccount(r)
    <2>1. job[r].at = "account"
      BY <1>3 DEF CreateAccount
    <2>2. PICK w : Continues(r, w) /\ w \in {[job[r] EXCEPT !.at = "group"],
                                        [job[r] EXCEPT !.at = "lookup"]}
      BY <1>3 DEF CreateAccount, Taken
    <2>3. w.at # "idle"
      BY <1>1, <2>2 DEF Job
    <2> QED BY <1>1, <2>2, <2>3, MovesUndisturbed DEF Free
  <1>4. CASE LookUpAccount(r, TRUE)
    <2> DEFINE m == IF pool[u].name # None THEN pool[u].name ELSE n
               w == [job[r] EXCEPT !.at = "join", !.clear = ~IsStaff(u), !.name = m]
    <2>1. \/ Continues(r, w)
          \/ IsStaff(u) \/ IsMember(e, u)
      BY <1>4 DEF LookUpAccount, MayBeContact
    <2>2. w.at # "idle"
      BY <1>1 DEF Job
    <2> HIDE DEF w
    <2>3. ~Continues(r, w)
      BY <1>1, <2>2, MovesUndisturbed DEF Free
    <2> QED BY <1>4, <2>1, <2>3 DEF LookUpAccount, IsMember
  <1>5. CASE PutRow(r)
    <2>1. Puts(r, e, u, n) /\ job[r].at = "row"
      BY <1>5 DEF PutRow, Puts
    <2> HIDE DEF u, n, e
    <2>2. member'[<<e, u>>] # None
      BY <1>1, <1>2, <2>1, PutsEffect
    <2> QED BY <2>2 DEF u, e
  <1>6. CASE Join(r)
    <2>1. Puts(r, e, u, n) /\ job[r].at = "seat"
      BY <1>6 DEF Join, Puts
    <2> HIDE DEF u, n, e
    <2>2. member'[<<e, u>>] # None
      BY <1>1, <1>2, <2>1, PutsEffect
    <2> QED BY <2>2 DEF u, e
  <1> QED BY <1>3, <1>4, <1>5, <1>6

\* An account left behind by an earlier attempt, at whatever call it broke off,
\* is no dead end (invite_or_add).
THEOREM InvitationsAnswered ==
  PeopleSpec => InvitationsArrive
  <1> DEFINE Arrives ==
        \A r \in PeopleRequests :
          /\ job[r].kind = "invite" /\ job'[r] = Free
          /\ CreateAccount(r) \/ LookUpAccount(r, TRUE) \/ PutRow(r) \/ Join(r)
          => IsStaff(job[r].who) \/ member'[<<job[r].where, job[r].who>>] # None
  <1>1. PeopleInv => Arrives
    BY AnsweredInvitation, Zenon
  <1> HIDE DEF Arrives
  <1>2. PeopleSpec => [][Arrives]_peopleVars
    BY <1>1, PeopleInvariance, PTL DEF PeopleSpec
  <1> QED BY <1>2 DEF InvitationsArrive, Arrives

-----------------------------------------------------------------------------
(* Reports: sums, member by member.                                        *)

Some(s) == CHOOSE x \in s : TRUE
Adds(f, S, g) == g = [s \in SUBSET S |-> IF s = {} THEN 0 ELSE f[Some(s)] + g[s \ {Some(s)}]]

\* A sum is the value of a function that adds member by member.
LEMMA SumUnfolds ==
  ASSUME NEW f, NEW S
  PROVE SumOver(f, S) = (CHOOSE g : Adds(f, S, g))[S]
BY Zenon DEF SumOver, MapThenSumSet, MapThenFoldSet, Adds, Some

\* A set that loses a member is smaller.
LEMMA Smaller ==
  ASSUME NEW S, IsFiniteSet(S), NEW x \in S
  PROVE  /\ IsFiniteSet(S \ {x})
         /\ Cardinality(S \ {x}) = Cardinality(S) - 1
         /\ Cardinality(S \ {x}) \in Nat
<1>1. IsFiniteSet(S \ {x}) /\ Cardinality(S \ {x}) = Cardinality(S) - 1
  BY FS_RemoveElement
<1> QED
  BY <1>1, FS_CardinalityType

\* Some picks a member.
LEMMA SomeOne == ASSUME NEW s, s # {} PROVE Some(s) \in s
BY DEF Some

\* Such a function at one set.
LEMMA AddsAt ==
  ASSUME NEW f, NEW S, NEW g, Adds(f, S, g), NEW s \in SUBSET S
  PROVE  g[s] = IF s = {} THEN 0 ELSE f[Some(s)] + g[s \ {Some(s)}]
<1> DEFINE h == [t \in SUBSET S |-> IF t = {} THEN 0 ELSE f[Some(t)] + g[t \ {Some(t)}]]
<1>1. g = h
  BY Zenon DEF Adds
<1>2. h[s] = IF s = {} THEN 0 ELSE f[Some(s)] + g[s \ {Some(s)}]
  OBVIOUS
<1> QED
  BY <1>1, <1>2, Zenon

\* Two such functions agree wherever both are defined.
LEMMA AddsAgree ==
  ASSUME NEW f, NEW S, NEW T, NEW g, NEW h, Adds(f, S, g), Adds(f, T, h),
         NEW s, s \subseteq S, s \subseteq T, IsFiniteSet(s)
  PROVE  g[s] = h[s]
<1> DEFINE Bad == {n \in Nat : \E t : t \subseteq s /\ Cardinality(t) = n /\ g[t] # h[t]}
<1> SUFFICES ASSUME Bad # {} PROVE FALSE
  BY FS_CardinalityType
<1>1. PICK n \in Bad : \A m \in Nat : m < n => m \notin Bad
  BY FirstOne
<1>2. PICK t : t \subseteq s /\ Cardinality(t) = n /\ g[t] # h[t]
  BY <1>1
<1>3. t \in SUBSET S /\ t \in SUBSET T /\ IsFiniteSet(t)
  BY <1>2, FS_Subset
<1>4. /\ g[t] = IF t = {} THEN 0 ELSE f[Some(t)] + g[t \ {Some(t)}]
      /\ h[t] = IF t = {} THEN 0 ELSE f[Some(t)] + h[t \ {Some(t)}]
  BY <1>3, AddsAt
<1>5. t # {} /\ g[t \ {Some(t)}] # h[t \ {Some(t)}]
  BY <1>2, <1>4
<1>6. Some(t) \in t
  BY <1>5, SomeOne
<1>7. Cardinality(t \ {Some(t)}) = n - 1 /\ n - 1 \in Nat
  <2> DEFINE x == Some(t)
  <2> HIDE DEF x
  <2>1. IsFiniteSet(t \ {x}) /\ Cardinality(t \ {x}) = IF x \in t THEN Cardinality(t) - 1 ELSE Cardinality(t)
    BY <1>3, FS_RemoveElement
  <2>2. Cardinality(t \ {x}) \in Nat
    BY <2>1, FS_CardinalityType
  <2> QED
    BY <1>2, <1>6, <2>1, <2>2 DEF x
<1>8. n - 1 \in Bad
  BY <1>2, <1>5, <1>7
<1> QED
  BY <1>1, <1>7, <1>8

\* There is one, for any finite set.
LEMMA AddsExist ==
  ASSUME NEW f, NEW S, IsFiniteSet(S)
  PROVE  \E g : Adds(f, S, g)
<1> DEFINE Bad == {n \in Nat : \E T : IsFiniteSet(T) /\ Cardinality(T) = n /\ ~\E g : Adds(f, T, g)}
<1> SUFFICES ASSUME Bad # {} PROVE FALSE
  BY FS_CardinalityType
<1>1. PICK n \in Bad : \A m \in Nat : m < n => m \notin Bad
  BY FirstOne
<1>2. PICK T : IsFiniteSet(T) /\ Cardinality(T) = n /\ ~\E g : Adds(f, T, g)
  BY <1>1
<1> DEFINE small(s) == CHOOSE g : Adds(f, s, g)
           sum(s) == IF s = {} THEN 0 ELSE f[Some(s)] + small(s \ {Some(s)})[s \ {Some(s)}]
           whole == [s \in SUBSET T |-> sum(s)]
<1>3. ASSUME NEW s \in SUBSET T, s # T PROVE IsFiniteSet(s) /\ Adds(f, s, small(s))
  <2>1. IsFiniteSet(s) /\ Cardinality(s) \in Nat /\ Cardinality(s) < n
    BY <1>2, <1>3, FS_Subset, FS_CardinalityType
  <2>2. Cardinality(s) \notin Bad
    BY <2>1, <1>1
  <2> QED
    BY <2>1, <2>2
<1> HIDE DEF small
<1>4. ASSUME NEW s \in SUBSET T, s # T
      PROVE  small(s)[s] = whole[s]
  <2>1. small(s)[s] = IF s = {} THEN 0 ELSE f[Some(s)] + small(s)[s \ {Some(s)}]
    <3> DEFINE g == small(s)
    <3>1. Adds(f, s, g)
      BY <1>3, <1>4
    <3> HIDE DEF g
    <3>2. g[s] = IF s = {} THEN 0 ELSE f[Some(s)] + g[s \ {Some(s)}]
      BY <3>1, AddsAt
    <3> QED
      BY <3>2 DEF g
  <2>2. ASSUME s # {} PROVE small(s)[s \ {Some(s)}] = small(s \ {Some(s)})[s \ {Some(s)}]
    <3> DEFINE r == s \ {Some(s)}
    <3>1. r \in SUBSET T /\ r # T /\ r \subseteq s
      BY <1>4, <2>2, SomeOne
    <3>2. IsFiniteSet(r) /\ Adds(f, r, small(r)) /\ Adds(f, s, small(s))
      BY <1>3, <1>4, <3>1
    <3> DEFINE g == small(s)
           h == small(r)
    <3> HIDE DEF r, g, h
    <3>3. Adds(f, s, g) /\ Adds(f, r, h)
      BY <3>2 DEF g, h
    <3>4. g[r] = h[r]
      BY <3>1, <3>2, <3>3, AddsAgree
    <3> QED
      BY <3>4 DEF r, g, h
  <2> QED
    BY <2>1, <2>2
<1>5. ASSUME NEW s \in SUBSET T, s # {}
      PROVE  whole[s] = f[Some(s)] + whole[s \ {Some(s)}]
  <2> DEFINE r == s \ {Some(s)}
  <2>1. r \in SUBSET T /\ r # T
    BY <1>5, SomeOne
  <2>2. whole[r] = small(r)[r]
    BY <1>4, <2>1
  <2>3. whole[s] = f[Some(s)] + small(r)[r]
    BY <1>5
  <2> QED
    BY <2>2, <2>3
<1>6. whole[{}] = 0
  OBVIOUS
<1>7. whole = [s \in SUBSET T |-> IF s = {} THEN 0 ELSE f[Some(s)] + whole[s \ {Some(s)}]]
  <2> DEFINE again == [s \in SUBSET T |-> IF s = {} THEN 0 ELSE f[Some(s)] + whole[s \ {Some(s)}]]
  <2>1. ASSUME NEW s \in SUBSET T PROVE whole[s] = again[s]
    <3> HIDE DEF whole
    <3> QED
      BY <1>5, <1>6
  <2>2. whole = [s \in SUBSET T |-> whole[s]] /\ again = [s \in SUBSET T |-> again[s]]
    OBVIOUS
  <2> HIDE DEF whole, again
  <2>3. [s \in SUBSET T |-> whole[s]] = [s \in SUBSET T |-> again[s]]
    BY <2>1
  <2> QED
    BY <2>2, <2>3 DEF again
<1> HIDE DEF whole
<1> QED
  BY <1>2, <1>7 DEF Adds

\* A sum is what any such function says, over a larger set too.
LEMMA SumAt ==
  ASSUME NEW f, NEW S, IsFiniteSet(S), NEW g, Adds(f, S, g), NEW s \in SUBSET S
  PROVE  SumOver(f, s) = g[s]
<1> DEFINE h == CHOOSE k : Adds(f, s, k)
<1>1. IsFiniteSet(s)
  BY FS_Subset
<1>2. Adds(f, s, h)
  BY <1>1, AddsExist
<1>3. SumOver(f, s) = h[s]
  BY SumUnfolds
<1> HIDE DEF h
<1> QED
  BY <1>1, <1>2, <1>3, AddsAgree

\* The sum over nothing.
LEMMA SumOfNone ==
  ASSUME NEW f
  PROVE  SumOver(f, {}) = 0
<1>1. IsFiniteSet({})
  BY FS_EmptySet
<1>2. PICK g : Adds(f, {}, g)
  BY <1>1, AddsExist
<1> QED
  BY <1>1, <1>2, SumAt, AddsAt

\* The sum over something, by the member it takes first.
LEMMA SumFirst ==
  ASSUME NEW f, NEW S, IsFiniteSet(S), S # {}
  PROVE  Some(S) \in S /\ SumOver(f, S) = f[Some(S)] + SumOver(f, S \ {Some(S)})
<1>1. PICK g : Adds(f, S, g)
  BY AddsExist
<1>2. SumOver(f, S) = g[S] /\ SumOver(f, S \ {Some(S)}) = g[S \ {Some(S)}]
  BY <1>1, SumAt
<1>3. g[S] = f[Some(S)] + g[S \ {Some(S)}]
  BY <1>1, AddsAt
<1> QED
  BY <1>2, <1>3, SomeOne

\* A sum of numbers that are not negative is one.
LEMMA SumNat ==
  ASSUME NEW f, NEW S, IsFiniteSet(S), \A x \in S : f[x] \in Nat
  PROVE  SumOver(f, S) \in Nat
<1> DEFINE Bad == {n \in Nat : \E T \in SUBSET S : Cardinality(T) = n /\ SumOver(f, T) \notin Nat}
<1> SUFFICES ASSUME Bad # {} PROVE FALSE
  BY FS_CardinalityType
<1>1. PICK n \in Bad : \A m \in Nat : m < n => m \notin Bad
  BY FirstOne
<1>2. PICK T \in SUBSET S : Cardinality(T) = n /\ SumOver(f, T) \notin Nat
  BY <1>1
<1>3. IsFiniteSet(T) /\ T # {}
  <2>1. ASSUME T = {} PROVE FALSE
    BY <1>2, <2>1, SumOfNone
  <2> QED
    BY <2>1, FS_Subset
<1> DEFINE x == Some(T)
<1>4. x \in T /\ SumOver(f, T) = f[x] + SumOver(f, T \ {x})
  BY <1>3, SumFirst
<1> HIDE DEF x
<1>5. IsFiniteSet(T \ {x}) /\ Cardinality(T \ {x}) = n - 1 /\ n - 1 \in Nat
  BY <1>2, <1>3, <1>4, Smaller
<1>6. SumOver(f, T \ {x}) \notin Nat
  BY <1>2, <1>4
<1>7. n - 1 \in Bad
  BY <1>5, <1>6
<1> QED
  BY <1>1, <1>5, <1>7

\* Terms that agree on every member have one sum.
LEMMA SumSame ==
  ASSUME NEW f, NEW g, NEW S, IsFiniteSet(S), \A x \in S : f[x] = g[x]
  PROVE  SumOver(f, S) = SumOver(g, S)
<1> DEFINE Bad == {n \in Nat : \E T \in SUBSET S : Cardinality(T) = n /\ SumOver(f, T) # SumOver(g, T)}
<1> SUFFICES ASSUME Bad # {} PROVE FALSE
  BY FS_CardinalityType
<1>1. PICK n \in Bad : \A m \in Nat : m < n => m \notin Bad
  BY FirstOne
<1>2. PICK T \in SUBSET S : Cardinality(T) = n /\ SumOver(f, T) # SumOver(g, T)
  BY <1>1
<1>3. IsFiniteSet(T) /\ T # {}
  <2>1. SumOver(f, {}) = 0 /\ SumOver(g, {}) = 0
    BY SumOfNone
  <2> QED
    BY <1>2, <2>1, FS_Subset
<1> DEFINE x == Some(T)
<1>4. x \in T /\ SumOver(f, T) = f[x] + SumOver(f, T \ {x}) /\ SumOver(g, T) = g[x] + SumOver(g, T \ {x})
  BY <1>3, SumFirst
<1> HIDE DEF x
<1>5. IsFiniteSet(T \ {x}) /\ Cardinality(T \ {x}) = n - 1 /\ n - 1 \in Nat
  BY <1>2, <1>3, <1>4, Smaller
<1>6. SumOver(f, T \ {x}) # SumOver(g, T \ {x})
  BY <1>2, <1>4
<1>7. n - 1 \in Bad
  BY <1>5, <1>6
<1> QED
  BY <1>1, <1>5, <1>7

\* A sum may take any member first.
LEMMA SumWithout ==
  ASSUME NEW f, NEW S, IsFiniteSet(S), \A x \in S : f[x] \in Nat, NEW x \in S
  PROVE  SumOver(f, S) = f[x] + SumOver(f, S \ {x})
<1> DEFINE Bad == {n \in Nat : \E T \in SUBSET S : Cardinality(T) = n /\ \E y \in T : SumOver(f, T) # f[y] + SumOver(f, T \ {y})}
<1> SUFFICES ASSUME Bad # {} PROVE FALSE
  BY FS_CardinalityType
<1>1. PICK n \in Bad : \A m \in Nat : m < n => m \notin Bad
  BY FirstOne
<1>2. PICK T \in SUBSET S : Cardinality(T) = n /\ \E y \in T : SumOver(f, T) # f[y] + SumOver(f, T \ {y})
  BY <1>1
<1>2a. PICK y \in T : SumOver(f, T) # f[y] + SumOver(f, T \ {y})
  BY <1>2
<1>3. IsFiniteSet(T) /\ T # {}
  BY <1>2, FS_Subset
<1> DEFINE z == Some(T)
<1>4. z \in T /\ SumOver(f, T) = f[z] + SumOver(f, T \ {z})
  BY <1>3, SumFirst
<1> HIDE DEF z
<1> DEFINE R == (T \ {z}) \ {y}
<1>5. z # y
  BY <1>2a, <1>4
<1>6. /\ IsFiniteSet(T \ {z}) /\ Cardinality(T \ {z}) = n - 1 /\ n - 1 \in Nat
      /\ IsFiniteSet(T \ {y}) /\ Cardinality(T \ {y}) = n - 1
  <2>1. IsFiniteSet(T \ {z}) /\ Cardinality(T \ {z}) = n - 1
    BY <1>2, <1>3, <1>4, FS_RemoveElement
  <2>2. IsFiniteSet(T \ {y}) /\ Cardinality(T \ {y}) = n - 1
    BY <1>2, <1>3, FS_RemoveElement
  <2> QED
    BY <2>1, <2>2, FS_CardinalityType
<1>7. n - 1 \notin Bad
  BY <1>1, <1>6
<1>8. SumOver(f, T \ {z}) = f[y] + SumOver(f, R)
  BY <1>5, <1>6, <1>7
<1>9. SumOver(f, T \ {y}) = f[z] + SumOver(f, R)
  <2>1. (T \ {y}) \ {z} = R /\ T \ {y} \in SUBSET S /\ z \in T \ {y}
    BY <1>4, <1>5
  <2>2. ASSUME SumOver(f, T \ {y}) # f[z] + SumOver(f, (T \ {y}) \ {z}) PROVE n - 1 \in Bad
    BY <1>6, <2>1, <2>2
  <2> QED
    BY <1>7, <2>1, <2>2
<1>10. f[y] \in Nat /\ f[z] \in Nat /\ SumOver(f, R) \in Nat
  <2>1. IsFiniteSet(R)
    BY <1>6, FS_RemoveElement
  <2> QED
    BY <1>4, <2>1, SumNat
<1> HIDE DEF R
<1> QED
  BY <1>2a, <1>4, <1>8, <1>9, <1>10

\* The sum over two sets without a common member is the sum of theirs.
LEMMA SumApart ==
  ASSUME NEW f, NEW S, NEW T, IsFiniteSet(S), IsFiniteSet(T), S \cap T = {},
         \A x \in S \cup T : f[x] \in Nat
  PROVE  SumOver(f, S \cup T) = SumOver(f, S) + SumOver(f, T)
<1> DEFINE Bad == {n \in Nat : \E R \in SUBSET S : Cardinality(R) = n /\ SumOver(f, R \cup T) # SumOver(f, R) + SumOver(f, T)}
<1> SUFFICES ASSUME Bad # {} PROVE FALSE
  BY FS_CardinalityType
<1>1. PICK n \in Bad : \A m \in Nat : m < n => m \notin Bad
  BY FirstOne
<1>2. PICK R \in SUBSET S : Cardinality(R) = n /\ SumOver(f, R \cup T) # SumOver(f, R) + SumOver(f, T)
  BY <1>1
<1>3. IsFiniteSet(R) /\ IsFiniteSet(R \cup T)
  BY <1>2, FS_Subset, FS_Union
<1>4. SumOver(f, T) \in Nat
  BY SumNat
<1>5. ASSUME R = {} PROVE FALSE
  <2>1. R \cup T = T
    BY <1>5
  <2> QED
    BY <1>2, <1>4, <1>5, <2>1, SumOfNone
<1>6. PICK x \in R : TRUE
  BY <1>5
<1>7. SumOver(f, R) = f[x] + SumOver(f, R \ {x})
  BY <1>3, SumWithout
<1>8. SumOver(f, R \cup T) = f[x] + SumOver(f, (R \ {x}) \cup T)
  <2>1. (R \cup T) \ {x} = (R \ {x}) \cup T
    OBVIOUS
  <2>2. SumOver(f, R \cup T) = f[x] + SumOver(f, (R \cup T) \ {x})
    BY <1>3, SumWithout
  <2> QED
    BY <2>1, <2>2
<1>9. IsFiniteSet(R \ {x}) /\ Cardinality(R \ {x}) = n - 1 /\ n - 1 \in Nat
  BY <1>2, <1>3, <1>6, Smaller
<1>10. SumOver(f, (R \ {x}) \cup T) = SumOver(f, R \ {x}) + SumOver(f, T)
  <2>1. R \ {x} \in SUBSET S
    OBVIOUS
  <2>2. ASSUME SumOver(f, (R \ {x}) \cup T) # SumOver(f, R \ {x}) + SumOver(f, T) PROVE n - 1 \in Bad
    BY <1>9, <2>1, <2>2
  <2>3. n - 1 < n
    OBVIOUS
  <2> HIDE DEF Bad
  <2> QED
    BY <1>1, <1>9, <2>2, <2>3
<1>11. SumOver(f, R \ {x}) \in Nat /\ f[x] \in Nat
  BY <1>9, SumNat
<1> QED
  BY <1>2, <1>4, <1>7, <1>8, <1>10, <1>11

\* The sum of the sums.
LEMMA SumPlus ==
  ASSUME NEW f, NEW g, NEW h, NEW S, IsFiniteSet(S),
         \A x \in S : f[x] \in Nat /\ g[x] \in Nat /\ h[x] = f[x] + g[x]
  PROVE  SumOver(h, S) = SumOver(f, S) + SumOver(g, S)
<1> DEFINE Bad == {n \in Nat : \E R \in SUBSET S : Cardinality(R) = n /\ SumOver(h, R) # SumOver(f, R) + SumOver(g, R)}
<1> SUFFICES ASSUME Bad # {} PROVE FALSE
  BY FS_CardinalityType
<1>1. PICK n \in Bad : \A m \in Nat : m < n => m \notin Bad
  BY FirstOne
<1>2. PICK R \in SUBSET S : Cardinality(R) = n /\ SumOver(h, R) # SumOver(f, R) + SumOver(g, R)
  BY <1>1
<1>3. IsFiniteSet(R) /\ R # {}
  <2>1. SumOver(f, {}) = 0 /\ SumOver(g, {}) = 0 /\ SumOver(h, {}) = 0
    BY SumOfNone
  <2>2. ASSUME R = {} PROVE FALSE
    BY <1>2, <2>1, <2>2
  <2> QED
    BY <2>2, FS_Subset
<1>4. PICK x \in R : TRUE
  BY <1>3
<1>5. /\ SumOver(f, R) = f[x] + SumOver(f, R \ {x})
      /\ SumOver(g, R) = g[x] + SumOver(g, R \ {x})
      /\ SumOver(h, R) = h[x] + SumOver(h, R \ {x})
  <2>1. \A y \in R : h[y] \in Nat
    OBVIOUS
  <2> QED
    BY <1>3, <2>1, SumWithout
<1>6. IsFiniteSet(R \ {x}) /\ Cardinality(R \ {x}) = n - 1 /\ n - 1 \in Nat
  BY <1>2, <1>3, <1>4, Smaller
<1>7. SumOver(h, R \ {x}) = SumOver(f, R \ {x}) + SumOver(g, R \ {x})
  BY <1>1, <1>6
<1>8. SumOver(f, R \ {x}) \in Nat /\ SumOver(g, R \ {x}) \in Nat /\ f[x] \in Nat /\ g[x] \in Nat /\ h[x] = f[x] + g[x]
  BY <1>6, SumNat
<1> QED
  BY <1>2, <1>5, <1>7, <1>8

-----------------------------------------------------------------------------
(* The buckets of a report.                                                *)

\* In which window an age or an expiry falls.
LEMMA AgesApart ==
  ASSUME NEW d \in Int
  PROVE  BucketOf(Aging, "current", d) =
           IF d < 1 THEN "current" ELSE IF d < 31 THEN "d1_30" ELSE IF d < 61 THEN "d31_60"
           ELSE IF d < 91 THEN "d61_90" ELSE "d90_plus"
<1> DEFINE begun == {i \in DOMAIN Aging : Aging[i].from <= d}
<1>1. /\ DOMAIN Aging = 1..4
      /\ Aging[1].from = 1 /\ Aging[2].from = 31 /\ Aging[3].from = 61 /\ Aging[4].from = 91
      /\ Aging[1].key = "d1_30" /\ Aging[2].key = "d31_60" /\ Aging[3].key = "d61_90" /\ Aging[4].key = "d90_plus"
  BY DEF Aging
<1> HIDE DEF Aging
<1>2. begun = IF d < 1 THEN {} ELSE IF d < 31 THEN {1} ELSE IF d < 61 THEN {1, 2}
              ELSE IF d < 91 THEN {1, 2, 3} ELSE {1, 2, 3, 4}
  BY <1>1
<1>3. Max({1}) = 1 /\ Max({1, 2}) = 2 /\ Max({1, 2, 3}) = 3 /\ Max({1, 2, 3, 4}) = 4
  BY DEF Max
<1>4. BucketOf(Aging, "current", d) = IF begun = {} THEN "current" ELSE Aging[Max(begun)].key
  BY DEF BucketOf
<1> HIDE DEF begun
<1> QED
  BY <1>1, <1>2, <1>3, <1>4

\* The window of an expiry, by its days.
LEMMA ExpiriesApart ==
  ASSUME NEW d \in Int
  PROVE  ExpiryBucket(d) =
           IF d < 0 THEN "expired" ELSE IF d < 31 THEN "d30" ELSE IF d < 61 THEN "d60"
           ELSE IF d < 91 THEN "d90" ELSE IF d < 181 THEN "d180" ELSE "later"
<1> DEFINE begun == {i \in DOMAIN Expiry : Expiry[i].from <= d}
<1>1. /\ DOMAIN Expiry = 1..5
      /\ Expiry[1].from = 0 /\ Expiry[2].from = 31 /\ Expiry[3].from = 61 /\ Expiry[4].from = 91
      /\ Expiry[5].from = 181
      /\ Expiry[1].key = "d30" /\ Expiry[2].key = "d60" /\ Expiry[3].key = "d90" /\ Expiry[4].key = "d180"
      /\ Expiry[5].key = "later"
  BY DEF Expiry
<1> HIDE DEF Expiry
<1>2. begun = IF d < 0 THEN {} ELSE IF d < 31 THEN {1} ELSE IF d < 61 THEN {1, 2}
              ELSE IF d < 91 THEN {1, 2, 3} ELSE IF d < 181 THEN {1, 2, 3, 4} ELSE {1, 2, 3, 4, 5}
  BY <1>1
<1>3. /\ Max({1}) = 1 /\ Max({1, 2}) = 2 /\ Max({1, 2, 3}) = 3 /\ Max({1, 2, 3, 4}) = 4
      /\ Max({1, 2, 3, 4, 5}) = 5
  BY DEF Max
<1>4. ExpiryBucket(d) = IF begun = {} THEN "expired" ELSE Expiry[Max(begun)].key
  BY DEF BucketOf, ExpiryBucket
<1> HIDE DEF begun
<1> QED
  BY <1>1, <1>2, <1>3, <1>4

\* The keys of the windows.
LEMMA KeysOfBuckets ==
  /\ Ages = {"current", "d1_30", "d31_60", "d61_90", "d90_plus"}
  /\ ExpiryKeys = {"expired", "d30", "d60", "d90", "d180", "later"}
<1>1. /\ DOMAIN Aging = 1..4
      /\ Aging[1].key = "d1_30" /\ Aging[2].key = "d31_60" /\ Aging[3].key = "d61_90" /\ Aging[4].key = "d90_plus"
  BY DEF Aging
<1>2. /\ DOMAIN Expiry = 1..5
      /\ Expiry[1].key = "d30" /\ Expiry[2].key = "d60" /\ Expiry[3].key = "d90" /\ Expiry[4].key = "d180"
      /\ Expiry[5].key = "later"
  BY DEF Expiry
<1>3. {Aging[i].key : i \in DOMAIN Aging} = {"d1_30", "d31_60", "d61_90", "d90_plus"}
  BY <1>1
<1>4. {Expiry[i].key : i \in DOMAIN Expiry} = {"d30", "d60", "d90", "d180", "later"}
  BY <1>2
<1> QED
  BY <1>3, <1>4 DEF Ages, ExpiryKeys

-----------------------------------------------------------------------------
(* One line of a report.                                                   *)

OwedRows(e) == RowsIn(e, {"due", "overdue"})
DueToday(e) == OwedRows(e) \cap Aged(e, "current")
Others(e)   == Aged(e, "current") \ OwedRows(e)

\* What is billed is never negative.
LEMMA BilledNat ==
  ASSUME NEW e, IsEngagement(e)
  PROVE  \A i \in DOMAIN e.rows : Billed(e)[i] \in Nat
<1>1. Cadence[e.frequency].months \in Nat
  BY DEF IsEngagement, Cadence
<1>2. OrZero(e.recorded) \in Nat
  BY DEF IsEngagement, Amounts, OrZero
<1>3. OrZero(e.recorded) * Cadence[e.frequency].months \in Nat
  BY <1>1, <1>2
<1> QED
  BY <1>3 DEF IsEngagement, Billed

\* Every row is of one age, and what is owed is late or falls due today.
LEMMA RowsByAge ==
  ASSUME NEW e, IsEngagement(e)
  PROVE  /\ OwedRows(e) = DueToday(e) \cup (Aged(e, "d1_30") \cup (Aged(e, "d31_60")
                            \cup (Aged(e, "d61_90") \cup Aged(e, "d90_plus"))))
         /\ Aged(e, "current") = DueToday(e) \cup Others(e)
<1>1. \A i \in DOMAIN e.rows : i \notin OwedRows(e) => AgeBucket(e, i) = "current"
  BY DEF AgeBucket, OwedRows
<1>2. \A i \in OwedRows(e) : i \in DOMAIN e.rows /\
        AgeBucket(e, i) \in {"current", "d1_30", "d31_60", "d61_90", "d90_plus"}
  <2> TAKE i \in OwedRows(e)
  <2>1. i \in DOMAIN e.rows /\ -e.rows[i].due \in Int
    BY DEF OwedRows, RowsIn, IsEngagement
  <2>2. AgeBucket(e, i) = BucketOf(Aging, "current", -e.rows[i].due)
    BY DEF OwedRows, AgeBucket
  <2> QED
    BY <2>1, <2>2, AgesApart
<1> QED
  BY <1>1, <1>2 DEF Aged, DueToday, Others

SumDue(e)    == SumOver(Billed(e), DueToday(e))
SumOthers(e) == SumOver(Billed(e), Others(e))
SumAged(e, age) == SumOver(Billed(e), Aged(e, age))

\* Within a line, what is outstanding is what its ages hold but for what is not late.
LEMMA LineAddsUp ==
  ASSUME NEW e, IsEngagement(e)
  PROVE  /\ SumOf(e, {"due", "overdue"}) =
              SumDue(e) + (SumAged(e, "d1_30") + (SumAged(e, "d31_60")
                + (SumAged(e, "d61_90") + SumAged(e, "d90_plus"))))
         /\ SumAged(e, "current") = SumDue(e) + SumOthers(e)
         /\ SumDue(e) \in Nat /\ SumOthers(e) \in Nat
         /\ \A age : SumAged(e, age) \in Nat
<1> DEFINE R == DOMAIN e.rows
           A == Aged(e, "d1_30")
           B == Aged(e, "d31_60")
           C == Aged(e, "d61_90")
           D == Aged(e, "d90_plus")
           T == DueToday(e)
           O == Others(e)
           f == Billed(e)
<1>1. IsFiniteSet(R)
  BY DEF IsEngagement
<1>2. \A age : Aged(e, age) \subseteq R
  BY DEF Aged
<1>3. T \subseteq R /\ O \subseteq R
  BY <1>2 DEF DueToday, Others
<1>4. \A age : IsFiniteSet(Aged(e, age))
  BY <1>1, <1>2, FS_Subset
<1>5. IsFiniteSet(T) /\ IsFiniteSet(O)
  BY <1>1, <1>3, FS_Subset
<1>6. \A i \in R : f[i] \in Nat
  BY BilledNat
<1>7. /\ C \cap D = {} /\ B \cap (C \cup D) = {} /\ A \cap (B \cup (C \cup D)) = {}
      /\ T \cap (A \cup (B \cup (C \cup D))) = {} /\ T \cap O = {}
  BY DEF Aged, DueToday, Others
<1>8. /\ OwedRows(e) = T \cup (A \cup (B \cup (C \cup D)))
      /\ Aged(e, "current") = T \cup O
  BY RowsByAge
<1>9. \A age : SumAged(e, age) \in Nat
  BY <1>2, <1>4, <1>6, SumNat DEF SumAged
<1>10. SumDue(e) \in Nat /\ SumOthers(e) \in Nat
  BY <1>3, <1>5, <1>6, SumNat DEF SumDue, SumOthers
<1>11. SumAged(e, "current") = SumDue(e) + SumOthers(e)
  BY <1>3, <1>5, <1>6, <1>7, <1>8, SumApart DEF SumAged, SumDue, SumOthers
<1>12. IsFiniteSet(A) /\ IsFiniteSet(B) /\ IsFiniteSet(C) /\ IsFiniteSet(D)
  BY <1>4
<1>13. A \subseteq R /\ B \subseteq R /\ C \subseteq R /\ D \subseteq R
  BY <1>2
<1>14. IsFiniteSet(C \cup D) /\ IsFiniteSet(B \cup (C \cup D)) /\ IsFiniteSet(A \cup (B \cup (C \cup D)))
  BY <1>12, FS_Union
<1>15. SumOf(e, {"due", "overdue"}) = SumOver(f, T \cup (A \cup (B \cup (C \cup D))))
  BY <1>8 DEF SumOf, OwedRows
<1> HIDE DEF A, B, C, D, T, O, f, R
<1>16. SumOver(f, C \cup D) = SumOver(f, C) + SumOver(f, D)
  BY <1>6, <1>7, <1>12, <1>13, SumApart
<1>17. SumOver(f, B \cup (C \cup D)) = SumOver(f, B) + SumOver(f, C \cup D)
  BY <1>6, <1>7, <1>12, <1>13, <1>14, SumApart
<1>18. SumOver(f, A \cup (B \cup (C \cup D))) = SumOver(f, A) + SumOver(f, B \cup (C \cup D))
  BY <1>6, <1>7, <1>12, <1>13, <1>14, SumApart
<1>19. SumOver(f, T \cup (A \cup (B \cup (C \cup D)))) = SumOver(f, T) + SumOver(f, A \cup (B \cup (C \cup D)))
  BY <1>3, <1>5, <1>6, <1>7, <1>13, <1>14, SumApart
<1> QED
  BY <1>9, <1>10, <1>11, <1>15, <1>16, <1>17, <1>18, <1>19 DEF SumAged, SumDue, A, B, C, D, T, f

-----------------------------------------------------------------------------
(* The whole book.                                                         *)

LinesOf(b) == [x \in DOMAIN b |-> Line(b[x])]
IsBook(b) == IsFiniteSet(DOMAIN b) /\ \A x \in DOMAIN b : IsEngagement(b[x])

\* The status, the dues and the expiry of a line.
LEMMA LineFields ==
  ASSUME NEW e, IsEngagement(e)
  PROVE  /\ Line(e).dues \in Nat
         /\ Line(e).ends = None \/ Line(e).ends \in Int
         /\ Line(e).outstanding = SumOf(e, {"due", "overdue"})
         /\ \A age \in Ages : Line(e).aged[age] = SumAged(e, age)
<1>1. Line(e).dues = OrZero(Dues(e)) /\ Line(e).ends = e.ends
  BY DEF Line
<1>2. \A s \in ShownCycle(e.cycles) : s \in DOMAIN e.cycles
  BY DEF ShownCycle
<1>3. Dues(e) \in Amounts
  BY <1>2 DEF Dues, Shown, IsEngagement
<1>4. OrZero(Dues(e)) \in Nat
  BY <1>3 DEF OrZero, Amounts
<1>5. e.ends = None \/ e.ends \in Int
  BY DEF IsEngagement
<1>6. /\ Line(e).outstanding = SumOf(e, {"due", "overdue"})
      /\ Line(e).aged = [age \in Ages |-> SumOver(Billed(e), Aged(e, age))]
  BY DEF Line
<1> QED
  BY <1>1, <1>4, <1>5, <1>6 DEF SumAged

\* What is outstanding is filed under some age.
LEMMA AgesAddUp ==
  ASSUME NEW b, IsBook(b)
  PROVE  \E notLate \in 0..Report(b).aging["current"] :
           Report(b).totals.outstanding =
             notLate + Report(b).aging["d1_30"] + Report(b).aging["d31_60"] + Report(b).aging["d61_90"]
               + Report(b).aging["d90_plus"]
<1> DEFINE S == DOMAIN b
           lines == LinesOf(b)
           aged(age) == [x \in S |-> lines[x].aged[age]]
           total(age) == SumOver(aged(age), S)
           due == [x \in S |-> SumDue(b[x])]
           others == [x \in S |-> SumOthers(b[x])]
           owed == [x \in S |-> lines[x]["outstanding"]]
           f4 == [x \in S |-> aged("d61_90")[x] + aged("d90_plus")[x]]
           f3 == [x \in S |-> aged("d31_60")[x] + f4[x]]
           f2 == [x \in S |-> aged("d1_30")[x] + f3[x]]
<1>1. IsFiniteSet(S)
  BY DEF IsBook
<1>2. /\ DOMAIN lines = S
      /\ \A age \in Ages : Report(b).aging[age] = total(age)
      /\ Report(b).totals.outstanding = SumOver(owed, S)
  BY DEF LinesOf, Report, Rollup, Totals, Total
<1>3. \A x \in S :
        /\ owed[x] = due[x] + (aged("d1_30")[x] + (aged("d31_60")[x] + (aged("d61_90")[x] + aged("d90_plus")[x])))
        /\ aged("current")[x] = due[x] + others[x]
        /\ due[x] \in Nat /\ others[x] \in Nat
        /\ aged("d1_30")[x] \in Nat /\ aged("d31_60")[x] \in Nat /\ aged("d61_90")[x] \in Nat
        /\ aged("d90_plus")[x] \in Nat
  <2> TAKE x \in S
  <2>1. IsEngagement(b[x]) /\ lines[x] = Line(b[x])
    BY DEF IsBook, LinesOf
  <2>2. /\ lines[x].outstanding = SumOf(b[x], {"due", "overdue"})
        /\ \A age \in Ages : lines[x].aged[age] = SumAged(b[x], age)
    BY <2>1, LineFields
  <2>3. \A age \in Ages : aged(age)[x] = SumAged(b[x], age)
    BY <2>2
  <2>4. owed[x] = SumOf(b[x], {"due", "overdue"}) /\ due[x] = SumDue(b[x]) /\ others[x] = SumOthers(b[x])
    BY <2>2
  <2> HIDE DEF aged, owed, due, others
  <2>5. \A age \in {"current", "d1_30", "d31_60", "d61_90", "d90_plus"} : aged(age)[x] = SumAged(b[x], age)
    BY <2>3, KeysOfBuckets
  <2> QED
    BY <2>1, <2>4, <2>5, LineAddsUp
<1>4. \A x \in S :
        /\ f4[x] = aged("d61_90")[x] + aged("d90_plus")[x] /\ f3[x] = aged("d31_60")[x] + f4[x]
        /\ f2[x] = aged("d1_30")[x] + f3[x]
  OBVIOUS
<1> HIDE DEF lines, due, others, owed, aged, f4, f3, f2
<1>5. SumOver(f4, S) = SumOver(aged("d61_90"), S) + SumOver(aged("d90_plus"), S)
  BY <1>1, <1>3, <1>4, SumPlus
<1>6. SumOver(f3, S) = SumOver(aged("d31_60"), S) + SumOver(f4, S)
  BY <1>1, <1>3, <1>4, SumPlus
<1>7. SumOver(f2, S) = SumOver(aged("d1_30"), S) + SumOver(f3, S)
  BY <1>1, <1>3, <1>4, SumPlus
<1>8. SumOver(owed, S) = SumOver(due, S) + SumOver(f2, S)
  BY <1>1, <1>3, <1>4, SumPlus
<1>9. SumOver(aged("current"), S) = SumOver(due, S) + SumOver(others, S)
  BY <1>1, <1>3, SumPlus
<1>10. /\ SumOver(due, S) \in Nat /\ SumOver(others, S) \in Nat
       /\ total("d1_30") \in Nat /\ total("d31_60") \in Nat /\ total("d61_90") \in Nat
       /\ total("d90_plus") \in Nat
  BY <1>1, <1>3, SumNat
<1>11. SumOver(due, S) \in 0..total("current")
  BY <1>9, <1>10
<1>12. SumOver(owed, S) =
         SumOver(due, S) + total("d1_30") + total("d31_60") + total("d61_90") + total("d90_plus")
  BY <1>5, <1>6, <1>7, <1>8, <1>10
<1>13. /\ Report(b).aging["current"] = total("current") /\ Report(b).aging["d1_30"] = total("d1_30")
       /\ Report(b).aging["d31_60"] = total("d31_60") /\ Report(b).aging["d61_90"] = total("d61_90")
       /\ Report(b).aging["d90_plus"] = total("d90_plus")
  BY <1>2, KeysOfBuckets
<1> HIDE DEF total
<1> QED
  BY <1>2, <1>11, <1>12, <1>13

\* What ends within ninety days is what the first windows hold.
LEMMA RenewalsAddUp ==
  ASSUME NEW b, IsBook(b)
  PROVE  Report(b).renewal.value =
           Report(b).expiry["expired"].value + Report(b).expiry["d30"].value + Report(b).expiry["d60"].value
             + Report(b).expiry["d90"].value
<1> DEFINE S == DOMAIN b
           lines == LinesOf(b)
           f == [x \in S |-> lines[x]["dues"]]
           A == Expiring(lines, "expired")
           B == Expiring(lines, "d30")
           C == Expiring(lines, "d60")
           D == Expiring(lines, "d90")
           R == {x \in Dated(lines) : lines[x].ends <= 90}
<1>1. IsFiniteSet(S) /\ DOMAIN lines = S
  BY DEF IsBook, LinesOf
<1>2. A \subseteq S /\ B \subseteq S /\ C \subseteq S /\ D \subseteq S /\ R \subseteq S
  BY <1>1 DEF Expiring, Dated, LiveIn
<1>3. IsFiniteSet(A) /\ IsFiniteSet(B) /\ IsFiniteSet(C) /\ IsFiniteSet(D) /\ IsFiniteSet(R)
  BY <1>1, <1>2, FS_Subset
<1>4. \A x \in S : f[x] \in Nat /\ (lines[x].ends = None \/ lines[x].ends \in Int)
  <2> TAKE x \in S
  <2>1. IsEngagement(b[x]) /\ lines[x] = Line(b[x])
    BY DEF IsBook, LinesOf
  <2>2. lines[x].dues \in Nat /\ (lines[x].ends = None \/ lines[x].ends \in Int)
    BY <2>1, LineFields
  <2> QED
    BY <2>2
<1>5. R = A \cup (B \cup (C \cup D))
  <2>1. \A x \in Dated(lines) : x \in S /\ lines[x].ends \in Int
    BY <1>1, <1>4 DEF Dated, LiveIn
  <2>2. \A x \in Dated(lines) :
          lines[x].ends <= 90 <=> ExpiryBucket(lines[x].ends) \in {"expired", "d30", "d60", "d90"}
    <3> TAKE x \in Dated(lines)
    <3> DEFINE d == lines[x].ends
    <3>1. d \in Int
      BY <2>1
    <3> HIDE DEF d
    <3>2. d <= 90 <=> ExpiryBucket(d) \in {"expired", "d30", "d60", "d90"}
      BY <3>1, ExpiriesApart
    <3> QED
      BY <3>2 DEF d
  <2> QED
    BY <2>2 DEF Expiring
<1>6. C \cap D = {} /\ B \cap (C \cup D) = {} /\ A \cap (B \cup (C \cup D)) = {}
  BY DEF Expiring
<1>7. \A ids \in SUBSET S : Worth(lines, ids).value = SumOver(f, ids)
  <2> TAKE ids \in SUBSET S
  <2> DEFINE g == [x \in ids |-> lines[x]["dues"]]
  <2>1. IsFiniteSet(ids) /\ \A x \in ids : g[x] = f[x]
    BY <1>1, FS_Subset
  <2>2. Worth(lines, ids).value = SumOver(g, ids)
    BY DEF Worth, Total
  <2> HIDE DEF f, g
  <2> QED
    BY <2>1, <2>2, SumSame
<1>8. /\ Report(b).renewal = Worth(lines, R)
      /\ \A key \in ExpiryKeys : Report(b).expiry[key] = Worth(lines, Expiring(lines, key))
  BY DEF Report, Rollup, LinesOf
<1>9. /\ Report(b).expiry["expired"] = Worth(lines, A) /\ Report(b).expiry["d30"] = Worth(lines, B)
      /\ Report(b).expiry["d60"] = Worth(lines, C) /\ Report(b).expiry["d90"] = Worth(lines, D)
  BY <1>8, KeysOfBuckets
<1>10. IsFiniteSet(C \cup D) /\ IsFiniteSet(B \cup (C \cup D))
  BY <1>3, FS_Union
<1> HIDE DEF A, B, C, D, R, f, S, lines
<1>11. SumOver(f, C \cup D) = SumOver(f, C) + SumOver(f, D)
  BY <1>2, <1>3, <1>4, <1>6, SumApart
<1>12. SumOver(f, B \cup (C \cup D)) = SumOver(f, B) + SumOver(f, C \cup D)
  BY <1>2, <1>3, <1>4, <1>6, <1>10, SumApart
<1>13. SumOver(f, A \cup (B \cup (C \cup D))) = SumOver(f, A) + SumOver(f, B \cup (C \cup D))
  BY <1>2, <1>3, <1>4, <1>6, <1>10, SumApart
<1>14. SumOver(f, A) \in Nat /\ SumOver(f, B) \in Nat /\ SumOver(f, C) \in Nat /\ SumOver(f, D) \in Nat
  BY <1>2, <1>3, <1>4, SumNat
<1>15. /\ Report(b).renewal.value = SumOver(f, R)
       /\ Report(b).expiry["expired"].value = SumOver(f, A) /\ Report(b).expiry["d30"].value = SumOver(f, B)
       /\ Report(b).expiry["d60"].value = SumOver(f, C) /\ Report(b).expiry["d90"].value = SumOver(f, D)
  BY <1>2, <1>7, <1>8, <1>9
<1> QED
  BY <1>5, <1>11, <1>12, <1>13, <1>14, <1>15

-----------------------------------------------------------------------------
(* Amendments and the line of their engagement.                            *)

\* Of the cycles there are, one is the latest.
LEMMA SomeIsLatest ==
  ASSUME NEW e, IsEngagement(e), NEW ids \in SUBSET DOMAIN e.cycles, ids # {}
  PROVE  \E s \in ids : IsLatest(e.cycles, ids, s)
<1> DEFINE LaterOnes(s) == {o \in ids : Later(e.cycles[o], e.cycles[s])}
           Counts == {Cardinality(LaterOnes(s)) : s \in ids}
<1>1. IsFiniteSet(ids)
  BY FS_Subset DEF IsEngagement
<1>2. \A s \in ids : IsFiniteSet(LaterOnes(s)) /\ Cardinality(LaterOnes(s)) \in Nat
  <2> TAKE s \in ids
  <2>1. LaterOnes(s) \in SUBSET ids
    OBVIOUS
  <2> HIDE DEF LaterOnes
  <2> QED
    BY <1>1, <2>1, FS_Subset, FS_CardinalityType
<1> HIDE DEF LaterOnes
<1>3. PICK n \in Counts : \A m \in Nat : m < n => m \notin Counts
  <2>1. Counts \subseteq Nat /\ Counts # {}
    BY <1>2
  <2> HIDE DEF Counts
  <2> QED
    BY <2>1, FirstOne
<1>4. PICK s \in ids : n = Cardinality(LaterOnes(s))
  OBVIOUS
<1>5. ASSUME NEW o \in ids, Later(e.cycles[o], e.cycles[s]) PROVE FALSE
  <2>1. \A x \in ids : e.cycles[x].cycle \in Nat /\ e.cycles[x].created \in Nat
    BY DEF IsEngagement
  <2>2. \A x \in ids : Later(e.cycles[x], e.cycles[o]) => Later(e.cycles[x], e.cycles[s])
    BY <1>5, <2>1 DEF Later
  <2>3. ~Later(e.cycles[o], e.cycles[o])
    BY <2>1 DEF Later
  <2>4. LaterOnes(o) \in SUBSET LaterOnes(s) /\ o \in LaterOnes(s) /\ o \notin LaterOnes(o)
    BY <1>5, <2>2, <2>3 DEF LaterOnes
  <2>5. Cardinality(LaterOnes(o)) <= Cardinality(LaterOnes(s)) /\ Cardinality(LaterOnes(o)) # Cardinality(LaterOnes(s))
    BY <1>2, <2>4, FS_Subset
  <2>6. Cardinality(LaterOnes(o)) < n /\ Cardinality(LaterOnes(o)) \in Nat /\ Cardinality(LaterOnes(o)) \in Counts
    BY <1>2, <1>4, <2>5
  <2> HIDE DEF Counts
  <2> QED
    BY <1>3, <2>6
<1> QED
  BY <1>5 DEF IsLatest

\* An engagement is live by the cycle in force, which a new draft is not.
LEMMA DraftsAreNotInForce ==
  ASSUME NEW e, IsEngagement(e), IsLive(e)
  PROVE  Line(Amended(e)) = Line(e)
<1> DEFINE n == Cardinality(DOMAIN e.cycles) + 1
           new == [s \in DOMAIN e.cycles \cup {n} |->
                     IF s = n THEN [status |-> "DRAFT", cycle |-> n, created |-> n, priced |-> None]
                     ELSE e.cycles[s]]
           a == Amended(e)
<1>1. n \notin DOMAIN e.cycles
  <2>1. Cardinality(DOMAIN e.cycles) \in Nat
    BY FS_CardinalityType DEF IsEngagement
  <2> QED
    BY <2>1 DEF IsEngagement
<1>2. /\ a.cycles = new
      /\ a.own = e.own /\ a.recorded = e.recorded /\ a.frequency = e.frequency /\ a.fleet = e.fleet
      /\ a.customer = e.customer /\ a.client = e.client /\ a.ends = e.ends /\ a.rows = e.rows
  BY DEF Amended, IsEngagement
<1>3. Live(e.cycles) # {} /\ ShownCycle(e.cycles) # {}
  <2>1. ASSUME ShownCycle(e.cycles) = {} PROVE FALSE
    <3>1. e.own = "ACTIVE"
      BY <2>1 DEF IsLive, Status
    <3>2. DOMAIN e.cycles # {}
      BY <3>1 DEF IsEngagement
    <3>3. Live(e.cycles) \in SUBSET DOMAIN e.cycles
      BY DEF Live
    <3>4. \E s \in DOMAIN e.cycles : IsCycleInForce(e.cycles, s)
      BY <3>2, <3>3, SomeIsLatest DEF IsCycleInForce
    <3> QED
      BY <2>1, <3>4 DEF ShownCycle
  <2> DEFINE s == CHOOSE s \in ShownCycle(e.cycles) : TRUE
  <2>2. s \in ShownCycle(e.cycles)
    BY <2>1
  <2>3. s \in DOMAIN e.cycles /\ e.cycles[s].status = "ACTIVE"
    BY <2>1, <2>2 DEF ShownCycle, IsLive, Status, Shown
  <2> QED
    BY <2>1, <2>3 DEF Live
<1>4. /\ DOMAIN new = DOMAIN e.cycles \cup {n}
      /\ \A s \in DOMAIN e.cycles : new[s] = e.cycles[s]
      /\ new[n].status = "DRAFT"
  BY <1>1
<1> HIDE DEF new, n, a
<1>5. Live(new) = Live(e.cycles)
  BY <1>4 DEF Live
<1>6. \A s : s \in ShownCycle(new) <=> s \in ShownCycle(e.cycles)
  <2> TAKE s
  <2>1. \A x \in Live(e.cycles) : x \in DOMAIN e.cycles /\ new[x] = e.cycles[x]
    BY <1>4 DEF Live
  <2>2. IsLatest(new, Live(new), s) <=> IsLatest(e.cycles, Live(e.cycles), s)
    BY <1>5, <2>1 DEF IsLatest
  <2>3. s \in ShownCycle(new) <=> s \in DOMAIN new /\ IsLatest(new, Live(new), s)
    BY <1>3, <1>5 DEF ShownCycle, IsCycleInForce
  <2>4. s \in ShownCycle(e.cycles) <=> s \in DOMAIN e.cycles /\ IsLatest(e.cycles, Live(e.cycles), s)
    BY <1>3 DEF ShownCycle, IsCycleInForce
  <2>5. IsLatest(e.cycles, Live(e.cycles), s) => s \in DOMAIN e.cycles
    BY <2>1 DEF IsLatest
  <2> QED
    BY <1>4, <2>2, <2>3, <2>4, <2>5
<1>7. ShownCycle(a.cycles) = ShownCycle(e.cycles)
  BY <1>2, <1>6
<1>8. Shown(a) = Shown(e)
  <2>1. (CHOOSE s \in ShownCycle(e.cycles) : TRUE) \in DOMAIN e.cycles
    BY <1>3 DEF ShownCycle
  <2> QED
    BY <1>2, <1>4, <1>7, <2>1 DEF Shown
<1>9. Status(a) = Status(e) /\ Dues(a) = Dues(e)
  BY <1>2, <1>7, <1>8 DEF Status, Dues, IsLive
<1>10. Billed(a) = Billed(e) /\ \A i : Payment(a, i) = Payment(e, i)
  BY <1>2 DEF Billed, Payment
<1>11. \A st : RowsIn(a, st) = RowsIn(e, st) /\ SumOf(a, st) = SumOf(e, st)
  BY <1>2, <1>10 DEF RowsIn, SumOf
<1>12. \A i : AgeBucket(a, i) = AgeBucket(e, i)
  BY <1>2, <1>11 DEF AgeBucket
<1>13. \A age : Aged(a, age) = Aged(e, age)
  BY <1>2, <1>12 DEF Aged
<1> QED
  BY <1>2, <1>9, <1>10, <1>11, <1>13 DEF Line, a

\* A draft opened beside every live engagement leaves the report as it is.
LEMMA AmendmentsDoNotMoveTheBook ==
  ASSUME NEW b, IsBook(b)
  PROVE  Report(b) = Report([x \in DOMAIN b |-> IF IsLive(b[x]) THEN Amended(b[x]) ELSE b[x]])
<1> DEFINE c == [x \in DOMAIN b |-> IF IsLive(b[x]) THEN Amended(b[x]) ELSE b[x]]
<1>1. \A x \in DOMAIN b : Line(c[x]) = Line(b[x])
  <2> TAKE x \in DOMAIN b
  <2>1. IsEngagement(b[x])
    BY DEF IsBook
  <2>2. CASE IsLive(b[x])
    BY <2>1, <2>2, DraftsAreNotInForce
  <2>3. CASE ~IsLive(b[x])
    BY <2>3
  <2> QED
    BY <2>2, <2>3
<1>2. DOMAIN c = DOMAIN b
  OBVIOUS
<1> HIDE DEF c
<1>3. [x \in DOMAIN c |-> Line(c[x])] = [x \in DOMAIN b |-> Line(b[x])]
  BY <1>1, <1>2
<1> QED
  BY <1>3, Zenon DEF Report, c

-----------------------------------------------------------------------------
(* The theorem of the reports.                                             *)

\* What has been answered is the report of the book that was asked about.
IInv ==
  \/ book = {} /\ report = {}
  \/ \E b \in Books : book = {b} /\ report = {Report(b)}

\* The book does not move when amendments are opened, and it adds up, for any
\* engagements, cycles, dues and payments (finance_dashboard).
THEOREM Portfolio == ReportSpec => []PortfolioIsTheTermsInForce
<1>1. ReportInit => IInv
  BY DEF ReportInit, IInv
<1>2. IInv /\ [ReportNext]_reportVars => IInv'
  BY DEF IInv, ReportNext, Ask, reportVars
<1>3. IInv => PortfolioIsTheTermsInForce
  <2> SUFFICES ASSUME IInv, NEW b \in book, NEW r \in report
               PROVE  /\ r = Report([x \in DOMAIN b |-> IF IsLive(b[x]) THEN Amended(b[x]) ELSE b[x]])
                      /\ \E notLate \in 0..r.aging["current"] :
                           r.totals.outstanding =
                             notLate + r.aging["d1_30"] + r.aging["d31_60"] + r.aging["d61_90"]
                               + r.aging["d90_plus"]
                      /\ r.renewal.value = r.expiry["expired"].value + r.expiry["d30"].value
                                             + r.expiry["d60"].value + r.expiry["d90"].value
    BY DEF PortfolioIsTheTermsInForce
  <2>1. b \in Books /\ r = Report(b)
    BY DEF IInv
  <2>2. IsBook(b)
    BY <2>1, BooksAssumption DEF IsBook
  <2> QED
    BY <2>1, <2>2, AmendmentsDoNotMoveTheBook, AgesAddUp, RenewalsAddUp
<1> QED
  BY <1>1, <1>2, <1>3, PTL DEF ReportSpec

-----------------------------------------------------------------------------
(* The parts side by side.                                                 *)

deskVars ==
  <<focus, fleetVars, catalogVars, peopleVars, readingVars, answer, reportVars>>

\* A turn of one part is a step of that part, and no step of the others: each
\* part of a behaviour of the desk is a behaviour of its own, so that what is
\* proved of the parts holds of them side by side.
THEOREM PartsAreOnTheirOwn ==
  DeskSpec => Spec /\ CatalogSpec /\ PeopleSpec /\ ReadingSpec /\ AnswerSpec /\ ReportSpec
<1>1. DeskInit => /\ Init /\ CatalogInit /\ PeopleInit /\ ReadingInit /\ AnswerInit /\ ReportInit
  BY DEF DeskInit
<1>2. [DeskNext]_deskVars => /\ [Next]_fleetVars /\ [CatalogNext]_catalogVars
                             /\ [PeopleNext]_peopleVars /\ [ReadingNext]_readingVars
                             /\ [AnswerNext]_answer /\ [ReportNext]_reportVars
  BY Zenon DEF deskVars, DeskNext, FleetTurn, CatalogTurn, PeopleTurn, ReadingTurn, AnswerTurn, FinanceTurn
<1> QED
  BY <1>1, <1>2, PTL DEF DeskSpec, deskVars, Spec, CatalogSpec, PeopleSpec, ReadingSpec, AnswerSpec, ReportSpec

\* Every part keeps its types when they work side by side.
THEOREM EveryPartTypes == DeskSpec => []EveryPartTypeOK
<1>1. TypeOK /\ CatalogTypeOK /\ PeopleTypeOK /\ ReadingTypeOK => EveryPartTypeOK
  BY DEF EveryPartTypeOK
<1> QED
  BY <1>1, PartsAreOnTheirOwn, FleetTypes, CatalogTypes, PeopleTypes, ReadingTypes, PTL

\* Whatever the parts promise holds of every behaviour of the desk: a focus names
\* the part that runs, and the promises of the others are kept by standing still.
THEOREM TheDeskKeepsItsWord ==
  DeskSpec =>
    /\ [](/\ FleetIsWhatIsAssigned /\ NamesFollowTheProfile /\ QuietReadingsAreWhole
          /\ RepairsKeepEveryPage /\ WholeRecordsComeBack /\ PortfolioIsTheTermsInForce)
    /\ TakenVehiclesStay /\ CustomersKeepTheirUnits
    /\ NamesLeaveTheQueueKnown /\ KnownNamesAreNotQueued
    /\ StaffAreNotCustomers /\ InvitationsArrive
BY PartsAreOnTheirOwn, FleetsAreCounted, NamesFollow, QuietReadings, Repairs, Salvaged, Portfolio,
   TakenVehiclesStayTaken, CustomersAreKept, NamesLeaveKnown, KnownStayOffTheQueue,
   StaffStayStaff, InvitationsAnswered, PTL

=============================================================================
