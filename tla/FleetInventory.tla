--------------------------- MODULE FleetInventory ---------------------------
(***************************************************************************)
(* The vehicle inventory (api/vehicles.py): units that are ordered,        *)
(* stocked, assigned to engagements, released and retired, and the fleet   *)
(* each engagement counts.  Every change of a vehicle reads the row and    *)
(* puts all of it back; two requests may be at it at the same time, and    *)
(* one may end at any call.  What the fleet does to the dues is            *)
(* EngagementBilling.                                                      *)
(***************************************************************************)
EXTENDS Nothing, Integers, Sequences, FiniteSets

CONSTANTS
  Vehicles, Engagements, Customers,
  CustomerOf,      \* engagement -> the customer it is linked to, or None
  Locked,          \* engagements whose billing is live: their fleet is frozen
  Deliveries,      \* what vehicles may be created as: [id, owner, status, customer]
  Lists,           \* what one request may be asked to assign
  FleetRequests,   \* request handlers at work at the same time
  FleetShifts,     \* request -> the kinds of request it may be
  Patches          \* statuses a PATCH may set, None for one that sets none

VehicleStatuses == {"IN_STOCK", "ASSIGNED", "ON_ORDER", "RETIRED"}
Ownerships == {"WHEELS_OWNED", "CUSTOMER_OWNED"}
VehicleRows ==
  [owner : Ownerships, status : VehicleStatuses, customer : Customers \cup {None},
   engagement : Engagements \cup {None}]

ASSUME FleetLinks ==
  /\ IsFiniteSet(Vehicles)
  /\ CustomerOf \in [Engagements -> Customers \cup {None}]
  /\ None \notin Engagements \cup VehicleRows
ASSUME RequestsAssumption ==
  /\ Deliveries \subseteq [id : Vehicles, owner : Ownerships,
                          status : VehicleStatuses \cup {None}, customer : Customers \cup {None}]
  /\ \A list \in Lists : list \in Seq(Vehicles)
  /\ Patches \subseteq VehicleStatuses \cup {None}
  /\ None \notin VehicleStatuses \cup {"release", "notes"}

VARIABLES
  vehicle,    \* vehicle -> its row, or None
  history,    \* vehicle -> the engagement of its latest assignment row
  fleet,      \* engagement -> fleet_size as last written
  desk,       \* request -> what it is doing and remembers
  counted     \* history: engagements whose fleet the last change left counted

fleetVars == <<vehicle, history, fleet, desk, counted>>

\* The validator every row goes through before it is put: a customer-owned
\* unit is never in stock and always has its customer.
IsValid(row) ==
  row.owner = "CUSTOMER_OWNED" => row.status # "IN_STOCK" /\ row.customer # None

\* Whether a row gets through it; above it, a copy made past the validator.
AcceptedUnseen(row) == TRUE
Accepted(row) == IsValid(row)

Row(owner, status, customer) ==
  [owner |-> owner, status |-> status, customer |-> customer, engagement |-> None]

OffDuty ==
  [at |-> "idle", todo |-> <<>>, engagement |-> None, row |-> None, free |-> FALSE,
   patch |-> None, count |-> 0, alone |-> TRUE, owes |-> FALSE]

Working(r) == desk[r] # OffDuty
Goes(r, w) == desk' = [desk EXCEPT ![r] = w]
Ends(r)    == Goes(r, OffDuty)

\* A request that is over before its count leaves the fleet it owes uncounted.
Abandons(r) ==
  /\ Ends(r)
  /\ counted' = IF desk[r].owes THEN counted \ {desk[r].engagement} ELSE counted

\* A request begins, and every other one has company from now on.
Begin(r, w) ==
  /\ ~Working(r)
  /\ desk' = [o \in FleetRequests |->
       IF o = r THEN [w EXCEPT !.alone = \A other \in FleetRequests \ {r} : ~Working(other)]
       ELSE [desk[o] EXCEPT !.alone = ~Working(o)]]

Crossed(r, engagements) == IF desk[r].alone THEN counted ELSE counted \ engagements
On(e)      == {v \in Vehicles : vehicle[v] # None /\ vehicle[v].engagement = e}

-----------------------------------------------------------------------------
\* create_vehicle: one put; customer-owned units need a customer.
CreateVehicle(v, owner, status, customer) ==
  /\ vehicle[v] = None
  /\ owner = "CUSTOMER_OWNED" => customer # None
  /\ LET given == IF status # None THEN status
                  ELSE IF owner = "CUSTOMER_OWNED" THEN "ON_ORDER" ELSE "IN_STOCK"
         row   == Row(owner, given, customer)
     IN  /\ Accepted(row)
         /\ vehicle' = [vehicle EXCEPT ![v] = row]
  /\ UNCHANGED <<history, fleet, desk, counted>>

-----------------------------------------------------------------------------
(* Assignment, of one vehicle or of a list: each is checked, read again,   *)
(* put, and gets an assignment row; then the fleet is counted.             *)

\* _assign_one's checks; above each, one that lets everything through.
IsAnyones(row, e) == TRUE
IsOfCustomer(row, e) ==
  row.owner = "CUSTOMER_OWNED" /\ row.customer # None /\ CustomerOf[e] # None
    => row.customer = CustomerOf[e]

TakenToo(row, e) == row.status # "RETIRED" /\ IsOfCustomer(row, e)
MayTake(row, e) ==
  row.engagement \in {None, e} /\ row.status # "RETIRED" /\ IsOfCustomer(row, e)

StartAssign(r, list, e) ==
  /\ Begin(r, [OffDuty EXCEPT !.at = "check", !.todo = list, !.engagement = e])
  /\ UNCHANGED <<vehicle, history, fleet, counted>>

\* A vehicle that may not be taken is passed over.
CheckVehicle(r) ==
  /\ desk[r].at = "check"
  /\ IF desk[r].todo = <<>> THEN Goes(r, [desk[r] EXCEPT !.at = "count"])
     ELSE LET row == vehicle[Head(desk[r].todo)]
          IN  IF row # None /\ MayTake(row, desk[r].engagement)
              THEN Goes(r, [desk[r] EXCEPT !.at = "reread",
                              !.free = row.engagement \in {None, desk[r].engagement}])
              ELSE Goes(r, [desk[r] EXCEPT !.todo = Tail(@)])
  /\ UNCHANGED <<vehicle, history, fleet, counted>>

\* update_vehicle reads the row it will put back.
RereadVehicle(r) ==
  /\ desk[r].at = "reread"
  /\ Goes(r, [desk[r] EXCEPT !.at = "put", !.row = vehicle[Head(desk[r].todo)]])
  /\ UNCHANGED <<vehicle, history, fleet, counted>>

\* A row the validator refuses is an error nobody catches: what is left of the
\* list is not assigned, and nothing is counted.
Assigned(row, e) ==
  [row EXCEPT !.engagement = e, !.customer = CustomerOf[e], !.status = "ASSIGNED"]

PutAssigned(r) ==
  /\ desk[r].at = "put" /\ desk[r].patch = None
  /\ LET v   == Head(desk[r].todo)
         e   == desk[r].engagement
         row == Assigned(desk[r].row, e)
     IN  IF Accepted(row)
         THEN /\ vehicle' = [vehicle EXCEPT ![v] = row]
              /\ Goes(r, [desk[r] EXCEPT !.at = "record", !.row = None, !.owes = TRUE])
              /\ counted' = Crossed(r, {e, vehicle[v].engagement})
         ELSE /\ Abandons(r)
              /\ UNCHANGED vehicle
  /\ UNCHANGED <<history, fleet>>

RecordAssignment(r) ==
  /\ desk[r].at = "record"
  /\ history' = [history EXCEPT ![Head(desk[r].todo)] = desk[r].engagement]
  /\ Goes(r, [desk[r] EXCEPT !.at = "check", !.todo = Tail(@), !.free = FALSE])
  /\ UNCHANGED <<vehicle, fleet, counted>>

-----------------------------------------------------------------------------
(* Release, and PATCH.  Both re-put the row with a patch of their own.     *)

\* release_vehicle looks at no status: whatever it was, it goes back.
BackTo(row) == IF row.owner = "WHEELS_OWNED" THEN "IN_STOCK" ELSE "ON_ORDER"

StartRelease(r, v) ==
  /\ vehicle[v] # None
  /\ Begin(r, [OffDuty EXCEPT !.at = "reread", !.todo = <<v>>, !.patch = "release",
                             !.engagement = vehicle[v].engagement])
  /\ UNCHANGED <<vehicle, history, fleet, counted>>

\* update_vehicle: a status, or none when only other fields are patched.
StartPatch(r, v, status) ==
  /\ vehicle[v] # None
  /\ Begin(r, [OffDuty EXCEPT !.at = "reread", !.todo = <<v>>,
                             !.patch = IF status = None THEN "notes" ELSE status])
  /\ UNCHANGED <<vehicle, history, fleet, counted>>

Patched(row, patch) ==
  CASE patch = "release" -> [row EXCEPT !.engagement = None, !.status = BackTo(row)]
    [] patch = "notes"   -> row
    [] OTHER             -> [row EXCEPT !.status = patch]

\* Only a release that found the vehicle assigned counts a fleet afterwards;
\* above it, one that leaves that to the next assignment.
NeverCounts(w) == FALSE
CountsAfter(w) == w.patch = "release" /\ w.engagement # None

PutPatched(r) ==
  /\ desk[r].at = "put" /\ desk[r].patch # None
  /\ LET v   == Head(desk[r].todo)
         row == Patched(desk[r].row, desk[r].patch)
     IN  IF Accepted(row)
         THEN /\ vehicle' = [vehicle EXCEPT ![v] = row]
              /\ counted' = Crossed(r, {row.engagement, vehicle[v].engagement})
              /\ IF CountsAfter(desk[r])
                 THEN Goes(r, [desk[r] EXCEPT !.at = "count", !.todo = <<>>, !.row = None,
                                 !.owes = TRUE])
                 ELSE Ends(r)
         ELSE /\ Ends(r)
              /\ UNCHANGED <<vehicle, counted>>
  /\ UNCHANGED <<history, fleet>>

-----------------------------------------------------------------------------
(* _sync_engagement_fleet.                                                 *)

CountFleet(r) ==
  /\ desk[r].at = "count"
  /\ Goes(r, [desk[r] EXCEPT !.at = "write", !.count = Cardinality(On(desk[r].engagement))])
  /\ UNCHANGED <<vehicle, history, fleet, counted>>

WriteFleet(r) ==
  /\ desk[r].at = "write"
  /\ LET e == desk[r].engagement
     IN  IF e \in Locked THEN UNCHANGED <<fleet, counted>>
         ELSE /\ fleet' = [fleet EXCEPT ![e] = desk[r].count]
              /\ counted' = IF desk[r].alone THEN counted \cup {e} ELSE counted \ {e}
  /\ Ends(r)
  /\ UNCHANGED <<vehicle, history>>

\* A call of the table fails, or the process dies: what is put stays put.
BreaksOff(r) ==
  /\ Working(r)
  /\ Abandons(r)
  /\ UNCHANGED <<vehicle, history, fleet>>

-----------------------------------------------------------------------------
Init ==
  /\ vehicle = [v \in Vehicles |-> None]
  /\ history = [v \in Vehicles |-> None]
  /\ fleet = [e \in Engagements |-> 0]
  /\ desk = [r \in FleetRequests |-> OffDuty]
  /\ counted = Engagements

Next ==
  \/ \E d \in Deliveries : CreateVehicle(d.id, d.owner, d.status, d.customer)
  \/ \E r \in FleetRequests :
       \/ /\ "assign" \in FleetShifts[r]
          /\ \E list \in Lists, e \in Engagements : StartAssign(r, list, e)
       \/ /\ "release" \in FleetShifts[r]
          /\ \E v \in Vehicles : StartRelease(r, v)
       \/ /\ "patch" \in FleetShifts[r]
          /\ \E v \in Vehicles, status \in Patches : StartPatch(r, v, status)
       \/ CheckVehicle(r) \/ RereadVehicle(r) \/ PutAssigned(r) \/ RecordAssignment(r)
       \/ PutPatched(r) \/ CountFleet(r) \/ WriteFleet(r) \/ BreaksOff(r)

Spec == Init /\ [][Next]_fleetVars

-----------------------------------------------------------------------------
(* What must hold.                                                         *)

TypeOK ==
  /\ \A v \in Vehicles : vehicle[v] # None =>
       /\ vehicle[v] \in VehicleRows
       /\ IsValid(vehicle[v])
  /\ fleet \in [Engagements -> 0..Cardinality(Vehicles)]
  /\ counted \subseteq Engagements

\* When every request is over, an engagement that is not locked and whose last
\* change nobody crossed has for its fleet the vehicles the inventory has on
\* it (_sync_engagement_fleet).  Two requests at once, or one that is over
\* between a put and the count, leave it wrong until the next count that
\* nobody crosses.
FleetIsWhatIsAssigned ==
  (\A r \in FleetRequests : ~Working(r)) =>
    \A e \in counted \ Locked : fleet[e] = Cardinality(On(e))

\* A vehicle goes from one engagement straight to another only by a request
\* that had looked before it was taken (_assign_one's 409).
TakenVehiclesStay ==
  [][\A v \in Vehicles :
       LET before == IF vehicle[v] = None THEN None ELSE vehicle[v].engagement
           after  == IF vehicle[v] = None THEN None ELSE vehicle'[v].engagement
       IN  before # None /\ after \notin {None, before} =>
             \E r \in FleetRequests :
               desk'[r] # desk[r] /\ (desk[r].free \/ desk[r].patch # None)]_fleetVars

\* A unit that belongs to a customer stays that customer's, whoever assigns and
\* releases it (_assign_one, Vehicle's validator).
CustomersKeepTheirUnits ==
  [][\A v \in Vehicles :
       vehicle[v] # None /\ vehicle[v].owner = "CUSTOMER_OWNED" =>
         vehicle'[v].customer = vehicle[v].customer]_fleetVars
=============================================================================
