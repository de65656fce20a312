-------------------------- MODULE AmendmentPolicy --------------------------
(***************************************************************************)
(* Which review cycle is meant: app/lifecycle/amendment.py.  A set of      *)
(* cycles is a function from submission ids to rows that hold at least a   *)
(* cycle number, a creation time and a status.  The selectors of the code  *)
(* return a row; here they are predicates that hold of that row's id, so   *)
(* that no choice has to be made where there is nothing to choose from.    *)
(***************************************************************************)
EXTENDS Integers

\* The sort key of ordered_cycles(): the cycle number, then the creation time.
Later(a, b) ==
  \/ a.cycle > b.cycle
  \/ a.cycle = b.cycle /\ a.created > b.created

IsLatest(cycles, ids, s) ==
  s \in ids /\ \A o \in ids \ {s} : ~Later(cycles[o], cycles[s])

Live(cycles)       == {s \in DOMAIN cycles : cycles[s].status = "ACTIVE"}
Unfinished(cycles) == DOMAIN cycles \ Live(cycles)

\* open_cycle(): the latest cycle still running, else the latest of all.
IsOpenCycle(cycles, s) ==
  IF Unfinished(cycles) # {}
  THEN IsLatest(cycles, Unfinished(cycles), s)
  ELSE IsLatest(cycles, DOMAIN cycles, s)

\* cycle_in_force(): the latest cycle to go live, else the latest opened.
IsCycleInForce(cycles, s) ==
  IF Live(cycles) # {}
  THEN IsLatest(cycles, Live(cycles), s)
  ELSE IsLatest(cycles, DOMAIN cycles, s)

\* can_open_amendment(); above it, a policy that lets a cycle under audit be
\* amended too.
AmendableAlsoBeforeAudit(status) == status \in {"PENDING_BILLING_AUDIT", "ACTIVE"}
CanOpenAmendment(status) == status = "ACTIVE"
=============================================================================
