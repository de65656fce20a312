------------------------- MODULE AgreementStanding -------------------------
(***************************************************************************)
(* What an engagement's agreements add up to: which edition of each type   *)
(* is in force (validation/classify.py, rank_standing), what the           *)
(* engagement therefore covers (derive_scope) and which agreement fills    *)
(* each slot of the review cycle (validation/reconcile.py).                *)
(*                                                                         *)
(* A set of agreements is a function from document ids to rows with a      *)
(* type, a standing, an effective date (0 when the text shows none) and a  *)
(* creation time.                                                          *)
(***************************************************************************)
EXTENDS Integers

AgreementTypes == {"MSA", "MLA"}
DocTypes == AgreementTypes \cup {"UNKNOWN"}
Standings == {"CURRENT", "SUPERSEDED"}
Scopes == {"NONE", "LEASE_ONLY", "SERVICE_ONLY", "LEASE_AND_SERVICE"}

\* Ranking by upload alone, which forgets that a renewal may be uploaded
\* before the agreement it renews.
NewerUpload(a, b) == a.created > b.created

\* The order rank_standing() sorts by: effective date, then upload time.
Newer(a, b) ==
  \/ a.effective > b.effective
  \/ a.effective = b.effective /\ a.created > b.created

Outranked(D, d) ==
  \E e \in DOMAIN D \ {d} : D[e].type = D[d].type /\ Newer(D[e], D[d])

\* An agreement of unknown type competes with no other.
StandingOf(D, d) ==
  IF D[d].type # "UNKNOWN" /\ Outranked(D, d) THEN "SUPERSEDED" ELSE "CURRENT"

Ranked(D) == [d \in DOMAIN D |-> [D[d] EXCEPT !.standing = StandingOf(D, d)]]

InForce(D) == {d \in DOMAIN D : D[d].standing = "CURRENT"}
TypedInForce(D) == {d \in InForce(D) : D[d].type # "UNKNOWN"}

\* The slots reconcile_engagement() computes: each type to its agreement.
SlotsOf(D) ==
  [t \in {D[d].type : d \in TypedInForce(D)} |->
     CHOOSE d \in TypedInForce(D) : D[d].type = t]

DeriveScope(types) ==
  IF types = AgreementTypes THEN "LEASE_AND_SERVICE"
  ELSE IF types = {"MLA"} THEN "LEASE_ONLY"
  ELSE IF types = {"MSA"} THEN "SERVICE_ONLY"
  ELSE "NONE"

ScopeOf(D) == DeriveScope({D[d].type : d \in TypedInForce(D)})

SlotMaps(Docs) == UNION {[T -> Docs] : T \in SUBSET AgreementTypes}
=============================================================================
