------------------------------- MODULE MCDesk -------------------------------
(***************************************************************************)
(* Desk on small instances.                                                *)
(***************************************************************************)
EXTENDS Desk, TLC

CONSTANTS
  v1, v2, e1, e2, c1, c2, q1, q2,   \* the inventory
  w1, p1, p2,                       \* the catalog
  u1, d1, d2, n1, n2, h1, h2        \* people

-----------------------------------------------------------------------------
(* Two units, one of them to be delivered for either customer; one         *)
(* engagement is linked to the customer c1, one is live.                   *)

MCVehicles      == {v1, v2}
MCEngagements   == {e1, e2}
MCCustomers     == {c1, c2}
MCCustomerOf    == (e1 :> c1) @@ (e2 :> None)
MCLocked        == {e2}
MCLists         == {<<v1>>, <<v2, v1>>}
MCPatches       == {None, "RETIRED"}
MCFleetRequests == {q1, q2}
MCFleetShifts   == (q1 :> {"assign", "release"}) @@ (q2 :> {"assign", "patch"})

Delivery(v, owner, status, customer) ==
  [id |-> v, owner |-> owner, status |-> status, customer |-> customer]
MCDeliveries ==
  {Delivery(v1, "WHEELS_OWNED", None, None), Delivery(v2, "CUSTOMER_OWNED", None, c1),
   Delivery(v2, "CUSTOMER_OWNED", "ON_ORDER", c2)}

-----------------------------------------------------------------------------
(* Two names, one of them in the seeded catalog; one extraction, and one   *)
(* or two providers at work.                                               *)

fuel == "Fuel Management"
card == "Fleet Card"

MCNames       == {fuel, card}
MCTyped       == {fuel}
MCSeeds       == {fuel}
MCKeyOf       == fuel :> "fuel management" @@ card :> "fleet card"
MCSlug        == fuel :> 1 @@ card :> 2
MCScore       ==
  [p \in {"fuel management", "fleet card"} \X {"fuel management", "fleet card"} |-> IF p[1] = p[2] THEN 100 ELSE 30]
MCExtractions == {w1}
MCEditors     == {p1, p2}
MCEditShifts  ==
  {(p1 :> {"link", "promote", "create", "alias", "update"}) @@ (p2 :> {}),
   (p1 :> {"link"}) @@ (p2 :> {"update"})}

-----------------------------------------------------------------------------
(* One person, two engagements, two requests.                              *)

MCPersons        == {u1}
MCDesks          == {d1, d2}
MCPersonNames    == {n1, n2}
MCPeopleRequests == {h1, h2}
MCPeopleShifts   ==
  {(h1 :> {"invite", "onboard"}) @@ (h2 :> {"hire", "add"}),
   (h1 :> {"invite", "onboard"}) @@ (h2 :> {"onboard"})}

-----------------------------------------------------------------------------
(* Contracts of four and five pages: one whose categories are cut          *)
(* differently, one cut alike, one not cut, one whose table runs over      *)
(* three pages, and one with a fee whose column and whose bands are on two *)
(* pages, so that two windows of three show a part of it.                  *)

Page(size, low, high) == [size |-> size, low |-> low, high |-> high]
Term(call, program, priced, needs, bands, detail, key) ==
  [call |-> call, program |-> program, priced |-> priced, needs |-> needs, bands |-> bands,
   detail |-> detail, key |-> key, lost |-> {}]
Asks(pricing, sla) == <<[call |-> "pricing", perPage |-> pricing], [call |-> "sla", perPage |-> sla]>>

FourPages ==
  [pages |-> <<Page(2, FALSE, FALSE), Page(2, FALSE, FALSE), Page(3, FALSE, FALSE), Page(2, FALSE, FALSE)>>,
   asked |-> Asks(4, 3),
   terms |-> {Term("pricing", fuel, TRUE, {}, {2, 3}, 4, {"amount", "frequency"}),
              Term("pricing", fuel, FALSE, {1}, {}, 0, {}),
              Term("pricing", card, FALSE, {4}, {}, 0, {}),
              Term("sla", fuel, FALSE, {2, 3}, {}, 2, {"section"}),
              Term("sla", card, FALSE, {1}, {}, 1, {})}]
LongTable ==
  [FourPages EXCEPT
     !.pages = <<Page(1, FALSE, FALSE), Page(4, TRUE, FALSE), Page(2, TRUE, TRUE),
                 Page(1, FALSE, TRUE), Page(1, FALSE, FALSE)>>,
     !.asked = <<[call |-> "sla", perPage |-> 3]>>]
SplitFee(key) ==
  [FourPages EXCEPT
     !.asked = <<[call |-> "pricing", perPage |-> 4]>>,
     !.terms = {Term("pricing", fuel, TRUE, {3}, {2}, 0, key),
                Term("pricing", fuel, FALSE, {1}, {}, 0, {})}]
MCContracts ==
  {FourPages, LongTable, SplitFee({"amount"}), SplitFee({"frequency"}),
   [FourPages EXCEPT !.asked = Asks(1, 4)], [FourPages EXCEPT !.asked = Asks(1, 1)]}

-----------------------------------------------------------------------------
(* Answers of one or two records.                                          *)

MCStrings ==
  {<<>>, <<"o">>, <<"c">>, <<"q">>, <<"b">>, <<"b", "b">>, <<"x", "q">>, <<"q", "a">>,
   <<"q", "x", "q", "x">>, <<"o", "q", "c">>}
-----------------------------------------------------------------------------
(* Books of one engagement, and of any beside one with a customer it only  *)
(* names.                                                                  *)

DealCycles(statuses) ==
  [i \in DOMAIN statuses |->
     [status |-> statuses[i], cycle |-> i, created |-> i, priced |-> IF statuses[i] = "EXTRACTING" THEN None ELSE 2 + i]]
Instalments ==
  [i \in 0..2 |-> [due |-> 30 * i - 40, paid |-> i = 0, amount |-> IF i = 0 THEN 5 ELSE None]]
Deals ==
  [cycles : {DealCycles(<<"ACTIVE">>), DealCycles(<<"ACTIVE", "PENDING_BILLING_AUDIT">>),
             DealCycles(<<"EXTRACTING">>), <<>>},
   own : {"DRAFT"}, recorded : {None, 7}, frequency : {"monthly", "quarterly"}, fleet : {2},
   customer : {c1, None}, client : {c1}, ends : {None, -1, 31, 90, 91},
   rows : {<<>>, Instalments}]
Legacy ==
  [cycles |-> DealCycles(<<"ACTIVE">>), own |-> "ACTIVE", recorded |-> 7, frequency |-> "monthly", fleet |-> 1,
   customer |-> None, client |-> c1, ends |-> 30, rows |-> Instalments]
MCBooks  == [{1} -> Deals] \cup {(1 :> deal) @@ (2 :> Legacy) : deal \in Deals}
MCPeriod == [monthly |-> 30, quarterly |-> 91, annual |-> 365]
=============================================================================
