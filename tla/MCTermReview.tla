--------------------------- MODULE MCTermReview ---------------------------
(***************************************************************************)
(* TermReview on small instances: one line at a whole-dollar amount, one   *)
(* with cents, two wordings.                                               *)
(***************************************************************************)
EXTENDS TermReview, TLC

CONSTANTS toll, fuel, plain, vague, toll_name, fuel_name, toll_program, r1, r2

\* The fuel line's program is one the catalog does not know.
NamesRead == [i \in Lines |-> IF i = toll THEN toll_name ELSE fuel_name]
Catalog == toll_name :> toll_program @@ fuel_name :> NoProgram

\* The analyst finds that the line is of the other program.
OneCorrection == {[text |-> plain, program |-> fuel_name]}

\* A worker, and with it somebody who corrects terms, who approves them in
\* bulk, or who audits the billing.
TermShifts ==
  {r1 :> {"extract"} @@ r2 :> {"patch_term"},
   r1 :> {"extract"} @@ r2 :> {"approve_terms"},
   r1 :> {"extract"} @@ r2 :> {"correct_billing"}}

\* A worker and an analyst, who only approves.
ApprovingShift == {r1 :> {"extract"} @@ r2 :> {"approve_terms"}}
=============================================================================
