------------------------------ MODULE Nothing ------------------------------
(***************************************************************************)
(* The value of a field that is not set and of a row that is not there     *)
(* (None in the code), for modules that are explored together.             *)
(***************************************************************************)
CONSTANT None
=============================================================================
