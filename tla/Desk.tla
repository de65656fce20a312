-------------------------------- MODULE Desk --------------------------------
(***************************************************************************)
(* The parts of the service that work beside the engagements and share no  *)
(* table with each other.  A behaviour runs one of them, the one focus     *)
(* names, and leaves the others as they began.                             *)
(***************************************************************************)
EXTENDS FleetInventory, ServiceCatalog, People, FinanceDashboard, DocumentReading, AnswerRepair

VARIABLE focus   \* the part this behaviour runs

DeskInit ==
  /\ focus \in {"fleet", "catalog", "people", "reading", "answers", "finance"}
  /\ focus # "catalog" => shift = CHOOSE any \in EditShifts : TRUE
  /\ focus # "people" => rota = CHOOSE any \in PeopleShifts : TRUE
  /\ Init /\ CatalogInit /\ PeopleInit /\ ReadingInit /\ AnswerInit /\ ReportInit

FleetTurn ==
  /\ focus = "fleet" /\ Next
  /\ UNCHANGED <<catalogVars, peopleVars, readingVars, answer, reportVars>>
CatalogTurn ==
  /\ focus = "catalog" /\ CatalogNext
  /\ UNCHANGED <<fleetVars, peopleVars, readingVars, answer, reportVars>>
PeopleTurn ==
  /\ focus = "people" /\ PeopleNext
  /\ UNCHANGED <<fleetVars, catalogVars, readingVars, answer, reportVars>>
ReadingTurn ==
  /\ focus = "reading" /\ ReadingNext
  /\ UNCHANGED <<fleetVars, catalogVars, peopleVars, answer, reportVars>>
AnswerTurn ==
  /\ focus = "answers" /\ AnswerNext
  /\ UNCHANGED <<fleetVars, catalogVars, peopleVars, readingVars, reportVars>>
FinanceTurn ==
  /\ focus = "finance" /\ ReportNext
  /\ UNCHANGED <<fleetVars, catalogVars, peopleVars, readingVars, answer>>

DeskNext ==
  /\ UNCHANGED focus
  /\ \/ FleetTurn \/ CatalogTurn \/ PeopleTurn \/ ReadingTurn \/ AnswerTurn \/ FinanceTurn

DeskSpec ==
  DeskInit /\ [][DeskNext]_<<focus, fleetVars, catalogVars, peopleVars,
                             readingVars, answer, reportVars>>

-----------------------------------------------------------------------------
(* What must hold; what each part promises is stated where the part is.    *)

\* Every part keeps its types.
EveryPartTypeOK == TypeOK /\ CatalogTypeOK /\ PeopleTypeOK /\ ReadingTypeOK
=============================================================================
