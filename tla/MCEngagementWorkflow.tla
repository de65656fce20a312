----------------------- MODULE MCEngagementWorkflow -----------------------
(***************************************************************************)
(* EngagementWorkflow on small instances.                                  *)
(***************************************************************************)
EXTENDS EngagementWorkflow, TLC

CONSTANTS s1, s2, d1, d2, ada, bob

Text(reads, effective, ours) ==
  [reads |-> reads, titles |-> {reads} \ {"UNKNOWN"}, effective |-> effective,
   ours |-> ours]

TwoTexts  == {Text("MSA", 1, TRUE), Text("MLA", 0, FALSE)}
FourTexts == TwoTexts \cup {Text("MSA", 2, FALSE), Text("UNKNOWN", 0, TRUE)}

\* Submissions are interchangeable, and so are agreements.
CycleSymmetry     == Permutations({s1, s2})
AgreementSymmetry == Permutations({d1, d2})
=============================================================================
