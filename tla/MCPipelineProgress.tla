------------------------ MODULE MCPipelineProgress ------------------------
(***************************************************************************)
(* PipelineProgress on a small instance.                                   *)
(***************************************************************************)
EXTENDS PipelineProgress

CONSTANTS s1, d1, d2, ada

Text(reads, effective, ours) ==
  [reads |-> reads, titles |-> {reads} \ {"UNKNOWN"}, effective |-> effective,
   ours |-> ours]

\* One text that passes the gate and one that does not.
PassAndFail == {Text("MSA", 1, TRUE), Text("MLA", 0, FALSE)}
=============================================================================
