---------------------------- MODULE MCMCPExecution ----------------------------
(* MCPExecution on small instances for TLC. *)
EXTENDS MCPExecution, TLC

Symmetry == Permutations(Calls)
=============================================================================
