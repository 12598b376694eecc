----------------------------- MODULE MCMCPServer -----------------------------
(* MCPServer on small instances for TLC. *)
EXTENDS MCPInvariant, TLC

(* No expiry, and a lifetime that can run out. *)
MCLifetimes == {0, 1}

MCVersions == 1 .. MaxVersion + MaxAttempts

CallerSymmetry == Permutations(Callers)
=============================================================================
