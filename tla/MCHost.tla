------------------------------- MODULE MCHost -------------------------------
(* Host on a small instance for TLC. *)
EXTENDS HostInvariant, TLC

(* A lifetime Reserve refuses, no expiry, and one that can run out. *)
MCLifetimes == {-1, 0, 1}

MCVersions == 1 .. MaxVersion + MaxAttempts

CallerSymmetry == Permutations(Callers)
=============================================================================
