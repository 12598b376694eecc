------------------------------ MODULE MCKernel ------------------------------
(* Kernel on small instances for TLC. *)
EXTENDS KernelInvariant, TLC

(* No expiry, and a lifetime that can run out. *)
MCLifetimes == {0, 1}

(* Callers are interchangeable: nothing orders them or names one. *)
CallerSymmetry == Permutations(Callers)
=============================================================================
