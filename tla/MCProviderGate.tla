--------------------------- MODULE MCProviderGate ---------------------------
(* ProviderGate with two calls on one Host and one on another. *)
EXTENDS ProviderGate

CONSTANTS r1, r2, r3, h1, h2

MCHostOf == [r \in Requests |-> IF r = r3 THEN h2 ELSE h1]
=============================================================================
