----------------------------- MODULE MCHTTPAdapter -----------------------------
(* HTTPAdapter on a small instance for TLC. *)
EXTENDS HTTPInvariant
=============================================================================
