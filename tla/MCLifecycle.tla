------------------------------ MODULE MCLifecycle ------------------------------
(* The instance of Lifecycle for TLC: two of everything. *)
EXTENDS Lifecycle

CONSTANTS r1, r2, b1, b2, s1, s2
MCRequests == {r1, r2}
MCBackends == {b1, b2}
MCStoppers == {s1, s2}
===============================================================================
