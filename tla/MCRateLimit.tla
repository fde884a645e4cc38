---------------------------- MODULE MCRateLimit ----------------------------
(* Model checking of RateLimit: requests and processes are interchangeable. *)
EXTENDS Quota, TLC

Symmetry == Permutations(Requests) \cup Permutations(Procs)
=============================================================================
