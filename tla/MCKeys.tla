------------------------------- MODULE MCKeys -------------------------------
(* Model checking of Keys: one seeded tenant, whose env key is devKey, and  *)
(* one that administrators create and delete.                               *)
EXTENDS Keys, TLC

CONSTANTS tenantA, acme, devKey

MCEnvTenant == devKey :> tenantA

Symmetry == Permutations(KeyIds) \cup Permutations(Secrets) \cup Permutations(Threads)
=============================================================================
