---------------------------- MODULE MCInstances ----------------------------
(* Model checking of Instances: tenants, hosts and threads are interchangeable.       *)
EXTENDS Instances, TLC

Symmetry ==
    Permutations(Threads) \cup Permutations(Hosts) \cup Permutations(Tenants)
=============================================================================
