----------------------------- MODULE MCLicenses -----------------------------
(* Model checking of Licenses and Adapters: the id of one tenant begins with *)
(* the id of the other.                                                      *)
EXTENDS Adapters, TLC

MCCatalogs == {Products, {}}
MCBegins == {<<"acme-law", "acme">>, <<"acme-law", "acme-law">>, <<"acme", "acme">>}
MCIdLike == Tenants \cup Products \cup {"tenants"} \cup Subdirs

Symmetry == Permutations(Products) \cup Permutations(Licenses) \cup Permutations(Threads)
=============================================================================
