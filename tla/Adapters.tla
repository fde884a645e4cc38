------------------------------ MODULE Adapters ------------------------------
(***************************************************************************)
(* The adapters that licenses install, as the gateway offers and takes     *)
(* them: list_models of gateway/main.py lists what lies in the tenant's    *)
(* tree, and a chat request names an adapter by a reference, which is      *)
(* checked against the directories of all tenants.                         *)
(***************************************************************************)
EXTENDS Licenses, ModelRefs

ASSUME AdapterAssumption ==
    Tenants \subseteq TenantIds /\ Products \cap (Blank \cup {".."}) = {}

\* The ids list_models adds for the directory loras/, with or without a
\* complete marker in them.
Offered(d) == {<<"loras", p>> : p \in {q \in Products : adapter[<<d, q>>] # None}}

-----------------------------------------------------------------------------
\* Every adapter that the gateway offers a tenant can be asked for by that id,
\* and the shorter and longer ways of writing it come to the same adapter,
\* whichever tenants were created, deleted and left on disk.  Only the full
\* name tenants/<id>/... fails, and it fails exactly when the tenant's id
\* begins with the id of another tenant on disk (the markers of
\* assert_model_allowed_for_tenant are substrings).  For an id that ends in
\* "tenants" the longer ways may fail for other reasons of the kind.
OfferedIsUsable ==
    \A d \in Tenants : \A r \in Offered(d) :
        LET x == r[2] IN
        /\ \A s \in Short(x) : Resolve(d, s, trees) = r
        /\ d \notin EndInTenants =>
              /\ \A s \in Own(d, x) : Resolve(d, s, trees) = r
              /\ \A s \in Full(d, x) :
                    Resolve(d, s, trees) = IF Shadowed(d, trees) THEN <<>> ELSE r
=============================================================================
