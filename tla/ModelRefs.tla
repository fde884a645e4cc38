------------------------------ MODULE ModelRefs ------------------------------
(***************************************************************************)
(* References to models and adapters in requests: the check of             *)
(* packages/tenantkit/fs.py (assert_model_allowed_for_tenant) and the      *)
(* normal form of gateway/adapter.py (resolve_adapter_for_tenant).         *)
(*                                                                         *)
(* A reference is the sequence of its segments, split at "/" after every   *)
(* backslash became one: "a//b" is <<"a", "", "b">>.  All names are lower  *)
(* case.  Where the code compares parts of segments, what matters of their *)
(* spelling is given by the constants Begins and EndInTenants.             *)
(***************************************************************************)
EXTENDS Naturals, Sequences

CONSTANTS
    TenantIds,      \* tenant ids
    IdLike,         \* segments of the form of a tenant id, as the pattern has it
    Begins,         \* <<s, d>>: the text of segment s begins with tenant id d
    EndInTenants    \* segments whose text ends in "tenants"

Blank == {"", "."}
Subdirs == {"loras", "models", "vector"}

ASSUME SegmentAssumption ==
    /\ TenantIds \subseteq IdLike
    /\ (Blank \cup {".."}) \cap IdLike = {}
    /\ TenantIds \cap (Subdirs \cup {"tenants"}) = {}
    /\ "tenants" \in EndInTenants
    /\ "loras" \notin EndInTenants /\ Blank \cap EndInTenants = {}

-----------------------------------------------------------------------------
(* The four grounds of a refusal; disk is the set of tenants whose         *)
(* directory exists under the data root.                                   *)

\* The regular expression: tenants/<id>, on disk or not.
NamesAnother(t, r) ==
    \E i \in 1..(Len(r) - 1) : r[i] = "tenants" /\ r[i + 1] \in IdLike \ {t}

\* The markers are sought as substrings.  "tenants/<id>" may begin inside a
\* segment and end inside the next.
MutantHoldsMarker(t, r, disk) ==
    \E o \in disk :
        \/ \E i \in 1..(Len(r) - 1) : r[i] \in EndInTenants /\ <<r[i + 1], o>> \in Begins
        \/ \E i \in 2..(Len(r) - 2) : r[i] = o /\ r[i + 1] \in Subdirs
HoldsMarker(t, r, disk) ==
    \E o \in disk \ {t} :
        \/ \E i \in 1..(Len(r) - 1) : r[i] \in EndInTenants /\ <<r[i + 1], o>> \in Begins
        \/ \E i \in 2..(Len(r) - 2) : r[i] = o /\ r[i + 1] \in Subdirs

\* The first prefix that matches is taken off, once.
Strip(t, r) ==
    CASE Len(r) >= 3 /\ r[1] = "tenants" /\ r[2] = t -> Tail(Tail(r))
      [] Len(r) >= 2 /\ r[1] \in {t, "."} -> Tail(r)
      [] OTHER -> r

\* What is left climbs, or is a tenants/<something> other than t.  A segment
\* alone is looked at only if it begins with ".", and can only climb.
Escapes(t, r) ==
    \/ \E i \in 1..Len(r) : r[i] = ".."
    \/ \E i, j \in 1..Len(r) :
          /\ i < j /\ r[i] = "tenants" /\ r[j] \notin Blank \cup {t}
          /\ \A k \in 1..(j - 1) : k = i \/ r[k] \in Blank

\* assert_model_allowed_for_tenant does not raise.
Allowed(t, r, disk) ==
    /\ r # <<"">>
    /\ ~NamesAnother(t, r)
    /\ ~HoldsMarker(t, r, disk)
    /\ ~Escapes(t, Strip(t, r))

-----------------------------------------------------------------------------
\* The reference resolve_adapter_for_tenant returns, or <<>> when it raises.
Prefixed(r) == IF Len(r) = 1 THEN <<"loras", r[1]>> ELSE r

Resolve(t, r, disk) ==
    LET normal == Prefixed(Strip(t, r))
    IN  IF Allowed(t, r, disk) /\ Allowed(t, normal, disk) THEN normal ELSE <<>>

-----------------------------------------------------------------------------
\* The ways to write adapter x of tenant t.
Short(x) == {<<x>>, <<"loras", x>>, <<".", x>>, <<".", "loras", x>>}
Own(t, x) == {<<t, x>>, <<t, "loras", x>>}
Full(t, x) == {<<"tenants", t, x>>, <<"tenants", t, "loras", x>>}

\* A sibling on disk that the markers take a full name of t for.
Shadowed(t, disk) == \E o \in disk \ {t} : <<t, o>> \in Begins
=============================================================================
