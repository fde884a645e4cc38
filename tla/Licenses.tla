------------------------------ MODULE Licenses ------------------------------
(***************************************************************************)
(* Licenses of the vertical mirror store (control-plane/main.py,           *)
(* mirror_catalog.py) and the adapters that their activation installs in a *)
(* tenant's tree (mirror_install.py).                                      *)
(*                                                                         *)
(* An activation loads the row, writes files and then commits the row's    *)
(* activated_at: the database takes back what a failed activation did to   *)
(* the row, and nothing takes back what it did to the files.  Threads of   *)
(* the control plane overlap, a license may be activated again and again,  *)
(* and a tenant may hold several licenses of one product.                  *)
(*                                                                         *)
(* A product stands for its adapter_slug too: the catalog has one slug per *)
(* product.  The column status is left out: every row says "active".       *)
(***************************************************************************)
EXTENDS Naturals, FiniteSets

CONSTANTS
    Tenants,    \* tenant ids
    Products,   \* products, by slug
    Catalogs,   \* what mirror-catalog.yaml may list
    Licenses,   \* license ids, each with its key, each minted once
    Threads,    \* control-plane threads that run activations
    Durations,  \* days_valid, in whole units of the clock
    MaxTime,    \* bound on the clock
    None        \* no row, no end of validity, no files

\* The states of an adapter's directory without a complete marker.
Bare == "mkdir done, no adapter_config.json"
Torn == "adapter_config.json empty"

ASSUME LicenseAssumption ==
    /\ Catalogs \subseteq SUBSET Products
    /\ Durations \subseteq Nat /\ MaxTime \in Nat
    /\ None \notin Nat \cup (Tenants \X Products)
    /\ {None, Bare, Torn} \cap Licenses = {} /\ None \notin {Bare, Torn}

VARIABLES
    now,        \* the clock
    catalog,    \* the products of load_catalog, cached until a restart
    tenants,    \* the rows of the tenants table
    trees,      \* the tenants with a directory under the data root
    row,        \* the licenses table: license -> its row, or None
    adapter,    \* loras/{slug} of a tenant: None, Bare, Torn, or the license
                \* that its adapter_config.json names
    call,       \* thread -> the activation it runs
    issued,     \* history: license -> the tenant and product it was issued for
    refused,    \* history: licenses an activation was refused as expired for
    broken      \* history: adapters an install left Torn

vars == <<now, catalog, tenants, trees, row, adapter, call, issued, refused, broken>>
files == <<trees, adapter, broken>>

Rows == [tenant: Tenants, product: Products, expires: Nat \cup {None}, activated: BOOLEAN]
Idle == [pc |-> "idle"]
Calls == {Idle} \cup [pc: {"loaded", "made", "open", "written"}, license: Licenses,
                      tenant: Tenants, product: Products]

TypeOK ==
    /\ now \in Nat
    /\ catalog \subseteq Products
    /\ tenants \subseteq trees /\ trees \subseteq Tenants
    /\ row \in [Licenses -> Rows \cup {None}]
    /\ adapter \in [Tenants \X Products -> Licenses \cup {None, Bare, Torn}]
    /\ call \in [Threads -> Calls]
    /\ issued \in [Licenses -> (Tenants \X Products) \cup {None}]
    /\ refused \subseteq Licenses
    /\ broken \subseteq Tenants \X Products

Init ==
    /\ now = 0
    /\ catalog \in Catalogs
    /\ tenants \in SUBSET Tenants /\ trees = tenants
    /\ row = [l \in Licenses |-> None]
    /\ adapter = [dp \in Tenants \X Products |-> None]
    /\ call = [t \in Threads |-> Idle]
    /\ issued = [l \in Licenses |-> None]
    /\ refused = {} /\ broken = {}

-----------------------------------------------------------------------------
\* issue_license.  None is days_valid = null: the license never ends.
Issue(l, d, p, days) ==
    /\ issued[l] = None /\ d \in tenants /\ p \in catalog
    /\ row' = [row EXCEPT ![l] =
                  [tenant |-> d, product |-> p, activated |-> FALSE,
                   expires |-> IF days = None THEN None ELSE now + days]]
    /\ issued' = [issued EXCEPT ![l] = <<d, p>>]
    /\ UNCHANGED <<now, catalog, tenants, files, call, refused>>

-----------------------------------------------------------------------------
(* activate_license and install_product_marker.                            *)

HasRow(l) == row[l] # None

\* "exp < _utcnow()": the last moment still counts.
Expired(l) == row[l].expires # None /\ row[l].expires < now

At(t, pc) == call[t] # Idle /\ call[t].pc = pc
Slug(t) == <<call[t].tenant, call[t].product>>
Goto(t, pc) ==
    /\ call' = [call EXCEPT ![t].pc = pc]
    /\ UNCHANGED <<now, catalog, tenants, row, issued, refused>>

MutantBegin(t, l) ==
    /\ call[t] = Idle
    /\ HasRow(l) /\ row[l].product \in catalog
    /\ call' = [call EXCEPT ![t] = [pc |-> "loaded", license |-> l,
                                    tenant |-> row[l].tenant, product |-> row[l].product]]
    /\ UNCHANGED <<now, catalog, tenants, row, files, issued, refused>>
MutantBeginAny(t, l) ==
    /\ call[t] = Idle
    /\ HasRow(l) /\ ~Expired(l)
    /\ \E p \in catalog :
          call' = [call EXCEPT ![t] = [pc |-> "loaded", license |-> l,
                                       tenant |-> row[l].tenant, product |-> p]]
    /\ UNCHANGED <<now, catalog, tenants, row, files, issued, refused>>
Begin(t, l) ==
    /\ call[t] = Idle
    /\ HasRow(l) /\ ~Expired(l) /\ row[l].product \in catalog
    /\ call' = [call EXCEPT ![t] = [pc |-> "loaded", license |-> l,
                                    tenant |-> row[l].tenant, product |-> row[l].product]]
    /\ UNCHANGED <<now, catalog, tenants, row, files, issued, refused>>

\* The status "expired" is flushed and the HTTPException raised in the same
\* session scope, which rolls it back: the row stays as it is.
Refuse(l) ==
    /\ HasRow(l) /\ Expired(l)
    /\ refused' = refused \cup {l}
    /\ UNCHANGED <<now, catalog, tenants, files, row, call, issued>>

\* ensure_tenant_layout, mkdir, and the copy of the manifest.
MakeDirectory(t) ==
    /\ At(t, "loaded")
    /\ trees' = trees \cup {call[t].tenant}
    /\ adapter' = [adapter EXCEPT ![Slug(t)] = IF @ = None THEN Bare ELSE @]
    /\ Goto(t, "made") /\ UNCHANGED broken

\* write_text opens the file, which empties it, and writes it.
OpenMarker(t) ==
    /\ At(t, "made")
    /\ adapter' = [adapter EXCEPT ![Slug(t)] = Torn]
    /\ Goto(t, "open") /\ UNCHANGED <<trees, broken>>

WriteMarker(t) ==
    /\ At(t, "open")
    /\ adapter' = [adapter EXCEPT ![Slug(t)] = call[t].license]
    /\ broken' = broken \ {Slug(t)}
    /\ Goto(t, "written") /\ UNCHANGED trees

\* UPDATE of activated_at, which needs the row.
MutantCommit(t) ==
    /\ At(t, "made") /\ HasRow(call[t].license)
    /\ row' = [row EXCEPT ![call[t].license].activated = TRUE]
    /\ call' = [call EXCEPT ![t] = Idle]
    /\ UNCHANGED <<now, catalog, tenants, files, issued, refused>>
Commit(t) ==
    /\ At(t, "written") /\ HasRow(call[t].license)
    /\ row' = [row EXCEPT ![call[t].license].activated = TRUE]
    /\ call' = [call EXCEPT ![t] = Idle]
    /\ UNCHANGED <<now, catalog, tenants, files, issued, refused>>

\* An OSError of the file system, or the row is gone when the update is
\* flushed: a 500, the row as it was, the files as they are.
MutantFail(t) ==
    /\ call[t] # Idle
    /\ call' = [call EXCEPT ![t].pc = "idle"]
    /\ broken' = IF At(t, "open") THEN broken \cup {Slug(t)} ELSE broken
    /\ UNCHANGED <<now, catalog, tenants, trees, row, adapter, issued, refused>>
Fail(t) ==
    /\ call[t] # Idle
    /\ call' = [call EXCEPT ![t] = Idle]
    /\ broken' = IF At(t, "open") THEN broken \cup {Slug(t)} ELSE broken
    /\ UNCHANGED <<now, catalog, tenants, trees, row, adapter, issued, refused>>

Activate(t) ==
    \/ \E l \in Licenses : Begin(t, l)
    \/ MakeDirectory(t) \/ OpenMarker(t) \/ WriteMarker(t) \/ Commit(t) \/ Fail(t)

-----------------------------------------------------------------------------
(* Around it.                                                              *)

\* The control plane stops and starts again, with the catalog file of the day.
Restart(products) ==
    /\ catalog' = products
    /\ call' = [t \in Threads |-> Idle]
    /\ broken' = broken \cup {Slug(t) : t \in {u \in Threads : At(u, "open")}}
    /\ UNCHANGED <<now, tenants, trees, row, adapter, issued, refused>>

CreateTenant(d) ==
    /\ d \notin tenants
    /\ tenants' = tenants \cup {d} /\ trees' = trees \cup {d}
    /\ UNCHANGED <<now, catalog, row, adapter, call, issued, refused, broken>>

\* The licenses go with the tenant, its tree stays.
DeleteTenant(d) ==
    /\ d \in tenants
    /\ tenants' = tenants \ {d}
    /\ row' = [l \in Licenses |-> IF HasRow(l) /\ row[l].tenant = d THEN None ELSE row[l]]
    /\ UNCHANGED <<now, catalog, files, call, issued, refused>>

Tick ==
    /\ now < MaxTime
    /\ now' = now + 1
    /\ UNCHANGED <<catalog, tenants, files, row, call, issued, refused>>

Administer ==
    \/ \E l \in Licenses, d \in Tenants, p \in Products, days \in Durations \cup {None} :
          Issue(l, d, p, days)
    \/ \E l \in Licenses : Refuse(l)
    \/ \E d \in Tenants : CreateTenant(d) \/ DeleteTenant(d)
    \/ \E products \in Catalogs : Restart(products)

Next == (\E t \in Threads : Activate(t)) \/ Administer \/ Tick

Spec == Init /\ [][Next]_vars

-----------------------------------------------------------------------------
(* What licenses promise.                                                  *)

\* An adapter's complete marker names a license that was issued to that very
\* tenant for that very product, also after the tenant was deleted and created
\* again over the old tree, and when activations of several licenses overlap.
InstalledWasLicensed ==
    \A d \in Tenants, p \in Products :
        adapter[<<d, p>>] \in Licenses => issued[adapter[<<d, p>>]] = <<d, p>>

\* docs/deploy-remote.md:76, "activate a catalog license so the tenant gets
\* loras/<slug>/adapter_config.json": when a row says activated, the file is
\* there and complete, unless a later install of the same adapter is writing
\* it or was cut off while it did.
Rewriting(d, p) == \E t \in Threads : At(t, "open") /\ Slug(t) = <<d, p>>

ActivatedIsInstalled ==
    \A l \in Licenses : HasRow(l) /\ row[l].activated =>
        LET d == row[l].tenant
            p == row[l].product
        IN  \/ adapter[<<d, p>>] \in Licenses
            \/ adapter[<<d, p>>] = Torn /\ (Rewriting(d, p) \/ <<d, p>> \in broken)

\* A license that was refused as expired is refused ever after, although the
\* refusal leaves no trace in its row.
RefusalIsFinal ==
    [][\A t \in Threads :
          call[t] = Idle /\ call'[t] # Idle => call'[t].license \notin refused]_vars
=============================================================================
