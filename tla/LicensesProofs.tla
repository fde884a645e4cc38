--------------------------- MODULE LicensesProofs ---------------------------
(***************************************************************************)
(* Proofs about Licenses and Adapters, for all tenants, products,          *)
(* licenses, threads and catalogs: what licenses promise, and that what    *)
(* the gateway offers can be asked for.                                    *)
(***************************************************************************)
EXTENDS Adapters, TLAPS

\* InstalledWasLicensed, over pairs.
MarkersAreIssued ==
    \A dp \in Tenants \X Products : adapter[dp] \in Licenses => issued[adapter[dp]] = dp

\* What a thread carries, and what a row says, is what was issued.
CallsAreIssued ==
    \A t \in Threads : call[t] # Idle => issued[call[t].license] = Slug(t)
RowsAreIssued ==
    \A l \in Licenses : HasRow(l) => issued[l] = <<row[l].tenant, row[l].product>>

\* A thread that has come far enough left its traces in the tree.
CallsLeaveFiles ==
    \A t \in Threads :
        /\ At(t, "made") => adapter[Slug(t)] # None
        /\ At(t, "open") \/ At(t, "written") => adapter[Slug(t)] \notin {None, Bare}
ActivatedLeavesFiles ==
    \A l \in Licenses :
        HasRow(l) /\ row[l].activated => adapter[issued[l]] \notin {None, Bare}

\* An empty marker is being written, or was left behind by an install.
TornIsExplained ==
    \A dp \in Tenants \X Products :
        adapter[dp] = Torn =>
            dp \in broken \/ \E t \in Threads : At(t, "open") /\ Slug(t) = dp

\* Time goes on and ids are not used again: what has ended stays so.
RefusedStayExpired ==
    \A l \in refused : issued[l] # None /\ (HasRow(l) => Expired(l))

IInv ==
    /\ TypeOK
    /\ MarkersAreIssued
    /\ CallsAreIssued /\ RowsAreIssued
    /\ CallsLeaveFiles /\ ActivatedLeavesFiles
    /\ TornIsExplained
    /\ RefusedStayExpired

-----------------------------------------------------------------------------
(* Types.                                                                  *)

LEMMA TypeInit == Init => TypeOK
BY LicenseAssumption DEF Init, TypeOK, Calls

LEMMA CallFields ==
    ASSUME TypeOK, NEW t \in Threads, call[t] # Idle
    PROVE  /\ call[t] \in [pc: {"loaded", "made", "open", "written"}, license: Licenses,
                           tenant: Tenants, product: Products]
           /\ Slug(t) \in Tenants \X Products
BY DEF TypeOK, Calls, Slug

LEMMA GotoType ==
    ASSUME TypeOK, NEW t \in Threads, call[t] # Idle,
           NEW pc \in {"loaded", "made", "open", "written"}, Goto(t, pc)
    PROVE  call' \in [Threads -> Calls]
<1>1. [call[t] EXCEPT !.pc = pc] \in Calls
  BY CallFields DEF Calls
<1>2. QED
  BY <1>1 DEF Goto, TypeOK

LEMMA TypeStep == TypeOK /\ [Next]_vars => TypeOK'
<1> SUFFICES ASSUME TypeOK, [Next]_vars PROVE TypeOK'
  OBVIOUS
<1> USE LicenseAssumption DEF files
<1>1. ASSUME NEW l \in Licenses, NEW d \in Tenants, NEW p \in Products,
             NEW days \in Durations \cup {None}, Issue(l, d, p, days)
      PROVE  TypeOK'
  <2>1. (IF days = None THEN None ELSE now + days) \in Nat \cup {None}
    <3>1. CASE days = None
      BY <3>1
    <3>2. CASE days \in Nat
      BY <3>2 DEF TypeOK
    <3>3. QED
      BY <3>1, <3>2
  <2>2. row' \in [Licenses -> Rows \cup {None}]
    BY <1>1, <2>1 DEF Issue, TypeOK, Rows
  <2>3. QED
    BY <1>1, <2>2 DEF Issue, TypeOK
<1>2. ASSUME NEW t \in Threads, NEW l \in Licenses, Begin(t, l) PROVE TypeOK'
  <2>1. row[l] \in Rows
    BY <1>2 DEF Begin, HasRow, TypeOK
  <2>2. [pc |-> "loaded", license |-> l, tenant |-> row[l].tenant,
         product |-> row[l].product] \in Calls
    BY <2>1 DEF Rows, Calls
  <2>3. QED
    BY <1>2, <2>2 DEF Begin, TypeOK
<1>3. ASSUME NEW t \in Threads, MakeDirectory(t) PROVE TypeOK'
  <2>1. call[t] # Idle
    BY <1>3 DEF MakeDirectory, At
  <2>2. call' \in [Threads -> Calls]
    BY <1>3, <2>1, GotoType DEF MakeDirectory
  <2>3. call[t].tenant \in Tenants /\ Slug(t) \in Tenants \X Products
    BY <2>1, CallFields
  <2>4. QED
    BY <1>3, <2>2, <2>3 DEF MakeDirectory, Goto, TypeOK
<1>4. ASSUME NEW t \in Threads, OpenMarker(t) PROVE TypeOK'
  <2>1. call' \in [Threads -> Calls]
    BY <1>4, GotoType DEF OpenMarker, At
  <2>2. QED
    BY <1>4, <2>1 DEF OpenMarker, Goto, TypeOK
<1>5. ASSUME NEW t \in Threads, WriteMarker(t) PROVE TypeOK'
  <2>1. call' \in [Threads -> Calls]
    BY <1>5, GotoType DEF WriteMarker, At
  <2>2. call[t].license \in Licenses
    BY <1>5, CallFields DEF WriteMarker, At
  <2>3. QED
    BY <1>5, <2>1, <2>2 DEF WriteMarker, Goto, TypeOK
<1>6. ASSUME NEW t \in Threads, Commit(t) PROVE TypeOK'
  <2>1. call[t] # Idle /\ call[t].license \in Licenses
    BY <1>6, CallFields DEF Commit, At
  <2>2. row[call[t].license] \in Rows
    BY <1>6, <2>1 DEF Commit, HasRow, TypeOK
  <2>3. [row[call[t].license] EXCEPT !.activated = TRUE] \in Rows
    BY <2>2 DEF Rows
  <2>4. QED
    BY <1>6, <2>1, <2>3 DEF Commit, TypeOK, Calls
<1>7. ASSUME NEW t \in Threads, Fail(t) PROVE TypeOK'
  BY <1>7, CallFields DEF Fail, TypeOK, Calls
<1>8. ASSUME NEW l \in Licenses, Refuse(l) PROVE TypeOK'
  BY <1>8 DEF Refuse, TypeOK
<1>9. ASSUME NEW d \in Tenants, CreateTenant(d) PROVE TypeOK'
  BY <1>9 DEF CreateTenant, TypeOK
<1>10. ASSUME NEW d \in Tenants, DeleteTenant(d) PROVE TypeOK'
  BY <1>10 DEF DeleteTenant, TypeOK
<1>11. ASSUME NEW products \in Catalogs, Restart(products) PROVE TypeOK'
  <2>1. \A t \in Threads : At(t, "open") => Slug(t) \in Tenants \X Products
    BY CallFields DEF At
  <2>2. QED
    BY <1>11, <2>1 DEF Restart, TypeOK, Calls
<1>12. CASE Tick
  BY <1>12 DEF Tick, TypeOK
<1>13. CASE UNCHANGED vars
  BY <1>13 DEF vars, TypeOK
<1>14. QED
  BY <1>1, <1>2, <1>3, <1>4, <1>5, <1>6, <1>7, <1>8, <1>9, <1>10, <1>11, <1>12, <1>13
     DEF Next, Activate, Administer

-----------------------------------------------------------------------------
(* Each action preserves the invariant.                                    *)

\* Everything but the types, whose preservation TypeStep covers.
Rest ==
    /\ MarkersAreIssued
    /\ CallsAreIssued /\ RowsAreIssued
    /\ CallsLeaveFiles /\ ActivatedLeavesFiles
    /\ TornIsExplained
    /\ RefusedStayExpired

LEMMA IssueStep ==
    ASSUME IInv, NEW l \in Licenses, NEW d \in Tenants, NEW p \in Products,
           NEW days \in Durations \cup {None}, Issue(l, d, p, days)
    PROVE  Rest'
<1> USE LicenseAssumption DEF Issue, files
<1>1. /\ issued[l] = None /\ issued' = [issued EXCEPT ![l] = <<d, p>>]
      /\ issued'[l] = <<d, p>> /\ \A k \in Licenses : k # l => issued'[k] = issued[k]
  BY DEF IInv, TypeOK
<1>2. /\ row'[l].tenant = d /\ row'[l].product = p /\ row'[l].activated = FALSE
      /\ \A k \in Licenses : k # l => row'[k] = row[k]
  BY DEF IInv, TypeOK
<1>3. \A dp \in Tenants \X Products : dp # None
  OBVIOUS
<1>4. MarkersAreIssued'
  BY <1>1, <1>3 DEF IInv, MarkersAreIssued
<1>5. CallsAreIssued'
  BY <1>1, <1>3, CallFields DEF IInv, CallsAreIssued, Slug
<1>6. RowsAreIssued'
  BY <1>1, <1>2 DEF IInv, RowsAreIssued, HasRow
<1>7. CallsLeaveFiles' /\ TornIsExplained'
  BY DEF IInv, CallsLeaveFiles, TornIsExplained, At, Slug
<1>8. ActivatedLeavesFiles'
  BY <1>1, <1>2 DEF IInv, ActivatedLeavesFiles, HasRow
<1>9. RefusedStayExpired'
  BY <1>1, <1>2, <1>3 DEF IInv, TypeOK, RefusedStayExpired, HasRow, Expired
<1>10. QED
  BY <1>4, <1>5, <1>6, <1>7, <1>8, <1>9 DEF Rest

LEMMA BeginStep ==
    ASSUME IInv, NEW t \in Threads, NEW l \in Licenses, Begin(t, l)
    PROVE  Rest'
<1> USE DEF Begin, files
<1>1. /\ call[t] = Idle /\ \A u \in Threads : u # t => call'[u] = call[u]
      /\ call'[t].pc = "loaded" /\ call'[t].license = l
      /\ call'[t].tenant = row[l].tenant /\ call'[t].product = row[l].product
  BY DEF IInv, TypeOK
<1>2. CallsAreIssued'
  BY <1>1 DEF IInv, CallsAreIssued, RowsAreIssued, Slug
<1>3. CallsLeaveFiles' /\ TornIsExplained'
  BY <1>1 DEF IInv, CallsLeaveFiles, TornIsExplained, At, Slug
<1>4. /\ MarkersAreIssued' /\ RowsAreIssued' /\ ActivatedLeavesFiles'
      /\ RefusedStayExpired'
  BY DEF IInv, MarkersAreIssued, RowsAreIssued, ActivatedLeavesFiles,
     RefusedStayExpired, HasRow, Expired
<1>5. QED
  BY <1>2, <1>3, <1>4 DEF Rest

\* A step of an activation that only moves on in the files.
LEMMA GotoKeeps ==
    ASSUME IInv, NEW t \in Threads, NEW from, NEW pc, At(t, from), Goto(t, pc)
    PROVE  /\ CallsAreIssued' /\ RowsAreIssued' /\ RefusedStayExpired'
           /\ Slug(t)' = Slug(t) /\ Slug(t) \in Tenants \X Products
           /\ \A u \in Threads : u # t => call'[u] = call[u] /\ Slug(u)' = Slug(u)
           /\ call'[t].pc = pc /\ call'[t].license = call[t].license
<1>1. call[t] # Idle /\ TypeOK
  BY DEF At, IInv
<1>2. /\ Slug(t) \in Tenants \X Products
      /\ call'[t] = [call[t] EXCEPT !.pc = pc]
      /\ call'[t].license = call[t].license /\ call'[t].tenant = call[t].tenant
      /\ call'[t].product = call[t].product /\ call'[t].pc = pc
      /\ \A u \in Threads : u # t => call'[u] = call[u]
  BY <1>1, CallFields DEF Goto, TypeOK
<1>3. Slug(t)' = Slug(t) /\ \A u \in Threads : u # t => Slug(u)' = Slug(u)
  BY <1>2 DEF Slug
<1>4. CallsAreIssued'
  BY <1>1, <1>2, <1>3 DEF IInv, CallsAreIssued, Goto
<1>5. RowsAreIssued' /\ RefusedStayExpired'
  BY DEF IInv, RowsAreIssued, RefusedStayExpired, HasRow, Expired, Goto
<1>6. QED
  BY <1>2, <1>3, <1>4, <1>5

LEMMA MakeDirectoryStep ==
    ASSUME IInv, NEW t \in Threads, MakeDirectory(t)
    PROVE  Rest'
<1> USE LicenseAssumption DEF MakeDirectory
<1>1. /\ CallsAreIssued' /\ RowsAreIssued' /\ RefusedStayExpired'
      /\ Slug(t)' = Slug(t) /\ Slug(t) \in Tenants \X Products
      /\ \A u \in Threads : u # t => call'[u] = call[u] /\ Slug(u)' = Slug(u)
      /\ call'[t].pc = "made"
  BY GotoKeeps
<1>2. /\ \A dp \in Tenants \X Products :
            adapter'[dp] = adapter[dp] \/ (adapter[dp] = None /\ adapter'[dp] = Bare)
      /\ adapter'[Slug(t)] # None
  BY <1>1 DEF IInv, TypeOK
<1>3. \A u \in Threads : call[u] # Idle => Slug(u) \in Tenants \X Products
  BY CallFields DEF IInv
<1>4. MarkersAreIssued'
  BY <1>2 DEF IInv, MarkersAreIssued, Goto
<1>5. CallsLeaveFiles'
  BY <1>1, <1>2, <1>3 DEF IInv, CallsLeaveFiles, At
<1>6. ActivatedLeavesFiles'
  BY <1>2 DEF IInv, ActivatedLeavesFiles, RowsAreIssued, HasRow, Goto, TypeOK, Rows
<1>7. TornIsExplained'
  <2>1. \A u \in Threads : At(u, "open") => At(u, "open")' /\ Slug(u)' = Slug(u)
    BY <1>1 DEF At
  <2>2. \A dp \in Tenants \X Products : adapter'[dp] = Torn => adapter[dp] = Torn
    BY <1>2 DEF Bare, Torn
  <2>3. QED
    BY <2>1, <2>2 DEF IInv, TornIsExplained
<1>8. QED
  BY <1>1, <1>4, <1>5, <1>6, <1>7 DEF Rest

LEMMA OpenMarkerStep ==
    ASSUME IInv, NEW t \in Threads, OpenMarker(t)
    PROVE  Rest'
<1> USE LicenseAssumption DEF OpenMarker
<1>1. /\ CallsAreIssued' /\ RowsAreIssued' /\ RefusedStayExpired'
      /\ Slug(t)' = Slug(t) /\ Slug(t) \in Tenants \X Products
      /\ \A u \in Threads : u # t => call'[u] = call[u] /\ Slug(u)' = Slug(u)
      /\ call'[t].pc = "open"
  BY GotoKeeps
<1>2. /\ \A dp \in Tenants \X Products : dp # Slug(t) => adapter'[dp] = adapter[dp]
      /\ adapter'[Slug(t)] = Torn
  BY <1>1 DEF IInv, TypeOK
<1>3. Torn \notin {None, Bare} /\ Torn \notin Licenses
  BY DEF Torn, Bare
<1>4. MarkersAreIssued'
  BY <1>2, <1>3 DEF IInv, MarkersAreIssued, Goto
<1>5. CallsLeaveFiles'
  <2>1. \A u \in Threads : call[u] # Idle => Slug(u) \in Tenants \X Products
    BY CallFields DEF IInv
  <2>2. QED
    BY <1>1, <1>2, <1>3, <2>1 DEF IInv, CallsLeaveFiles, At
<1>6. ActivatedLeavesFiles'
  BY <1>2, <1>3 DEF IInv, ActivatedLeavesFiles, RowsAreIssued, HasRow, Goto, TypeOK, Rows
<1>7. TornIsExplained'
  <2>1. At(t, "open")'
    BY <1>1 DEF At, Idle
  <2>2. QED
    BY <1>1, <1>2, <2>1 DEF IInv, TornIsExplained, At
<1>8. QED
  BY <1>1, <1>4, <1>5, <1>6, <1>7 DEF Rest

LEMMA WriteMarkerStep ==
    ASSUME IInv, NEW t \in Threads, WriteMarker(t)
    PROVE  Rest'
<1> USE LicenseAssumption DEF WriteMarker
<1>1. /\ CallsAreIssued' /\ RowsAreIssued' /\ RefusedStayExpired'
      /\ Slug(t)' = Slug(t) /\ Slug(t) \in Tenants \X Products
      /\ \A u \in Threads : u # t => call'[u] = call[u] /\ Slug(u)' = Slug(u)
      /\ call'[t].pc = "written"
  BY GotoKeeps
<1>2. /\ \A dp \in Tenants \X Products : dp # Slug(t) => adapter'[dp] = adapter[dp]
      /\ adapter'[Slug(t)] = call[t].license
  BY <1>1 DEF IInv, TypeOK
<1>3. /\ call[t].license \in Licenses /\ call[t].license \notin {None, Bare, Torn}
      /\ issued[call[t].license] = Slug(t)
  BY CallFields DEF IInv, CallsAreIssued, At
<1>4. MarkersAreIssued'
  BY <1>2, <1>3 DEF IInv, MarkersAreIssued, Goto
<1>5. CallsLeaveFiles'
  <2>1. \A u \in Threads : call[u] # Idle => Slug(u) \in Tenants \X Products
    BY CallFields DEF IInv
  <2>2. QED
    BY <1>1, <1>2, <1>3, <2>1 DEF IInv, CallsLeaveFiles, At
<1>6. ActivatedLeavesFiles'
  BY <1>2, <1>3 DEF IInv, ActivatedLeavesFiles, RowsAreIssued, HasRow, Goto, TypeOK, Rows
<1>7. TornIsExplained'
  BY <1>1, <1>2, <1>3 DEF IInv, TornIsExplained, At
<1>8. QED
  BY <1>1, <1>4, <1>5, <1>6, <1>7 DEF Rest

LEMMA CommitStep ==
    ASSUME IInv, NEW t \in Threads, Commit(t)
    PROVE  Rest'
<1> USE DEF Commit, files
<1>1. /\ call[t] # Idle /\ call'[t] = Idle
      /\ \A u \in Threads : u # t => call'[u] = call[u]
  BY DEF At, IInv, TypeOK
<1>2. /\ call[t].license \in Licenses /\ issued[call[t].license] = Slug(t)
      /\ adapter[Slug(t)] \notin {None, Bare}
  BY <1>1, CallFields DEF IInv, CallsAreIssued, CallsLeaveFiles
<1>3. \A l \in Licenses : /\ HasRow(l)' => HasRow(l)
                          /\ HasRow(l) => /\ row'[l].tenant = row[l].tenant
                                          /\ row'[l].product = row[l].product
                                          /\ row'[l].expires = row[l].expires
                          /\ l # call[t].license => row'[l] = row[l]
  BY <1>2 DEF IInv, TypeOK, HasRow, Rows
<1>4. MarkersAreIssued' /\ CallsAreIssued' /\ CallsLeaveFiles'
  BY <1>1 DEF IInv, MarkersAreIssued, CallsAreIssued, CallsLeaveFiles, At, Slug
<1>5. RowsAreIssued' /\ ActivatedLeavesFiles'
  BY <1>2, <1>3 DEF IInv, RowsAreIssued, ActivatedLeavesFiles
<1>6. TornIsExplained'
  BY <1>1 DEF IInv, TornIsExplained, At, Slug
<1>7. RefusedStayExpired'
  BY <1>3 DEF IInv, TypeOK, RefusedStayExpired, Expired
<1>8. QED
  BY <1>4, <1>5, <1>6, <1>7 DEF Rest

LEMMA FailStep ==
    ASSUME IInv, NEW t \in Threads, Fail(t)
    PROVE  Rest'
<1> USE DEF Fail
<1>1. /\ call'[t] = Idle /\ \A u \in Threads : u # t => call'[u] = call[u]
  BY DEF IInv, TypeOK
<1>2. /\ MarkersAreIssued' /\ CallsAreIssued' /\ CallsLeaveFiles' /\ RowsAreIssued'
      /\ ActivatedLeavesFiles' /\ RefusedStayExpired'
  BY <1>1 DEF IInv, MarkersAreIssued, CallsAreIssued, CallsLeaveFiles, At, Slug,
     RowsAreIssued, ActivatedLeavesFiles, RefusedStayExpired, HasRow, Expired
<1>3. TornIsExplained'
  BY <1>1 DEF IInv, TornIsExplained, At, Slug
<1>4. QED
  BY <1>2, <1>3 DEF Rest

LEMMA RestartStep ==
    ASSUME IInv, NEW products \in Catalogs, Restart(products)
    PROVE  Rest'
<1> USE DEF Restart
<1>1. /\ MarkersAreIssued' /\ CallsAreIssued' /\ CallsLeaveFiles' /\ RowsAreIssued'
      /\ ActivatedLeavesFiles' /\ RefusedStayExpired'
  BY DEF IInv, MarkersAreIssued, CallsAreIssued, CallsLeaveFiles, At,
     RowsAreIssued, ActivatedLeavesFiles, RefusedStayExpired, HasRow, Expired
<1>2. TornIsExplained'
  BY DEF IInv, TornIsExplained
<1>3. QED
  BY <1>1, <1>2 DEF Rest

LEMMA AroundStep ==
    ASSUME IInv,
           \/ \E l \in Licenses : Refuse(l)
           \/ \E d \in Tenants : CreateTenant(d) \/ DeleteTenant(d)
           \/ Tick
           \/ UNCHANGED vars
    PROVE  Rest'
<1> USE LicenseAssumption DEF Refuse, CreateTenant, DeleteTenant, Tick, vars, files
<1>1. \A l \in Licenses : HasRow(l)' => row'[l] = row[l] /\ HasRow(l)
  BY DEF IInv, TypeOK, HasRow
<1>2. now \in Nat /\ now' \in Nat /\ now' >= now
  BY DEF IInv, TypeOK
<1>3. \A l \in Licenses : Expired(l) /\ HasRow(l)' => Expired(l)'
  BY <1>1, <1>2 DEF IInv, TypeOK, Expired, HasRow, Rows
<1>4. MarkersAreIssued' /\ CallsAreIssued' /\ CallsLeaveFiles' /\ TornIsExplained'
  <2>1. UNCHANGED <<adapter, call, issued, broken>>
    OBVIOUS
  <2>2. QED
    BY <2>1 DEF IInv, MarkersAreIssued, CallsAreIssued, CallsLeaveFiles, TornIsExplained, At, Slug
<1>5. RowsAreIssued' /\ ActivatedLeavesFiles'
  BY <1>1 DEF IInv, RowsAreIssued, ActivatedLeavesFiles
<1>6. RefusedStayExpired'
  <2>1. issued' = issued /\ \A l \in refused' : l \in refused \/ (HasRow(l) /\ Expired(l))
    OBVIOUS
  <2>2. \A l \in Licenses : HasRow(l) => issued[l] # None
    <3> SUFFICES ASSUME NEW l \in Licenses, HasRow(l) PROVE issued[l] # None
      OBVIOUS
    <3>1. <<row[l].tenant, row[l].product>> \in Tenants \X Products
      BY DEF IInv, TypeOK, HasRow, Rows
    <3>2. QED
      BY <3>1 DEF IInv, RowsAreIssued
  <2>3. refused' \subseteq Licenses
    BY DEF IInv, TypeOK
  <2>4. QED
    BY <1>1, <1>3, <2>1, <2>2, <2>3 DEF IInv, RefusedStayExpired
<1>7. QED
  BY <1>4, <1>5, <1>6 DEF Rest

LEMMA InvInit == Init => IInv
<1> SUFFICES ASSUME Init PROVE IInv
  OBVIOUS
<1>1. TypeOK
  BY TypeInit
<1>2. Rest
  BY LicenseAssumption DEF Init, Rest, MarkersAreIssued, CallsAreIssued, RowsAreIssued,
     CallsLeaveFiles, ActivatedLeavesFiles, TornIsExplained, RefusedStayExpired,
     HasRow, At, Torn, Idle
<1>3. QED
  BY <1>1, <1>2 DEF IInv, Rest

LEMMA InvStep == IInv /\ [Next]_vars => IInv'
<1> SUFFICES ASSUME IInv, [Next]_vars PROVE IInv'
  OBVIOUS
<1>1. TypeOK'
  BY TypeStep DEF IInv
<1>2. Rest'
  BY IssueStep, BeginStep, MakeDirectoryStep, OpenMarkerStep, WriteMarkerStep, CommitStep,
     FailStep, RestartStep, AroundStep DEF Next, Activate, Administer
<1>3. QED
  BY <1>1, <1>2 DEF IInv, Rest

LEMMA Invariant == Spec => []IInv
BY InvInit, InvStep, PTL DEF Spec

-----------------------------------------------------------------------------
(* The results.                                                            *)

\* Every variable of Licenses keeps its type.
THEOREM TypeCorrect == Spec => []TypeOK
<1>1. IInv => TypeOK
  BY DEF IInv
<1>2. QED
  BY <1>1, Invariant, PTL

\* Complete markers name licenses of their own tenant and product.
THEOREM MarkersAreLicensed == Spec => []InstalledWasLicensed
<1>1. IInv => InstalledWasLicensed
  BY DEF IInv, MarkersAreIssued, InstalledWasLicensed
<1>2. QED
  BY <1>1, Invariant, PTL

\* An activated license has its adapter installed, interruptions by later
\* installs apart.
THEOREM ActivationsInstall == Spec => []ActivatedIsInstalled
<1>1. IInv => ActivatedIsInstalled
  <2> SUFFICES ASSUME IInv, NEW l \in Licenses, HasRow(l), row[l].activated
               PROVE  LET d == row[l].tenant
                          p == row[l].product
                      IN  \/ adapter[<<d, p>>] \in Licenses
                          \/ adapter[<<d, p>>] = Torn /\ (Rewriting(d, p) \/ <<d, p>> \in broken)
    BY DEF ActivatedIsInstalled
  <2>1. row[l] \in Rows
    BY DEF IInv, TypeOK, HasRow
  <2>2. /\ <<row[l].tenant, row[l].product>> \in Tenants \X Products
        /\ issued[l] = <<row[l].tenant, row[l].product>>
    BY <2>1 DEF Rows, IInv, RowsAreIssued
  <2>3. adapter[issued[l]] \in Licenses \cup {Torn}
    BY <2>2 DEF IInv, TypeOK, ActivatedLeavesFiles
  <2>4. QED
    BY <2>2, <2>3 DEF IInv, TornIsExplained, Rewriting
<1>2. QED
  BY <1>1, Invariant, PTL

\* No activation begins of a license that was refused as expired.
THEOREM RefusalsAreFinal == Spec => RefusalIsFinal
<1> DEFINE A == \A t \in Threads :
                   call[t] = Idle /\ call'[t] # Idle => call'[t].license \notin refused
<1>1. IInv /\ [Next]_vars => A
  <2> SUFFICES ASSUME IInv, [Next]_vars, NEW t \in Threads, call[t] = Idle, call'[t] # Idle
               PROVE  call'[t].license \notin refused
    OBVIOUS
  <2>1. PICK l \in Licenses : Begin(t, l)
    <3>1. \A u \in Threads : call[u] # Idle => u # t
      OBVIOUS
    <3>2. QED
      BY <3>1 DEF Next, Activate, Administer, Begin, MakeDirectory, OpenMarker, WriteMarker, Commit,
         Fail, Goto, At, Issue, Refuse, CreateTenant, DeleteTenant, Restart, Tick, vars, IInv, TypeOK
  <2>2. call'[t].license = l /\ HasRow(l) /\ ~Expired(l)
    BY <2>1 DEF Begin, IInv, TypeOK
  <2>3. QED
    BY <2>2 DEF IInv, RefusedStayExpired
<1>2. QED
  BY <1>1, Invariant, PTL DEF Spec, RefusalIsFinal
-----------------------------------------------------------------------------
(* What the gateway offers can be asked for, whatever directories are on   *)
(* disk.  Each way of writing an adapter is a short sequence of known      *)
(* names.  A step is about positions (lengths, neighbours) or about names, *)
(* never both: the names are hidden while positions are reasoned about.    *)

\* A reference of at most three segments that none of the grounds of a refusal
\* can touch.  The literals are parameters: the solver reasons about the
\* positions, and the names are put in afterwards.
PlainOf(r, ten, up, ends) ==
    /\ 2..(Len(r) - 2) = {}
    /\ \A i \in 1..(Len(r) - 1) : r[i] # ten /\ r[i] \notin ends
    /\ \A i \in 1..Len(r) : r[i] # up
    /\ \A i, j \in 1..Len(r) : i < j => r[i] # ten
Plain(r) == PlainOf(r, "tenants", "..", EndInTenants)

\* Short sequences are plain when their segments are.
LEMMA PlainOne ==
    ASSUME NEW a, NEW ten, NEW up, NEW ends, a # up
    PROVE  PlainOf(<<a>>, ten, up, ends)
BY DEF PlainOf

LEMMA PlainTwo ==
    ASSUME NEW a, NEW b, NEW ten, NEW up, NEW ends,
           a # up, b # up, a # ten, a \notin ends
    PROVE  PlainOf(<<a, b>>, ten, up, ends)
BY DEF PlainOf

LEMMA PlainThree ==
    ASSUME NEW a, NEW b, NEW c, NEW ten, NEW up, NEW ends,
           a # up, b # up, c # up, a # ten, b # ten, a \notin ends, b \notin ends
    PROVE  PlainOf(<<a, b, c>>, ten, up, ends)
BY DEF PlainOf

\* A plain reference that is plain after Strip passes the check.
LEMMA PlainIsAllowed ==
    ASSUME NEW t, NEW disk, NEW r, r # <<"">>, Plain(r), Plain(Strip(t, r))
    PROVE  Allowed(t, r, disk)
<1>1. ~NamesAnother(t, r)
  BY Zenon DEF Plain, PlainOf, NamesAnother
<1>2. ~HoldsMarker(t, r, disk)
  BY Zenon DEF Plain, PlainOf, HoldsMarker
<1>3. ~Escapes(t, Strip(t, r))
  BY Zenon DEF Plain, PlainOf, Escapes
<1>4. QED
  BY <1>1, <1>2, <1>3, Zenon DEF Allowed

\* A tenant id is none of the fixed names of a path.
LEMMA TenantIdsAreNames ==
    \A t \in TenantIds : t \notin {"loras", "tenants", "", ".", ".."}
BY SegmentAssumption DEF Subdirs, Blank

\* The ways that start with the tenant's own id.
LEMMA PlainNames ==
    ASSUME NEW t \in TenantIds, t \notin EndInTenants, NEW x, x # ".."
    PROVE  Plain(<<t, x>>) /\ Plain(<<t, "loras", x>>)
<1>1. t # "tenants" /\ t # ".." /\ "loras" # ".." /\ "loras" # "tenants" /\ "loras" \notin EndInTenants
  BY TenantIdsAreNames, SegmentAssumption
<1>2. QED
  BY <1>1, PlainTwo, PlainThree, Zenon DEF Plain

\* The ways without the tenant's id.
LEMMA PlainShort ==
    ASSUME NEW x, x # ".."
    PROVE  /\ Plain(<<x>>) /\ Plain(<<"loras", x>>)
           /\ Plain(<<".", x>>) /\ Plain(<<".", "loras", x>>)
<1>1. "." # "tenants" /\ "." # ".." /\ "loras" # ".." /\ "loras" # "tenants"
      /\ "loras" \notin EndInTenants /\ "." \notin EndInTenants
  BY SegmentAssumption DEF Blank
<1>2. QED
  BY <1>1, PlainOne, PlainTwo, PlainThree, Zenon DEF Plain

\* The three alternatives of Strip.
LEMMA StripFull ==
    ASSUME NEW t, NEW r, Len(r) >= 3, r[1] = "tenants", r[2] = t, t # "tenants"
    PROVE  Strip(t, r) = Tail(Tail(r))
BY Zenon DEF Strip

LEMMA StripFirst ==
    ASSUME NEW t, NEW r, Len(r) >= 2, r[1] \in {t, "."}, r[1] # "tenants"
    PROVE  Strip(t, r) = Tail(r)
BY Zenon DEF Strip

LEMMA StripNone ==
    ASSUME NEW t, NEW r,
           \/ ~(Len(r) >= 2) /\ ~(Len(r) >= 3)
           \/ r[1] \notin {t, ".", "tenants"}
    PROVE  Strip(t, r) = r
BY Zenon DEF Strip

\* What Strip leaves of each way of writing x.
LEMMA Stripping ==
    ASSUME NEW t \in TenantIds, NEW x, NEW r
    PROVE  /\ r = <<x>> => Strip(t, r) = <<x>>
           /\ r = <<"loras", x>> => Strip(t, r) = <<"loras", x>>
           /\ r \in {<<".", x>>, <<t, x>>, <<"tenants", t, x>>} => Strip(t, r) = <<x>>
           /\ r \in {<<".", "loras", x>>, <<t, "loras", x>>, <<"tenants", t, "loras", x>>} =>
                 Strip(t, r) = <<"loras", x>>
<1> DEFINE lo == "loras" ten == "tenants"
<1>1. t # "tenants" /\ "." # "tenants" /\ "loras" \notin {t, ".", "tenants"}
  BY TenantIdsAreNames
<1>2. ASSUME r = <<x>> PROVE Strip(t, r) = <<x>>
  <2>1. ~(Len(r) >= 2) /\ ~(Len(r) >= 3)
    BY <1>2
  <2>2. QED
    BY <1>2, <2>1, StripNone, Zenon
<1>3. ASSUME r = <<"loras", x>> PROVE Strip(t, r) = <<"loras", x>>
  <2>1. r[1] = lo
    <3>1. r = <<lo, x>>
      BY <1>3
    <3> HIDE DEF lo, ten
    <3>2. QED
      BY <3>1
  <2>2. QED
    BY <1>1, <1>3, <2>1, StripNone, Zenon
<1>4. ASSUME NEW a \in {".", t}, r = <<a, x>> PROVE Strip(t, r) = <<x>>
  <2>1. Len(r) >= 2 /\ r[1] = a /\ Tail(r) = <<x>>
    <3>1. r = <<a, x>>
      BY <1>4
    <3> HIDE DEF lo, ten
    <3>2. QED
      BY <3>1
  <2>2. QED
    BY <1>1, <1>4, <2>1, StripFirst, Zenon
<1>5. ASSUME NEW a \in {".", t}, r = <<a, "loras", x>> PROVE Strip(t, r) = <<"loras", x>>
  <2>1. Len(r) >= 2 /\ r[1] = a /\ Tail(r) = <<lo, x>>
    <3>1. r = <<a, lo, x>>
      BY <1>5
    <3> HIDE DEF lo, ten
    <3>2. QED
      BY <3>1
  <2>2. QED
    BY <1>1, <1>5, <2>1, StripFirst, Zenon
<1>6. ASSUME r = <<"tenants", t, x>> PROVE Strip(t, r) = <<x>>
  <2>1. Len(r) >= 3 /\ r[1] = ten /\ r[2] = t /\ Tail(Tail(r)) = <<x>>
    <3>1. r = <<ten, t, x>>
      BY <1>6
    <3> HIDE DEF lo, ten
    <3>2. QED
      BY <3>1
  <2>2. QED
    BY <1>1, <2>1, StripFull, Zenon
<1>7. ASSUME r = <<"tenants", t, "loras", x>> PROVE Strip(t, r) = <<"loras", x>>
  <2>1. Len(r) >= 3 /\ r[1] = ten /\ r[2] = t /\ Tail(Tail(r)) = <<lo, x>>
    <3>1. r = <<ten, t, lo, x>>
      BY <1>7
    <3> HIDE DEF lo, ten
    <3>2. QED
      BY <3>1
  <2>2. QED
    BY <1>1, <2>1, StripFull, Zenon
<1>8. QED
  BY <1>2, <1>3, <1>4, <1>5, <1>6, <1>7

\* Both come to loras/x.
LEMMA Prefixing ==
    ASSUME NEW x
    PROVE  Prefixed(<<x>>) = <<"loras", x>> /\ Prefixed(<<"loras", x>>) = <<"loras", x>>
<1> DEFINE lo == "loras"
<1>1. Len(<<x>>) = 1 /\ <<x>>[1] = x /\ Len(<<lo, x>>) # 1
  <2> HIDE DEF lo
  <2>1. QED
    OBVIOUS
<1>2. QED
  BY <1>1, Zenon DEF Prefixed

\* A full name is refused by the markers alone, and only for a shadowed tenant.
LEMMA FullNames ==
    ASSUME NEW t \in TenantIds, t \notin EndInTenants, NEW disk, NEW x,
           NEW r \in Full(t, x)
    PROVE  ~NamesAnother(t, r) /\ (HoldsMarker(t, r, disk) <=> Shadowed(t, disk))
<1>1. /\ t # "tenants" /\ "loras" # "tenants"
      /\ "loras" \notin EndInTenants /\ "tenants" \in EndInTenants
  BY TenantIdsAreNames, SegmentAssumption
<1> DEFINE lo == "loras" ten == "tenants"
<1>2. CASE r = <<"tenants", t, x>>
  <2>1. /\ r[1] = ten /\ r[1 + 1] = t /\ 1 \in 1..(Len(r) - 1)
        /\ 2..(Len(r) - 2) = {}
        /\ \A i \in 1..(Len(r) - 1) : (r[i] = ten /\ r[i + 1] = t) \/ r[i] = t
    <3>1. r = <<ten, t, x>>
      BY <1>2
    <3> HIDE DEF lo, ten
    <3>2. QED
      BY <3>1
  <2>2. ~NamesAnother(t, r)
    BY <1>1, <2>1, Zenon DEF NamesAnother
  <2>3. HoldsMarker(t, r, disk) => Shadowed(t, disk)
    BY <1>1, <2>1, Zenon DEF HoldsMarker, Shadowed
  <2>4. Shadowed(t, disk) => HoldsMarker(t, r, disk)
    BY <1>1, <2>1, Zenon DEF HoldsMarker, Shadowed
  <2>5. QED
    BY <2>2, <2>3, <2>4
<1>3. CASE r = <<"tenants", t, "loras", x>>
  <2>1. /\ r[1] = ten /\ r[1 + 1] = t /\ 1 \in 1..(Len(r) - 1)
        /\ \A i \in 2..(Len(r) - 2) : r[i] = t
        /\ \A i \in 1..(Len(r) - 1) : \/ r[i] = ten /\ r[i + 1] = t
                                      \/ r[i] = t
                                      \/ r[i] = lo
    <3>1. r = <<ten, t, lo, x>>
      BY <1>3
    <3> HIDE DEF lo, ten
    <3>2. QED
      BY <3>1
  <2>2. ~NamesAnother(t, r)
    BY <1>1, <2>1, Zenon DEF NamesAnother
  <2>3. HoldsMarker(t, r, disk) => Shadowed(t, disk)
    BY <1>1, <2>1, Zenon DEF HoldsMarker, Shadowed
  <2>4. Shadowed(t, disk) => HoldsMarker(t, r, disk)
    BY <1>1, <2>1, Zenon DEF HoldsMarker, Shadowed
  <2>5. QED
    BY <2>2, <2>3, <2>4
<1>4. QED
  BY <1>2, <1>3, Zenon DEF Full

\* None of the ways is the empty reference.
LEMMA NotBlank ==
    ASSUME NEW x, x # "", NEW a, NEW b, NEW c
    PROVE  <<x>> # <<"">> /\ <<a, x>> # <<"">> /\ <<a, b, x>> # <<"">> /\ <<a, b, c, x>> # <<"">>
OBVIOUS

\* Every way of writing x comes to loras/x.
LEMMA EveryWay ==
    ASSUME NEW t \in TenantIds, NEW disk, NEW x, x \notin {"", ".", ".."}
    PROVE  /\ \A s \in Short(x) : Resolve(t, s, disk) = <<"loras", x>>
           /\ t \notin EndInTenants =>
                 /\ \A s \in Own(t, x) : Resolve(t, s, disk) = <<"loras", x>>
                 /\ \A s \in Full(t, x) :
                       Resolve(t, s, disk) =
                          IF Shadowed(t, disk) THEN <<>> ELSE <<"loras", x>>
<1> DEFINE Becomes(s) == Strip(t, s) = <<x>> \/ Strip(t, s) = <<"loras", x>>
<1>1. /\ Plain(<<x>>) /\ Plain(<<"loras", x>>)
      /\ Plain(<<".", x>>) /\ Plain(<<".", "loras", x>>)
  BY PlainShort
<1>2. Allowed(t, <<"loras", x>>, disk)
  <2>1. Strip(t, <<"loras", x>>) = <<"loras", x>>
    BY Stripping
  <2>2. <<"loras", x>> # <<"">>
    BY NotBlank
  <2>3. QED
    BY <1>1, <2>1, <2>2, PlainIsAllowed, Zenon
<1>3. \A s : Becomes(s) /\ Allowed(t, s, disk) => Resolve(t, s, disk) = <<"loras", x>>
  <2>1. \A s : Becomes(s) => Prefixed(Strip(t, s)) = <<"loras", x>>
    BY Prefixing, Zenon
  <2>2. QED
    BY <1>2, <2>1, Zenon DEF Resolve
<1>4. \A s : s # <<"">> /\ Plain(s) /\ Becomes(s) => Resolve(t, s, disk) = <<"loras", x>>
  <2>1. \A s : Becomes(s) => Plain(Strip(t, s))
    BY <1>1, Zenon
  <2>2. \A s : s # <<"">> /\ Plain(s) /\ Becomes(s) => Allowed(t, s, disk)
    BY <2>1, PlainIsAllowed, Zenon
  <2>3. QED
    BY <1>3, <2>2, Zenon
<1>5. ASSUME NEW s \in Short(x)
      PROVE  Resolve(t, s, disk) = <<"loras", x>>
  <2>1. s # <<"">>
    BY <1>5, NotBlank, Zenon DEF Short
  <2>2. Plain(s)
    BY <1>1, <1>5, Zenon DEF Short
  <2>3. Becomes(<<x>>)
    BY Stripping, Zenon
  <2>4. Becomes(<<"loras", x>>)
    BY Stripping, Zenon
  <2>5. Becomes(<<".", x>>)
    BY Stripping, Zenon
  <2>6. Becomes(<<".", "loras", x>>)
    BY Stripping, Zenon
  <2>7. Becomes(s)
    BY <1>5, <2>3, <2>4, <2>5, <2>6, Zenon DEF Short
  <2>8. QED
    BY <1>4, <2>1, <2>2, <2>7, Zenon
<1>6. ASSUME t \notin EndInTenants, NEW s \in Own(t, x)
      PROVE  Resolve(t, s, disk) = <<"loras", x>>
  <2>1. s # <<"">>
    BY <1>6, NotBlank, Zenon DEF Own
  <2>2. Plain(s)
    BY <1>6, PlainNames, Zenon DEF Own
  <2>3. Becomes(s)
    BY <1>6, Stripping, Zenon DEF Own
  <2>4. QED
    BY <1>4, <2>1, <2>2, <2>3, Zenon
<1>7. ASSUME t \notin EndInTenants, NEW s \in Full(t, x)
      PROVE  Resolve(t, s, disk) = IF Shadowed(t, disk) THEN <<>> ELSE <<"loras", x>>
  <2>0. s # <<"">>
    BY <1>7, NotBlank, Zenon DEF Full
  <2>1. Becomes(s)
    BY <1>7, Stripping, Zenon DEF Full
  <2>2. ~NamesAnother(t, s) /\ (HoldsMarker(t, s, disk) <=> Shadowed(t, disk))
    BY <1>7, FullNames, Zenon
  <2>3. ~Escapes(t, Strip(t, s))
    BY <1>1, <2>1, Zenon DEF Plain, PlainOf, Escapes
  <2>4. Allowed(t, s, disk) <=> ~Shadowed(t, disk)
    BY <2>0, <2>2, <2>3, Zenon DEF Allowed
  <2>5. QED
    <3>1. Shadowed(t, disk) => Resolve(t, s, disk) = <<>>
      BY <2>4, Zenon DEF Resolve
    <3>2. ~Shadowed(t, disk) => Resolve(t, s, disk) = <<"loras", x>>
      BY <1>3, <2>1, <2>4, Zenon
    <3>3. QED
      BY <3>1, <3>2, Zenon
<1>8. QED
  BY <1>5, <1>6, <1>7

\* Every id list_models offers for an installed adapter is accepted by
\* resolve_adapter_for_tenant, and so are the other ways of writing it; a full
\* name fails exactly for a tenant whose id begins with another's on disk.
THEOREM OffersAreUsable == Spec => []OfferedIsUsable
<1>1. OfferedIsUsable
  <2>1. ASSUME NEW d \in Tenants, NEW p \in Products
        PROVE  LET r == <<"loras", p>> IN
               /\ r[2] = p
               /\ \A s \in Short(p) : Resolve(d, s, trees) = r
               /\ d \notin EndInTenants =>
                     /\ \A s \in Own(d, p) : Resolve(d, s, trees) = r
                     /\ \A s \in Full(d, p) :
                           Resolve(d, s, trees) = IF Shadowed(d, trees) THEN <<>> ELSE r
    <3>1. d \in TenantIds /\ p \notin {"", ".", ".."}
      BY AdapterAssumption DEF Blank
    <3>2. <<"loras", p>>[2] = p
      OBVIOUS
    <3>3. \A s \in Short(p) : Resolve(d, s, trees) = <<"loras", p>>
      BY <3>1, EveryWay
    <3>4. d \notin EndInTenants => \A s \in Own(d, p) : Resolve(d, s, trees) = <<"loras", p>>
      BY <3>1, EveryWay
    <3>5. d \notin EndInTenants =>
             \A s \in Full(d, p) : Resolve(d, s, trees) =
                                      IF Shadowed(d, trees) THEN <<>> ELSE <<"loras", p>>
      BY <3>1, EveryWay
    <3>6. QED
      BY <3>2, <3>3, <3>4, <3>5
  <2>2. QED
    BY <2>1, Zenon DEF OfferedIsUsable, Offered
<1>2. QED
  BY <1>1, PTL
=============================================================================
