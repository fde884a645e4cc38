----------------------------- MODULE KeysProofs -----------------------------
(***************************************************************************)
(* Proofs about Keys, for every number of tenants, rows, secrets, threads  *)
(* and requests.                                                           *)
(***************************************************************************)
EXTENDS Keys, TLAPS

\* Transactions that carry a secret which no client has yet.
Carries(t) == tx[t].op \in {"issue", "rotate"}

\* A row belongs to a tenant that exists, and its key was issued for it.
RowsAreOwned ==
    \A k \in KeyIds : HasRow(k) =>
        /\ Exists(keyTenant[k])
        /\ k \in idUsed
        /\ keyHash[k] \in known
        /\ owner[keyHash[k]] = keyTenant[k]

KnownAreMinted == \A s \in known : owner[s] # None

\* The secret of a transaction is its own until it commits.
CarriedAreSecret ==
    \A t \in Threads : Carries(t) =>
        /\ tx[t].secret \notin known
        /\ owner[tx[t].secret] = tx[t].tenant
        /\ tx[t].key \in idUsed
        /\ \A u \in Threads : Carries(u) /\ u # t => tx[u].secret # tx[t].secret

\* A row id that is being issued has no row, and is nobody else's.
IssuedAreNew ==
    \A t \in Threads : tx[t].op = "issue" =>
        /\ ~HasRow(tx[t].key)
        /\ \A u \in Threads : Carries(u) /\ u # t => tx[u].key # tx[t].key

\* The row that is being rotated stays its tenant's, or goes.
RotatedAreMine ==
    \A t \in Threads :
        tx[t].op = "rotate" /\ HasRow(tx[t].key) => keyTenant[tx[t].key] = tx[t].tenant

StoreInv ==
    /\ RowsAreOwned
    /\ KnownAreMinted
    /\ CarriedAreSecret
    /\ IssuedAreNew
    /\ RotatedAreMine

-----------------------------------------------------------------------------
(* Types.                                                                  *)

\* What the op of a transaction says about its fields.
LEMMA Fields ==
  ASSUME TypeOK, NEW t \in Threads
  PROVE  /\ tx[t].op \in {"idle", "issue", "rotate", "revoke", "set", "delete"}
         /\ tx[t].op = "idle" <=> tx[t] = Idle
         /\ tx[t].op # "idle" => tx[t].tenant \in Tenants
         /\ tx[t].op \in {"issue", "rotate", "revoke"} => tx[t].key \in KeyIds
         /\ Carries(t) => tx[t].secret \in Secrets
         /\ tx[t].op = "set" => tx[t].seen \in Statuses /\ tx[t].to \in {"active", "disabled"}
<1>1. tx[t] \in Transactions
  BY DEF TypeOK
<1> QED
  BY <1>1 DEF Transactions, Idle, Carries

\* A step of a request leaves the store alone, and the others leave the
\* requests alone.
LEMMA ResolveFrame ==
  ASSUME NEW r \in Requests, Resolve(r)
  PROVE  UNCHANGED <<tables, idUsed, tx, known, owner>>
BY DEF Resolve, Arrive, Lookup, CheckTenant, FallBack, ResolveEnv, Move

LEMMA StoreFrame ==
  ASSUME Step, ~\E r \in Requests : Resolve(r)
  PROVE  UNCHANGED req
<1>1. CASE \E t \in Threads : Administer(t)
  BY <1>1 DEF Administer, BeginIssue, BeginRotate, BeginRevoke, BeginSet, BeginDelete, Begin,
              CommitIssue, CommitRotate, CommitRevoke, CommitSet, CommitDelete, Abort, End
<1>2. CASE \E d \in Tenants : CreateTenant(d)
  BY <1>2 DEF CreateTenant
<1>3. CASE Restart
  BY <1>3 DEF Restart
<1> QED
  BY <1>1, <1>2, <1>3 DEF Step

StoreTypes ==
    /\ status \in [Tenants -> Statuses]
    /\ keyTenant \in [KeyIds -> Tenants \cup {None}]
    /\ keyHash \in [KeyIds -> Secrets \cup {None}]
    /\ revoked \in [KeyIds -> BOOLEAN]
    /\ idUsed \subseteq KeyIds
    /\ tx \in [Threads -> Transactions]
    /\ known \subseteq Secrets
    /\ owner \in [Secrets -> Tenants \cup {None}]

LEMMA StoreTypesStep == TypeOK /\ Step => StoreTypes'
<1> SUFFICES ASSUME TypeOK, Step PROVE StoreTypes'
  OBVIOUS
<1> USE TenantAssumption, NoneAssumption DEF StoreTypes, TypeOK
<1>0. Idle \in Transactions
  BY DEF Transactions
<1>1. ASSUME NEW t \in Threads, NEW d \in Tenants, NEW k \in KeyIds, NEW s \in Secrets,
             BeginIssue(t, d, k, s) PROVE StoreTypes'
  BY <1>1 DEF BeginIssue, Begin, Mint, Transactions, tables
<1>2. ASSUME NEW t \in Threads, NEW d \in Tenants, NEW k \in KeyIds, NEW s \in Secrets,
             BeginRotate(t, d, k, s) PROVE StoreTypes'
  BY <1>2 DEF BeginRotate, Begin, Mint, Transactions, tables
<1>3. ASSUME NEW t \in Threads, NEW d \in Tenants, NEW k \in KeyIds,
             BeginRevoke(t, d, k) PROVE StoreTypes'
  BY <1>3 DEF BeginRevoke, Begin, Transactions, tables
<1>4. ASSUME NEW t \in Threads, NEW d \in Tenants, NEW st \in {"active", "disabled"},
             BeginSet(t, d, st) PROVE StoreTypes'
  BY <1>4 DEF BeginSet, Begin, Transactions, tables
<1>5. ASSUME NEW t \in Threads, NEW d \in Tenants, BeginDelete(t, d) PROVE StoreTypes'
  BY <1>5 DEF BeginDelete, Begin, Transactions, tables
<1>6. ASSUME NEW t \in Threads, CommitIssue(t) PROVE StoreTypes'
  BY <1>0, <1>6, Fields DEF CommitIssue, End, Carries
<1>7. ASSUME NEW t \in Threads, CommitRotate(t) PROVE StoreTypes'
  BY <1>0, <1>7, Fields DEF CommitRotate, End, Carries
<1>8. ASSUME NEW t \in Threads, CommitRevoke(t) PROVE StoreTypes'
  BY <1>0, <1>8 DEF CommitRevoke, End
<1>9. ASSUME NEW t \in Threads, CommitSet(t) PROVE StoreTypes'
  BY <1>0, <1>9, Fields DEF CommitSet, End, Statuses
<1>10. ASSUME NEW t \in Threads, CommitDelete(t) PROVE StoreTypes'
  BY <1>0, <1>10 DEF CommitDelete, End, Statuses
<1>11. ASSUME NEW t \in Threads, Abort(t) PROVE StoreTypes'
  BY <1>0, <1>11 DEF Abort, End, tables
<1>12. ASSUME NEW d \in Tenants, CreateTenant(d) PROVE StoreTypes'
  BY <1>12 DEF CreateTenant, Statuses
<1>13. CASE Restart
  BY <1>0, <1>13 DEF Restart, Statuses
<1>14. CASE UNCHANGED <<tables, idUsed, tx, known, owner>>
  BY <1>14 DEF tables
<1> QED
  BY <1>1, <1>2, <1>3, <1>4, <1>5, <1>6, <1>7, <1>8, <1>9, <1>10, <1>11,
     <1>12, <1>13, <1>14, ResolveFrame DEF Step, Administer

-----------------------------------------------------------------------------
(* The store.                                                              *)

LEMMA StoreStep == TypeOK /\ StoreInv /\ Step => StoreInv'
<1> SUFFICES ASSUME TypeOK, StoreInv, Step PROVE StoreInv'
  OBVIOUS
<1> USE TenantAssumption, NoneAssumption
<1>f. \A t \in Threads :
         /\ tx[t].op = "idle" <=> tx[t] = Idle
         /\ tx[t].op # "idle" => tx[t].tenant \in Tenants
         /\ tx[t].op \in {"issue", "rotate", "revoke"} => tx[t].key \in KeyIds
         /\ Carries(t) => tx[t].secret \in Secrets
         /\ tx[t].op = "set" => tx[t].to \in {"active", "disabled"}
  BY Fields
<1>t. /\ status \in [Tenants -> Statuses]
      /\ keyTenant \in [KeyIds -> Tenants \cup {None}]
      /\ keyHash \in [KeyIds -> Secrets \cup {None}]
      /\ tx \in [Threads -> Transactions]
      /\ known \subseteq Secrets
      /\ owner \in [Secrets -> Tenants \cup {None}]
  BY DEF TypeOK
<1>1. ASSUME NEW t \in Threads, NEW d \in Tenants, NEW k \in KeyIds, NEW s \in Secrets,
             BeginIssue(t, d, k, s) PROVE StoreInv'
  <2>1. /\ tx' = [tx EXCEPT ![t] = [op |-> "issue", tenant |-> d, key |-> k, secret |-> s]]
        /\ tx[t] = Idle
        /\ k \notin idUsed /\ idUsed' = idUsed \cup {k}
        /\ owner[s] = None /\ owner' = [owner EXCEPT ![s] = d]
        /\ UNCHANGED <<status, keyTenant, keyHash, revoked, known>>
    BY <1>1 DEF BeginIssue, Begin, Mint, tables
  <2>2. RowsAreOwned' /\ KnownAreMinted'
    BY <2>1, <1>t DEF StoreInv, RowsAreOwned, KnownAreMinted, HasRow, Exists
  <2>3. \A u \in Threads : Carries(u)' <=> u = t \/ Carries(u)
    BY <2>1, <1>t DEF Carries
  <2>4. CarriedAreSecret'
    BY <2>1, <2>3, <1>f, <1>t DEF StoreInv, KnownAreMinted, CarriedAreSecret, Carries
  <2>5. IssuedAreNew'
    BY <2>1, <2>3, <1>f, <1>t
    DEF StoreInv, RowsAreOwned, CarriedAreSecret, IssuedAreNew, HasRow, Carries
  <2>6. RotatedAreMine'
    BY <2>1, <1>f, <1>t DEF StoreInv, RotatedAreMine, HasRow
  <2> QED
    BY <2>2, <2>4, <2>5, <2>6 DEF StoreInv
<1>2. ASSUME NEW t \in Threads, NEW d \in Tenants, NEW k \in KeyIds, NEW s \in Secrets,
             BeginRotate(t, d, k, s) PROVE StoreInv'
  <2>1. /\ tx' = [tx EXCEPT ![t] = [op |-> "rotate", tenant |-> d, key |-> k, secret |-> s]]
        /\ tx[t] = Idle
        /\ keyTenant[k] = d
        /\ owner[s] = None /\ owner' = [owner EXCEPT ![s] = d]
        /\ UNCHANGED <<status, keyTenant, keyHash, revoked, known, idUsed>>
    BY <1>2 DEF BeginRotate, Begin, Mint, Mine, tables
  <2>2. RowsAreOwned' /\ KnownAreMinted'
    BY <2>1, <1>t DEF StoreInv, RowsAreOwned, KnownAreMinted, HasRow, Exists
  <2>3. \A u \in Threads : Carries(u)' <=> u = t \/ Carries(u)
    BY <2>1, <1>t DEF Carries
  <2>4. CarriedAreSecret'
    BY <2>1, <2>3, <1>f, <1>t
    DEF StoreInv, RowsAreOwned, KnownAreMinted, CarriedAreSecret, HasRow, Carries
  <2>5. IssuedAreNew'
    BY <2>1, <2>3, <1>f, <1>t DEF StoreInv, IssuedAreNew, HasRow, Carries
  <2>6. RotatedAreMine'
    BY <2>1, <1>f, <1>t DEF StoreInv, RotatedAreMine, HasRow
  <2> QED
    BY <2>2, <2>4, <2>5, <2>6 DEF StoreInv
<1>3. ASSUME NEW t \in Threads,
             tx'[t].op \in {"idle", "revoke", "set", "delete"},
             \A u \in Threads : u # t => tx'[u] = tx[u],
             UNCHANGED <<status, keyTenant, keyHash, known, owner, idUsed>>
      PROVE  StoreInv'
  BY <1>3, <1>f, <1>t
  DEF StoreInv, RowsAreOwned, KnownAreMinted, CarriedAreSecret, IssuedAreNew, RotatedAreMine,
      HasRow, Exists, Carries
<1>4. ASSUME NEW t \in Threads, CommitIssue(t) PROVE StoreInv'
  <2> DEFINE k == tx[t].key  s == tx[t].secret  d == tx[t].tenant
  <2>1. /\ tx[t].op = "issue" /\ Exists(d) /\ Carries(t)
        /\ keyTenant' = [keyTenant EXCEPT ![k] = d]
        /\ keyHash' = [keyHash EXCEPT ![k] = s]
        /\ known' = known \cup {s}
        /\ tx' = [tx EXCEPT ![t] = Idle]
        /\ UNCHANGED <<status, idUsed, owner>>
    BY <1>4 DEF CommitIssue, End, Carries
  <2>2. /\ k \in KeyIds /\ s \in Secrets /\ d \in Tenants
        /\ k \in idUsed /\ owner[s] = d
    BY <2>1, <1>f DEF StoreInv, CarriedAreSecret
  <2> HIDE DEF k, s, d
  <2>3. RowsAreOwned' /\ KnownAreMinted'
    BY <2>1, <2>2, <1>t DEF StoreInv, RowsAreOwned, KnownAreMinted, HasRow, Exists
  <2>4. /\ \A u \in Threads : Carries(u)' <=> u # t /\ Carries(u)
        /\ \A u \in Threads : Carries(u)' => tx'[u] = tx[u]
    BY <2>1, <1>t DEF Carries, Idle
  <2>5. CarriedAreSecret'
    BY <2>1, <2>4 DEF StoreInv, CarriedAreSecret, s
  <2>6. \A u \in Threads : Carries(u)' => tx[u].key # k
    BY <2>1, <2>4 DEF StoreInv, IssuedAreNew, k
  <2>7. IssuedAreNew' /\ RotatedAreMine'
    <3>1. \A u \in Threads : tx'[u].op \in {"issue", "rotate"} => tx'[u].key # k
      BY <2>4, <2>6 DEF Carries
    <3>2. \A u \in Threads : tx'[u].op \in {"issue", "rotate"} =>
             tx'[u] = tx[u] /\ tx[u].key \in KeyIds
      BY <2>4, <1>f DEF Carries
    <3> QED
      BY <2>1, <3>1, <3>2, <1>t DEF StoreInv, IssuedAreNew, RotatedAreMine, HasRow, Carries
  <2> QED
    BY <2>3, <2>5, <2>7 DEF StoreInv
<1>5. ASSUME NEW t \in Threads, CommitRotate(t) PROVE StoreInv'
  <2> DEFINE k == tx[t].key  s == tx[t].secret  d == tx[t].tenant
  <2>1. /\ tx[t].op = "rotate" /\ HasRow(k) /\ Carries(t)
        /\ keyHash' = [keyHash EXCEPT ![k] = s]
        /\ known' = known \cup {s}
        /\ tx' = [tx EXCEPT ![t] = Idle]
        /\ UNCHANGED <<status, keyTenant, idUsed, owner>>
    BY <1>5 DEF CommitRotate, End, Carries
  <2>2. /\ k \in KeyIds /\ s \in Secrets /\ d \in Tenants
        /\ owner[s] = d /\ keyTenant[k] = d
    BY <2>1, <1>f DEF StoreInv, CarriedAreSecret, RotatedAreMine
  <2> HIDE DEF k, s, d
  <2>3. RowsAreOwned' /\ KnownAreMinted'
    BY <2>1, <2>2, <1>t DEF StoreInv, RowsAreOwned, KnownAreMinted, HasRow, Exists
  <2>4. /\ \A u \in Threads : Carries(u)' <=> u # t /\ Carries(u)
        /\ \A u \in Threads : Carries(u)' => tx'[u] = tx[u]
    BY <2>1, <1>t DEF Carries, Idle
  <2>5. CarriedAreSecret'
    BY <2>1, <2>4 DEF StoreInv, CarriedAreSecret, s
  <2>6. IssuedAreNew' /\ RotatedAreMine'
    BY <2>1, <2>4, <1>t DEF StoreInv, IssuedAreNew, RotatedAreMine, HasRow, Carries
  <2> QED
    BY <2>3, <2>5, <2>6 DEF StoreInv
<1>6. ASSUME NEW t \in Threads, CommitSet(t) PROVE StoreInv'
  <2>1. /\ tx' = [tx EXCEPT ![t] = Idle]
        /\ UNCHANGED <<keyTenant, keyHash, known, owner, idUsed>>
        /\ \A d \in Tenants : Exists(d) => Exists(d)'
    BY <1>6, <1>f, <1>t DEF CommitSet, End, Exists
  <2>2. RowsAreOwned' /\ KnownAreMinted'
    BY <2>1, <1>t DEF StoreInv, RowsAreOwned, KnownAreMinted, HasRow
  <2>3. CarriedAreSecret' /\ IssuedAreNew' /\ RotatedAreMine'
    BY <2>1, <1>t
    DEF StoreInv, CarriedAreSecret, IssuedAreNew, RotatedAreMine, HasRow, Carries, Idle
  <2> QED
    BY <2>2, <2>3 DEF StoreInv
<1>7. ASSUME NEW t \in Threads, CommitDelete(t) PROVE StoreInv'
  <2>1. /\ tx' = [tx EXCEPT ![t] = Idle]
        /\ UNCHANGED <<keyHash, known, owner, idUsed>>
        /\ \A k \in KeyIds :
              HasRow(k)' => HasRow(k) /\ keyTenant'[k] = keyTenant[k] /\ Exists(keyTenant[k])'
    BY <1>7, <1>t DEF CommitDelete, End, Exists, StoreInv, RowsAreOwned, HasRow
  <2>2. RowsAreOwned' /\ KnownAreMinted'
    BY <2>1, <1>t DEF StoreInv, RowsAreOwned, KnownAreMinted
  <2>3. CarriedAreSecret' /\ IssuedAreNew' /\ RotatedAreMine'
    BY <2>1, <1>f, <1>t
    DEF StoreInv, CarriedAreSecret, IssuedAreNew, RotatedAreMine, Carries, Idle
  <2> QED
    BY <2>2, <2>3 DEF StoreInv
<1>8. ASSUME UNCHANGED <<keyTenant, keyHash, known, owner, idUsed>>,
             tx' \in {tx, [t \in Threads |-> Idle]},
             \A d \in Tenants : Exists(d) => Exists(d)'
      PROVE  StoreInv'
  BY <1>8, <1>t
  DEF StoreInv, RowsAreOwned, KnownAreMinted, CarriedAreSecret, IssuedAreNew, RotatedAreMine,
      HasRow, Carries, Idle
<1>9. ASSUME NEW t \in Threads, Administer(t) PROVE StoreInv'
  <2>1. CASE \E d \in Tenants, k \in KeyIds : BeginRevoke(t, d, k)
    BY <2>1, <1>3, <1>t DEF BeginRevoke, Begin, tables
  <2>2. CASE \E d \in Tenants, st \in {"active", "disabled"} : BeginSet(t, d, st)
    BY <2>2, <1>3, <1>t DEF BeginSet, Begin, tables
  <2>3. CASE \E d \in Tenants : BeginDelete(t, d)
    BY <2>3, <1>3, <1>t DEF BeginDelete, Begin, tables
  <2>4. CASE CommitRevoke(t)
    BY <2>4, <1>3, <1>t DEF CommitRevoke, End, Idle
  <2>5. CASE Abort(t)
    BY <2>5, <1>3, <1>t DEF Abort, End, Idle, tables
  <2> QED
    BY <2>1, <2>2, <2>3, <2>4, <2>5, <1>1, <1>2, <1>4, <1>5, <1>6, <1>7, <1>9 DEF Administer
<1>10. ASSUME NEW d \in Tenants, CreateTenant(d) PROVE StoreInv'
  BY <1>10, <1>8, <1>t DEF CreateTenant, Exists
<1>11. CASE Restart
  BY <1>11, <1>8, <1>t DEF Restart, Exists
<1>12. ASSUME NEW r \in Requests, Resolve(r) PROVE StoreInv'
  BY <1>12, <1>8, ResolveFrame DEF tables, Exists
<1> QED
  BY <1>9, <1>10, <1>11, <1>12 DEF Step

-----------------------------------------------------------------------------
(* The requests.                                                           *)

\* A client holds secrets that it was given, and those of the env.
HeldIsKnown == \A r \in Requests : req[r].secret \in Secrets => req[r].secret \in known

\* A request whose row was found has the tenant the key was issued for.
FoundIsOwner ==
    \A r \in Requests : req[r].pc = "found" =>
        req[r].secret \in Secrets /\ req[r].tenant = owner[req[r].secret]

\* A request that came with a dead key: it stays dead, and no row is found.
BarredKeyIsDead ==
    \A r \in barredKey :
        /\ req[r].secret \in Secrets /\ ~Live(req[r].secret)
        /\ req[r].pc \in {"sent", "refused"}

BarredTenantIsInactive ==
    \A r \in barredTenant :
        /\ req[r].secret \in Secrets /\ status[owner[req[r].secret]] # "active"
        /\ req[r].pc \in {"sent", "found", "refused"}

RequestInv ==
    /\ HeldIsKnown
    /\ FoundIsOwner
    /\ AcceptedAsOwner
    /\ BarredKeyIsDead
    /\ BarredTenantIsInactive

IInv == TypeOK /\ StoreInv /\ RequestInv

\* Secrets that clients know only die.
LEMMA KnownOnlyDie == TypeOK /\ StoreInv /\ Step => \A s \in known : Live(s)' => Live(s)
<1> SUFFICES ASSUME TypeOK, StoreInv, Step, NEW s \in known, NEW k \in KeyIds,
                    HasRow(k)', Exists(keyTenant[k])', keyHash'[k] = s, ~revoked'[k]
             PROVE  HasRow(k) /\ Exists(keyTenant[k]) /\ keyHash[k] = s /\ ~revoked[k]
  BY DEF Live
<1> USE TenantAssumption, NoneAssumption
<1>0. HasRow(k) => Exists(keyTenant[k])
  BY DEF StoreInv, RowsAreOwned
<1>1. ASSUME NEW t \in Threads, Administer(t) PROVE HasRow(k) /\ keyHash[k] = s /\ ~revoked[k]
  <2>1. CASE CommitIssue(t) \/ CommitRotate(t)
    <3>1. k # tx[t].key
      BY <1>1, <2>1, Fields
      DEF CommitIssue, CommitRotate, StoreInv, CarriedAreSecret, Carries, TypeOK
    <3> QED
      BY <2>1, <3>1, Fields DEF CommitIssue, CommitRotate, Carries, HasRow, TypeOK
  <2>2. CASE CommitRevoke(t)
    BY <2>2, Fields DEF CommitRevoke, HasRow, TypeOK
  <2>3. CASE CommitSet(t)
    BY <2>3 DEF CommitSet, HasRow
  <2>4. CASE CommitDelete(t)
    BY <2>4 DEF CommitDelete, HasRow, TypeOK
  <2>5. CASE UNCHANGED tables
    BY <2>5 DEF tables, HasRow
  <2> QED
    BY <1>1, <2>1, <2>2, <2>3, <2>4, <2>5
    DEF Administer, BeginIssue, BeginRotate, BeginRevoke, BeginSet, BeginDelete, Begin, Abort
<1>2. ASSUME UNCHANGED <<keyTenant, keyHash, revoked>>
      PROVE  HasRow(k) /\ Exists(keyTenant[k]) /\ keyHash[k] = s /\ ~revoked[k]
  BY <1>0, <1>2 DEF HasRow
<1>3. CASE (\E d \in Tenants : CreateTenant(d)) \/ Restart
  BY <1>0, <1>2, <1>3 DEF CreateTenant, Restart
<1>4. ASSUME NEW r \in Requests, Resolve(r) PROVE HasRow(k) /\ keyHash[k] = s /\ ~revoked[k]
  BY <1>2, <1>4, ResolveFrame DEF tables
<1> QED
  BY <1>0, <1>1, <1>3, <1>4 DEF Step

\* What a step leaves of the secrets: known ones stay known, owners stay.
LEMMA OwnersStay ==
  ASSUME TypeOK, Step
  PROVE  /\ known \subseteq known'
         /\ \A s \in Secrets : owner[s] # None => owner'[s] = owner[s]
<1>1. ASSUME NEW t \in Threads, Administer(t)
      PROVE  /\ known \subseteq known'
             /\ \A s \in Secrets : owner[s] # None => owner'[s] = owner[s]
  BY <1>1
  DEF TypeOK, Administer, BeginIssue, BeginRotate, BeginRevoke, BeginSet, BeginDelete, Begin,
      Mint, CommitIssue, CommitRotate, CommitRevoke, CommitSet, CommitDelete, Abort, End
<1>2. CASE UNCHANGED <<known, owner>>
  BY <1>2
<1> QED
  BY <1>1, <1>2, ResolveFrame DEF Step, CreateTenant, Restart

\* A step of a request, with what it finds.
LEMMA RequestStep ==
  ASSUME IInv, NEW r \in Requests, Resolve(r)
  PROVE  /\ req' \in [Requests -> RequestStates]
         /\ \A q \in Requests : q # r => req'[q] = req[q]
         /\ req[r].pc = "new" =>
               /\ req'[r].pc = "sent" /\ req'[r].tenant = None
               /\ req'[r].secret \in known \cup EnvSecrets
         /\ req[r].pc # "new" =>
               /\ req'[r].secret = req[r].secret
               /\ \/ /\ req[r].pc = "sent" /\ req'[r].pc = "found"
                     /\ req[r].secret \in Secrets /\ Live(req[r].secret)
                     /\ req'[r].tenant = owner[req[r].secret]
                  \/ /\ req'[r].pc = "accepted"
                     /\ req[r].secret \in EnvSecrets
                     /\ req'[r].tenant = EnvTenant[req[r].secret]
                  \/ /\ req'[r].pc = "accepted" /\ req[r].pc = "found"
                     /\ req'[r].tenant = req[r].tenant
                     /\ status[req[r].tenant] = "active"
                  \/ req'[r].pc = "refused" /\ req'[r].tenant = None
<1> USE TenantAssumption, NoneAssumption, EnvAssumption DEF IInv, TypeOK, RequestStates
<1>1. ASSUME NEW s \in known \cup EnvSecrets, Arrive(r, s)
      PROVE  /\ req' \in [Requests -> RequestStates]
             /\ \A q \in Requests : q # r => req'[q] = req[q]
             /\ req[r].pc = "new"
             /\ req'[r].pc = "sent" /\ req'[r].secret = s /\ req'[r].tenant = None
  BY <1>1 DEF Arrive
<1>2. ASSUME req[r].pc \in {"sent", "found"}, ResolveEnv(r)
      PROVE  /\ req' \in [Requests -> RequestStates]
             /\ \A q \in Requests : q # r => req'[q] = req[q]
             /\ req'[r].secret = req[r].secret
             /\ \/ /\ req'[r].pc = "accepted" /\ req[r].secret \in EnvSecrets
                   /\ req'[r].tenant = EnvTenant[req[r].secret]
                \/ req'[r].pc = "refused" /\ req'[r].tenant = None
  BY <1>2 DEF ResolveEnv, Move
<1>3. ASSUME req[r].pc = "sent", NEW k \in KeyIds, Matches(k, req[r].secret),
             Move(r, "found", keyTenant[k])
      PROVE  /\ req' \in [Requests -> RequestStates]
             /\ \A q \in Requests : q # r => req'[q] = req[q]
             /\ req'[r].secret = req[r].secret
             /\ req'[r].pc = "found"
             /\ req[r].secret \in Secrets /\ Live(req[r].secret)
             /\ req'[r].tenant = owner[req[r].secret]
  BY <1>3 DEF Matches, Move, Live, HasRow, StoreInv, RowsAreOwned
<1>4. ASSUME CheckTenant(r)
      PROVE  /\ req' \in [Requests -> RequestStates]
             /\ \A q \in Requests : q # r => req'[q] = req[q]
             /\ req'[r].secret = req[r].secret
             /\ req[r].pc = "found"
             /\ \/ /\ req'[r].pc = "accepted" /\ req'[r].tenant = req[r].tenant
                   /\ status[req[r].tenant] = "active"
                \/ req'[r].pc = "refused" /\ req'[r].tenant = None
  BY <1>4 DEF CheckTenant, Move
<1> QED
  <2>1. CASE \E s \in known \cup EnvSecrets : Arrive(r, s)
    BY <2>1, <1>1
  <2>2. CASE Lookup(r)
    BY <2>2, <1>2, <1>3 DEF Lookup
  <2>3. CASE CheckTenant(r)
    BY <2>3, <1>4
  <2>4. CASE FallBack(r)
    BY <2>4, <1>2 DEF FallBack
  <2> QED
    BY <2>1, <2>2, <2>3, <2>4 DEF Resolve

LEMMA HistoryTypes ==
  ASSUME TypeOK, History, req' \in [Requests -> RequestStates]
  PROVE  barredKey' \subseteq Requests /\ barredTenant' \subseteq Requests
BY DEF TypeOK, History

LEMMA TypeStep == IInv /\ Next => TypeOK'
<1> SUFFICES ASSUME IInv, Step, History PROVE TypeOK'
  BY DEF Next
<1>1. StoreTypes'
  BY StoreTypesStep DEF IInv
<1>2. /\ req' \in [Requests -> RequestStates]
      /\ \A r \in Requests : req'[r].tenant # None <=> req'[r].pc \in {"found", "accepted"}
      /\ \A r \in Requests : req'[r].secret # None <=> req'[r].pc # "new"
  <2>1. CASE UNCHANGED req
    BY <2>1 DEF IInv, TypeOK
  <2>2. ASSUME NEW r \in Requests, Resolve(r)
        PROVE  /\ req'[r].tenant # None <=> req'[r].pc \in {"found", "accepted"}
               /\ req'[r].secret # None <=> req'[r].pc # "new"
    <3>1. req[r].secret \in Secrets => owner[req[r].secret] # None
      BY DEF IInv, StoreInv, KnownAreMinted, RequestInv, HeldIsKnown
    <3>2. req[r].secret \in EnvSecrets => EnvTenant[req[r].secret] # None
      BY TenantAssumption, EnvAssumption
    <3>3. req'[r].secret # None <=> req'[r].pc # "new"
      BY <2>2, RequestStep, NoneAssumption DEF IInv, TypeOK
    <3> QED
      BY <2>2, <3>1, <3>2, <3>3, RequestStep DEF IInv, TypeOK
  <2> QED
    BY <2>1, <2>2, RequestStep, StoreFrame DEF IInv, TypeOK
<1> QED
  BY <1>1, <1>2, HistoryTypes DEF StoreTypes, TypeOK, IInv

LEMMA RequestInvStep == IInv /\ Next => RequestInv'
<1> SUFFICES ASSUME IInv, Step, History PROVE RequestInv'
  BY DEF Next
<1> USE TenantAssumption, NoneAssumption, EnvAssumption
<1>0. /\ known \subseteq known' /\ known \subseteq Secrets
      /\ \A s \in known : owner'[s] = owner[s] /\ owner[s] # None
      /\ \A s \in known : Live(s)' => Live(s)
  BY OwnersStay, KnownOnlyDie DEF IInv, TypeOK, StoreInv, KnownAreMinted
<1>1. CASE UNCHANGED req
  <2>1. HeldIsKnown' /\ FoundIsOwner' /\ AcceptedAsOwner'
    BY <1>0, <1>1 DEF IInv, RequestInv, HeldIsKnown, FoundIsOwner, AcceptedAsOwner
  <2>2. barredKey' \subseteq barredKey /\ barredTenant' \subseteq barredTenant
    BY <1>1 DEF History
  <2>3. BarredKeyIsDead'
    BY <1>0, <1>1, <2>2 DEF IInv, TypeOK, RequestInv, HeldIsKnown, BarredKeyIsDead
  <2>4. BarredTenantIsInactive'
    BY <1>0, <1>1, <2>2 DEF History, IInv, TypeOK, RequestInv, HeldIsKnown, BarredTenantIsInactive
  <2> QED
    BY <2>1, <2>3, <2>4 DEF RequestInv
<1>2. ASSUME NEW r \in Requests, Resolve(r) PROVE RequestInv'
  <2>1. UNCHANGED <<tables, idUsed, tx, known, owner>>
    BY <1>2, ResolveFrame
  <2>2. \A s : Live(s)' <=> Live(s)
    BY <2>1 DEF tables, Live, HasRow, Exists
  <2>3. /\ \A q \in Requests : q # r => req'[q] = req[q]
        /\ req[r].pc = "new" \/ req'[r].secret = req[r].secret
    BY <1>2, RequestStep
  <2>4. HeldIsKnown'
    BY <1>0, <1>2, <2>1, <2>3, RequestStep DEF IInv, RequestInv, HeldIsKnown
  <2>5. FoundIsOwner'
    BY <1>2, <2>1, <2>3, RequestStep DEF IInv, TypeOK, RequestInv, FoundIsOwner
  <2>6. AcceptedAsOwner'
    BY <1>2, <2>1, <2>3, RequestStep
    DEF IInv, TypeOK, RequestStates, RequestInv, FoundIsOwner, AcceptedAsOwner
  <2>7. BarredKeyIsDead'
    <3>1. \A q \in barredKey' : q \in barredKey \/ req[q].pc = "new"
      BY DEF History
    <3>2. \A q \in barredKey' \ barredKey :
             q = r /\ req'[q].secret \in Secrets /\ ~Live(req'[q].secret) /\ req'[q].pc = "sent"
      BY <1>2, <2>2, <2>3, RequestStep DEF History, IInv, TypeOK
    <3>3. \A q \in barredKey :
             req'[q].secret = req[q].secret /\ req'[q].pc \in {"sent", "refused"}
      BY <1>2, <2>3, RequestStep DEF IInv, TypeOK, RequestInv, FoundIsOwner, BarredKeyIsDead
    <3> QED
      BY <2>2, <3>2, <3>3 DEF IInv, RequestInv, BarredKeyIsDead
  <2>8. BarredTenantIsInactive'
    <3>1. \A q \in barredTenant' : status'[owner[req'[q].secret]] # "active"
      BY DEF History
    <3>2. \A q \in barredTenant' \ barredTenant :
             q = r /\ req'[q].secret \in Secrets /\ req'[q].pc = "sent"
      BY <1>2, <2>3, RequestStep DEF History, IInv, TypeOK
    <3>3. \A q \in barredTenant :
             req'[q].secret = req[q].secret /\ req'[q].pc \in {"sent", "found", "refused"}
      BY <1>2, <2>3, RequestStep
      DEF IInv, TypeOK, RequestInv, FoundIsOwner, BarredTenantIsInactive
    <3> QED
      BY <2>1, <3>1, <3>2, <3>3 DEF IInv, RequestInv, BarredTenantIsInactive
  <2> QED
    BY <2>4, <2>5, <2>6, <2>7, <2>8 DEF RequestInv
<1> QED
  BY <1>1, <1>2, StoreFrame

-----------------------------------------------------------------------------
(* The theorems.                                                           *)

\* IInv is inductive.
THEOREM Invariance == Spec => []IInv
<1>1. Init => IInv
  BY TenantAssumption, NoneAssumption
  DEF Init, IInv, TypeOK, StoreInv, RequestInv, RowsAreOwned, KnownAreMinted, CarriedAreSecret,
      IssuedAreNew, RotatedAreMine, HeldIsKnown, FoundIsOwner, AcceptedAsOwner, BarredKeyIsDead,
      BarredTenantIsInactive, HasRow, Carries, Idle, Transactions, Statuses, RequestStates
<1>2. IInv /\ [Next]_vars => IInv'
  <2>1. IInv /\ Next => IInv'
    BY TypeStep, StoreStep, RequestInvStep DEF IInv, Next
  <2>2. IInv /\ UNCHANGED vars => IInv'
    BY DEF IInv, vars, tables, TypeOK, StoreInv, RequestInv, RowsAreOwned, KnownAreMinted,
           CarriedAreSecret, IssuedAreNew, RotatedAreMine, HeldIsKnown, FoundIsOwner,
           AcceptedAsOwner, BarredKeyIsDead, BarredTenantIsInactive, HasRow, Exists, Carries, Live
  <2> QED
    BY <2>1, <2>2
<1> QED
  BY <1>1, <1>2, PTL DEF Spec

\* The type invariant of the key store and of the requests.
THEOREM TypeCorrect == Spec => []TypeOK
BY Invariance, PTL DEF IInv

\* A request is accepted only as the tenant its key was issued for, however
\* handlers, restarts and look-ups interleave.
THEOREM KeysActForTheirOwner == Spec => []AcceptedAsOwner
BY Invariance, PTL DEF IInv, RequestInv

\* A key that was dead on arrival, or whose tenant has not been active since, is
\* refused.
THEOREM BarredStayOut == Spec => []BarredAreRefused
<1>1. IInv => BarredAreRefused
  BY DEF IInv, RequestInv, BarredKeyIsDead, BarredTenantIsInactive, BarredAreRefused
<1> QED
  BY <1>1, Invariance, PTL

\* A secret that stopped working never works again.
THEOREM DeadStayDead == Spec => NeverRevived
<1>1. IInv /\ [Next]_vars => [\A s \in known : Live(s)' => Live(s)]_vars
  BY KnownOnlyDie DEF IInv, Next
<1> QED
  BY <1>1, Invariance, PTL DEF Spec, NeverRevived

\* A revocation is final.
THEOREM RevocationsAreFinal == Spec => RevocationIsFinal
<1>1. TypeOK /\ Step => \A k \in KeyIds : revoked[k] => revoked'[k]
  <2> SUFFICES ASSUME TypeOK, Step, NEW k \in KeyIds, revoked[k] PROVE revoked'[k]
    OBVIOUS
  <2>1. ASSUME NEW t \in Threads, CommitRevoke(t) PROVE revoked'[k]
    BY <2>1 DEF CommitRevoke, TypeOK
  <2>2. CASE UNCHANGED revoked
    BY <2>2
  <2> QED
    BY <2>1, <2>2, ResolveFrame
    DEF Step, Administer, BeginIssue, BeginRotate, BeginRevoke, BeginSet, BeginDelete, Begin,
        CommitIssue, CommitRotate, CommitSet, CommitDelete, Abort, CreateTenant, Restart, tables
<1>2. IInv /\ [Next]_vars => [\A k \in KeyIds : revoked[k] => revoked'[k]]_vars
  BY <1>1 DEF IInv, Next
<1> QED
  BY <1>2, Invariance, PTL DEF Spec, RevocationIsFinal

-----------------------------------------------------------------------------
(* The refinement of KeyRegistry.                                          *)

\* No two rows hold the hash of one secret.
HashesAreUnique ==
    \A j, k \in KeyIds : HasRow(j) /\ HasRow(k) /\ keyHash[j] = keyHash[k] => j = k

\* A row that is revoked was inserted.
RevokedAreOld ==
    \A k \in KeyIds : revoked[k] =>
        k \in idUsed /\ \A t \in Threads : tx[t].op = "issue" => tx[t].key # k

TableInv == HashesAreUnique /\ RevokedAreOld

LEMMA HashesStep == TypeOK /\ StoreInv /\ HashesAreUnique /\ Step => HashesAreUnique'
<1> SUFFICES ASSUME TypeOK, StoreInv, HashesAreUnique, Step,
                    NEW j \in KeyIds, NEW k \in KeyIds,
                    HasRow(j)', HasRow(k)', keyHash'[j] = keyHash'[k]
             PROVE  j = k
  BY DEF HashesAreUnique
<1> USE TenantAssumption, NoneAssumption
<1>0. \A i \in KeyIds : HasRow(i) => keyHash[i] \in known
  BY DEF StoreInv, RowsAreOwned
<1>1. ASSUME NEW t \in Threads, CommitIssue(t) \/ CommitRotate(t) PROVE j = k
  <2>1. /\ tx[t].key \in KeyIds /\ tx[t].secret \in Secrets /\ tx[t].secret \notin known
    BY <1>1, Fields DEF CommitIssue, CommitRotate, Carries, StoreInv, CarriedAreSecret
  <2>2. \A i \in KeyIds : IF i = tx[t].key
                           THEN keyHash'[i] = tx[t].secret
                           ELSE (HasRow(i)' <=> HasRow(i)) /\ keyHash'[i] = keyHash[i]
    BY <1>1, <2>1 DEF CommitIssue, CommitRotate, HasRow, TypeOK
  <2> QED
    BY <1>0, <2>1, <2>2 DEF HashesAreUnique
<1>2. ASSUME \A i \in KeyIds : (HasRow(i)' => HasRow(i)) /\ keyHash'[i] = keyHash[i]
      PROVE  j = k
  BY <1>2 DEF HashesAreUnique
<1>3. ASSUME NEW t \in Threads, CommitDelete(t) PROVE j = k
  BY <1>2, <1>3 DEF CommitDelete, HasRow, TypeOK
<1>4. CASE UNCHANGED <<keyTenant, keyHash>>
  BY <1>2, <1>4 DEF HasRow
<1> QED
  BY <1>1, <1>3, <1>4, ResolveFrame
  DEF Step, Administer, BeginIssue, BeginRotate, BeginRevoke, BeginSet, BeginDelete, Begin,
      CommitRevoke, CommitSet, Abort, CreateTenant, Restart, tables

LEMMA RevokedStep == TypeOK /\ StoreInv /\ RevokedAreOld /\ Step => RevokedAreOld'
<1> SUFFICES ASSUME TypeOK, StoreInv, RevokedAreOld, Step, NEW k \in KeyIds, revoked'[k]
             PROVE  k \in idUsed' /\ \A t \in Threads : tx'[t].op = "issue" => tx'[t].key # k
  BY DEF RevokedAreOld
<1> DEFINE Goal == k \in idUsed' /\ \A t \in Threads : tx'[t].op = "issue" => tx'[t].key # k
<1>t. tx \in [Threads -> Transactions] /\ revoked \in [KeyIds -> BOOLEAN]
  BY DEF TypeOK
<1>1. ASSUME NEW t \in Threads, NEW d \in Tenants, NEW i \in KeyIds, NEW s \in Secrets,
             BeginIssue(t, d, i, s) PROVE Goal
  BY <1>1, <1>t DEF BeginIssue, Begin, tables, RevokedAreOld
<1>2. ASSUME NEW t \in Threads, tx'[t].op # "issue",
             \A u \in Threads : u # t => tx'[u] = tx[u], UNCHANGED <<revoked, idUsed>>
      PROVE  Goal
  BY <1>2 DEF RevokedAreOld
<1>3. ASSUME NEW t \in Threads, CommitRevoke(t) PROVE Goal
  <2>1. tx[t].key \in KeyIds /\ HasRow(tx[t].key)
    BY <1>3, Fields DEF CommitRevoke
  <2>2. CASE k = tx[t].key
    <3>1. k \in idUsed /\ \A u \in Threads : tx[u].op = "issue" => tx[u].key # k
      BY <2>1, <2>2 DEF StoreInv, RowsAreOwned, IssuedAreNew
    <3> QED
      BY <1>3, <1>t, <3>1 DEF CommitRevoke, End, Idle
  <2>3. CASE k # tx[t].key
    <3>1. revoked[k]
      BY <1>3, <1>t, <2>3 DEF CommitRevoke
    <3> QED
      BY <1>3, <1>t, <3>1 DEF CommitRevoke, End, Idle, RevokedAreOld
  <2> QED
    BY <2>2, <2>3
<1>4. ASSUME NEW t \in Threads, Administer(t) PROVE Goal
  <2>1. CASE \E d \in Tenants, i \in KeyIds, s \in Secrets : BeginRotate(t, d, i, s)
    BY <2>1, <1>2, <1>t DEF BeginRotate, Begin, tables
  <2>2. CASE \E d \in Tenants, i \in KeyIds : BeginRevoke(t, d, i)
    BY <2>2, <1>2, <1>t DEF BeginRevoke, Begin, tables
  <2>3. CASE \E d \in Tenants, st \in {"active", "disabled"} : BeginSet(t, d, st)
    BY <2>3, <1>2, <1>t DEF BeginSet, Begin, tables
  <2>4. CASE \E d \in Tenants : BeginDelete(t, d)
    BY <2>4, <1>2, <1>t DEF BeginDelete, Begin, tables
  <2>5. CASE CommitIssue(t) \/ CommitRotate(t) \/ CommitSet(t) \/ CommitDelete(t) \/ Abort(t)
    BY <2>5, <1>2, <1>t
    DEF CommitIssue, CommitRotate, CommitSet, CommitDelete, Abort, End, Idle, tables
  <2> HIDE DEF Goal
  <2> QED
    BY <1>1, <1>3, <1>4, <2>1, <2>2, <2>3, <2>4, <2>5 DEF Administer
<1>5. ASSUME tx' \in {tx, [t \in Threads |-> Idle]}, UNCHANGED <<revoked, idUsed>> PROVE Goal
  BY <1>5 DEF RevokedAreOld, Idle
<1> HIDE DEF Goal
<1>6. Goal
  BY <1>4, <1>5, ResolveFrame DEF Step, CreateTenant, Restart, tables
<1> QED
  BY <1>6 DEF Goal

LEMMA TableInvariance == Spec => []TableInv
<1>1. Init => TableInv
  BY NoneAssumption DEF Init, TableInv, HashesAreUnique, RevokedAreOld, HasRow
<1>2. IInv /\ TableInv /\ [Next]_vars => TableInv'
  <2>1. IInv /\ TableInv /\ Next => TableInv'
    BY HashesStep, RevokedStep DEF IInv, TableInv, Next
  <2>2. TableInv /\ UNCHANGED vars => TableInv'
    BY DEF vars, tables, TableInv, HashesAreUnique, RevokedAreOld, HasRow
  <2> QED
    BY <2>1, <2>2
<1> QED
  BY <1>1, <1>2, Invariance, PTL DEF Spec

\* The rows with a live secret are those with a row that is not revoked.
LEMMA Living ==
  ASSUME StoreInv
  PROVE  /\ \A s : Live(s) <=> \E k \in KeyIds : HasRow(k) /\ keyHash[k] = s /\ ~revoked[k]
         /\ \A s : Live(s) => s \in known
BY DEF StoreInv, RowsAreOwned, Live

\* What the mapped variables are, and that they stay with the tables.
LEMMA Mapped ==
  /\ Life \in [Secrets -> {"unborn", "live", "dead"}]
  /\ Given = [s \in Secrets |-> IF s \in known THEN owner[s] ELSE None]
  /\ \A s \in Secrets :
        /\ Life[s] = "unborn" <=> s \notin known
        /\ Life[s] = "live" <=> s \in known /\ Live(s)
        /\ s \in known => Given[s] = owner[s]
BY DEF Life, Given

LEMMA MappedStays ==
  ASSUME known' = known,
         \A s \in known : (Live(s)' <=> Live(s)) /\ owner'[s] = owner[s]
  PROVE  Life' = Life /\ Given' = Given
BY DEF Life, Given

LEMMA IssueGives ==
  ASSUME IInv, TableInv, NEW t \in Threads, CommitIssue(t)
  PROVE  Registry!Give(tx[t].secret, tx[t].tenant)
<1> USE TenantAssumption, NoneAssumption
<1> PICK k, s, d : k = tx[t].key /\ s = tx[t].secret /\ d = tx[t].tenant
  OBVIOUS
<1>1. /\ k \in KeyIds /\ s \in Secrets /\ d \in Tenants
      /\ s \notin known /\ owner[s] = d /\ ~HasRow(k) /\ ~revoked[k] /\ Exists(d)
  BY Fields DEF CommitIssue, Carries, IInv, StoreInv, CarriedAreSecret, IssuedAreNew,
                TableInv, RevokedAreOld
<1>2. /\ keyTenant' = [keyTenant EXCEPT ![k] = d]
      /\ keyHash' = [keyHash EXCEPT ![k] = s]
      /\ known' = known \cup {s}
      /\ UNCHANGED <<status, revoked, owner, req>>
  BY DEF CommitIssue, End
<1>3. \A i \in KeyIds : IF i = k THEN HasRow(i)' /\ keyHash'[i] = s
                        ELSE (HasRow(i)' <=> HasRow(i)) /\ keyHash'[i] = keyHash[i]
  BY <1>1, <1>2 DEF IInv, TypeOK, HasRow
<1>4. Live(s)' /\ \A x \in known : Live(x)' <=> Live(x)
  <2>1. /\ \A x : Live(x) <=> \E i \in KeyIds : HasRow(i) /\ keyHash[i] = x /\ ~revoked[i]
        /\ \A i \in KeyIds : HasRow(i) => Exists(keyTenant[i])
    BY Living DEF IInv, StoreInv, RowsAreOwned
  <2>2. \A i \in KeyIds : HasRow(i)' => Exists(keyTenant[i])'
    BY <1>1, <1>2, <2>1 DEF IInv, TypeOK, HasRow, Exists
  <2>3. \A x : Live(x)' <=>
             \E i \in KeyIds : HasRow(i)' /\ keyHash'[i] = x /\ ~revoked[i]
    BY <1>2, <2>2 DEF Live
  <2> QED
    BY <1>1, <1>3, <2>1, <2>3
<1>5. Life' = [Life EXCEPT ![s] = "live"]
  BY <1>1, <1>2, <1>4 DEF Life
<1>6. Given' = [Given EXCEPT ![s] = d]
  BY <1>1, <1>2 DEF Given
<1> QED
  BY <1>1, <1>2, <1>5, <1>6, Mapped DEF Registry!Give, Exists

LEMMA RotationReplaces ==
  ASSUME IInv, TableInv, NEW t \in Threads, CommitRotate(t)
  PROVE  /\ keyHash[tx[t].key] \in Secrets /\ tx[t].secret \in Secrets
         /\ Registry!Replace(keyHash[tx[t].key], tx[t].secret)
<1> USE TenantAssumption, NoneAssumption
<1> PICK k, s, old : k = tx[t].key /\ s = tx[t].secret /\ old = keyHash[k]
  OBVIOUS
<1>1. /\ k \in KeyIds /\ s \in Secrets /\ s \notin known /\ HasRow(k)
      /\ owner[s] = keyTenant[k]
  BY Fields DEF CommitRotate, Carries, IInv, StoreInv, CarriedAreSecret, RotatedAreMine
<1>2. old \in known /\ known \subseteq Secrets /\ owner[old] = keyTenant[k] /\ old # s
  BY <1>1 DEF IInv, TypeOK, StoreInv, RowsAreOwned
<1>3. /\ keyHash' = [keyHash EXCEPT ![k] = s]
      /\ known' = known \cup {s}
      /\ UNCHANGED <<status, keyTenant, revoked, owner, req>>
  BY DEF CommitRotate, End
<1>4. \A i \in KeyIds : /\ HasRow(i)' <=> HasRow(i)
                        /\ keyHash'[i] = IF i = k THEN s ELSE keyHash[i]
                        /\ HasRow(i) /\ i # k => keyHash[i] # old /\ keyHash[i] # s
  BY <1>1, <1>3 DEF IInv, TypeOK, HasRow, TableInv, HashesAreUnique, StoreInv, RowsAreOwned
<1>5. /\ Live(s)' <=> ~revoked[k]
      /\ Live(old) <=> ~revoked[k]
      /\ ~Live(old)'
      /\ \A x \in known : x # old => (Live(x)' <=> Live(x))
  <2>1. /\ \A x : Live(x) <=> \E i \in KeyIds : HasRow(i) /\ keyHash[i] = x /\ ~revoked[i]
        /\ \A i \in KeyIds : HasRow(i) => Exists(keyTenant[i])
    BY Living DEF IInv, StoreInv, RowsAreOwned
  <2>2. \A x : Live(x)' <=>
             \E i \in KeyIds : HasRow(i) /\ keyHash'[i] = x /\ ~revoked[i]
    BY <1>3, <1>4, <2>1 DEF Live, Exists
  <2> QED
    BY <1>1, <1>2, <1>4, <2>1, <2>2
<1>6. Life' = [Life EXCEPT ![old] = "dead", ![s] = Life[old]]
  BY <1>1, <1>2, <1>3, <1>5 DEF Life
<1>7. Given' = [Given EXCEPT ![s] = Given[old]]
  BY <1>1, <1>2, <1>3 DEF Given
<1> QED
  BY <1>1, <1>2, <1>3, <1>6, <1>7, Mapped DEF Registry!Replace

LEMMA RevocationRevokes ==
  ASSUME IInv, TableInv, NEW t \in Threads, CommitRevoke(t)
  PROVE  \/ UNCHANGED Registry!avars
         \/ keyHash[tx[t].key] \in Secrets /\ Registry!Revoke(keyHash[tx[t].key])
<1> PICK k, s : k = tx[t].key /\ s = keyHash[k]
  OBVIOUS
<1>1. k \in KeyIds /\ HasRow(k) /\ s \in known /\ known \subseteq Secrets
  BY Fields DEF CommitRevoke, IInv, TypeOK, StoreInv, RowsAreOwned
<1>2. /\ revoked' = [revoked EXCEPT ![k] = TRUE]
      /\ UNCHANGED <<status, keyTenant, keyHash, known, owner, req>>
  BY DEF CommitRevoke, End
<1>3. \A i \in KeyIds : HasRow(i) /\ i # k => keyHash[i] # s
  BY <1>1 DEF TableInv, HashesAreUnique
<1>4. /\ Live(s) <=> ~revoked[k]
      /\ ~Live(s)'
      /\ \A x \in known : x # s => (Live(x)' <=> Live(x))
  <2>1. /\ \A x : Live(x) <=> \E i \in KeyIds : HasRow(i) /\ keyHash[i] = x /\ ~revoked[i]
        /\ \A i \in KeyIds : HasRow(i) => Exists(keyTenant[i])
    BY Living DEF IInv, StoreInv, RowsAreOwned
  <2>2. \A x : Live(x)' <=>
             \E i \in KeyIds : HasRow(i) /\ keyHash[i] = x /\ ~revoked'[i]
    BY <1>2, <2>1 DEF Live, Exists, HasRow
  <2>3. \A i \in KeyIds : revoked'[i] <=> i = k \/ revoked[i]
    BY <1>1, <1>2 DEF IInv, TypeOK
  <2> QED
    BY <1>1, <1>3, <2>1, <2>2, <2>3
<1>5. CASE revoked[k]
  BY <1>1, <1>2, <1>4, <1>5, MappedStays DEF Registry!avars
<1>6. CASE ~revoked[k]
  <2>1. Life' = [Life EXCEPT ![s] = "dead"]
    BY <1>1, <1>2, <1>4 DEF Life
  <2>2. Given' = Given
    BY <1>2 DEF Given
  <2> QED
    BY <1>1, <1>2, <1>4, <1>6, <2>1, <2>2, Mapped DEF Registry!Revoke
<1> QED
  BY <1>5, <1>6

LEMMA DeletionDeletes ==
  ASSUME IInv, NEW t \in Threads, CommitDelete(t)
  PROVE  \/ UNCHANGED Registry!avars
         \/ tx[t].tenant \in Tenants /\ Registry!Delete(tx[t].tenant)
<1> USE TenantAssumption, NoneAssumption
<1> PICK d : d = tx[t].tenant
  OBVIOUS
<1>1. d \in Tenants
  BY Fields DEF CommitDelete, IInv
<1>2. /\ status' = [status EXCEPT ![d] = "absent"]
      /\ \A i \in KeyIds : /\ HasRow(i)' <=> HasRow(i) /\ keyTenant[i] # d
                           /\ HasRow(i)' => keyTenant'[i] = keyTenant[i]
      /\ UNCHANGED <<keyHash, revoked, known, owner, req>>
  BY <1>1 DEF CommitDelete, End, HasRow
<1>3. /\ \A i \in KeyIds : HasRow(i) =>
            /\ Exists(keyTenant[i]) /\ keyTenant[i] \in Tenants
            /\ keyHash[i] \in known
            /\ owner[keyHash[i]] = keyTenant[i]
      /\ known \subseteq Secrets /\ status \in [Tenants -> Statuses]
  BY DEF IInv, TypeOK, StoreInv, RowsAreOwned, HasRow
<1>4. \A x : Live(x)' <=> Live(x) /\ owner[x] # d
  <2>1. \A x : Live(x) <=> \E i \in KeyIds : HasRow(i) /\ keyHash[i] = x /\ ~revoked[i]
    BY <1>3 DEF Live
  <2>2. \A i \in KeyIds : HasRow(i)' => Exists(keyTenant[i])'
    BY <1>1, <1>2, <1>3 DEF Exists
  <2>3. \A x : Live(x)' <=>
             \E i \in KeyIds : HasRow(i) /\ keyTenant[i] # d /\ keyHash[i] = x /\ ~revoked[i]
    BY <1>2, <2>2 DEF Live
  <2> QED
    BY <1>3, <2>1, <2>3
<1>5. CASE ~Exists(d)
  <2>1. status' = status
    BY <1>1, <1>2, <1>3, <1>5 DEF Exists
  <2>2. \A x : Live(x)' <=> Live(x)
    BY <1>3, <1>4, <1>5 DEF Live
  <2> QED
    BY <1>2, <2>1, <2>2, MappedStays DEF Registry!avars
<1>6. CASE Exists(d)
  <2>1. Life' = [s \in Secrets |->
                    IF Life[s] = "live" /\ Given[s] = d THEN "dead" ELSE Life[s]]
    BY <1>2, <1>4 DEF Life, Given
  <2>2. Given' = Given
    BY <1>2 DEF Given
  <2> QED
    BY <1>1, <1>2, <1>6, <2>1, <2>2 DEF Registry!Delete, Exists
<1> QED
  BY <1>5, <1>6

\* A step that leaves the tables and what clients know is no step of the
\* registry; one that writes the status of tenants alone keeps the secrets.
LEMMA RegistryStays ==
  ASSUME IInv, UNCHANGED <<tables, known, req>>,
         \A s \in Secrets : owner[s] # None => owner'[s] = owner[s]
  PROVE  UNCHANGED Registry!avars
<1>1. \A s \in known : (Live(s)' <=> Live(s)) /\ owner'[s] = owner[s]
  BY DEF IInv, TypeOK, StoreInv, KnownAreMinted, tables, Live, HasRow, Exists
<1> QED
  BY <1>1, MappedStays DEF Registry!avars, tables

LEMMA SecretsStay ==
  ASSUME IInv, UNCHANGED <<keyTenant, keyHash, revoked, known, owner>>,
         \A d \in Tenants : Exists(d) => Exists(d)'
  PROVE  Life' = Life /\ Given' = Given
<1>1. \A k \in KeyIds : HasRow(k) => Exists(keyTenant[k]) /\ Exists(keyTenant[k])'
  BY DEF IInv, TypeOK, StoreInv, RowsAreOwned, HasRow, Exists
<1>2. \A s \in known : (Live(s)' <=> Live(s)) /\ owner'[s] = owner[s]
  BY <1>1 DEF Live, HasRow
<1> QED
  BY <1>2, MappedStays

LEMMA AdministrationImplements ==
  ASSUME IInv, TableInv, NEW t \in Threads, Administer(t)
  PROVE  [Registry!ANext]_Registry!avars
<1>1. ASSUME NEW d \in Tenants, NEW k \in KeyIds, NEW s \in Secrets,
             BeginIssue(t, d, k, s) \/ BeginRotate(t, d, k, s)
      PROVE  UNCHANGED Registry!avars
  <2>1. /\ UNCHANGED <<tables, known, req>>
        /\ owner[s] = None /\ owner' = [owner EXCEPT ![s] = d]
    BY <1>1 DEF BeginIssue, BeginRotate, Begin, Mint
  <2>2. \A x \in Secrets : owner[x] # None => owner'[x] = owner[x]
    BY <2>1 DEF IInv, TypeOK
  <2> QED
    BY <2>1, <2>2, RegistryStays
<1>2. CASE UNCHANGED <<tables, known, req, owner>>
  BY <1>2, RegistryStays
<1>3. CASE CommitIssue(t)
  <2>1. tx[t].secret \in Secrets /\ tx[t].tenant \in Tenants
    BY <1>3, Fields DEF CommitIssue, Carries, IInv
  <2> QED
    BY <1>3, <2>1, IssueGives DEF Registry!ANext
<1>4. CASE CommitRotate(t)
  BY <1>4, RotationReplaces DEF Registry!ANext
<1>5. CASE CommitRevoke(t)
  BY <1>5, RevocationRevokes DEF Registry!ANext
<1>6. CASE CommitDelete(t)
  BY <1>6, DeletionDeletes DEF Registry!ANext
<1>7. CASE CommitSet(t) /\ tx[t].to = tx[t].seen
  BY <1>2, <1>7 DEF CommitSet, End, tables
<1>8. CASE CommitSet(t) /\ tx[t].to # tx[t].seen
  <2> PICK d, st : d = tx[t].tenant /\ st = tx[t].to
    OBVIOUS
  <2>1. d \in Tenants /\ st \in {"active", "disabled"}
    BY <1>8, Fields DEF CommitSet, IInv
  <2>2. /\ Exists(d) /\ status' = [status EXCEPT ![d] = st]
        /\ UNCHANGED <<keyTenant, keyHash, revoked, known, owner, req>>
    BY <1>8 DEF CommitSet, End
  <2>3. \A e \in Tenants : Exists(e) => Exists(e)'
    BY <2>1, <2>2 DEF IInv, TypeOK, Exists
  <2>4. Registry!Set(d, st)
    BY <2>2, <2>3, SecretsStay DEF Registry!Set, Exists
  <2> QED
    BY <2>1, <2>4 DEF Registry!ANext
<1> QED
  BY <1>1, <1>2, <1>3, <1>4, <1>5, <1>6, <1>7, <1>8
  DEF Administer, BeginRevoke, BeginSet, BeginDelete, Begin, Abort, End, CommitSet

LEMMA OpeningImplements ==
  ASSUME IInv, (\E d \in Tenants : CreateTenant(d)) \/ Restart
  PROVE  Registry!ANext
<1>1. ASSUME NEW D \in SUBSET Tenants, \A d \in D : ~Exists(d),
             status' = [d \in Tenants |-> IF d \in D THEN "active" ELSE status[d]],
             UNCHANGED <<keyTenant, keyHash, revoked, known, owner, req>>
      PROVE  Registry!ANext
  <2>1. \A d \in Tenants : Exists(d) => Exists(d)'
    BY <1>1 DEF Exists
  <2>2. Registry!Open(D)
    BY <1>1, <2>1, SecretsStay DEF Registry!Open, Exists
  <2> QED
    BY <2>2 DEF Registry!ANext
<1>2. ASSUME NEW d \in Tenants, CreateTenant(d) PROVE Registry!ANext
  <2>1. status' = [e \in Tenants |-> IF e \in {d} THEN "active" ELSE status[e]]
    BY <1>2 DEF CreateTenant, IInv, TypeOK
  <2> QED
    BY <1>1, <1>2, <2>1 DEF CreateTenant
<1>3. CASE Restart
  <2> DEFINE D == {d \in Tenants : d \in DevTenants /\ ~Exists(d)}
  <2>1. /\ status' = [d \in Tenants |-> IF d \in D THEN "active" ELSE status[d]]
        /\ UNCHANGED <<keyTenant, keyHash, revoked, known, owner, req>>
    BY <1>3 DEF Restart
  <2>2. D \in SUBSET Tenants /\ \A d \in D : ~Exists(d)
    OBVIOUS
  <2> HIDE DEF D
  <2> QED
    BY <1>1, <2>1, <2>2
<1> QED
  BY <1>2, <1>3

LEMMA ResolutionImplements ==
  ASSUME IInv, NEW r \in Requests, Resolve(r)
  PROVE  Registry!ANext
<1> USE TenantAssumption, NoneAssumption, EnvAssumption
<1>1. Life' = Life /\ Given' = Given /\ status' = status
  <2>1. UNCHANGED <<tables, known, owner>>
    BY ResolveFrame
  <2> QED
    BY <2>1, SecretsStay DEF tables, Exists
<1>2. /\ req \in [Requests -> RequestStates]
      /\ \A s \in Secrets : Life[s] = "unborn" <=> s \notin known
      /\ \A s \in Secrets : Life[s] = "live" <=> s \in known /\ Live(s)
      /\ \A s \in Secrets : s \in known => Given[s] = owner[s]
  BY Mapped DEF IInv, TypeOK
<1>3. ASSUME NEW s \in known \cup EnvSecrets, Arrive(r, s) PROVE Registry!ANext
  <2>1. Registry!Present(r, s)
    BY <1>1, <1>2, <1>3 DEF Arrive, Registry!Present, IInv, TypeOK
  <2> QED
    BY <2>1 DEF Registry!ANext, IInv, TypeOK, EnvSecrets
<1>4. ASSUME NEW k \in KeyIds, req[r].pc = "sent", Matches(k, req[r].secret),
             Move(r, "found", keyTenant[k])
      PROVE  Registry!ANext
  <2>1. /\ req[r].secret \in known /\ req[r].secret \in Secrets
        /\ Live(req[r].secret) /\ keyTenant[k] = owner[req[r].secret]
    BY <1>4 DEF IInv, TypeOK, StoreInv, RowsAreOwned, Matches, Live, HasRow
  <2>2. Registry!Find(r)
    BY <1>1, <1>2, <1>4, <2>1 DEF Move, Registry!Find, Registry!Answer
  <2> QED
    BY <2>2 DEF Registry!ANext
<1>5. ASSUME req[r].pc \in {"sent", "found"}, ResolveEnv(r) PROVE Registry!ANext
  <2>1. CASE req[r].secret \in EnvSecrets
    <3>1. req[r].pc = "sent"
      BY <1>5, <2>1 DEF IInv, RequestInv, FoundIsOwner
    <3>2. Registry!AcceptEnv(r)
      BY <1>1, <2>1, <1>5, <3>1 DEF ResolveEnv, Move, EnvSecrets, Registry!AcceptEnv, Registry!Answer
    <3> QED
      BY <3>2 DEF Registry!ANext
  <2>2. CASE req[r].secret \notin EnvSecrets
    <3>1. req[r].secret \in Secrets
      BY <1>2, <1>5, <2>2 DEF RequestStates, IInv, TypeOK
    <3>2. Registry!Refuse(r)
      BY <1>1, <2>2, <1>5, <3>1 DEF ResolveEnv, Move, Registry!Refuse, Registry!Answer
    <3> QED
      BY <3>2 DEF Registry!ANext
  <2> QED
    BY <2>1, <2>2
<1>6. CASE CheckTenant(r)
  <2>1. req[r].secret \in Secrets
    BY <1>6 DEF CheckTenant, IInv, RequestInv, FoundIsOwner
  <2>2. Registry!Accept(r) \/ Registry!Refuse(r)
    BY <1>1, <1>6, <2>1 DEF CheckTenant, Move, Registry!Accept, Registry!Refuse, Registry!Answer
  <2> QED
    BY <2>2 DEF Registry!ANext
<1> QED
  BY <1>3, <1>4, <1>5, <1>6 DEF Resolve, Lookup, FallBack

\* The key store is a registry of secrets: whatever transactions commit between
\* the checks of a handler and its own commit, an administration call takes
\* effect at one moment or not at all, and a look-up accepts a key that was live
\* when its row was read and whose tenant was active after that.
THEOREM StoreIsARegistry == Spec => KeysAreARegistry
<1>1. Init => Registry!AInit
  <2> SUFFICES ASSUME Init PROVE Registry!AInit
    OBVIOUS
  <2>1. Life = [s \in Secrets |-> "unborn"] /\ Given = [s \in Secrets |-> None]
    BY DEF Init, Life, Given
  <2> QED
    BY <2>1 DEF Init, Registry!AInit
<1>2. IInv /\ TableInv /\ [Next]_vars => [Registry!ANext]_Registry!avars
  <2> SUFFICES ASSUME IInv, TableInv, [Next]_vars PROVE [Registry!ANext]_Registry!avars
    OBVIOUS
  <2>1. CASE Step
    BY <2>1, AdministrationImplements, OpeningImplements, ResolutionImplements DEF Step
  <2>2. CASE UNCHANGED vars
    BY <2>2, RegistryStays DEF vars
  <2> QED
    BY <2>1, <2>2 DEF Next
<1> QED
  BY <1>1, <1>2, Invariance, TableInvariance, PTL DEF Spec, KeysAreARegistry, Registry!ASpec
=============================================================================
