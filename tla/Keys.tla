-------------------------------- MODULE Keys --------------------------------
(***************************************************************************)
(* Tenants and API keys of the control plane, and the resolution of a      *)
(* bearer key by the gateway (control-plane/main.py, gateway/auth.py,      *)
(* packages/tenantkit/keys.py).                                            *)
(*                                                                         *)
(* The control plane serves each request on a thread of its own, in one    *)
(* database transaction (db.session_scope): the handler loads rows, checks *)
(* them, and its changes become visible when it commits.  PostgreSQL runs  *)
(* the transactions at READ COMMITTED and nothing locks what was loaded,   *)
(* so other transactions commit between a handler's checks and its commit. *)
(* An ORM flush writes only the columns the handler changed.               *)
(***************************************************************************)
EXTENDS FiniteSets

CONSTANTS
    Tenants,        \* tenant ids
    DevTenants,     \* tenant_a and tenant_b: seeded at startup
    AllowDeleteDev, \* AF_ALLOW_DELETE_DEV = "1": they may be deleted as well
    KeyIds,         \* ids of api_keys rows, each minted once
    Secrets,        \* plaintext keys generate_api_key returns, each minted once
    EnvTenant,      \* the env registry: plaintext key -> tenant id
    Threads,        \* control-plane threads that run administration calls
    Requests,       \* requests that present a bearer key to the gateway
    None

EnvSecrets == DOMAIN EnvTenant

ASSUME TenantAssumption == DevTenants \subseteq Tenants /\ None \notin Tenants
ASSUME EnvAssumption == EnvTenant \in [EnvSecrets -> Tenants] /\ EnvSecrets \cap Secrets = {}
ASSUME NoneAssumption == None \notin KeyIds \cup Secrets \cup EnvSecrets

VARIABLES
    status,     \* tenants table: tenant -> "active", "disabled" or "absent"
    keyTenant,  \* api_keys table: row -> tenant_id, or None without a row
    keyHash,    \* row -> the secret its key_hash stands for
    revoked,    \* row -> revoked_at is set
    idUsed,     \* row ids generated so far
    tx,         \* thread -> the transaction it runs
    known,      \* secrets a client was given in a response
    req,        \* request -> its key, where it is and the tenant found
    owner,      \* history: secret -> the tenant it was issued for
    barredKey,  \* history: requests whose key was dead when they arrived
    barredTenant \* history: requests whose tenant was never active since then

tables == <<status, keyTenant, keyHash, revoked>>
vars == <<tables, idUsed, tx, known, req, owner, barredKey, barredTenant>>

Statuses == {"active", "disabled", "absent"}
Idle == [op |-> "idle"]
Transactions ==
    {Idle}
    \cup [op: {"issue"}, tenant: Tenants, key: KeyIds, secret: Secrets]
    \cup [op: {"rotate"}, tenant: Tenants, key: KeyIds, secret: Secrets]
    \cup [op: {"revoke"}, tenant: Tenants, key: KeyIds]
    \cup [op: {"set"}, tenant: Tenants, seen: Statuses, to: {"active", "disabled"}]
    \cup [op: {"delete"}, tenant: Tenants]

RequestStates == [pc: {"new", "sent", "found", "accepted", "refused"},
                  secret: Secrets \cup EnvSecrets \cup {None},
                  tenant: Tenants \cup {None}]

TypeOK ==
    /\ status \in [Tenants -> Statuses]
    /\ keyTenant \in [KeyIds -> Tenants \cup {None}]
    /\ keyHash \in [KeyIds -> Secrets \cup {None}]
    /\ revoked \in [KeyIds -> BOOLEAN]
    /\ idUsed \subseteq KeyIds
    /\ tx \in [Threads -> Transactions]
    /\ known \subseteq Secrets
    /\ req \in [Requests -> RequestStates]
    /\ \A r \in Requests : req[r].tenant # None <=> req[r].pc \in {"found", "accepted"}
    /\ \A r \in Requests : req[r].secret # None <=> req[r].pc # "new"
    /\ owner \in [Secrets -> Tenants \cup {None}]
    /\ barredKey \subseteq Requests
    /\ barredTenant \subseteq Requests

\* The control plane has started: _seed_dev_tenants.
Init ==
    /\ status = [d \in Tenants |-> IF d \in DevTenants THEN "active" ELSE "absent"]
    /\ keyTenant = [k \in KeyIds |-> None]
    /\ keyHash = [k \in KeyIds |-> None]
    /\ revoked = [k \in KeyIds |-> FALSE]
    /\ idUsed = {}
    /\ tx = [t \in Threads |-> Idle]
    /\ known = {}
    /\ req = [r \in Requests |-> [pc |-> "new", secret |-> None, tenant |-> None]]
    /\ owner = [s \in Secrets |-> None]
    /\ barredKey = {}
    /\ barredTenant = {}

-----------------------------------------------------------------------------
Exists(d) == status[d] # "absent"
HasRow(k) == keyTenant[k] # None

\* The rows the lookup by hash selects.
MutantMatches(k, s) == HasRow(k) /\ keyHash[k] = s
Matches(k, s) == HasRow(k) /\ keyHash[k] = s /\ ~revoked[k]


\* "row is None or row.tenant_id != tenant_id" answers 404.
MutantMine(d, k) == HasRow(k)
Mine(d, k) == keyTenant[k] = d

-----------------------------------------------------------------------------
(* Administration: the first half of a handler, its loads and checks.      *)

Begin(t, x) ==
    /\ tx[t] = Idle
    /\ Exists(x.tenant)
    /\ tx' = [tx EXCEPT ![t] = x]
    /\ UNCHANGED <<tables, known, req>>

\* generate_api_key: a secret nobody has seen.
Mint(s, d) == owner[s] = None /\ owner' = [owner EXCEPT ![s] = d]

BeginIssue(t, d, k, s) ==
    /\ Begin(t, [op |-> "issue", tenant |-> d, key |-> k, secret |-> s])
    /\ k \notin idUsed /\ idUsed' = idUsed \cup {k}
    /\ Mint(s, d)

BeginRotate(t, d, k, s) ==
    /\ Begin(t, [op |-> "rotate", tenant |-> d, key |-> k, secret |-> s])
    /\ Mine(d, k) /\ ~revoked[k]
    /\ Mint(s, d)
    /\ UNCHANGED idUsed

BeginRevoke(t, d, k) ==
    /\ Begin(t, [op |-> "revoke", tenant |-> d, key |-> k])
    /\ Mine(d, k)
    /\ UNCHANGED <<idUsed, owner>>

BeginSet(t, d, st) ==
    /\ Begin(t, [op |-> "set", tenant |-> d, seen |-> status[d], to |-> st])
    /\ UNCHANGED <<idUsed, owner>>

BeginDelete(t, d) ==
    /\ Begin(t, [op |-> "delete", tenant |-> d])
    /\ d \notin DevTenants \/ AllowDeleteDev
    /\ UNCHANGED <<idUsed, owner>>

-----------------------------------------------------------------------------
(* Administration: the second half, flush and commit.                      *)

End(t) == tx' = [tx EXCEPT ![t] = Idle] /\ UNCHANGED <<idUsed, req, owner>>

\* INSERT: the foreign key needs the tenant.
CommitIssue(t) ==
    /\ tx[t].op = "issue" /\ Exists(tx[t].tenant)
    /\ keyTenant' = [keyTenant EXCEPT ![tx[t].key] = tx[t].tenant]
    /\ keyHash' = [keyHash EXCEPT ![tx[t].key] = tx[t].secret]
    /\ known' = known \cup {tx[t].secret}
    /\ UNCHANGED <<status, revoked>>
    /\ End(t)

\* UPDATE api_keys SET key_hash, key_prefix: revoked_at is not written, so a
\* revocation that committed since the row was loaded stands.
MutantCommitRotate(t) ==
    /\ tx[t].op = "rotate" /\ HasRow(tx[t].key)
    /\ keyHash' = [keyHash EXCEPT ![tx[t].key] = tx[t].secret]
    /\ revoked' = [revoked EXCEPT ![tx[t].key] = FALSE]
    /\ known' = known \cup {tx[t].secret}
    /\ UNCHANGED <<status, keyTenant>>
    /\ End(t)
CommitRotate(t) ==
    /\ tx[t].op = "rotate" /\ HasRow(tx[t].key)
    /\ keyHash' = [keyHash EXCEPT ![tx[t].key] = tx[t].secret]
    /\ known' = known \cup {tx[t].secret}
    /\ UNCHANGED <<status, keyTenant, revoked>>
    /\ End(t)

CommitRevoke(t) ==
    /\ tx[t].op = "revoke" /\ HasRow(tx[t].key)
    /\ revoked' = [revoked EXCEPT ![tx[t].key] = TRUE]
    /\ UNCHANGED <<status, keyTenant, keyHash, known>>
    /\ End(t)

\* PATCH of a status equal to the one that was loaded writes nothing.
CommitSet(t) ==
    /\ tx[t].op = "set"
    /\ \/ tx[t].to = tx[t].seen /\ UNCHANGED status
       \/ /\ tx[t].to # tx[t].seen /\ Exists(tx[t].tenant)
          /\ status' = [status EXCEPT ![tx[t].tenant] = tx[t].to]
    /\ UNCHANGED <<keyTenant, keyHash, revoked, known>>
    /\ End(t)

\* DELETE of the tenant, and of its keys by the ORM's cascade and, for a key
\* that was committed since, by the foreign key's ON DELETE CASCADE.
MutantCommitDelete(t) ==
    /\ tx[t].op = "delete"
    /\ status' = [status EXCEPT ![tx[t].tenant] = "absent"]
    /\ UNCHANGED <<keyTenant, keyHash, revoked, known>>
    /\ End(t)
CommitDelete(t) ==
    /\ tx[t].op = "delete"
    /\ status' = [status EXCEPT ![tx[t].tenant] = "absent"]
    /\ keyTenant' = [k \in KeyIds |->
                        IF keyTenant[k] = tx[t].tenant THEN None ELSE keyTenant[k]]
    /\ UNCHANGED <<keyHash, revoked, known>>
    /\ End(t)

\* The foreign key or the vanished row fails the flush, or the thread dies:
\* the transaction is rolled back and the client gets no secret.
Abort(t) ==
    /\ tx[t] # Idle
    /\ UNCHANGED <<tables, known>>
    /\ End(t)

CreateTenant(d) ==
    /\ ~Exists(d)
    /\ status' = [status EXCEPT ![d] = "active"]
    /\ UNCHANGED <<keyTenant, keyHash, revoked, idUsed, tx, known, req, owner>>

\* The control plane stops and starts again: transactions are lost, and the
\* seeding finds the development tenants.
Restart ==
    /\ tx' = [t \in Threads |-> Idle]
    /\ status' = [d \in Tenants |->
                     IF d \in DevTenants /\ ~Exists(d) THEN "active" ELSE status[d]]
    /\ UNCHANGED <<keyTenant, keyHash, revoked, idUsed, known, req, owner>>

-----------------------------------------------------------------------------
(* Resolution of a bearer key.                                             *)

Move(r, pc, d) ==
    /\ req' = [req EXCEPT ![r].pc = pc, ![r].tenant = d]
    /\ UNCHANGED <<tables, idUsed, tx, known, owner>>

\* A client presents a key it holds: one it was given, or one of the env.
Arrive(r, s) ==
    /\ req[r].pc = "new"
    /\ req' = [req EXCEPT ![r].pc = "sent", ![r].secret = s]
    /\ UNCHANGED <<tables, idUsed, tx, known, owner>>

\* The env registry, on the control plane and as the gateway's fallback.
MutantResolveEnv(r) ==
    Move(r, "accepted",
         IF req[r].secret \in EnvSecrets THEN EnvTenant[req[r].secret] ELSE None)
ResolveEnv(r) ==
    \/ /\ req[r].secret \in EnvSecrets
       /\ Move(r, "accepted", EnvTenant[req[r].secret])
    \/ /\ req[r].secret \notin EnvSecrets
       /\ Move(r, "refused", None)

\* internal_resolve_key, first SELECT: the row of the hash, or the registry.
Lookup(r) ==
    /\ req[r].pc = "sent"
    /\ \/ \E k \in KeyIds : Matches(k, req[r].secret) /\ Move(r, "found", keyTenant[k])
       \/ /\ \A k \in KeyIds : ~Matches(k, req[r].secret)
          /\ ResolveEnv(r)

\* internal_resolve_key, second SELECT: the tenant must be active.
MutantCheckTenant(r) ==
    /\ req[r].pc = "found"
    /\ Move(r, "accepted", req[r].tenant)
CheckTenant(r) ==
    /\ req[r].pc = "found"
    /\ IF status[req[r].tenant] = "active"
       THEN Move(r, "accepted", req[r].tenant)
       ELSE Move(r, "refused", None)

\* The control plane does not answer in time, or answers with a 5xx: the
\* gateway falls back on its own copy of the env registry.
FallBack(r) ==
    /\ req[r].pc \in {"sent", "found"}
    /\ ResolveEnv(r)

-----------------------------------------------------------------------------
\* A secret of the store is live while its row is there, not revoked, and its
\* tenant exists.  This says what the look-up ought to find, so it does not use
\* Matches.
Live(s) ==
    \E k \in KeyIds : /\ HasRow(k) /\ Exists(keyTenant[k])
                      /\ keyHash[k] = s /\ ~revoked[k]

\* What the history variables record of a step: a request that arrives with a
\* dead key, and the requests whose tenant has not been active since.
History ==
    LET arriving == {r \in Requests : req[r].pc = "new" /\ req'[r].pc # "new"}
        ofStore == {r \in Requests : req'[r].secret \in Secrets}
    IN /\ barredKey' = barredKey \cup
              {r \in arriving \cap ofStore : ~Live(req'[r].secret)}
       /\ barredTenant' =
              {r \in (arriving \cap ofStore) \cup barredTenant :
                  status'[owner[req'[r].secret]] # "active"}

Administer(t) ==
    \/ \E d \in Tenants, k \in KeyIds :
          \/ \E s \in Secrets : BeginIssue(t, d, k, s) \/ BeginRotate(t, d, k, s)
          \/ BeginRevoke(t, d, k)
    \/ \E d \in Tenants :
          (\E st \in {"active", "disabled"} : BeginSet(t, d, st)) \/ BeginDelete(t, d)
    \/ CommitIssue(t) \/ CommitRotate(t) \/ CommitRevoke(t)
    \/ CommitSet(t) \/ CommitDelete(t) \/ Abort(t)

Resolve(r) ==
    \/ \E s \in known \cup EnvSecrets : Arrive(r, s)
    \/ Lookup(r) \/ CheckTenant(r) \/ FallBack(r)

Step ==
    \/ \E t \in Threads : Administer(t)
    \/ \E d \in Tenants : CreateTenant(d)
    \/ Restart
    \/ \E r \in Requests : Resolve(r)

Next == Step /\ History

Spec == Init /\ [][Next]_vars

-----------------------------------------------------------------------------
(* What the key store promises.                                            *)

\* A request is accepted as the tenant its key was issued for, whatever is
\* rotated, deleted and created again meanwhile.
AcceptedAsOwner ==
    \A r \in Requests :
        req[r].pc = "accepted" =>
            req[r].tenant = (IF req[r].secret \in Secrets
                             THEN owner[req[r].secret] ELSE EnvTenant[req[r].secret])

\* A key that was revoked, rotated away or deleted with its tenant before the
\* request arrived is refused; so is the key of a tenant that has not been
\* active at any moment since.  No outage of the control plane lets it in.
BarredAreRefused ==
    \A r \in barredKey \cup barredTenant : req[r].pc # "accepted"

\* A secret that stopped working never works again: not after its tenant is
\* created anew under the same id, and not through a handler that loaded the
\* row before.
NeverRevived == [][\A s \in known : Live(s)' => Live(s)]_vars

\* A revocation outlives every handler that loaded the row before it.
RevocationIsFinal == [][\A k \in KeyIds : revoked[k] => revoked'[k]]_vars

\* What clients see of the secrets: one that no response carried is unborn.
Life == [s \in Secrets |->
            IF s \notin known THEN "unborn" ELSE IF Live(s) THEN "live" ELSE "dead"]
Given == [s \in Secrets |-> IF s \in known THEN owner[s] ELSE None]

\* The tables, the transactions and the two SELECTs of a look-up are an
\* implementation of KeyRegistry: each administration call takes effect at one
\* moment, whatever others commit between its checks and its own commit.
Registry == INSTANCE KeyRegistry WITH life <- Life, owner <- Given
KeysAreARegistry == Registry!ASpec
=============================================================================
