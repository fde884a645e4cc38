# WeightGate in TLA+

A model of [WeightGate](../src/README.md), a multi-tenant LLM gateway: TLA+
modules of its parts, TLC runs that check them on small instances, and proofs
that hold for every instance.

## 1. The system

Clients send OpenAI-style requests with a bearer key to the **gateway**
(`gateway/`, asynchronous, one uvicorn process in the compose file). The gateway
asks the **control plane** (`control-plane/`, synchronous handlers on a thread
pool over PostgreSQL) whose key it is, limits the tenant's rate in **Redis**,
asks the control plane for the tenant's route policy, calls a **backend**
(Ollama, vLLM, or a cloud provider) and posts a usage event. Administrators
manage tenants, keys, policies, instances, hosts, alerts and licenses through
the control plane; a **watchdog** stops idle containers; everything a tenant
owns lies under `data/tenants/{id}/`.

| Component | State | Operations | Talks to | What makes it correct |
|---|---|---|---|---|
| Rate limiter `gateway/rate_limit.py` | Redis sorted set and its TTL | `check_rpm` | Redis, by two round trips | the window is not overrun; no early drop; refusals are earned |
| Tenants and keys `control-plane/main.py` | tables `tenants`, `api_keys` | create, patch, delete; issue, rotate, revoke | PostgreSQL | revocation is final; nothing dead comes back to life |
| Key resolution `gateway/auth.py`, `internal_resolve_key` | env registries | `require_tenant` | gateway → control plane, env fallback | a key acts for its own tenant or not at all |
| Chat pipeline `gateway/main.py`, `router.py`, `usage.py` | none between requests | `chat_completions` | limiter, policy, backends, usage | routing obeys the policy; one retry; only served requests are billed; every request ends |
| Route policy, usage | tables `route_policies`, `usage_events` | get/put, ingest/sum | gateway | as above |
| Alerts `alerts.py`, `scan_alerts` | table `alerts` | scan, ack, resolve | detectors, webhook | decisions stand; what lasts is recorded; scans work |
| Instances, hosts, drivers | tables `instances`, `hosts`; containers | create, stop, wake; host CRUD, probe | docker, ssh | a row and its runtime agree; a runtime stays with its tenant |
| Watchdog `runtime/sleep-watchdog` | none | `tick` | docker, activity markers | only idle runtimes stop |
| Licenses, mirrors | table `licenses`, adapter markers in tenant trees | issue, activate | tenant file tree, catalog file | a marker names a license of that tenant and product; an activated license is installed; an expired one never is |
| Vector store `tenantkit/vector.py` | `docs.jsonl` of a collection | upsert, query, count | file system | an upsert is atomic and lasting |
| Paths `tenantkit/fs.py`, `adapter.py` | – | path and model checks | directories of all tenants | what is offered can be asked for; no reference leaves the tenant |
| Presets, night window, cost estimate | – | pure functions | – | table look-ups, interval arithmetic |

Hard behaviour: control-plane handlers overlap at READ COMMITTED and check
rows they do not lock; gateway handlers await four services that can be slow,
fail, or do the work and lose the answer; Redis forgets; the control plane
restarts in the middle of handlers; a scan's insert can lose against another's; an
activation writes files that no rollback takes back.
`PROJECT.json` lists each hazard with its line and the properties that cover it.

## 2. The modules

| Module | Models | Proofs |
|---|---|---|
| `RateLimit` (`MCRateLimit`) | one tenant's sorted set, gateway processes, Redis | `RateLimitProofs` |
| `Quota`, extends `RateLimit` | the quota detector of a scan, which reads that set from outside | `RateLimitProofs` |
| `Keys` (`MCKeys`) | tenants, key rows, transactions, requests being resolved | `KeysProofs` |
| `KeyRegistry` | what the key store promises: secrets that are given, live and die | – |
| `Chat` | authenticated requests, policy, backends, usage | `ChatProofs` |
| `Alerts` (`MCAlerts`) | alert rows, scanners, operators, conditions | `AlertsProofs` |
| `Instances` (`MCInstances`) | instance and host rows, docker and remote runtimes | `InstancesProofs` |
| `Watchdog` (`MCWatchdog`) | activity markers, the sleep watchdog, containers | `WatchdogProofs` |
| `Licenses` (`MCLicenses`) | license rows, the adapters of tenants, activations | `LicensesProofs` |
| `ModelRefs` | pure: which references to models are allowed, and their normal form | `LicensesProofs` |
| `Adapters`, extends `Licenses` and `ModelRefs` | what `list_models` offers against what a chat request may name | `LicensesProofs` |
| `VectorStore` | the file of one collection, written step by step | `VectorStoreProofs` |
| `AtomicVectorStore` | what the vector routes promise: atomic upserts | – |

Definitions named `Mutant...` stand next to the definition they vary. They are
no part of the specifications: each is the slip that the run of some property
must notice (`PROJECT.json`, `mutants`).

### RateLimit

`check_rpm` reads the clock (`Stamp`), trims and counts in one Redis pipeline
(`TrimAndCount`), and either refuses (`Deny`) or adds the request in a second
pipeline (`Add`); pipelines are MULTI/EXEC blocks, so each is one step. A gateway
process runs one check at a time, because `check_rpm` has no await;
processes interleave. A limit of zero and a missing `REDIS_URL` are answered
without Redis (`AnswerAtOnce`). Redis may be down (a check then raises: `Fail`,
a 500), lose a reply after executing (`Add` with outcome `failed`), come back with
any subset of the set (`RedisUp`), and drop the key once its TTL is over
(`ExpireKey`). All clocks are one; keys of a tenant may have different limits,
which share the window, so each check draws its limit. `added` and `forgotten` are history
variables: which requests `zadd` put into the set, and what Redis lost with a restart, which is
not held against the limiter.

Properties: `WindowBound` (the admitted requests inside the window never exceed
the largest limit, plus one per *further* process), `NothingLiveIsDropped`
(neither trims nor the TTL lose one of them), `DenialIsEarned` (a refusal is
backed by `limit` requests that were added to the set and had not left the window; those refused, and
those that a Redis error ended before the add, do not count).

The docstring of `check_rpm` (rate_limit.py:32) says "If Redis unavailable, allow (fail-open ...)".
The code does so only without `REDIS_URL`: an error of a configured Redis is not caught and ends
the request in a 500, which is what `Fail` does. No property depends on the docstring.

### Quota

`scan_quota` reads the limiter's set with ZCARD and no trim, while checks run. It looks at
the tenants that have a row in `api_keys` which is not revoked (`Scanned`) and compares the number with the
largest limit of those rows (`LargestLimit`), nine tenths of it rounded down. `Severity` is what a
scan would draft, in a state of `RateLimit`, for a tenant with the given rows; the property ranges over all
sets of rows, since they change independently of the window.

Property: `ExhaustionIsAlerted`: a window that holds the largest limit of the tenant's issued,
unrevoked keys is reported as critical, whichever keys the requests came with. What it
does not say: a tenant whose keys are all in the env (the built-in development keys are), or
whose rows are all revoked, is passed over and never reported, however full its window; and a limit of
an env key plays no part. Nor does the reverse hold: the count includes members no check has
trimmed yet, and a limit of 1 warns from zero on.

### Keys

A control-plane handler is two steps: `Begin...` loads and checks, `Commit...`
writes what the ORM flushes, with the database's constraints (a key needs its
tenant; deleting a tenant deletes its keys; updating a vanished row fails); `Abort`
is the rollback. Between them other handlers commit. `Restart` loses the
transactions and runs the seeding of `_seed_dev_tenants`. A request
presents a secret (`Arrive`), the control plane looks its row up (`Lookup`) and
then its tenant (`CheckTenant`), or the gateway falls back on the env registry at
any moment (`FallBack`: timeout or 5xx). Secrets are values minted once
(`generate_api_key`), and a client holds a secret only when a response gave it.
`owner`, `barredKey` and `barredTenant` are history variables.

Properties: `AcceptedAsOwner`, `BarredAreRefused` (a key dead on arrival, or of
a tenant not active since, is refused, outage or not), `NeverRevived`,
`RevocationIsFinal`, and the refinement `KeysAreARegistry`.

`KeyRegistry` is the abstract specification: no rows, ids or transactions, only a life
of each secret ("unborn", "live", "dead"), its owner, and the status of each tenant. `Life` and
`Given` map the tables to it; a secret that no response carried is unborn. Each commit
is one action of the registry: `CommitIssue` is `Give`, `CommitRotate` is `Replace` (the
new secret lives only if the old one did, so a rotation that overlaps a revocation
hands out a dead key), `CommitRevoke` is `Revoke` or a stutter, `CommitDelete` is
`Delete`. `Begin...`, `Abort` and a `Restart` that seeds nothing are stutters. A look-up is two SELECTs and at READ COMMITTED
not one snapshot, and the registry says what is left of it: the secret was live at one moment
after the request arrived (`Find`), and its tenant active at a later one (`Accept`), which
need not be the same moment.

### Chat

A step runs from one await of `chat_completions` to the next: `Arrive` (limiter
and refusals), `FetchPolicy` (the answer of the control plane or the default, then
`choose_route`), `Call` (the backend), `CallOllama` (the degraded retry),
`RecordUsage`. A prompt is its length, a model what its preset says. `PutPolicy`
changes the policy at any moment, and `Crash` loses the gateway. `RateLimit` models
the limiter; here it passes, refuses or raises. Fairness is weak fairness of each handler
once it is let in: every await has a timeout (5 s, 120 s), after which one of
the failure branches is taken.

Properties: `OffsiteIsSanctioned`, `RetriedOnceLocally`, `BilledIsServed`,
`EventuallyAnswered`, and `LocalUsageStayed`: a usage event carries the *decided* route, so a
label of another backend may stand for an answer of Ollama, but the label local
means that no other backend was sent the prompt. Two runs show where the code and its documents part:
`LocalOnlyStaysLocal` (docs/architecture.md:50) fails when the policy cannot be
read, and `FailureFallsBack` (README.md:98) fails because an error *answer* of
the cloud is passed on without a retry.

### Alerts

A scan drafts an alert per condition (`Draft`), looks each draft up (`LookUp`), then
commits its inserts (`Commit`), or fails on the unique fingerprint
(`Reject`, a 500), and announces (`Post`). Operators ack and resolve at any moment
(`Judge`), conditions come and go with different messages (`Change`), the control
plane restarts (`Restart`). Scans are weakly fair: docs/deploy-remote.md runs them
from cron, and a handler that can go on does. Nothing else is fair.

Properties: `AnnouncedIsRecorded`, `DecisionStands`, `LastingIsRecorded`. The run
`alerts_acked` shows that `ScanSucceeds`, which the test scripts expect, fails with one
scanner once an acknowledged condition is met again: the look-up asks for an *open*
row, the constraint is on rows of any status. `OneScannerFailsOverDecisions`, a theorem, says
that with one scanner nothing else makes a scan fail.

### Instances

A handler of an instance is three steps: `BeginCreate` or `BeginStopOrWake` loads and
checks, `StartHere`, `StartThere`, `StopHere` or `StopThere` is the call of the driver, which
may take minutes, and `CommitCreate` or `CommitUpdate` writes what the driver said;
`Abort` and `Restart` undo the row, never the runtime. An update writes the columns
that differ from what was *loaded*, which is why overlapping handlers matter.
Docker and ssh may be there or not (`docker`, `ssh`), and without ssh the remote
driver simulates. `local` and `remote` are the runtimes themselves. Hosts are
created, rebound and deleted (the database then clears `host_id`), tenants deleted
and created again. `madeFor`, `madeOn` and `openTo` are history variables.

Properties: `HostIsExclusive` (no host ever runs an instance of a tenant it was never
open to), `RowLeadsToRuntime` (a runtime is where the row sends a stop, except on a
deleted host), `RunningCanBeStopped`. Three things the code leaves open are visible
in the model and not held against it, since no document denies them: a host given to another
tenant is still used to wake the instances it has; an instance whose host
was deleted is woken on the local Docker; and a start that times out may leave
containers that the row calls `created`, without a project to stop. Nor is a runtime held against it
whose handler ended before its row was inserted: no row names it.

### Watchdog

`_touch_last_active` sets the marker in Redis, opens (and so empties) the file and
writes it: `SetMarker`, `OpenFile`, `WriteFile`, with their failures. The watchdog reads the
clock (`StartTick`), lists (`List`), judges each container by Redis or else by the file
(`Judge`), and stops the idle (`Stop`). Redis may restart from its last save, a marker
expires, docker calls fail. The loop is weakly fair, and docker is strongly fair:
asked again and again, it sometimes answers. `active`, `dropped` and `fresh` are history variables: when the last completed
marking of a tenant began, whether a store has nothing of it, and which tenants were marked
since the victim was picked.

Properties: `PicksOnlyIdle`, `StopsOnlyIdle`, and `QuietIsStopped` for liveness. Nothing in the code keeps
a request from arriving between the pick and `docker stop`; `StopsOnlyIdle` says that
this is the only way for an active tenant to lose a runtime. Both exempt the
tenants in `dropped`: an old marker in Redis hides a new one in the file, so a tenant
whose last marking reached the file alone may be stopped although it is active.

### Licenses

`issue_license` and `delete_tenant` are one step each. An activation is several, because
it writes files between loading the row and committing it: `Begin` loads and checks,
`MakeDirectory` makes the tree, `OpenMarker` empties `adapter_config.json`, `WriteMarker` writes
it, `Commit` sets `activated_at`; `Fail` and `Restart` end it anywhere, and what is on
disk stays. `Refuse` is the branch of an expired license: its `status = "expired"` is
flushed and rolled back by the exception raised in the same session scope, so only
the clock remembers. A restart may find another catalog. An adapter's directory
holds nothing (`None`), no marker (`Bare`), an empty one (`Torn`), or the license
that the marker names. `issued`, `refused` and `broken` are history variables.

Properties: `InstalledWasLicensed` (a marker names a license issued to that very tenant
for that very product, over deletions and overlapping activations), `ActivatedIsInstalled`
(docs/deploy-remote.md:76, with the one exception the code has: a later install of the same
adapter is writing, or was cut off, and has left the marker empty), `RefusalIsFinal`.

### ModelRefs and Adapters

A reference is the sequence of its segments. `Allowed` is
`assert_model_allowed_for_tenant` with its four grounds of refusal, `Resolve` is
`resolve_adapter_for_tenant`. The code matches some markers as substrings; what that
depends on is given by two constants, which segments begin with a tenant's id
(`Begins`) and which end in "tenants" (`EndInTenants`). `Adapters` joins them with the tree
of `Licenses`: `Offered` is what `list_models` lists.

Property: `OfferedIsUsable` (each offered id, and each other way to write it, is accepted and
comes to the same adapter, whichever tenants were created, deleted and left on
disk). It also says exactly what fails: the full name `tenants/<id>/...`, when the
tenant's id extends the id of another tenant whose directory is on disk, deleted or not. With
references of other forms the normal form need not begin with `loras`; no property is
about those.

### VectorStore and AtomicVectorStore

An upsert is read (`Load`, or `Reject` when a line does not parse), written row by row
to `docs.tmp` (`OpenTmp`, `WriteRow`), and renamed (`Rename`); any step may fail
(`Fail`) or be the gateway's last (`Crash`). One gateway process is modelled, as in
the compose file: its routes have no await, so calls do not interleave. Several processes would lose one
another's documents; the hazard is listed. A query returns the best `top_k` of the rows in
the order of some score.

`AtomicVectorStore` says what callers see: an upsert takes effect whole, at one moment, before
an `ok` and never with an error. `UpsertsAreAtomic` is its specification with `docs` for
the file and `applied` for the moment after the rename. The run `vector_reads` shows
`StoreReadsItsOwn` fail: `json.dumps(ensure_ascii=False)` leaves U+0085, U+2028 and U+2029 as
they are, `splitlines` splits there, and the collection cannot be read again.

## 3. The runs

| Run | Bounds | Why they are enough |
|---|---|---|
| `rate_limit` | 2 processes, 4 requests, window 2, TTL margin 1, limits 0–2, clock to 3 | two processes overrun the limit by one; with four requests the window fills, empties and fills again, and the clock passes the window and the TTL. `Quota` looks at the same states |
| `keys` | 2 tenants (one seeded), 2 rows, 2 secrets, 1 env key, 2 threads, 1 request | two overlapping handlers on any pair of rows and tenants, a rotation against a revocation among them; deletion and re-creation |
| `chat` | 1 request, 3 lengths, 2 thresholds, all environments and bodies | handlers share only the policy, which changes at will |
| `alerts` | 2 conditions, 2 scanners, 1 restart | overlapping scans, each with one or two drafts |
| `alerts_acked` | 1 scanner, a message with two readings | no overlap is needed |
| `instances` | 1 instance, 2 hosts, 2 tenants, 2 threads | rows of different instances share nothing but hosts and tenants; two handlers overlap on the one |
| `watchdog` | 1 tenant, 2 containers, idle after 2, clock to 3 | tenants share nothing; two containers make a tick of several reads and stops; a marker is fresh, at the edge and old |
| `licenses` | 2 tenants, one's id the beginning of the other's, 2 products, 2 licenses, 2 threads, clock to 1 | two activations of one adapter overlap, one of them of a license that ends with its unit of the clock; ids with and without a shadowing sibling |
| `vector_store`, `vector_reads` | 2 ids, 3 documents, one of which splits | rows are independent but for being written one after the other |
| `chat_local_only`, `chat_degrade` | as `chat` | – |

`Symmetry` is used in `rate_limit`, `keys`, `instances` and `licenses` (but for its tenants,
which differ), whose properties are safety properties. Deadlock is not checked where the system may stop: requests,
clock and secrets are bounded there.

## 4. The proofs

`RateLimitProofs` proves, for every finite set of processes and requests, every
window, TTL margin and limit:

- `TypeCorrect`: `Spec => []TypeOK`;
- `WindowIsBounded`: `Spec => []WindowBound`, and for the one gateway process of the
  compose file `ExactForOneProcess` and `OwnLimitForOneProcess`;
- `NothingLiveDropped`: `Spec => []NothingLiveIsDropped`;
- `DenialsAreEarned`: `Spec => DenialIsEarned`.

All rest on one inductive invariant, `IInv`. `WindowBound` is not inductive: it
says nothing of the checks that have counted and not yet added. `QuotaWithPending`
counts these with the members of the set: a check starts to be pending only
below its limit, adding turns a pending check into a member, and at most every
other process is pending. `AdmittedIsAccounted` ties the set to the
requests admitted: each is a member, was forgotten, or has left the window.
`TtlCoversMembers` keeps the key's TTL beyond every member's stay;
`StampsArePast` says that a check with an older clock reading trims less;
`MembersWereAdded` that the set holds nothing but added requests, which is what earns a denial; and
`OneCheckPerRequest` that a request is checked once. Each action has a lemma
(`StampStep`, `CountStep`, ...), and `InvStep` joins them.

`OwnLimitForOneProcess` is sharper than the window's bound: keys of one tenant with different
limits share the window, and with one process a request is admitted only if the limit of
*its own* key is kept. What the process counted holds until it adds (`CountHolds`),
because only the process itself adds to the set. It is stated of one process and
so is no property of the run with two.

`KeysProofs` proves all six properties of `Keys`, for any number of tenants, rows,
secrets, threads and requests: `TypeCorrect`, `KeysActForTheirOwner`,
`BarredStayOut`, `DeadStayDead`, `RevocationsAreFinal`, and `StoreIsARegistry`. The invariant has two halves.
`StoreInv` says that rows and pending transactions do not mix: a secret is its
transaction's alone until the commit (`CarriedAreSecret`), a row id being issued has no row
(`IssuedAreNew`), a row keeps its tenant while it is rotated (`RotatedAreMine`), and so
each row's key was issued for the row's tenant, which exists (`RowsAreOwned`). From it
follows that secrets clients know only die (`KnownOnlyDie`). `RequestInv` follows the
requests: what was found is the owner (`FoundIsOwner`), and a barred request's key stays
dead, or its tenant inactive, until it is refused. The run `keys` has two secrets and one
request at a time; the proofs cover any number.

`StoreIsARegistry` proves `Spec => KeysAreARegistry`, with a lemma for each commit
(`IssueGives`, `RotationReplaces`, `RevocationRevokes`, `DeletionDeletes`), one for tenants
that are created or seeded (`OpeningImplements`) and one for the steps of a request (`ResolutionImplements`). It needs two
more facts about the table, `TableInv`: no two rows have one hash, so that replacing a row's hash
ends the old secret and no other's (`HashesAreUnique`), and a revoked row's id is never issued
again, so that an issued key is live (`RevokedAreOld`).

`VectorStoreProofs` proves, for all ids and documents, `TypeCorrect` and
`StoreIsAtomic`: `Spec => UpsertsAreAtomic`. Its invariant ties what was merged to the file
as it is (`MergedIsCurrent`) and the temporary file to what was merged, whatever an
earlier upsert left behind (`TmpIsPartOfMerged`), so that the rename is `Apply`
(`RenameApplies`).

`RateLimitProofs` also proves `ExhaustionAlerted`: `ExhaustionIsAlerted` for every set of key rows, from
`AdmittedIsAccounted` (what is live is in the set), the arithmetic of `NearlyUsed`, and
`LargestLimitIsOfRow`: the detector's limit is that of an unrevoked row if there is one. That
a largest limit exists (`LargestExists`) comes from the library's theorem on well-founded orders, with the limits
mirrored at `MaxLimit`.

`ChatProofs` proves `TypeCorrect`, `OffsiteSanctioned`, `RetriesAreLocal` and `BilledAreServed`
for any number of requests, any lengths and thresholds. Its invariant is a conjunction
over requests: the calls made are those of the decided route (`CallsFollow`), the policy in
force is among those the request has seen (`PolicyIsSeen`), a route off site was decided by a
policy other than `local_only` (`Sanctioned`), and whoever gets as far as being charged was served
(`Credited`). `RouteIsChosen` is the lemma about `choose_route`. `LocalUsageStaysLocal` adds that the
label of a usage event is the decided route (`Labelled`), whose calls `CallsFollow` knows.

`InstancesProofs` proves `TypeCorrect`, `HostsAreExclusive`, `RowsLeadToRuntimes` and
`RunningAreStoppable` for any number of tenants, hosts, instances and handlers. The run has one
instance and two handlers; that rows of different instances do not disturb one
another is proved, not assumed. The invariant follows an instance's host from
the row (`RowsKeepHost`) through what handlers loaded (`ReadsKeepHost`) to the runtimes
(`RuntimesAreMade`): all are the host it was made on, or none once that was
deleted. `CreatesAreAlone` says an instance being created has no other handler, `StopsStop`
what a stop may write, `BindingsAreKept` that the history of a host's owners is
complete.

`LicensesProofs` proves `TypeCorrect`, `MarkersAreLicensed`, `ActivationsInstall`,
`RefusalsAreFinal` and `OffersAreUsable`. What a thread carries is what was issued
(`CallsAreIssued`), it left its traces in the tree (`CallsLeaveFiles`), an empty marker has an
explanation (`TornIsExplained`), and what has ended stays so because ids are not
issued twice (`RefusedStayExpired`). `OffersAreUsable` needs no invariant: it holds for
every set of directories, by cases over the ways to write an adapter (`EveryWay`).

`AlertsProofs` proves `TypeCorrect`, `AnnouncedAreRecorded` and `DecisionsStand` for any conditions,
readings and scanners. Rows are never deleted, so what a scan found is there when it
commits (`ExistingHaveRows`), and after the commit every draft has a row
(`CommittedHaveRows`). `OneScannerFailsOverDecisions` is proved for one scanner, with
`MissedAreNotOpen`: a fingerprint it looked up in vain gets no open row before its flush.

`WatchdogProofs` proves `TypeCorrect` and `OnlyIdleArePicked` for any tenants, containers, idle
times and clocks. What a store has of a tenant is as new as the tenant's last completed
marking, unless a store refused or lost one (`MarksCover`); for a marking under way,
its clock readings are in order (`TouchIsOrdered`). `OnlyIdleAreStopped` carries the fact on from
the pick to the stop, over the steps of the gateway and of Redis in between (`VictimWasIdle`).

Assumptions: those on the constants (`ProcsAssumption` ...), and the library's
theorems on finite sets and sequences.

Only model-checked: liveness (`EventuallyAnswered`, `LastingIsRecorded`,
`QuietIsStopped`), because the prover handles neither fairness nor ENABLED.

## 5. Not modelled

Contents of prompts, names, key hashes and prefixes (a hash stands for its
secret), wording of errors and logs, the console (a client of the same API),
schemas, container images, shell wrappers. Development mode on SQLite, which
serves one connection. Gateways with skewed clocks. Driver calls whose effect
outlives the call: a compose or ssh command that timed out is over. Of references to
models: symbolic links, absolute paths and upper case. Of licenses: the column
`status`, which never leaves "active" (see `Refuse`), the presets, prices and texts of the
catalog, and the manifest copied next to the marker. The disk and instance detectors
are conditions of `Alerts` that come and go. Presets, the night window and the cost
estimate are pure and stateless, and are planned below.

## 6. Plan

1. Pure functions: night window, preset match, compose project names (two long ids cut
   to the same name).
2. `Gateway`: composition of `Keys`, `RateLimit` and `Chat`.
3. Usage sums over time windows.
