----------------------------- MODULE RateLimit -----------------------------
(***************************************************************************)
(* The per-tenant requests-per-minute limiter, gateway/rate_limit.py.      *)
(*                                                                         *)
(* A check reads the clock, then makes two Redis round trips: a pipeline   *)
(* that trims the sorted set af:rpm:{tenant} and counts it, and a second   *)
(* one that adds the request.  One gateway process runs a check from its   *)
(* first line to its last without another check in between (the handlers   *)
(* are coroutines and check_rpm never awaits), but processes that share    *)
(* the Redis server interleave at every round trip.                        *)
(*                                                                         *)
(* The module follows the sorted set of one tenant: the key of the set     *)
(* holds the tenant's id, so the checks of two tenants share nothing.  A   *)
(* request is a member of the set under its own unique name                *)
(* (f"{now}:{uuid4}"), and stamp gives its score.                          *)
(***************************************************************************)
EXTENDS Integers, FiniteSets

CONSTANTS
    Procs,      \* gateway processes
    Requests,   \* requests of the tenant
    Window,     \* window_seconds
    Grace,      \* the 5 seconds by which the TTL of the key outlives the window
    MaxLimit,   \* largest rpm_limit of a key of the tenant
    MaxTime,    \* bound on the clock
    None        \* no request

ASSUME ProcsAssumption == IsFiniteSet(Procs) /\ Procs # {}
ASSUME RequestsAssumption == IsFiniteSet(Requests)
ASSUME TimeAssumption == Window \in Nat /\ Grace \in Nat /\ MaxTime \in Nat
ASSUME LimitAssumption == MaxLimit \in Nat
ASSUME NoneAssumption == None \notin Requests

VARIABLES
    now,        \* time.time() of the gateways, and the clock of Redis
    configured, \* REDIS_URL is set
    up,         \* Redis answers
    zset,       \* members of af:rpm:{tenant}
    expireAt,   \* when Redis drops the key
    phase,      \* where each process is in check_rpm
    cur,        \* the request each process is checking
    lim,        \* the rpm_limit of the key that request came with
    stamp,      \* request -> the clock its check read
    outcome,    \* request -> what check_rpm came to
    added,      \* history: requests that zadd put into the set
    forgotten   \* history: members lost with a restart of Redis

vars == <<now, configured, up, zset, expireAt, phase, cur, lim, stamp, outcome, added, forgotten>>
redis == <<up, zset, expireAt, added, forgotten>>

Phases == {"idle", "stamped", "counted", "denying"}
Outcomes == {"none", "admitted", "denied", "failed"}

TypeOK ==
    /\ now \in Nat
    /\ configured \in BOOLEAN
    /\ up \in BOOLEAN
    /\ zset \subseteq Requests
    /\ expireAt \in Nat
    /\ phase \in [Procs -> Phases]
    /\ cur \in [Procs -> Requests \cup {None}]
    /\ \A p \in Procs : phase[p] = "idle" <=> cur[p] = None
    /\ lim \in [Procs -> 0..MaxLimit]
    /\ stamp \in [Requests -> Nat]
    /\ outcome \in [Requests -> Outcomes]
    /\ added \subseteq Requests /\ forgotten \subseteq Requests

Init ==
    /\ now = 0
    /\ configured \in BOOLEAN
    /\ up = TRUE
    /\ zset = {}
    /\ expireAt = 0
    /\ phase = [p \in Procs |-> "idle"]
    /\ cur = [p \in Procs |-> None]
    /\ lim = [p \in Procs |-> 0]
    /\ stamp = [r \in Requests |-> 0]
    /\ outcome = [r \in Requests |-> "none"]
    /\ added = {} /\ forgotten = {}

-----------------------------------------------------------------------------
(* Operators of check_rpm, and what a slip in each would make of it.       *)

MutantNeverTrims(s) == zset

\* The server removes the scores in 0..s - Window: the bound is inclusive.
Trimmed(s) == {m \in zset : stamp[m] > s - Window}

MutantAdmits(n, l) == n <= l
Admits(n, l) == n < l

MutantTtl == now + 1
Ttl == now + Window + Grace

-----------------------------------------------------------------------------
Fresh(r) == outcome[r] = "none" /\ \A q \in Procs : cur[q] # r

MutantReturn(p, o) ==
    /\ phase' = [phase EXCEPT ![p] = "idle"]
    /\ outcome' = [outcome EXCEPT ![cur[p]] = o]
    /\ UNCHANGED <<now, configured, cur, lim, stamp>>

\* Process p leaves check_rpm with the answer o for its request.
Return(p, o) ==
    /\ phase' = [phase EXCEPT ![p] = "idle"]
    /\ cur' = [cur EXCEPT ![p] = None]
    /\ outcome' = [outcome EXCEPT ![cur[p]] = o]
    /\ UNCHANGED <<now, configured, lim, stamp>>

\* The answers check_rpm gives before any round trip: a limit of zero or less
\* is refused, and without REDIS_URL everything else is allowed.
AnswerAtOnce(p, r, l) ==
    /\ phase[p] = "idle" /\ Fresh(r)
    /\ \/ l = 0 /\ outcome' = [outcome EXCEPT ![r] = "denied"]
       \/ l > 0 /\ ~configured /\ outcome' = [outcome EXCEPT ![r] = "admitted"]
    /\ UNCHANGED <<now, configured, redis, phase, cur, lim, stamp>>

\* now = time.time(): the stamp every later round trip of this check uses.
Stamp(p, r, l) ==
    /\ phase[p] = "idle" /\ Fresh(r)
    /\ l > 0 /\ configured
    /\ phase' = [phase EXCEPT ![p] = "stamped"]
    /\ cur' = [cur EXCEPT ![p] = r]
    /\ lim' = [lim EXCEPT ![p] = l]
    /\ stamp' = [stamp EXCEPT ![r] = now]
    /\ UNCHANGED <<now, configured, redis, outcome>>

\* The first pipeline: zremrangebyscore, zcard, and the comparison.
TrimAndCount(p) ==
    /\ phase[p] = "stamped" /\ up
    /\ zset' = Trimmed(stamp[cur[p]])
    /\ phase' = [phase EXCEPT ![p] =
                    IF Admits(Cardinality(zset'), lim[p]) THEN "counted" ELSE "denying"]
    /\ UNCHANGED <<now, configured, up, expireAt, cur, lim, stamp, outcome, added, forgotten>>

\* The refused request refreshes the TTL and leaves no member.  EXPIRE of a
\* key that is gone does nothing.
Deny(p) ==
    /\ phase[p] = "denying" /\ up
    /\ expireAt' = IF zset = {} THEN expireAt ELSE Ttl
    /\ Return(p, "denied")
    /\ UNCHANGED <<up, zset, added, forgotten>>

\* The second pipeline: zadd, expire.  The reply may be lost after Redis has
\* executed it; the exception then ends the request although it was added.
Add(p) ==
    /\ phase[p] = "counted" /\ up
    /\ zset' = zset \cup {cur[p]} /\ added' = added \cup {cur[p]}
    /\ expireAt' = Ttl
    /\ Return(p, "admitted") \/ Return(p, "failed")
    /\ UNCHANGED <<up, forgotten>>

\* Nothing catches a redis.ConnectionError: the request ends in a 500.  The
\* same step stands for a process that dies during a check.
Fail(p) ==
    /\ phase[p] # "idle"
    /\ Return(p, "failed")
    /\ UNCHANGED redis

-----------------------------------------------------------------------------
(* The clock, and the Redis server as the code uses it.                    *)

Tick ==
    /\ now < MaxTime
    /\ now' = now + 1
    /\ UNCHANGED <<configured, redis, phase, cur, lim, stamp, outcome>>

ExpireKey ==
    /\ up /\ zset # {} /\ now >= expireAt
    /\ zset' = {}
    /\ UNCHANGED <<now, configured, up, expireAt, phase, cur, lim, stamp, outcome, added, forgotten>>

RedisDown ==
    /\ configured /\ up
    /\ up' = FALSE
    /\ UNCHANGED <<now, configured, zset, expireAt, phase, cur, lim, stamp, outcome, added, forgotten>>

\* Redis comes back with the members it had saved.
RedisUp(saved) ==
    /\ ~up
    /\ up' = TRUE
    /\ zset' = saved
    /\ forgotten' = forgotten \cup (zset \ saved)
    /\ UNCHANGED <<now, configured, expireAt, phase, cur, lim, stamp, outcome, added>>

Check(p) ==
    \/ \E r \in Requests, l \in 0..MaxLimit : AnswerAtOnce(p, r, l) \/ Stamp(p, r, l)
    \/ TrimAndCount(p) \/ Deny(p) \/ Add(p) \/ Fail(p)

Server == ExpireKey \/ RedisDown \/ \E saved \in SUBSET zset : RedisUp(saved)

Next == (\E p \in Procs : Check(p)) \/ Server \/ Tick

Spec == Init /\ [][Next]_vars

-----------------------------------------------------------------------------
(* What the limiter promises.                                              *)

Pending == {p \in Procs : phase[p] = "counted"}

Inside(r) == stamp[r] > now - Window

\* The requests that were let through and are still inside the window, unless
\* a restart of Redis lost them.
Live == {r \in Requests : /\ configured
                          /\ outcome[r] = "admitted"
                          /\ Inside(r)
                          /\ r \notin forgotten}

\* A tenant never has more requests inside the window than its largest limit,
\* plus one for each further gateway process that counted at the same time
\* (check_rpm counts in one round trip and adds in another).  With the one
\* process of the deployment the limit is exact.
WindowBound == Cardinality(Live) <= MaxLimit + Cardinality(Procs) - 1

\* The set still holds every admitted request that is inside the window:
\* neither the trim by another process, with an older clock reading, nor the
\* TTL of window + 5 seconds drops it early.
NothingLiveIsDropped == Live \subseteq zset

\* A request is refused only when the tenant really used up its quota: at
\* least as many requests as its limit were added to the set and had, at the
\* moment the refused check read its clock, not left the window.  Neither
\* refused requests count, so that hammering a full window does not prolong
\* it, nor those that a Redis error ended before they were added.  One that
\* was added although its reply was lost does count.
Counted(s) == {r \in added : stamp[r] > s - Window}

DenialIsEarned ==
    [][\A p \in Procs :
          (phase[p] = "stamped" /\ phase'[p] = "denying")
            => Cardinality(Counted(stamp[cur[p]])) >= lim[p]]_vars
=============================================================================
