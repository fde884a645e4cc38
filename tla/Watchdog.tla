------------------------------ MODULE Watchdog ------------------------------
(***************************************************************************)
(* The sleep watchdog, runtime/sleep-watchdog/watchdog.py, and the markers *)
(* of activity that gateway/main.py _touch_last_active leaves it.          *)
(*                                                                         *)
(* A request of a tenant is marked twice: in Redis (af:last_active:{id})   *)
(* and in the file cache/last_active of the tenant.  Either write may fail *)
(* and is then forgotten about.  The watchdog runs in a process of its     *)
(* own.  A tick reads the clock, lists the running containers, and then    *)
(* reads the marker of each container's tenant, Redis before the file, and *)
(* stops the container if the marker is old.                               *)
(***************************************************************************)
EXTENDS Integers

CONSTANTS
    Tenants,
    Containers, \* containers with the label af.plane=data
    TenantOf,   \* container -> its label af.tenant_id
    IdleSeconds,\* --idle-seconds
    MaxTime,    \* bound on the clock
    None        \* no marker, no container

ASSUME LabelAssumption == TenantOf \in [Containers -> Tenants]
ASSUME TimeAssumption == IdleSeconds \in Nat \ {0} /\ MaxTime \in Nat
ASSUME NoneAssumption == None \notin Nat \cup Containers \cup Tenants

VARIABLES
    now,
    up,         \* running containers
    redisMark,  \* tenant -> the marker in Redis
    saved,      \* what Redis has on disk
    fileMark,   \* tenant -> what the file says; None if absent or unreadable
    touch,      \* the marking the gateway is at: tenant, step, clock readings
    pc,         \* where the watchdog is
    tickAt,     \* the clock reading of its tick
    todo,       \* containers of its list it has not dealt with
    victim,     \* the container it is about to stop
    active,     \* history: tenant -> when its last completed marking began
    dropped,    \* history: tenants of whose last marker a store has nothing
    fresh       \* history: tenants marked since the victim was picked

gateway == <<redisMark, saved, fileMark, touch, active, dropped>>
watchdog == <<pc, tickAt, todo, victim, fresh>>
vars == <<now, up, gateway, watchdog>>

Marks == 0..MaxTime \cup {None}
NoTouch == [tenant |-> None, step |-> "none", began |-> 0, stamp |-> 0, inRedis |-> FALSE]

TypeOK ==
    /\ now \in 0..MaxTime
    /\ up \subseteq Containers
    /\ redisMark \in [Tenants -> Marks] /\ saved \in [Tenants -> Marks]
    /\ fileMark \in [Tenants -> Marks]
    /\ touch \in [tenant: Tenants \cup {None}, step: {"none", "redis", "file"},
                  began: 0..MaxTime, stamp: 0..MaxTime, inRedis: BOOLEAN]
    /\ touch.tenant = None <=> touch = NoTouch
    /\ pc \in {"asleep", "started", "listed"}
    /\ tickAt \in 0..now
    /\ todo \subseteq Containers /\ victim \in todo \cup {None}
    /\ pc # "listed" => todo = {}
    /\ active \in [Tenants -> Marks]
    /\ dropped \subseteq Tenants /\ fresh \subseteq Tenants

Init ==
    /\ now = 0
    /\ up \in SUBSET Containers
    /\ redisMark = [d \in Tenants |-> None] /\ saved = redisMark
    /\ fileMark = [d \in Tenants |-> None]
    /\ touch = NoTouch
    /\ pc = "asleep" /\ tickAt = 0 /\ todo = {} /\ victim = None
    /\ active = [d \in Tenants |-> None]
    /\ dropped = {} /\ fresh = {}

-----------------------------------------------------------------------------
(* The gateway: _touch_last_active.                                        *)

SetMarker(d) ==
    /\ touch = NoTouch
    /\ \E ok \in BOOLEAN :
          /\ touch' = [tenant |-> d, step |-> "redis", began |-> now, stamp |-> 0, inRedis |-> ok]
          /\ redisMark' = IF ok THEN [redisMark EXCEPT ![d] = now] ELSE redisMark
    /\ UNCHANGED <<now, up, saved, fileMark, active, dropped, watchdog>>

\* write_text: its argument is the clock, then the file is emptied ...
OpenFile ==
    /\ touch.step = "redis"
    /\ touch' = [touch EXCEPT !.step = "file", !.stamp = now]
    /\ fileMark' = [fileMark EXCEPT ![touch.tenant] = None]
    /\ UNCHANGED <<now, up, redisMark, saved, active, dropped, watchdog>>

Done(inFile) ==
    /\ touch' = NoTouch
    /\ active' = [active EXCEPT ![touch.tenant] = touch.began]
    /\ dropped' = IF touch.inRedis /\ inFile
                  THEN dropped \ {touch.tenant} ELSE dropped \cup {touch.tenant}
    /\ fresh' = IF victim = None THEN fresh ELSE fresh \cup {touch.tenant}

\* ... and written.
WriteFile ==
    /\ touch.step = "file"
    /\ fileMark' = [fileMark EXCEPT ![touch.tenant] = touch.stamp]
    /\ Done(TRUE)
    /\ UNCHANGED <<now, up, redisMark, saved, pc, tickAt, todo, victim>>

\* An OSError before the file is emptied or after it is swallowed.
FileFails ==
    /\ touch # NoTouch
    /\ Done(FALSE)
    /\ UNCHANGED <<now, up, redisMark, saved, fileMark, pc, tickAt, todo, victim>>

GatewayDies ==
    /\ touch # NoTouch
    /\ touch' = NoTouch
    /\ UNCHANGED <<now, up, redisMark, saved, fileMark, active, dropped, watchdog>>

-----------------------------------------------------------------------------
(* Redis as both use it, Docker as the control plane uses it, the clock.   *)

RedisSaves ==
    /\ saved # redisMark
    /\ saved' = redisMark
    /\ UNCHANGED <<now, up, redisMark, fileMark, touch, active, dropped, watchdog>>

\* Redis restarts from its disk.
RedisRestarts ==
    /\ redisMark # saved
    /\ redisMark' = saved
    /\ dropped' = dropped \cup {d \in Tenants : redisMark[d] # saved[d]}
    /\ touch' = [touch EXCEPT !.inRedis = FALSE]
    /\ UNCHANGED <<now, up, saved, fileMark, active, watchdog>>

\* The marker's own TTL of seven days: the file takes over.
MarkerExpires(d) ==
    /\ redisMark[d] # None
    /\ redisMark' = [redisMark EXCEPT ![d] = None]
    /\ UNCHANGED <<now, up, saved, fileMark, touch, active, dropped, watchdog>>

Start(c) == c \notin up /\ up' = up \cup {c} /\ UNCHANGED <<now, gateway, watchdog>>

Tick == now < MaxTime /\ now' = now + 1 /\ UNCHANGED <<up, gateway, watchdog>>

-----------------------------------------------------------------------------
(* The watchdog: tick.                                                     *)

StartTick ==
    /\ pc = "asleep"
    /\ pc' = "started" /\ tickAt' = now /\ fresh' = {}
    /\ UNCHANGED <<now, up, todo, victim, gateway>>

\* docker ps; a failing one lists nothing.
List ==
    /\ pc = "started"
    /\ pc' = "listed" /\ todo' = up
    /\ UNCHANGED <<now, up, tickAt, victim, fresh, gateway>>

ListFails ==
    /\ pc = "started"
    /\ pc' = "listed"
    /\ UNCHANGED <<now, up, tickAt, todo, victim, fresh, gateway>>

\* last_active_for_tenant, when Redis answers and when it does not.
MutantLastActive(d, redisAnswers) == IF redisAnswers THEN redisMark[d] ELSE None
LastActive(d, redisAnswers) ==
    IF redisAnswers /\ redisMark[d] # None THEN redisMark[d] ELSE fileMark[d]

MutantIsIdle(last) == last = None \/ tickAt - last >= IdleSeconds
IsIdle(last) == last # None /\ tickAt - last >= IdleSeconds

Judge(c) ==
    /\ victim = None /\ c \in todo
    /\ \E redisAnswers \in BOOLEAN :
          IF IsIdle(LastActive(TenantOf[c], redisAnswers))
          THEN victim' = c /\ fresh' = {} /\ UNCHANGED todo
          ELSE todo' = todo \ {c} /\ UNCHANGED <<victim, fresh>>
    /\ UNCHANGED <<now, up, pc, tickAt, gateway>>

\* docker stop, of a container that may be down or gone by now.
MutantStop ==
    /\ victim # None
    /\ up' = up \ {victim}
    /\ todo' = todo \ {victim}
    /\ UNCHANGED <<now, pc, tickAt, victim, fresh, gateway>>
Stop ==
    /\ victim # None
    /\ up' = up \ {victim}
    /\ todo' = todo \ {victim} /\ victim' = None
    /\ UNCHANGED <<now, pc, tickAt, fresh, gateway>>

StopFails ==
    /\ victim # None
    /\ todo' = todo \ {victim} /\ victim' = None
    /\ UNCHANGED <<now, up, pc, tickAt, fresh, gateway>>

\* The loop sleeps for the interval.
EndTick ==
    /\ pc = "listed" /\ todo = {}
    /\ pc' = "asleep"
    /\ UNCHANGED <<now, up, tickAt, todo, victim, fresh, gateway>>

-----------------------------------------------------------------------------
Gateway == (\E d \in Tenants : SetMarker(d)) \/ OpenFile \/ WriteFile \/ FileFails \/ GatewayDies

Environment ==
    \/ RedisSaves \/ RedisRestarts \/ (\E d \in Tenants : MarkerExpires(d))
    \/ (\E c \in Containers : Start(c)) \/ Tick

Loop ==
    \/ StartTick \/ List \/ ListFails
    \/ (\E c \in Containers : Judge(c))
    \/ Stop \/ StopFails \/ EndTick

Next == Gateway \/ Environment \/ Loop

\* --loop: the watchdog goes on, and docker, asked again and again, sometimes
\* does what it is asked.
Fairness ==
    /\ WF_vars(Loop)
    /\ SF_vars(List)
    /\ \A c \in Containers : SF_vars(victim = c /\ Stop)

Spec == Init /\ [][Next]_vars /\ Fairness

-----------------------------------------------------------------------------
(* What the watchdog promises.                                             *)

Recent(mark) == mark # None /\ tickAt - mark < IdleSeconds

\* The watchdog picks a container only if no marking of its tenant completed
\* within idle_seconds before the tick, however the markings of the gateway
\* and the two reads interleave; unless a store refused or lost a marker.
PicksOnlyIdle ==
    [][\A c \in Containers :
          victim # c /\ victim' = c /\ TenantOf[c] \notin dropped
            => ~Recent(active[TenantOf[c]])]_vars

\* A running container is stopped only if no marking of its tenant completed
\* within idle_seconds before the tick, or one completed between the pick and
\* docker stop: no request but one of that moment loses its runtime.
StopsOnlyIdle ==
    [][\A c \in up \ up' :
          TenantOf[c] \notin dropped \cup fresh => ~Recent(active[TenantOf[c]])]_vars

\* A tenant is quiet when what the stores say of it is old, and stays so.
Quiet(d) ==
    /\ fileMark[d] # None /\ now - fileMark[d] >= IdleSeconds
    /\ redisMark[d] = None \/ now - redisMark[d] >= IdleSeconds

\* The containers of a tenant that has gone quiet do not keep running, those
\* that no control-plane row names included.
QuietIsStopped ==
    \A c \in Containers : <>[]Quiet(TenantOf[c]) => []<>(c \notin up)
=============================================================================
