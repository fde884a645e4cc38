--------------------------- MODULE WatchdogProofs ---------------------------
(***************************************************************************)
(* Safety of the sleep watchdog, for all tenants, containers, idle times   *)
(* and clocks.                                                             *)
(***************************************************************************)
EXTENDS Watchdog, TLAPS

NotOlder(mark, time) == mark # None => mark >= time

\* What a store has of a tenant whose last marker no store refused or lost is
\* as new as that marker.
MarksCover ==
    \A d \in Tenants : d \notin dropped /\ active[d] # None =>
        NotOlder(redisMark[d], active[d]) /\ NotOlder(fileMark[d], active[d])

\* Clock readings are of the past, and in the order they were taken.
ActiveIsPast == \A d \in Tenants : active[d] # None => active[d] <= now
TouchIsOrdered ==
    touch # NoTouch =>
        /\ touch.began <= now
        /\ touch.step = "file" => touch.began <= touch.stamp
        /\ touch.inRedis => NotOlder(redisMark[touch.tenant], touch.began)

IInv == TypeOK /\ MarksCover /\ ActiveIsPast /\ TouchIsOrdered

-----------------------------------------------------------------------------
LEMMA InitInv == Init => IInv
<1> SUFFICES ASSUME Init PROVE IInv
  OBVIOUS
<1>1. TypeOK
  BY TimeAssumption, NoneAssumption DEF Init, TypeOK, Marks, NoTouch
<1>2. MarksCover /\ ActiveIsPast /\ TouchIsOrdered
  BY DEF Init, MarksCover, ActiveIsPast, TouchIsOrdered
<1>3. QED
  BY <1>1, <1>2 DEF IInv

-----------------------------------------------------------------------------
(* The gateway marks.                                                      *)

\* Between two steps of the gateway a touch has a tenant.
LEMMA Touching ==
    ASSUME TypeOK, touch # NoTouch
    PROVE  /\ touch.tenant \in Tenants /\ touch.step \in {"none", "redis", "file"}
           /\ touch.began \in 0..MaxTime /\ touch.stamp \in 0..MaxTime
           /\ touch.inRedis \in BOOLEAN
BY DEF TypeOK

\* What a restart of Redis does to a touch is nothing to none.
LEMMA NoTouchInRedis == [NoTouch EXCEPT !.inRedis = FALSE] = NoTouch
<1> DEFINE fields == [tenant: {None}, step: {"none"}, began: {0}, stamp: {0}, inRedis: {FALSE}]
<1>1. NoTouch \in fields
  BY DEF NoTouch
<1>2. [NoTouch EXCEPT !.inRedis = FALSE] \in fields
  BY <1>1
<1>3. \A r \in fields : r = [tenant |-> r.tenant, step |-> r.step, began |-> r.began,
                             stamp |-> r.stamp, inRedis |-> r.inRedis]
  OBVIOUS
<1>4. \A r \in fields : r = NoTouch
  BY <1>3 DEF NoTouch
<1>5. QED
  BY <1>2, <1>4

LEMMA SetMarkerInv ==
    ASSUME IInv, NEW d \in Tenants, SetMarker(d)
    PROVE  IInv'
<1>1. PICK ok \in BOOLEAN :
        /\ touch' = [tenant |-> d, step |-> "redis", began |-> now, stamp |-> 0, inRedis |-> ok]
        /\ redisMark' = IF ok THEN [redisMark EXCEPT ![d] = now] ELSE redisMark
  BY DEF SetMarker
<1>2. TypeOK'
  BY <1>1, NoneAssumption, TimeAssumption DEF IInv, TypeOK, SetMarker, watchdog, Marks, NoTouch
<1>3. MarksCover'
  BY <1>1, TimeAssumption DEF IInv, TypeOK, SetMarker, MarksCover, ActiveIsPast, NotOlder, Marks
<1>4. ActiveIsPast'
  BY DEF IInv, SetMarker, ActiveIsPast
<1>5. TouchIsOrdered'
  BY <1>1, TimeAssumption DEF IInv, TypeOK, SetMarker, TouchIsOrdered, NotOlder
<1>6. QED
  BY <1>2, <1>3, <1>4, <1>5 DEF IInv

LEMMA OpenFileInv ==
    ASSUME IInv, OpenFile
    PROVE  IInv'
<1>1. touch # NoTouch
  BY DEF OpenFile, NoTouch
<1>t. touch' = [touch EXCEPT !.step = "file", !.stamp = now]
  BY DEF OpenFile
<1>2. TypeOK'
  <2>1. touch' \in [tenant: Tenants \cup {None}, step: {"none", "redis", "file"},
                    began: 0..MaxTime, stamp: 0..MaxTime, inRedis: BOOLEAN]
    BY <1>t DEF IInv, TypeOK
  <2>2. touch'.tenant # None /\ touch' # NoTouch
    <3>1. touch'.tenant = touch.tenant
      BY <1>t DEF IInv, TypeOK
    <3>2. NoTouch.tenant = None
      BY DEF NoTouch
    <3>3. QED
      BY <1>1, <3>1, <3>2 DEF IInv, TypeOK
  <2>3. fileMark' \in [Tenants -> Marks]
    BY <1>1, Touching DEF IInv, TypeOK, OpenFile, Marks
  <2>4. QED
    BY <2>1, <2>2, <2>3 DEF IInv, TypeOK, OpenFile, watchdog
<1>3. MarksCover'
  BY <1>1, Touching DEF IInv, TypeOK, OpenFile, MarksCover, NotOlder
<1>4. ActiveIsPast'
  BY DEF IInv, OpenFile, ActiveIsPast
<1>5. TouchIsOrdered'
  BY <1>1, <1>t, Touching, TimeAssumption DEF IInv, TypeOK, OpenFile, TouchIsOrdered, NotOlder
<1>6. QED
  BY <1>2, <1>3, <1>4, <1>5 DEF IInv

LEMMA DoneInv ==
    ASSUME IInv, touch # NoTouch, NEW inFile \in BOOLEAN, Done(inFile),
           UNCHANGED <<now, up, redisMark, saved, pc, tickAt, todo, victim>>,
           \/ inFile /\ touch.step = "file"
                     /\ fileMark' = [fileMark EXCEPT ![touch.tenant] = touch.stamp]
           \/ ~inFile /\ UNCHANGED fileMark
    PROVE  IInv'
<1>2. TypeOK'
  <2>1. fileMark' \in [Tenants -> Marks] /\ active' \in [Tenants -> Marks]
    BY Touching DEF IInv, TypeOK, Done, Marks
  <2>2. dropped' \subseteq Tenants /\ fresh' \subseteq Tenants
    BY Touching DEF IInv, TypeOK, Done
  <2>3. touch' = NoTouch /\ touch' \in [tenant: Tenants \cup {None}, step: {"none", "redis", "file"},
                  began: 0..MaxTime, stamp: 0..MaxTime, inRedis: BOOLEAN]
    BY TimeAssumption DEF Done, NoTouch
  <2>4. touch'.tenant = None
    BY <2>3 DEF NoTouch
  <2>5. QED
    BY <2>1, <2>2, <2>3, <2>4 DEF IInv, TypeOK
<1>3. MarksCover'
  <2>1. ASSUME NEW d \in Tenants, d \notin dropped', active'[d] # None
        PROVE  NotOlder(redisMark'[d], active'[d]) /\ NotOlder(fileMark'[d], active'[d])
    <3>1. CASE d = touch.tenant
      <4>1. touch.inRedis /\ inFile /\ active'[d] = touch.began
        BY <2>1, <3>1, Touching DEF IInv, TypeOK, Done
      <4>2. NotOlder(redisMark'[d], active'[d])
        BY <3>1, <4>1 DEF IInv, TouchIsOrdered
      <4>3. fileMark'[d] = touch.stamp /\ touch.began <= touch.stamp
        BY <3>1, <4>1 DEF IInv, TypeOK, TouchIsOrdered
      <4>4. NotOlder(fileMark'[d], active'[d])
        BY <4>1, <4>3, Touching DEF IInv, NotOlder
      <4>5. QED
        BY <4>2, <4>4
    <3>2. CASE d # touch.tenant
      BY <2>1, <3>2, Touching DEF IInv, TypeOK, Done, MarksCover
    <3>3. QED
      BY <3>1, <3>2
  <2>2. QED
    BY <2>1 DEF MarksCover
<1>4. ActiveIsPast'
  BY Touching DEF IInv, TypeOK, Done, ActiveIsPast, TouchIsOrdered
<1>5. TouchIsOrdered'
  BY DEF Done, TouchIsOrdered
<1>6. QED
  BY <1>2, <1>3, <1>4, <1>5 DEF IInv

LEMMA WriteFileInv ==
    ASSUME IInv, WriteFile
    PROVE  IInv'
<1>1. touch # NoTouch
  BY DEF WriteFile, NoTouch
<1>2. QED
  BY <1>1, DoneInv DEF WriteFile

LEMMA FileFailsInv ==
    ASSUME IInv, FileFails
    PROVE  IInv'
BY DoneInv DEF FileFails

LEMMA GatewayDiesInv ==
    ASSUME IInv, GatewayDies
    PROVE  IInv'
<1>1. TypeOK'
  BY TimeAssumption DEF IInv, TypeOK, GatewayDies, watchdog, NoTouch
<1>2. MarksCover' /\ ActiveIsPast' /\ TouchIsOrdered'
  BY DEF IInv, GatewayDies, MarksCover, ActiveIsPast, TouchIsOrdered
<1>3. QED
  BY <1>1, <1>2 DEF IInv

-----------------------------------------------------------------------------
(* The environment and the loop.                                           *)

LEMMA EnvironmentInv ==
    ASSUME IInv, Environment
    PROVE  IInv'
<1>1. CASE RedisSaves
  <2>1. TypeOK'
    BY <1>1 DEF IInv, TypeOK, RedisSaves, watchdog
  <2>2. QED
    BY <1>1, <2>1 DEF IInv, RedisSaves, MarksCover, ActiveIsPast, TouchIsOrdered
<1>2. CASE RedisRestarts
  <2>1. TypeOK'
    <3>1. touch' = [touch EXCEPT !.inRedis = FALSE] /\ touch'.tenant = touch.tenant
      BY <1>2 DEF RedisRestarts, IInv, TypeOK
    <3>2. touch = NoTouch <=> touch' = NoTouch
      <4>1. touch = NoTouch => touch' = NoTouch
        BY <3>1, NoTouchInRedis
      <4>2. touch' = NoTouch => touch'.tenant = None
        BY DEF NoTouch
      <4>3. QED
        BY <3>1, <4>1, <4>2 DEF IInv, TypeOK
    <3>3. QED
      BY <1>2, <3>1, <3>2 DEF IInv, TypeOK, RedisRestarts, watchdog
  <2>2. MarksCover'
    BY <1>2 DEF IInv, TypeOK, RedisRestarts, MarksCover
  <2>3. ActiveIsPast'
    BY <1>2 DEF IInv, RedisRestarts, ActiveIsPast
  <2>4. TouchIsOrdered'
    <3>1. touch' = [touch EXCEPT !.inRedis = FALSE]
      BY <1>2 DEF RedisRestarts
    <3>2. touch' # NoTouch => touch # NoTouch
      BY <3>1, NoTouchInRedis
    <3>3. QED
      BY <1>2, <3>1, <3>2 DEF IInv, TypeOK, RedisRestarts, TouchIsOrdered
  <2>5. QED
    BY <2>1, <2>2, <2>3, <2>4 DEF IInv
<1>3. ASSUME NEW d \in Tenants, MarkerExpires(d) PROVE IInv'
  <2>1. TypeOK'
    BY <1>3 DEF IInv, TypeOK, MarkerExpires, watchdog, Marks
  <2>2. MarksCover'
    BY <1>3 DEF IInv, TypeOK, MarkerExpires, MarksCover, NotOlder
  <2>3. ActiveIsPast'
    BY <1>3 DEF IInv, MarkerExpires, ActiveIsPast
  <2>4. TouchIsOrdered'
    BY <1>3, Touching DEF IInv, TypeOK, MarkerExpires, TouchIsOrdered, NotOlder
  <2>5. QED
    BY <2>1, <2>2, <2>3, <2>4 DEF IInv
<1>4. ASSUME NEW c \in Containers, Start(c) PROVE IInv'
  <2>1. TypeOK'
    BY <1>4 DEF IInv, TypeOK, Start, gateway, watchdog
  <2>2. QED
    BY <1>4, <2>1 DEF IInv, Start, gateway, MarksCover, ActiveIsPast, TouchIsOrdered
<1>5. CASE Tick
  <2>1. TypeOK'
    BY <1>5, TimeAssumption DEF IInv, TypeOK, Tick, gateway, watchdog
  <2>2. MarksCover'
    BY <1>5 DEF IInv, Tick, gateway, MarksCover
  <2>3. ActiveIsPast'
    BY <1>5, TimeAssumption DEF IInv, TypeOK, Tick, gateway, ActiveIsPast, Marks
  <2>4. TouchIsOrdered'
    BY <1>5, TimeAssumption DEF IInv, TypeOK, Tick, gateway, TouchIsOrdered
  <2>5. QED
    BY <2>1, <2>2, <2>3, <2>4 DEF IInv
<1>6. QED
  BY <1>1, <1>2, <1>3, <1>4, <1>5 DEF Environment

LEMMA LoopInv ==
    ASSUME IInv, Loop
    PROVE  IInv'
<1>1. UNCHANGED <<now, gateway>>
  BY DEF Loop, StartTick, List, ListFails, Judge, Stop, StopFails, EndTick
<1>2. /\ up' \subseteq Containers /\ pc' \in {"asleep", "started", "listed"} /\ tickAt' \in 0..now'
      /\ todo' \subseteq Containers /\ victim' \in todo' \cup {None}
      /\ fresh' \subseteq Tenants
      /\ pc' # "listed" => todo' = {}
  <2>1. CASE StartTick
    BY <2>1, TimeAssumption DEF IInv, TypeOK, StartTick
  <2>2. CASE List
    BY <2>2 DEF IInv, TypeOK, List, gateway
  <2>3. CASE ListFails
    BY <2>3 DEF IInv, TypeOK, ListFails, gateway
  <2>4. ASSUME NEW c \in Containers, Judge(c)
        PROVE  /\ up' \subseteq Containers /\ pc' \in {"asleep", "started", "listed"} /\ tickAt' \in 0..now'
               /\ todo' \subseteq Containers /\ victim' \in todo' \cup {None}
               /\ fresh' \subseteq Tenants
               /\ pc' # "listed" => todo' = {}
    BY <2>4 DEF IInv, TypeOK, Judge, gateway
  <2>5. CASE Stop \/ StopFails
    BY <2>5 DEF IInv, TypeOK, Stop, StopFails, gateway
  <2>6. CASE EndTick
    BY <2>6 DEF IInv, TypeOK, EndTick, gateway
  <2>7. QED
    BY <2>1, <2>2, <2>3, <2>4, <2>5, <2>6 DEF Loop
<1>3. TypeOK'
  BY <1>1, <1>2 DEF IInv, TypeOK, gateway
<1>4. MarksCover' /\ ActiveIsPast' /\ TouchIsOrdered'
  BY <1>1 DEF IInv, gateway, MarksCover, ActiveIsPast, TouchIsOrdered
<1>5. QED
  BY <1>3, <1>4 DEF IInv

LEMMA NextInv == IInv /\ [Next]_vars => IInv'
<1> SUFFICES ASSUME IInv, [Next]_vars PROVE IInv'
  OBVIOUS
<1>1. CASE Gateway
  BY <1>1, SetMarkerInv, OpenFileInv, WriteFileInv, FileFailsInv, GatewayDiesInv DEF Gateway
<1>2. CASE Environment
  BY <1>2, EnvironmentInv
<1>3. CASE Loop
  BY <1>3, LoopInv
<1>4. CASE UNCHANGED vars
  <2>1. TypeOK'
    BY <1>4 DEF IInv, TypeOK, vars, gateway, watchdog
  <2>2. QED
    BY <1>4, <2>1 DEF IInv, vars, gateway, MarksCover, ActiveIsPast, TouchIsOrdered
<1>5. QED
  BY <1>1, <1>2, <1>3, <1>4 DEF Next

LEMMA Invariance == Spec => []IInv
<1>1. QED
  BY InitInv, NextInv, PTL DEF Spec

-----------------------------------------------------------------------------
(* The theorems.                                                           *)

\* The markers, the touch of the gateway and the state of a tick keep their
\* types; a victim is one of the tick's list.
THEOREM TypeCorrect == Spec => []TypeOK
<1>1. IInv => TypeOK
  BY DEF IInv
<1>2. QED
  BY <1>1, Invariance, PTL

\* What the watchdog picks is idle, by the marker it read.
LEMMA PickIsIdle ==
  ASSUME IInv, NEW c \in Containers, Judge(c), victim' = c, TenantOf[c] \notin dropped
  PROVE  ~Recent(active[TenantOf[c]])
<1>1. c # None
  BY NoneAssumption
<1>2. PICK answers \in BOOLEAN : IsIdle(LastActive(TenantOf[c], answers))
  BY <1>1 DEF Judge
<1>3. TenantOf[c] \in Tenants
  BY LabelAssumption
<1>4. /\ redisMark[TenantOf[c]] \in Marks /\ fileMark[TenantOf[c]] \in Marks
      /\ active[TenantOf[c]] \in Marks /\ tickAt \in Int
  BY <1>3, TimeAssumption DEF IInv, TypeOK
<1>5. SUFFICES ASSUME active[TenantOf[c]] # None
               PROVE  ~(tickAt - active[TenantOf[c]] < IdleSeconds)
  BY DEF Recent
<1>6. /\ NotOlder(redisMark[TenantOf[c]], active[TenantOf[c]])
      /\ NotOlder(fileMark[TenantOf[c]], active[TenantOf[c]])
  BY <1>3, <1>5 DEF IInv, MarksCover
<1>7. QED
  BY <1>2, <1>4, <1>5, <1>6, TimeAssumption DEF IsIdle, LastActive, NotOlder, Marks

\* Only a judgement names a victim.
LEMMA OnlyJudgesPick ==
  ASSUME Next, victim' # victim, victim' # None
  PROVE  victim' \in Containers /\ Judge(victim')
<1>1. Loop
  BY DEF Next, Gateway, Environment, SetMarker, OpenFile, WriteFile, FileFails,
         GatewayDies, RedisSaves, RedisRestarts, MarkerExpires, Start, Tick, watchdog
<1>2. ASSUME NEW k \in Containers, Judge(k) PROVE victim' = k
  BY <1>2 DEF Judge
<1>3. QED
  BY <1>1, <1>2 DEF Loop, StartTick, List, ListFails, Stop, StopFails, EndTick

\* No container of a tenant that was marked active within the idle time before
\* the tick is picked to be stopped, whichever store the watchdog reads and
\* whatever the gateway, Redis and the clock do between its reads.
THEOREM OnlyIdleArePicked == Spec => PicksOnlyIdle
<1>1. ASSUME IInv, Next, NEW c \in Containers,
             victim # c, victim' = c, TenantOf[c] \notin dropped
      PROVE  ~Recent(active[TenantOf[c]])
  BY <1>1, OnlyJudgesPick, PickIsIdle, NoneAssumption
<1>2. IInv /\ [Next]_vars =>
        [\A c \in Containers :
            victim # c /\ victim' = c /\ TenantOf[c] \notin dropped
              => ~Recent(active[TenantOf[c]])]_vars
  BY <1>1
<1>3. QED
  BY <1>2, Invariance, PTL DEF Spec, PicksOnlyIdle

\* Until it is stopped a victim remains idle, but for a marking that completed
\* since it was picked, and for the markers that Redis lost meanwhile.
VictimWasIdle ==
    victim # None /\ TenantOf[victim] \notin dropped \cup fresh
        => ~Recent(active[TenantOf[victim]])

LEMMA VictimStep == IInv /\ VictimWasIdle /\ [Next]_vars => VictimWasIdle'
<1> SUFFICES ASSUME IInv, VictimWasIdle, [Next]_vars, NEW c, victim' = c, c # None,
                    TenantOf[c] \notin dropped' \cup fresh'
             PROVE  ~Recent(active[TenantOf[c]])'
  BY DEF VictimWasIdle
<1>1. CASE victim' # victim
  <2>1. Next /\ c \in Containers /\ Judge(c)
    BY <1>1, OnlyJudgesPick DEF vars, watchdog
  <2>2. UNCHANGED <<tickAt, active, dropped>>
    BY <2>1 DEF Judge, gateway
  <2>3. QED
    BY <2>1, <2>2, PickIsIdle DEF Recent
<1>2. CASE victim' = victim
  <2>1. c # None /\ TenantOf[c] \in Tenants /\ pc = "listed" /\ c = victim
    BY <1>2, LabelAssumption DEF IInv, TypeOK
  <2>2. CASE Gateway
    <3>1. tickAt' = tickAt
      BY <2>2 DEF Gateway, SetMarker, OpenFile, WriteFile, FileFails, GatewayDies, watchdog
    <3>2. ASSUME NEW inFile \in BOOLEAN, Done(inFile), touch # NoTouch
          PROVE  /\ active'[TenantOf[c]] = active[TenantOf[c]]
                 /\ TenantOf[c] \notin dropped \cup fresh
      <4>1. /\ active' = [active EXCEPT ![touch.tenant] = touch.began]
            /\ fresh' = fresh \cup {touch.tenant}
            /\ \A d \in Tenants : d # touch.tenant => (d \in dropped' <=> d \in dropped)
        BY <2>1, <3>2 DEF Done
      <4>2. TypeOK /\ TenantOf[c] # touch.tenant
        BY <4>1 DEF IInv
      <4>3. QED
        BY <2>1, <4>1, <4>2 DEF TypeOK
    <3>3. CASE UNCHANGED <<active, dropped, fresh>>
      BY <2>1, <3>1, <3>3 DEF VictimWasIdle, Recent
    <3>4. CASE WriteFile \/ FileFails
      <4>1. WriteFile => touch # NoTouch
        BY DEF WriteFile, NoTouch
      <4>2. WriteFile => Done(TRUE)
        BY DEF WriteFile
      <4>3. FileFails => touch # NoTouch /\ Done(FALSE)
        BY DEF FileFails
      <4>4. QED
        BY <2>1, <3>1, <3>2, <3>4, <4>1, <4>2, <4>3 DEF VictimWasIdle, Recent
    <3>5. QED
      BY <2>2, <3>3, <3>4 DEF Gateway, SetMarker, OpenFile, GatewayDies, watchdog
  <2>3. CASE Environment
    <3>1. UNCHANGED <<tickAt, active, fresh>> /\ dropped \subseteq dropped'
      BY <2>3 DEF Environment, RedisSaves, RedisRestarts, MarkerExpires, Start, Tick,
                  watchdog, gateway
    <3>2. QED
      BY <2>1, <3>1 DEF VictimWasIdle, Recent
  <2>4. CASE Loop
    <3>1. UNCHANGED <<tickAt, active, dropped, fresh>>
      BY <1>2, <2>1, <2>4, NoneAssumption
      DEF Loop, StartTick, List, ListFails, Judge, Stop, StopFails, EndTick, gateway
    <3>2. QED
      BY <2>1, <3>1 DEF VictimWasIdle, Recent
  <2>5. CASE UNCHANGED vars
    BY <2>1, <2>5 DEF vars, gateway, watchdog, VictimWasIdle, Recent
  <2>6. QED
    BY <2>2, <2>3, <2>4, <2>5 DEF Next
<1>3. QED
  BY <1>1, <1>2

\* No container is stopped under a tenant that was marked active within the idle
\* time before the tick, unless by a marking between the pick and docker stop.
THEOREM OnlyIdleAreStopped == Spec => StopsOnlyIdle
<1>1. Init => VictimWasIdle
  BY DEF Init, VictimWasIdle
<1>2. ASSUME IInv, VictimWasIdle, Next, NEW c \in up \ up',
             TenantOf[c] \notin dropped \cup fresh
      PROVE  ~Recent(active[TenantOf[c]])
  <2>1. Stop
    BY <1>2 DEF Next, Gateway, Environment, Loop, SetMarker, OpenFile, WriteFile, FileFails,
                GatewayDies, RedisSaves, RedisRestarts, MarkerExpires, Start, Tick,
                StartTick, List, ListFails, Judge, StopFails, EndTick, gateway
  <2>2. victim # None /\ c = victim
    BY <1>2, <2>1 DEF Stop
  <2>3. QED
    BY <1>2, <2>2 DEF VictimWasIdle
<1>3. IInv /\ VictimWasIdle /\ [Next]_vars =>
        [\A c \in up \ up' :
            TenantOf[c] \notin dropped \cup fresh => ~Recent(active[TenantOf[c]])]_vars
  BY <1>2
<1>4. QED
  BY <1>1, <1>3, VictimStep, Invariance, PTL DEF Spec, StopsOnlyIdle
=============================================================================
