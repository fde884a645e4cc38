-------------------------- MODULE RateLimitProofs --------------------------
(***************************************************************************)
(* Proofs about RateLimit and Quota, for every number of processes, every  *)
(* window, TTL margin and limit.                                           *)
(***************************************************************************)
EXTENDS Quota, FiniteSetTheorems, WellFoundedInduction, TLAPS

\* A check in progress has one process to itself and no answer yet.
OneCheckPerRequest ==
    /\ \A p \in Procs : cur[p] # None => outcome[cur[p]] = "none"
    /\ \A p, q \in Procs : cur[p] # None /\ cur[p] = cur[q] => p = q

\* No check carries a clock reading from the future.
StampsArePast == \A r \in Requests : stamp[r] <= now

\* Every process that has counted and not yet added keeps its place.
QuotaWithPending ==
    Cardinality(zset) + Cardinality(Pending) <= MaxLimit + Cardinality(Procs) - 1

\* An admitted request is a member, was lost by Redis, or has left the window.
AdmittedIsAccounted ==
    \A r \in Requests :
        configured /\ outcome[r] = "admitted" /\ r \notin forgotten
            => r \in zset \/ stamp[r] <= now - Window

\* The key outlives every member's stay in the window.
TtlCoversMembers == \A r \in zset : stamp[r] + Window <= expireAt

\* Members are requests that were added, and adding ends a check.
MembersWereAdded ==
    /\ zset \subseteq added
    /\ \A r \in added : outcome[r] \in {"admitted", "failed"}

IInv ==
    /\ TypeOK
    /\ OneCheckPerRequest
    /\ StampsArePast
    /\ QuotaWithPending
    /\ AdmittedIsAccounted
    /\ TtlCoversMembers
    /\ MembersWereAdded

-----------------------------------------------------------------------------
LEMMA ProcsCardinality == Cardinality(Procs) \in Nat /\ Cardinality(Procs) >= 1
BY ProcsAssumption, FS_CardinalityType, FS_EmptySet

\* The sets of requests and processes the model builds are finite.
LEMMA SubsetFacts ==
  /\ \A S \in SUBSET Requests : IsFiniteSet(S) /\ Cardinality(S) \in Nat
  /\ \A S \in SUBSET Procs : /\ IsFiniteSet(S)
                             /\ Cardinality(S) \in Nat
                             /\ Cardinality(S) <= Cardinality(Procs)
<1>1. \A S \in SUBSET Requests : IsFiniteSet(S)
  BY RequestsAssumption, FS_Subset
<1>2. \A S \in SUBSET Procs : IsFiniteSet(S) /\ Cardinality(S) <= Cardinality(Procs)
  BY ProcsAssumption, FS_Subset
<1>3. QED
  BY <1>1, <1>2, FS_CardinalityType

LEMMA Monotone ==
  ASSUME NEW T \in SUBSET Requests, NEW S \in SUBSET T
  PROVE  Cardinality(S) <= Cardinality(T)
BY SubsetFacts, FS_Subset

\* Trimming takes members out, and keeps those inside the window.
LEMMA TrimmedFacts ==
  ASSUME TypeOK, NEW s \in Nat
  PROVE  /\ Trimmed(s) \subseteq zset
         /\ \A r \in zset : r \in Trimmed(s) <=> stamp[r] > s - Window
BY DEF Trimmed, TypeOK

-----------------------------------------------------------------------------
LEMMA TypeInit == Init => TypeOK
BY LimitAssumption DEF Init, TypeOK, Phases, Outcomes

LEMMA TypeStep == TypeOK /\ [Next]_vars => TypeOK'
<1> SUFFICES ASSUME TypeOK, [Next]_vars PROVE TypeOK'
  OBVIOUS
<1> USE DEF TypeOK, Phases, Outcomes
<1>1. ASSUME NEW p \in Procs, NEW r \in Requests, NEW l \in 0..MaxLimit, AnswerAtOnce(p, r, l)
      PROVE  TypeOK'
  BY <1>1 DEF AnswerAtOnce, redis
<1>2. ASSUME NEW p \in Procs, NEW r \in Requests, NEW l \in 0..MaxLimit, Stamp(p, r, l)
      PROVE  TypeOK'
  BY <1>2, NoneAssumption DEF Stamp, redis
<1>3. ASSUME NEW p \in Procs, TrimAndCount(p) PROVE TypeOK'
  BY <1>3 DEF TrimAndCount, Trimmed
<1>4. ASSUME NEW p \in Procs, Deny(p) PROVE TypeOK'
  BY <1>4, TimeAssumption DEF Deny, Return, Ttl
<1>5. ASSUME NEW p \in Procs, Add(p) PROVE TypeOK'
  BY <1>5, TimeAssumption DEF Add, Return, Ttl
<1>6. ASSUME NEW p \in Procs, Fail(p) PROVE TypeOK'
  BY <1>6 DEF Fail, Return, redis
<1>7. CASE Server
  BY <1>7 DEF Server, ExpireKey, RedisDown, RedisUp
<1>8. CASE Tick
  BY <1>8 DEF Tick, redis
<1>9. CASE UNCHANGED vars
  BY <1>9 DEF vars
<1>10. QED
  BY <1>1, <1>2, <1>3, <1>4, <1>5, <1>6, <1>7, <1>8, <1>9 DEF Next, Check

\* Every reachable state of the limiter has the types it should have, and a
\* process is inside check_rpm exactly when it holds a request.
THEOREM TypeCorrect == Spec => []TypeOK
BY TypeInit, TypeStep, PTL DEF Spec

-----------------------------------------------------------------------------
LEMMA IInit == Init => IInv
<1> SUFFICES ASSUME Init PROVE IInv
  OBVIOUS
<1>1. TypeOK
  BY TypeInit
<1>2. zset = {} /\ added = {} /\ Pending = {}
  BY DEF Init, Pending
<1>3. QuotaWithPending
  BY <1>2, FS_EmptySet, ProcsCardinality, LimitAssumption DEF QuotaWithPending
<1>4. OneCheckPerRequest /\ StampsArePast /\ AdmittedIsAccounted
  BY DEF Init, OneCheckPerRequest, StampsArePast, AdmittedIsAccounted
<1>5. TtlCoversMembers /\ MembersWereAdded
  BY <1>2 DEF TtlCoversMembers, MembersWereAdded
<1>6. QED
  BY <1>1, <1>3, <1>4, <1>5 DEF IInv

\* A check that begins reads the present clock and is the only one of its
\* request.
LEMMA StampStep ==
  ASSUME IInv, NEW p \in Procs, NEW r \in Requests, NEW l \in 0..MaxLimit, Stamp(p, r, l)
  PROVE  IInv'
<1> USE DEF Stamp, redis
<1>1. TypeOK /\ TypeOK'
  BY TypeStep DEF IInv, Next, Check
<1>2. Fresh(r) /\ cur[p] = None
  BY <1>1 DEF TypeOK
<1>3. OneCheckPerRequest'
  BY <1>1, <1>2 DEF IInv, OneCheckPerRequest, Fresh, TypeOK
<1>4. StampsArePast'
  BY <1>1 DEF IInv, StampsArePast, TypeOK
<1>5. QuotaWithPending'
  <2>1. Pending' = Pending
    BY <1>1 DEF Pending, TypeOK
  <2>2. QED
    BY <2>1 DEF IInv, QuotaWithPending
<1>6. r \notin zset
  BY <1>2 DEF IInv, MembersWereAdded, Fresh
<1>7. AdmittedIsAccounted'
  BY <1>1, <1>2 DEF IInv, AdmittedIsAccounted, Fresh, TypeOK
<1>8. TtlCoversMembers' /\ MembersWereAdded'
  BY <1>1, <1>6 DEF IInv, TtlCoversMembers, MembersWereAdded, TypeOK
<1>9. QED
  BY <1>1, <1>3, <1>4, <1>5, <1>7, <1>8 DEF IInv

\* Counting: the process joins Pending only below its limit, so the set was
\* small enough to leave room for every process.
LEMMA CountStep ==
  ASSUME IInv, NEW p \in Procs, TrimAndCount(p)
  PROVE  IInv'
<1> USE DEF TrimAndCount
<1>1. TypeOK /\ TypeOK'
  BY TypeStep DEF IInv, Next, Check
<1>2. cur[p] \in Requests /\ stamp[cur[p]] \in Nat /\ stamp[cur[p]] <= now
  BY <1>1 DEF IInv, StampsArePast, TypeOK
<1>3. zset' \subseteq zset /\ zset \subseteq Requests
  BY <1>1, <1>2, TrimmedFacts DEF TypeOK
<1>4. OneCheckPerRequest' /\ StampsArePast'
  BY DEF IInv, OneCheckPerRequest, StampsArePast
<1>5. TtlCoversMembers' /\ MembersWereAdded'
  BY <1>3 DEF IInv, TtlCoversMembers, MembersWereAdded
<1>6. AdmittedIsAccounted'
  <2>1. ASSUME NEW r \in zset, r \notin zset'
        PROVE  stamp[r] <= now - Window
    <3>1. stamp[r] \in Nat /\ now \in Nat
      BY <1>1, <1>3 DEF TypeOK
    <3>2. ~(stamp[r] > stamp[cur[p]] - Window)
      BY <1>1, <1>2, <2>1, TrimmedFacts
    <3>3. QED
      BY <1>2, <3>1, <3>2, TimeAssumption
  <2>2. QED
    BY <2>1 DEF IInv, AdmittedIsAccounted
<1>7. QuotaWithPending'
  <2>1. Pending \in SUBSET Procs /\ Pending' \in SUBSET Procs
    BY DEF Pending
  <2>2. /\ Cardinality(zset') \in Nat /\ Cardinality(zset) \in Nat
        /\ Cardinality(zset') <= Cardinality(zset)
    BY <1>3, SubsetFacts, Monotone
  <2>3. Cardinality(Pending) \in Nat /\ Cardinality(Pending') \in Nat
    BY <2>1, SubsetFacts
  <2>4. CASE Admits(Cardinality(zset'), lim[p])
    <3>1. Cardinality(zset') < lim[p] /\ lim[p] \in Nat /\ lim[p] <= MaxLimit
      BY <1>1, <2>4, LimitAssumption DEF Admits, TypeOK
    <3>2. Cardinality(Pending') <= Cardinality(Procs)
      BY <2>1, SubsetFacts
    <3>3. QED
      BY <2>2, <2>3, <3>1, <3>2, ProcsCardinality, LimitAssumption DEF QuotaWithPending
  <2>5. CASE ~Admits(Cardinality(zset'), lim[p])
    <3>1. Pending' = Pending
      BY <1>1, <2>5 DEF Pending, TypeOK, Phases
    <3>2. QED
      BY <2>2, <2>3, <3>1, ProcsCardinality, LimitAssumption DEF IInv, QuotaWithPending
  <2>6. QED
    BY <2>4, <2>5
<1>8. QED
  BY <1>1, <1>4, <1>5, <1>6, <1>7 DEF IInv

-----------------------------------------------------------------------------
\* What the end of a check leaves of the invariant, whatever its answer.
LEMMA ReturnFacts ==
  ASSUME IInv, TypeOK', NEW p \in Procs, cur[p] # None, NEW o \in Outcomes \ {"none"}, Return(p, o)
  PROVE  /\ OneCheckPerRequest'
         /\ StampsArePast'
         /\ \A r \in added : r # cur[p]
         /\ \A r \in Requests \ {cur[p]} : outcome'[r] = outcome[r]
         /\ cur[p] \in Requests /\ outcome'[cur[p]] = o
<1> USE DEF Return
<1>1. TypeOK
  BY DEF IInv
<1>2. cur[p] \in Requests /\ outcome'[cur[p]] = o
  BY <1>1 DEF TypeOK
<1>3. \A r \in Requests \ {cur[p]} : outcome'[r] = outcome[r]
  BY <1>1 DEF TypeOK
<1>4. OneCheckPerRequest'
  <2>1. \A q \in Procs : cur'[q] # None => q # p /\ cur'[q] = cur[q]
    BY <1>1 DEF TypeOK
  <2>2. \A q \in Procs : cur'[q] # None => cur[q] # cur[p] /\ cur[q] \in Requests
    BY <1>1, <2>1 DEF IInv, OneCheckPerRequest, TypeOK
  <2>3. QED
    BY <1>3, <2>1, <2>2 DEF IInv, OneCheckPerRequest
<1>5. StampsArePast'
  BY DEF IInv, StampsArePast
<1>6. \A r \in added : r # cur[p]
  BY DEF IInv, OneCheckPerRequest, MembersWereAdded
<1>7. QED
  BY <1>2, <1>3, <1>4, <1>5, <1>6

LEMMA DenyStep ==
  ASSUME IInv, NEW p \in Procs, Deny(p)
  PROVE  IInv'
<1> USE DEF Deny
<1>1. TypeOK /\ TypeOK'
  BY TypeStep DEF IInv, Next, Check
<1>2. cur[p] # None
  BY <1>1 DEF TypeOK
<1>3. /\ OneCheckPerRequest' /\ StampsArePast'
      /\ \A r \in added : r # cur[p]
      /\ \A r \in Requests \ {cur[p]} : outcome'[r] = outcome[r]
      /\ outcome'[cur[p]] = "denied"
  BY <1>1, <1>2, ReturnFacts DEF Outcomes
<1>4. QuotaWithPending'
  <2>1. Pending' = Pending
    BY <1>1 DEF Pending, Return, TypeOK
  <2>2. QED
    BY <2>1 DEF IInv, QuotaWithPending
<1>5. AdmittedIsAccounted'
  BY <1>3 DEF IInv, AdmittedIsAccounted, Return
<1>6. TtlCoversMembers'
  <2>1. \A r \in zset : stamp[r] \in Nat /\ stamp[r] <= now /\ now \in Nat
    BY <1>1 DEF IInv, StampsArePast, TypeOK
  <2>2. QED
    BY <2>1, TimeAssumption DEF IInv, TtlCoversMembers, Return, Ttl
<1>7. MembersWereAdded'
  BY <1>1, <1>3 DEF IInv, MembersWereAdded, TypeOK
<1>8. QED
  BY <1>1, <1>3, <1>4, <1>5, <1>6, <1>7 DEF IInv

\* Adding: the process gives up its place in Pending for a member of the set.
LEMMA AddStep ==
  ASSUME IInv, NEW p \in Procs, Add(p)
  PROVE  IInv'
<1> USE DEF Add
<1>1. TypeOK /\ TypeOK'
  BY TypeStep DEF IInv, Next, Check
<1>2. cur[p] # None /\ cur[p] \in Requests
  BY <1>1 DEF TypeOK
<1>3. PICK o \in {"admitted", "failed"} : Return(p, o)
  OBVIOUS
<1>4. /\ OneCheckPerRequest' /\ StampsArePast'
      /\ \A r \in added : r # cur[p]
      /\ \A r \in Requests \ {cur[p]} : outcome'[r] = outcome[r]
      /\ outcome'[cur[p]] = o
  BY <1>1, <1>2, <1>3, ReturnFacts DEF Outcomes
<1>5. QuotaWithPending'
  <2>1. p \in Pending /\ Pending' = Pending \ {p}
    BY <1>1, <1>3 DEF Pending, Return, TypeOK
  <2>2. Cardinality(Pending) \in Nat /\ IsFiniteSet(Pending)
    BY SubsetFacts DEF Pending
  <2>3. Cardinality(Pending') = Cardinality(Pending) - 1
    BY <2>1, <2>2, FS_RemoveElement
  <2>4. zset \in SUBSET Requests /\ Cardinality(zset) \in Nat /\ IsFiniteSet(zset)
    BY <1>1, SubsetFacts DEF TypeOK
  <2>5. Cardinality(zset') = Cardinality(zset) + 1
    <3>1. cur[p] \notin zset
      BY <1>4 DEF IInv, MembersWereAdded
    <3>2. QED
      BY <2>4, <3>1, FS_AddElement
  <2>6. QED
    BY <2>2, <2>3, <2>4, <2>5 DEF IInv, QuotaWithPending
<1>6. AdmittedIsAccounted'
  BY <1>3, <1>4 DEF IInv, AdmittedIsAccounted, Return
<1>7. TtlCoversMembers'
  <2>1. \A r \in zset \cup {cur[p]} : stamp[r] \in Nat /\ stamp[r] <= now /\ now \in Nat
    BY <1>1, <1>2 DEF IInv, StampsArePast, TypeOK
  <2>2. QED
    BY <1>3, <2>1, TimeAssumption DEF TtlCoversMembers, Return, Ttl
<1>8. MembersWereAdded'
  BY <1>1, <1>4 DEF IInv, MembersWereAdded, TypeOK
<1>9. QED
  BY <1>1, <1>4, <1>5, <1>6, <1>7, <1>8 DEF IInv

LEMMA FailStep ==
  ASSUME IInv, NEW p \in Procs, Fail(p)
  PROVE  IInv'
<1> USE DEF Fail, redis
<1>1. TypeOK /\ TypeOK'
  BY TypeStep DEF IInv, Next, Check
<1>2. cur[p] # None
  BY <1>1 DEF TypeOK
<1>3. /\ OneCheckPerRequest' /\ StampsArePast'
      /\ \A r \in added : r # cur[p]
      /\ \A r \in Requests \ {cur[p]} : outcome'[r] = outcome[r]
      /\ outcome'[cur[p]] = "failed"
  BY <1>1, <1>2, ReturnFacts DEF Outcomes
<1>4. QuotaWithPending'
  <2>1. Pending \in SUBSET Procs /\ Pending' \in SUBSET Pending
    BY <1>1 DEF Pending, Return, TypeOK
  <2>2. /\ Cardinality(Pending) \in Nat /\ Cardinality(Pending') \in Nat
        /\ Cardinality(Pending') <= Cardinality(Pending)
    BY <2>1, SubsetFacts, FS_Subset
  <2>3. Cardinality(zset) \in Nat
    BY <1>1, SubsetFacts DEF TypeOK
  <2>4. QED
    BY <2>2, <2>3, ProcsCardinality, LimitAssumption DEF IInv, QuotaWithPending
<1>5. AdmittedIsAccounted'
  BY <1>3 DEF IInv, AdmittedIsAccounted, Return
<1>6. TtlCoversMembers' /\ MembersWereAdded'
  BY <1>1, <1>3 DEF IInv, TtlCoversMembers, MembersWereAdded, Return, TypeOK
<1>7. QED
  BY <1>1, <1>3, <1>4, <1>5, <1>6 DEF IInv

-----------------------------------------------------------------------------
\* The answers given before any round trip concern a request without member.
LEMMA AnswerAtOnceStep ==
  ASSUME IInv, NEW p \in Procs, NEW r \in Requests, NEW l \in 0..MaxLimit, AnswerAtOnce(p, r, l)
  PROVE  IInv'
<1> USE DEF AnswerAtOnce, redis
<1>1. TypeOK /\ TypeOK'
  BY TypeStep DEF IInv, Next, Check
<1>2. /\ \A q \in Procs : cur[q] # r
      /\ r \notin added
      /\ \A s \in Requests \ {r} : outcome'[s] = outcome[s]
      /\ outcome'[r] \in {"denied", "admitted"}
      /\ configured => outcome'[r] = "denied"
  BY <1>1 DEF IInv, MembersWereAdded, Fresh, TypeOK
<1>3. OneCheckPerRequest'
  BY <1>1, <1>2 DEF IInv, OneCheckPerRequest, TypeOK
<1>4. QuotaWithPending'
  BY DEF IInv, QuotaWithPending, Pending
<1>5. AdmittedIsAccounted'
  BY <1>2 DEF IInv, AdmittedIsAccounted
<1>6. StampsArePast' /\ TtlCoversMembers' /\ MembersWereAdded'
  BY <1>1, <1>2 DEF IInv, StampsArePast, TtlCoversMembers, MembersWereAdded, TypeOK
<1>7. QED
  BY <1>1, <1>3, <1>4, <1>5, <1>6 DEF IInv

\* Redis only ever takes members away: those the TTL drops have left the
\* window, and those a restart loses are in the history variable.
LEMMA ServerStep ==
  ASSUME IInv, Server
  PROVE  IInv'
<1>1. TypeOK /\ TypeOK'
  BY TypeStep DEF IInv, Next
<1>2. /\ zset' \subseteq zset /\ zset \subseteq Requests
      /\ UNCHANGED <<now, configured, expireAt, phase, cur, lim, stamp, outcome, added>>
  BY <1>1 DEF Server, ExpireKey, RedisDown, RedisUp, TypeOK
<1>3. OneCheckPerRequest' /\ StampsArePast' /\ TtlCoversMembers' /\ MembersWereAdded'
  BY <1>2 DEF IInv, OneCheckPerRequest, StampsArePast, TtlCoversMembers, MembersWereAdded
<1>4. QuotaWithPending'
  <2>1. Pending' = Pending /\ Cardinality(Pending) \in Nat
    BY <1>2, SubsetFacts DEF Pending
  <2>2. /\ Cardinality(zset') \in Nat /\ Cardinality(zset) \in Nat
        /\ Cardinality(zset') <= Cardinality(zset)
    BY <1>2, SubsetFacts, Monotone
  <2>3. QED
    BY <2>1, <2>2, ProcsCardinality, LimitAssumption DEF IInv, QuotaWithPending
<1>5. AdmittedIsAccounted'
  <2>1. CASE ExpireKey
    <3>1. \A r \in zset : stamp[r] \in Nat /\ stamp[r] + Window <= now
      BY <1>1, <2>1, TimeAssumption DEF IInv, TtlCoversMembers, ExpireKey, TypeOK
    <3>2. \A r \in zset : stamp[r] <= now - Window
      BY <1>1, <3>1, TimeAssumption DEF TypeOK
    <3>3. QED
      BY <2>1, <3>2 DEF IInv, AdmittedIsAccounted, ExpireKey
  <2>2. CASE RedisDown
    BY <2>2 DEF IInv, AdmittedIsAccounted, RedisDown
  <2>3. ASSUME NEW saved \in SUBSET zset, RedisUp(saved)
        PROVE  AdmittedIsAccounted'
    BY <2>3 DEF IInv, AdmittedIsAccounted, RedisUp
  <2>4. QED
    BY <2>1, <2>2, <2>3 DEF Server
<1>6. QED
  BY <1>1, <1>3, <1>4, <1>5 DEF IInv

LEMMA TickStep ==
  ASSUME IInv, Tick
  PROVE  IInv'
<1> USE DEF Tick, redis
<1>1. TypeOK /\ TypeOK'
  BY TypeStep DEF IInv, Next
<1>2. now \in Nat /\ now' = now + 1 /\ \A r \in Requests : stamp[r] \in Nat
  BY <1>1 DEF TypeOK
<1>3. StampsArePast'
  BY <1>2 DEF IInv, StampsArePast
<1>4. AdmittedIsAccounted'
  BY <1>2, TimeAssumption DEF IInv, AdmittedIsAccounted
<1>5. OneCheckPerRequest' /\ QuotaWithPending' /\ TtlCoversMembers' /\ MembersWereAdded'
  BY DEF IInv, OneCheckPerRequest, QuotaWithPending, Pending, TtlCoversMembers, MembersWereAdded
<1>6. QED
  BY <1>1, <1>3, <1>4, <1>5 DEF IInv

LEMMA InvStep == IInv /\ [Next]_vars => IInv'
<1> SUFFICES ASSUME IInv, [Next]_vars PROVE IInv'
  OBVIOUS
<1>1. CASE UNCHANGED vars
  <2>1. TypeOK'
    BY TypeStep DEF IInv
  <2>2. QED
    BY <1>1, <2>1 DEF IInv, vars, OneCheckPerRequest, StampsArePast, QuotaWithPending,
       Pending, AdmittedIsAccounted, TtlCoversMembers, MembersWereAdded
<1>2. CASE Next
  BY <1>2, AnswerAtOnceStep, StampStep, CountStep, DenyStep, AddStep, FailStep,
     ServerStep, TickStep DEF Next, Check
<1>3. QED
  BY <1>1, <1>2

THEOREM Invariant == Spec => []IInv
BY IInit, InvStep, PTL DEF Spec

-----------------------------------------------------------------------------
\* No live request is missing from the sorted set.
THEOREM NothingLiveDropped == Spec => []NothingLiveIsDropped
<1>1. IInv => NothingLiveIsDropped
  <2> SUFFICES ASSUME IInv, NEW r \in Live PROVE r \in zset
    BY DEF NothingLiveIsDropped
  <2>1. stamp[r] \in Nat /\ now \in Nat /\ stamp[r] > now - Window
    BY DEF Live, Inside, IInv, TypeOK
  <2>2. ~(stamp[r] <= now - Window)
    BY <2>1, TimeAssumption
  <2>3. QED
    BY <2>2 DEF IInv, AdmittedIsAccounted, Live
<1>2. QED
  BY <1>1, Invariant, PTL

\* A set of limits has a largest one: mirrored at MaxLimit, it has a least.
LEMMA LargestExists ==
  ASSUME NEW T \in SUBSET (0..MaxLimit), T # {}
  PROVE  Max(T) \in T /\ \A l \in T : Max(T) >= l
<1> DEFINE Mirror == {MaxLimit - l : l \in T}
<1>1. Mirror \subseteq Nat /\ Mirror # {}
  BY LimitAssumption
<1> HIDE DEF Mirror
<1>2. PICK x \in Mirror : \A y \in Mirror : ~(<<y, x>> \in OpToRel(<, Nat))
  BY <1>1, NatLessThanWellFounded, WFMin
<1>3. \A y \in Mirror : ~(y < x)
  BY <1>1, <1>2 DEF OpToRel
<1>4. PICK m \in T : x = MaxLimit - m
  BY DEF Mirror
<1>5. \A l \in T : MaxLimit - l \in Mirror
  BY DEF Mirror
<1>6. \A l \in T : m >= l
  <2> SUFFICES ASSUME NEW l \in T PROVE m >= l
    OBVIOUS
  <2>1. ~(MaxLimit - l < MaxLimit - m)
    BY <1>3, <1>4, <1>5
  <2>2. QED
    BY <2>1, LimitAssumption
<1>7. QED
  BY <1>6 DEF Max

\* The limit of the detector is that of some row it does not skip, if there is
\* such a row, and 0 otherwise.
LEMMA LargestLimitIsOfRow ==
  ASSUME NEW rows \in SUBSET KeyRows
  PROVE  /\ LargestLimit(rows) \in 0..MaxLimit
         /\ Scanned(rows) # {} =>
               \E row \in rows : ~row.revoked /\ row.limit = LargestLimit(rows)
         /\ Scanned(rows) = {} => LargestLimit(rows) = 0
<1> DEFINE T == {0} \cup {row.limit : row \in Scanned(rows)}
<1>1. T \in SUBSET (0..MaxLimit) /\ T # {}
  BY LimitAssumption DEF Scanned, KeyRows
<1>2. LargestLimit(rows) \in T /\ \A l \in T : LargestLimit(rows) >= l
  BY <1>1, LargestExists DEF LargestLimit
<1>3. ASSUME NEW row \in Scanned(rows) PROVE row.limit \in T /\ row.limit >= 1
  BY LimitAssumption DEF Scanned, KeyRows
<1>4. ASSUME Scanned(rows) # {}
      PROVE  \E row \in rows : ~row.revoked /\ row.limit = LargestLimit(rows)
  <2>1. LargestLimit(rows) # 0
    BY <1>1, <1>2, <1>3, <1>4, LimitAssumption
  <2>2. QED
    BY <1>2, <2>1 DEF Scanned
<1>5. QED
  BY <1>1, <1>2, <1>4

\* A tenant that has used up the largest limit of its issued keys is reported
\* by the next scan, whatever these keys and their limits are.
THEOREM ExhaustionAlerted == Spec => []ExhaustionIsAlerted
<1>1. IInv /\ NothingLiveIsDropped => ExhaustionIsAlerted
  <2> SUFFICES ASSUME IInv, Live \subseteq zset, NEW rows \in SUBSET KeyRows, up,
                      \E row \in rows : ~row.revoked,
                      \A row \in rows : row.revoked \/ Cardinality(Live) >= row.limit
               PROVE  Severity(rows) = "critical"
    BY DEF NothingLiveIsDropped, ExhaustionIsAlerted
  <2> DEFINE l == LargestLimit(rows)
  <2>1. zset \in SUBSET Requests
    BY DEF IInv, TypeOK
  <2>2. /\ Cardinality(Live) \in Nat /\ Cardinality(zset) \in Nat
        /\ Cardinality(Live) <= Cardinality(zset)
    BY <2>1, SubsetFacts, Monotone DEF Live
  <2>3. l \in Nat /\ l >= 1 /\ Cardinality(Live) >= l
    <3>1. PICK row \in rows : ~row.revoked /\ row.limit = l
      BY LargestLimitIsOfRow DEF Scanned
    <3>2. QED
      BY <3>1, LimitAssumption DEF KeyRows
  <2> HIDE DEF l
  <2>4. (l * 9) \div 10 \in Int /\ (l * 9) \div 10 <= l
    BY <2>3
  <2>5. NearlyUsed(Cardinality(zset), l) /\ Cardinality(zset) >= l /\ l # 0
    BY <2>2, <2>3, <2>4 DEF NearlyUsed
  <2>6. configured
    <3>1. CASE ~configured
      <4>1. Live = {}
        BY <3>1 DEF Live
      <4>2. QED
        BY <2>3, <4>1, FS_EmptySet
    <3>2. QED
      BY <3>1
  <2>7. QED
    BY <2>5, <2>6 DEF Severity, l
<1>2. QED
  BY <1>1, Invariant, NothingLiveDropped, PTL

\* The window never holds more than the limit and one request for each further
\* process.
THEOREM WindowIsBounded == Spec => []WindowBound
<1>1. IInv /\ NothingLiveIsDropped => WindowBound
  <2> SUFFICES ASSUME IInv, Live \subseteq zset PROVE WindowBound
    BY DEF NothingLiveIsDropped
  <2>1. zset \in SUBSET Requests
    BY DEF IInv, TypeOK
  <2>2. /\ Cardinality(Live) \in Nat /\ Cardinality(zset) \in Nat
        /\ Cardinality(Live) <= Cardinality(zset)
    BY <2>1, SubsetFacts, Monotone DEF Live
  <2>3. Cardinality(Pending) \in Nat
    BY SubsetFacts DEF Pending
  <2>4. QED
    BY <2>2, <2>3, ProcsCardinality, LimitAssumption DEF IInv, QuotaWithPending, WindowBound
<1>2. QED
  BY <1>1, Invariant, NothingLiveDropped, PTL

\* With the single gateway process the compose file deploys, the limit is
\* exact: no interleaving lets one request too many through.
THEOREM ExactForOneProcess ==
  ASSUME NEW p, Procs = {p}
  PROVE  Spec => [](Cardinality(Live) <= MaxLimit)
<1>1. Cardinality(Procs) = 1
  BY FS_Singleton
<1>2. WindowBound => Cardinality(Live) <= MaxLimit
  BY <1>1, LimitAssumption DEF WindowBound
<1>3. QED
  BY <1>2, WindowIsBounded, PTL

\* What a process counted still leaves room for its own request.
CountHolds(p) == phase[p] = "counted" => Cardinality(zset) < lim[p]

\* An admission respects the limit of the key it came with, not only the largest
\* of the tenant's keys: no more than that are inside the window after it.
OwnLimit(p) ==
    phase[p] = "counted" /\ outcome'[cur[p]] = "admitted" => Cardinality(Live') <= lim[p]

LEMMA CountHoldsStep ==
  ASSUME NEW p, Procs = {p}, IInv, CountHolds(p), [Next]_vars
  PROVE  CountHolds(p)'
<1>1. TypeOK /\ TypeOK'
  BY TypeStep DEF IInv
<1>2. /\ zset \in SUBSET Requests /\ phase[p] \in Phases
      /\ lim[p] \in Nat /\ Cardinality(zset) \in Nat
  BY <1>1, SubsetFacts, LimitAssumption DEF TypeOK
<1>3. ASSUME UNCHANGED <<phase, lim>>, zset' \subseteq zset PROVE CountHolds(p)'
  <2>1. Cardinality(zset') \in Nat /\ Cardinality(zset') <= Cardinality(zset)
    BY <1>2, <1>3, SubsetFacts, Monotone
  <2>2. QED
    BY <1>2, <1>3, <2>1 DEF CountHolds
<1>4. ASSUME phase'[p] # "counted" PROVE CountHolds(p)'
  BY <1>4 DEF CountHolds
<1>5. CASE TrimAndCount(p)
  BY <1>1, <1>5 DEF TrimAndCount, Admits, CountHolds, TypeOK
<1>6. ASSUME NEW r \in Requests, NEW l \in 0..MaxLimit, Stamp(p, r, l) PROVE CountHolds(p)'
  BY <1>1, <1>4, <1>6 DEF Stamp, TypeOK
<1>7. CASE Deny(p) \/ Add(p) \/ Fail(p)
  BY <1>1, <1>4, <1>7 DEF Deny, Add, Fail, Return, TypeOK
<1>8. CASE Server \/ Tick \/ UNCHANGED vars
  BY <1>3, <1>8 DEF Server, ExpireKey, RedisDown, RedisUp, Tick, redis, vars
<1>9. ASSUME NEW r \in Requests, NEW l \in 0..MaxLimit, AnswerAtOnce(p, r, l)
      PROVE  CountHolds(p)'
  BY <1>3, <1>9 DEF AnswerAtOnce, redis
<1>10. QED
  BY <1>5, <1>6, <1>7, <1>8, <1>9 DEF Next, Check

\* With one process every key is held to its own limit, whatever requests of the
\* tenant's other keys, restarts of Redis and ticks of the clock come between.
THEOREM OwnLimitForOneProcess ==
  ASSUME NEW p, Procs = {p}
  PROVE  Spec => [][OwnLimit(p)]_vars
<1>1. Init => CountHolds(p)
  BY DEF Init, CountHolds
<1>2. IInv /\ CountHolds(p) /\ [Next]_vars => CountHolds(p)'
  BY CountHoldsStep
<1>3. IInv /\ NothingLiveIsDropped' /\ CountHolds(p) /\ [Next]_vars => [OwnLimit(p)]_vars
  <2> SUFFICES ASSUME IInv, NothingLiveIsDropped', CountHolds(p), [Next]_vars,
                      phase[p] = "counted", outcome'[cur[p]] = "admitted"
               PROVE  Cardinality(Live') <= lim[p]
    BY DEF OwnLimit
  <2>0. TypeOK /\ TypeOK' /\ cur[p] # None
    BY TypeStep DEF IInv, TypeOK
  <2>1. /\ TypeOK /\ TypeOK' /\ cur[p] \in Requests /\ zset \in SUBSET Requests
        /\ lim[p] \in Nat /\ outcome[cur[p]] = "none"
    BY <2>0, LimitAssumption DEF IInv, TypeOK, OneCheckPerRequest
  <2>2. Add(p)
    <3>1. outcome' # outcome
      BY <2>1
    <3>2. Next
      BY <3>1 DEF vars
    <3>3. ~(Server \/ Tick)
      BY <3>1 DEF Server, ExpireKey, RedisDown, RedisUp, Tick
    <3>4. \A r \in Requests, l \in 0..MaxLimit : ~AnswerAtOnce(p, r, l) /\ ~Stamp(p, r, l)
      BY DEF AnswerAtOnce, Stamp
    <3>5. ~TrimAndCount(p) /\ ~Deny(p)
      BY DEF TrimAndCount, Deny
    <3>6. ~Fail(p)
      BY <2>1 DEF Fail, Return, TypeOK
    <3>7. QED
      BY <3>2, <3>3, <3>4, <3>5, <3>6 DEF Next, Check
  <2>3. zset' = zset \cup {cur[p]} /\ zset' \in SUBSET Requests /\ Live' \subseteq zset'
    BY <2>1, <2>2 DEF Add, NothingLiveIsDropped
  <2>4. /\ IsFiniteSet(zset) /\ Cardinality(zset) \in Nat
        /\ Cardinality(zset') \in Nat /\ Cardinality(Live') \in Nat
        /\ Cardinality(Live') <= Cardinality(zset')
    BY <2>1, <2>3, SubsetFacts, Monotone
  <2>5. Cardinality(zset') <= Cardinality(zset) + 1
    <3>1. cur[p] \notin zset
      BY <2>1 DEF IInv, MembersWereAdded
    <3>2. Cardinality(zset') = Cardinality(zset) + 1
      BY <2>3, <2>4, <3>1, FS_AddElement
    <3>3. QED
      BY <2>4, <3>2
  <2>6. Cardinality(zset) < lim[p]
    BY DEF CountHolds
  <2>7. QED
    BY <2>1, <2>4, <2>5, <2>6
<1>4. QED
  BY <1>1, <1>2, <1>3, Invariant, NothingLiveDropped, PTL DEF Spec

\* A refusal is earned by as many requests as the limit that were added to
\* the set and had not left the window.
THEOREM DenialsAreEarned == Spec => DenialIsEarned
<1> DEFINE A == \A p \in Procs :
                  (phase[p] = "stamped" /\ phase'[p] = "denying")
                     => Cardinality(Counted(stamp[cur[p]])) >= lim[p]
<1>1. IInv /\ [Next]_vars => A
  <2> SUFFICES ASSUME IInv, [Next]_vars, NEW p \in Procs,
                      phase[p] = "stamped", phase'[p] = "denying"
               PROVE  Cardinality(Counted(stamp[cur[p]])) >= lim[p]
    OBVIOUS
  <2>1. TypeOK /\ cur[p] \in Requests /\ stamp[cur[p]] \in Nat
    BY DEF IInv, TypeOK
  <2>2. TrimAndCount(p)
    BY <2>1 DEF Next, Check, Server, Tick, AnswerAtOnce, Stamp, TrimAndCount, Deny, Add, Fail,
       Return, ExpireKey, RedisDown, RedisUp, vars, TypeOK
  <2>3. zset' = Trimmed(stamp[cur[p]]) /\ ~Admits(Cardinality(zset'), lim[p])
    BY <2>1, <2>2 DEF TrimAndCount, TypeOK
  <2>4. /\ Trimmed(stamp[cur[p]]) \subseteq Counted(stamp[cur[p]])
        /\ Counted(stamp[cur[p]]) \in SUBSET Requests
    BY <2>1 DEF Trimmed, Counted, IInv, MembersWereAdded, TypeOK
  <2>5. /\ Cardinality(Trimmed(stamp[cur[p]])) <= Cardinality(Counted(stamp[cur[p]]))
        /\ Cardinality(Trimmed(stamp[cur[p]])) \in Nat
        /\ Cardinality(Counted(stamp[cur[p]])) \in Nat
    BY <2>4, SubsetFacts, Monotone
  <2>6. lim[p] \in Nat
    BY <2>1, LimitAssumption DEF TypeOK
  <2>7. QED
    BY <2>3, <2>5, <2>6 DEF Admits
<1>2. QED
  BY <1>1, Invariant, PTL DEF Spec, DenialIsEarned
=============================================================================
