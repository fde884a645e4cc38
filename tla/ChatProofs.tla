------------------------------ MODULE ChatProofs ------------------------------
(***************************************************************************)
(* Safety of the chat pipeline for every number of requests, every prompt  *)
(* size and every threshold.                                               *)
(***************************************************************************)
EXTENDS Chat, SequenceTheorems, TLAPS

Offsite == {"cloud", "vllm"}

\* Before the policy is known nothing is decided and nothing was called.
Undecided(r) ==
    pc[r] \in {"new", "policy"} => route[r] = Nothing /\ calls[r] = <<>> /\ r \notin read

\* The calls made are those of the decided route, then perhaps Ollama's.
CallsFollow(r) ==
    /\ pc[r] = "call" => calls[r] = <<>> /\ route[r] \in Routes
    /\ pc[r] = "fallback" =>
          config.degrade /\ route[r] \in Offsite /\ calls[r] \in {<<>>, <<route[r]>>}
    /\ \/ calls[r] \in {<<>>, <<route[r]>>}
       \/ config.degrade /\ route[r] \in Offsite
          /\ calls[r] \in {<<"local">>, <<route[r], "local">>}

\* The policy in force is among the modes of every request in the pipeline.
PolicyIsSeen(r) == pc[r] \notin {"new", "done"} => policy.mode \in modes[r]

Sanctioned(r) == route[r] \in Offsite /\ r \in read => modes[r] # {"local_only"}

Credited(r) ==
    /\ pc[r] = "usage" \/ usage[r] # Nothing \/ answer[r] = "200" => r \in served
    /\ pc[r] \in {"call", "fallback", "usage"} => route[r] \in Routes

\* Once a usage event is stored, its label is the decided route.
Labelled(r) == usage[r] \in {Nothing, route[r]} /\ (usage[r] # Nothing => pc[r] = "done")

RequestInv(r) ==
    Undecided(r) /\ CallsFollow(r) /\ PolicyIsSeen(r) /\ Sanctioned(r) /\ Credited(r) /\ Labelled(r)

IInv == TypeOK /\ \A r \in Requests : RequestInv(r)

-----------------------------------------------------------------------------
\* choose_route answers a route, and none but local for local_only.
LEMMA RouteIsChosen ==
    ASSUME TypeOK, NEW p \in Policies, NEW b \in Bodies
    PROVE  /\ ChooseRoute(p, b) \in Routes
           /\ p.mode = "local_only" => ChooseRoute(p, b) = "local"
<1>1. p.mode \in Modes /\ p.short \in Nat /\ b.size \in Nat /\ b.tools \in BOOLEAN
  BY SizeAssumption DEF Policies, Bodies
<1>2. ~(b.size > p.short) <=> b.size <= p.short
  BY <1>1
<1>3. Remote(b) \in Routes
  BY DEF Remote, Routes
<1>4. HybridRoute(p, b) \in Routes
  BY <1>1, <1>2, <1>3, Zenon DEF HybridRoute, Routes
<1>5. CASE p.mode = "local_only"
  BY <1>5 DEF ChooseRoute, Routes
<1>6. CASE p.mode = "cloud_only"
  BY <1>6 DEF ChooseRoute, Routes
<1>7. CASE p.mode = "hybrid"
  BY <1>4, <1>7 DEF ChooseRoute, Routes
<1>8. QED
  BY <1>1, <1>5, <1>6, <1>7 DEF Modes

LEMMA DefaultIsPolicy == DefaultPolicy \in Policies
BY SizeAssumption DEF DefaultPolicy, Policies, Modes

LEMMA InitInv == Init => IInv
<1> SUFFICES ASSUME Init PROVE IInv
  OBVIOUS
<1>1. TypeOK
  BY DEF Init, TypeOK, Answers, Nothing
<1>2. QED
  BY <1>1 DEF Init, IInv, RequestInv, Undecided, CallsFollow, PolicyIsSeen, Sanctioned,
              Credited, Labelled, Nothing, Offsite

LEMMA ArriveStep ==
    ASSUME IInv, NEW r \in Requests, Arrive(r)
    PROVE  IInv'
<1>1. PICK a \in Answers : 
         \/ a # Nothing /\ a # "200" /\ Answer(r, a)
         \/ Await(r, "policy")
  BY DEF Arrive, Answers, Refusal, Nothing
<1>2. pc[r] = "new" /\ modes' = [modes EXCEPT ![r] = {policy.mode}]
      /\ UNCHANGED <<config, policy, body, route, calls, usage, read, served>>
  BY DEF Arrive
<1>3. TypeOK'
  <2>1. TypeOK
    BY DEF IInv
  <2>2. modes' \in [Requests -> SUBSET Modes]
    BY <1>2, <2>1 DEF TypeOK, Policies
  <2>3. CASE a # Nothing /\ a # "200" /\ Answer(r, a)
    BY <1>2, <2>1, <2>2, <2>3 DEF TypeOK, Answer, Nothing
  <2>4. CASE Await(r, "policy")
    BY <1>2, <2>1, <2>2, <2>4 DEF TypeOK, Await, Nothing
  <2>5. QED
    BY <1>1, <2>3, <2>4
<1>4. ASSUME NEW q \in Requests PROVE RequestInv(q)'
  <2>1. RequestInv(q) /\ RequestInv(r) /\ TypeOK
    BY DEF IInv
  <2>2. CASE q = r
    BY <1>1, <1>2, <2>1, <2>2 DEF TypeOK, Await, Answer, RequestInv, Undecided, CallsFollow,
       PolicyIsSeen, Sanctioned, Credited, Labelled, Nothing, Offsite
  <2>3. CASE q # r
    BY <1>1, <1>2, <2>1, <2>3 DEF TypeOK, Await, Answer, RequestInv, Undecided, CallsFollow,
       PolicyIsSeen, Sanctioned, Credited, Labelled, Nothing, Offsite
  <2>4. QED
    BY <2>2, <2>3
<1>5. QED
  BY <1>3, <1>4 DEF IInv

LEMMA FetchPolicyStep ==
    ASSUME IInv, NEW r \in Requests, FetchPolicy(r)
    PROVE  IInv'
<1>1. PICK ok \in BOOLEAN :
         /\ route' = [route EXCEPT ![r] =
                         ChooseRoute(IF ok THEN policy ELSE DefaultPolicy, body[r])]
         /\ read' = IF ok THEN read \cup {r} ELSE read
  BY DEF FetchPolicy
<1> DEFINE chosen == ChooseRoute(IF ok THEN policy ELSE DefaultPolicy, body[r])
<1>2. chosen \in Routes /\ (ok /\ policy.mode = "local_only" => chosen = "local")
  <2>1. TypeOK /\ policy \in Policies /\ DefaultPolicy \in Policies /\ body[r] \in Bodies
    BY DefaultIsPolicy DEF IInv, TypeOK
  <2>2. CASE ok
    BY <2>1, <2>2, RouteIsChosen
  <2>3. CASE ~ok
    BY <2>1, <2>3, RouteIsChosen
  <2>4. QED
    BY <2>2, <2>3
<1>3. /\ pc[r] = "policy" /\ Await(r, "call")
      /\ UNCHANGED <<config, policy, body, calls, usage, modes, served>>
  BY DEF FetchPolicy
<1> HIDE DEF chosen
<1>4. route' = [route EXCEPT ![r] = chosen]
  BY <1>1 DEF chosen
<1>5. TypeOK'
  BY <1>1, <1>2, <1>3, <1>4 DEF IInv, TypeOK, Await, Nothing
<1>6. ASSUME NEW q \in Requests PROVE RequestInv(q)'
  <2>1. RequestInv(q) /\ RequestInv(r) /\ TypeOK
    BY DEF IInv
  <2>2. CASE q = r
    <3>1. /\ route'[q] = chosen /\ calls'[q] = <<>> /\ pc'[q] = "call"
          /\ usage'[q] = usage[q] /\ answer'[q] = answer[q] /\ modes'[q] = modes[q]
          /\ policy' = policy /\ config' = config /\ served' = served
      BY <1>3, <1>4, <2>1, <2>2 DEF TypeOK, Await, RequestInv, Undecided
    <3>2. policy.mode \in modes[q] /\ (q \in read' /\ ~ok => q \in read)
      BY <1>1, <1>3, <2>1, <2>2 DEF RequestInv, PolicyIsSeen
    <3>3. Undecided(q)' /\ CallsFollow(q)' /\ PolicyIsSeen(q)' /\ Credited(q)' /\ Labelled(q)'
      <4>1. pc[q] = "policy" /\ usage[q] = Nothing
        BY <1>3, <2>1, <2>2 DEF RequestInv, Labelled
      <4>2. QED
        BY <1>2, <2>1, <3>1, <3>2, <4>1
        DEF RequestInv, Undecided, CallsFollow, PolicyIsSeen, Credited, Labelled
    <3>4. Sanctioned(q)'
      <4>1. CASE ok
        BY <1>2, <3>1, <3>2, <4>1 DEF Sanctioned, Offsite
      <4>2. CASE ~ok
        BY <1>1, <1>3, <2>1, <2>2, <4>2 DEF Sanctioned, RequestInv, Undecided
      <4>3. QED
        BY <4>1, <4>2
    <3>5. QED
      BY <3>3, <3>4 DEF RequestInv
  <2>3. CASE q # r
    BY <1>1, <1>3, <1>4, <2>1, <2>3 DEF TypeOK, Await, RequestInv, Undecided, CallsFollow,
       PolicyIsSeen, Sanctioned, Credited, Labelled, Nothing, Offsite
  <2>4. QED
    BY <2>2, <2>3
<1>7. QED
  BY <1>5, <1>6 DEF IInv

\* What Call and CallOllama do to the sequence of calls.
LEMMA FirstCall == ASSUME NEW a PROVE Append(<<>>, a) = <<a>>
OBVIOUS

LEMMA SecondCall ==
    ASSUME NEW S, NEW a \in S, NEW b \in S
    PROVE  Append(<<a>>, b) = <<a, b>>
<1>1. <<a>> \in Seq(S) /\ <<a, b>> \in Seq(S)
  OBVIOUS
<1>2. /\ Append(<<a>>, b) \in Seq(S) /\ Len(Append(<<a>>, b)) = 2
      /\ Append(<<a>>, b)[1] = a /\ Append(<<a>>, b)[2] = b
  BY <1>1, AppendProperties
<1>3. Len(<<a, b>>) = 2 /\ <<a, b>>[1] = a /\ <<a, b>>[2] = b
  OBVIOUS
<1>4. \A i \in 1..Len(<<a, b>>) : Append(<<a>>, b)[i] = <<a, b>>[i]
  BY <1>2, <1>3
<1>5. QED
  BY <1>1, <1>2, <1>3, <1>4, SeqEqual, Zenon

LEMMA CallStep ==
    ASSUME IInv, NEW r \in Requests, Call(r)
    PROVE  IInv'
<1>1. TypeOK /\ RequestInv(r) /\ pc[r] = "call" /\ calls[r] = <<>> /\ route[r] \in Routes
  BY DEF Call, IInv, RequestInv, CallsFollow
<1>2. PICK made \in {<<>>, <<route[r]>>} :
         /\ calls' = [calls EXCEPT ![r] = made]
         /\ made \in Seq(Routes)
  <2>1. CASE UNCHANGED calls
    BY <1>1, <2>1 DEF TypeOK
  <2>2. CASE calls' = [calls EXCEPT ![r] = Append(@, route[r])]
    BY <1>1, <2>2, FirstCall DEF TypeOK
  <2>3. QED
    BY <2>1, <2>2, Zenon DEF Call
<1>3. PICK a \in Answers \ {Nothing, "200"} :
         \/ Await(r, "usage") /\ served' = served \cup {r}
         \/ Answer(r, a) /\ UNCHANGED served
         \/ Await(r, "fallback") /\ route[r] # "local" /\ config.degrade /\ UNCHANGED served
  <2>1. {"502", "500", "upstream error"} \subseteq Answers \ {Nothing, "200"}
    BY DEF Answers, Nothing
  <2>2. QED
    BY <2>1, Zenon DEF Call, Returned, Raise
<1>4. UNCHANGED <<config, policy, body, route, usage, read, modes>>
  BY DEF Call
<1>5. TypeOK'
  <2>1. calls' \in [Requests -> Seq(Routes)]
    BY <1>1, <1>2 DEF TypeOK
  <2>2. CASE Await(r, "usage") /\ served' = served \cup {r}
    BY <1>1, <1>4, <2>1, <2>2 DEF TypeOK, Await, Nothing
  <2>3. CASE Answer(r, a) /\ UNCHANGED served
    BY <1>1, <1>3, <1>4, <2>1, <2>3 DEF TypeOK, Answer, Nothing
  <2>4. CASE Await(r, "fallback") /\ UNCHANGED served
    BY <1>1, <1>4, <2>1, <2>4 DEF TypeOK, Await, Nothing
  <2>5. QED
    BY <1>3, <2>2, <2>3, <2>4
<1>6. ASSUME NEW q \in Requests PROVE RequestInv(q)'
  <2>1. RequestInv(q)
    BY DEF IInv
  <2>2. CASE q = r
    <3>1. calls'[q] = made /\ route'[q] = route[q] /\ usage'[q] = usage[q]
          /\ modes' = modes /\ policy' = policy /\ config' = config /\ read' = read
      BY <1>1, <1>2, <1>4, <2>2 DEF TypeOK
    <3>2. \/ pc'[q] = "usage" /\ answer'[q] = answer[q] /\ q \in served'
          \/ pc'[q] = "done" /\ answer'[q] = a /\ served' = served
          \/ /\ pc'[q] = "fallback" /\ answer'[q] = answer[q] /\ served' = served
             /\ route[q] # "local" /\ config.degrade
      BY <1>1, <1>3, <2>2 DEF TypeOK, Await, Answer
    <3>3. Undecided(q)' /\ PolicyIsSeen(q)' /\ Sanctioned(q)' /\ Credited(q)' /\ Labelled(q)'
      BY <1>1, <1>3, <2>1, <2>2, <3>1, <3>2 DEF RequestInv, Undecided, PolicyIsSeen, Sanctioned,
         Credited, Labelled
    <3>4. CallsFollow(q)'
      BY <1>1, <1>2, <2>2, <3>1, <3>2 DEF CallsFollow, Offsite, Routes
    <3>5. QED
      BY <3>3, <3>4 DEF RequestInv
  <2>3. CASE q # r
    BY <1>1, <1>2, <1>3, <1>4, <2>1, <2>3 DEF TypeOK, Await, Answer, RequestInv, Undecided,
       CallsFollow, PolicyIsSeen, Sanctioned, Credited, Labelled
  <2>4. QED
    BY <2>2, <2>3
<1>7. QED
  BY <1>5, <1>6 DEF IInv

LEMMA CallOllamaStep ==
    ASSUME IInv, NEW r \in Requests, CallOllama(r)
    PROVE  IInv'
<1>1. /\ TypeOK /\ RequestInv(r) /\ pc[r] = "fallback" /\ calls[r] \in {<<>>, <<route[r]>>}
      /\ config.degrade /\ route[r] \in Offsite
  BY DEF CallOllama, IInv, RequestInv, CallsFollow
<1>2. PICK made \in {<<"local">>, <<route[r], "local">>} :
         /\ calls' = [calls EXCEPT ![r] = made]
         /\ made \in Seq(Routes)
  <2>1. CASE calls[r] = <<>>
    BY <1>1, <2>1, FirstCall DEF CallOllama, TypeOK, Routes
  <2>2. CASE calls[r] = <<route[r]>>
    <3>1. route[r] \in Routes /\ "local" \in Routes
      BY <1>1 DEF Routes, Offsite
    <3>2. Append(calls[r], "local") = <<route[r], "local">>
      BY <2>2, <3>1, SecondCall, Zenon
    <3>3. <<route[r], "local">> \in Seq(Routes)
      BY <3>1
    <3>4. QED
      BY <3>2, <3>3 DEF CallOllama
  <2>3. QED
    BY <1>1, <2>1, <2>2
<1>3. PICK a \in Answers \ {Nothing, "200"} :
         \/ Await(r, "usage") /\ served' = served \cup {r}
         \/ Answer(r, a) /\ UNCHANGED served
  <2>1. {"502", "500", "upstream error"} \subseteq Answers \ {Nothing, "200"}
    BY DEF Answers, Nothing
  <2>2. QED
    BY <2>1, Zenon DEF CallOllama, Returned
<1>4. UNCHANGED <<config, policy, body, route, usage, read, modes>>
  BY DEF CallOllama
<1>5. TypeOK'
  <2>1. calls' \in [Requests -> Seq(Routes)]
    BY <1>1, <1>2 DEF TypeOK
  <2>2. QED
    BY <1>1, <1>3, <1>4, <2>1 DEF TypeOK, Await, Answer, Nothing
<1>6. ASSUME NEW q \in Requests PROVE RequestInv(q)'
  <2>1. RequestInv(q)
    BY DEF IInv
  <2>2. CASE q = r
    <3>1. calls'[q] = made /\ route'[q] = route[q] /\ usage'[q] = usage[q]
          /\ modes' = modes /\ policy' = policy /\ config' = config /\ read' = read
      BY <1>1, <1>2, <1>4, <2>2 DEF TypeOK
    <3>2. \/ pc'[q] = "usage" /\ answer'[q] = answer[q] /\ q \in served'
          \/ pc'[q] = "done" /\ answer'[q] = a /\ served' = served
      BY <1>1, <1>3, <2>2 DEF TypeOK, Await, Answer
    <3>3. Undecided(q)' /\ PolicyIsSeen(q)' /\ Sanctioned(q)' /\ Credited(q)' /\ Labelled(q)'
      BY <1>1, <1>3, <2>1, <2>2, <3>1, <3>2 DEF RequestInv, Undecided, PolicyIsSeen, Sanctioned,
         Credited, Labelled
    <3>4. CallsFollow(q)'
      BY <1>1, <1>2, <2>2, <3>1, <3>2 DEF CallsFollow
    <3>5. QED
      BY <3>3, <3>4 DEF RequestInv
  <2>3. CASE q # r
    BY <1>1, <1>2, <1>3, <1>4, <2>1, <2>3 DEF TypeOK, Await, Answer, RequestInv, Undecided,
       CallsFollow, PolicyIsSeen, Sanctioned, Credited, Labelled
  <2>4. QED
    BY <2>2, <2>3
<1>7. QED
  BY <1>5, <1>6 DEF IInv

LEMMA RecordUsageStep ==
    ASSUME IInv, NEW r \in Requests, RecordUsage(r)
    PROVE  IInv'
<1>1. /\ TypeOK /\ RequestInv(r) /\ pc[r] = "usage" /\ Answer(r, "200")
      /\ usage' = [usage EXCEPT ![r] = route[r]] \/ UNCHANGED usage
      /\ UNCHANGED <<config, policy, body, route, calls, read, modes, served>>
  BY DEF RecordUsage, IInv
<1>2. r \in served /\ route[r] \in Routes
  BY <1>1 DEF RequestInv, Credited, Labelled
<1>3. TypeOK'
  BY <1>1, <1>2 DEF TypeOK, Answer, Answers, Nothing
<1>4. ASSUME NEW q \in Requests PROVE RequestInv(q)'
  <2>1. RequestInv(q)
    BY DEF IInv
  <2>2. QED
    BY <1>1, <1>2, <2>1 DEF TypeOK, Answer, RequestInv, Undecided, CallsFollow, PolicyIsSeen,
       Sanctioned, Credited, Labelled
<1>5. QED
  BY <1>3, <1>4 DEF IInv

LEMMA PutPolicyStep ==
    ASSUME IInv, NEW m \in Modes, NEW s \in Shorts, PutPolicy(m, s)
    PROVE  IInv'
<1>1. TypeOK'
  BY DEF IInv, TypeOK, PutPolicy, Policies
<1>2. ASSUME NEW q \in Requests PROVE RequestInv(q)'
  <2>1. RequestInv(q) /\ policy'.mode = m /\ modes[q] \subseteq modes'[q]
    BY DEF IInv, PutPolicy
  <2>2. PolicyIsSeen(q)'
    BY <2>1 DEF PutPolicy, PolicyIsSeen
  <2>3. Sanctioned(q)'
    <3>1. CASE pc[q] \in {"new", "done"}
      BY <2>1, <3>1 DEF PutPolicy, RequestInv, Sanctioned
    <3>2. CASE pc[q] \notin {"new", "done"}
      BY <2>1, <3>2 DEF PutPolicy, RequestInv, Sanctioned, PolicyIsSeen
    <3>3. QED
      BY <3>1, <3>2
  <2>4. QED
    BY <2>1, <2>2, <2>3 DEF PutPolicy, RequestInv, Undecided, CallsFollow, Credited, Labelled
<1>3. QED
  BY <1>1, <1>2 DEF IInv

LEMMA CrashStep ==
    ASSUME IInv, Crash
    PROVE  IInv'
<1>1. TypeOK'
  BY DEF IInv, TypeOK, Crash, Answers, Nothing
<1>2. ASSUME NEW q \in Requests PROVE RequestInv(q)'
  BY DEF IInv, Crash, RequestInv, Undecided, CallsFollow, PolicyIsSeen, Sanctioned, Credited,
         Labelled
<1>3. QED
  BY <1>1, <1>2 DEF IInv

LEMMA StutterStep ==
    ASSUME IInv, UNCHANGED vars
    PROVE  IInv'
BY DEF IInv, TypeOK, RequestInv, Undecided, CallsFollow, PolicyIsSeen, Sanctioned, Credited,
       Labelled, vars

LEMMA InvStep == IInv /\ [Next]_vars => IInv'
BY ArriveStep, FetchPolicyStep, CallStep, CallOllamaStep, RecordUsageStep, PutPolicyStep,
   CrashStep, StutterStep DEF Next, Handle

LEMMA Invariance == Spec => []IInv
BY InitInv, InvStep, PTL DEF Spec

-----------------------------------------------------------------------------
LEMMA AtMostOneCall ==
    ASSUME NEW a
    PROVE  ~(Len(<<>>) > 1) /\ ~(Len(<<a>>) > 1)
OBVIOUS

LEMMA CalledIsRoute ==
    ASSUME NEW r, CallsFollow(r), Called(r, Offsite)
    PROVE  route[r] \in Offsite
<1>1. CASE calls[r] = <<>>
  BY <1>1 DEF Called
<1>2. CASE calls[r] = <<route[r]>>
  BY <1>2 DEF Called
<1>3. CASE route[r] \in Offsite
  BY <1>3
<1>4. QED
  BY <1>1, <1>2, <1>3 DEF CallsFollow

\* The variables of the pipeline have their types: every request is answered
\* once, and exactly when its handler has ended.
THEOREM TypeCorrect == Spec => []TypeOK
<1>1. IInv => TypeOK
  BY DEF IInv
<1>2. QED
  BY <1>1, Invariance, PTL

\* However policy changes, failures and crashes interleave, the prompt of a
\* tenant that was local_only all the while stays on Ollama, if its policy
\* could be read.
THEOREM OffsiteSanctioned == Spec => []OffsiteIsSanctioned
<1>1. IInv => OffsiteIsSanctioned
  <2>1. ASSUME IInv, NEW r \in Requests, Called(r, {"cloud", "vllm"})
        PROVE  modes[r] # {"local_only"} \/ r \notin read
    <3>1. CallsFollow(r) /\ Sanctioned(r)
      BY <2>1 DEF IInv, RequestInv
    <3>2. route[r] \in Offsite
      BY <2>1, <3>1, CalledIsRoute DEF Offsite
    <3>3. QED
      BY <3>1, <3>2 DEF Sanctioned
  <2>2. QED
    BY <2>1 DEF OffsiteIsSanctioned
<1>2. QED
  BY <1>1, Invariance, PTL

\* No request is tried more than twice, and the second try is Ollama's.
THEOREM RetriesAreLocal == Spec => []RetriedOnceLocally
<1>1. IInv => RetriedOnceLocally
  <2>1. ASSUME IInv, NEW r \in Requests, Len(calls[r]) > 1
        PROVE  /\ config.degrade
               /\ Len(calls[r]) = 2
               /\ calls[r][1] # "local" /\ calls[r][2] = "local"
    <3>1. CallsFollow(r)
      BY <2>1 DEF IInv, RequestInv
    <3>2. calls[r] \notin {<<>>, <<route[r]>>, <<"local">>}
      BY <2>1, AtMostOneCall, Zenon
    <3>3. config.degrade /\ route[r] \in Offsite /\ calls[r] = <<route[r], "local">>
      BY <3>1, <3>2, Zenon DEF CallsFollow
    <3>4. Len(calls[r]) = 2 /\ calls[r][1] = route[r] /\ calls[r][2] = "local"
      <4> DEFINE lo == "local"
      <4>1. calls[r] = <<route[r], lo>>
        BY <3>3
      <4> HIDE DEF lo
      <4>2. Len(calls[r]) = 2 /\ calls[r][1] = route[r] /\ calls[r][2] = lo
        BY <4>1
      <4>3. QED
        BY <4>2 DEF lo
    <3>5. QED
      BY <3>3, <3>4, Zenon DEF Offsite
  <2>2. QED
    BY <2>1, Zenon DEF RetriedOnceLocally
<1>2. QED
  BY <1>1, Invariance, PTL

\* Only completions are charged, and only completions are answered with 200.
THEOREM BilledAreServed == Spec => []BilledIsServed
<1>1. IInv => BilledIsServed
  BY DEF IInv, RequestInv, Credited, BilledIsServed
<1>2. QED
  BY <1>1, Invariance, PTL

\* What is charged as local stayed on Ollama.
THEOREM LocalUsageStaysLocal == Spec => []LocalUsageStayed
<1>1. IInv => LocalUsageStayed
  <2>1. ASSUME IInv, NEW r \in Requests, usage[r] = "local", Called(r, {"cloud", "vllm"})
        PROVE  FALSE
    <3>1. CallsFollow(r) /\ route[r] = "local"
      BY <2>1 DEF IInv, RequestInv, Labelled, Nothing
    <3>2. QED
      BY <2>1, <3>1, CalledIsRoute DEF Offsite
  <2>2. QED
    BY <2>1 DEF LocalUsageStayed
<1>2. QED
  BY <1>1, Invariance, PTL
=============================================================================
