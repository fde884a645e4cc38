-------------------------------- MODULE Chat --------------------------------
(***************************************************************************)
(* The chat pipeline of the gateway after authentication:                  *)
(* gateway/main.py chat_completions, _fetch_route_policy, _dispatch_chat,  *)
(* gateway/router.py choose_route and gateway/usage.py record_usage.       *)
(*                                                                         *)
(* The handler is a coroutine: what it does between two awaits is one      *)
(* step.  It awaits the control plane for the tenant's policy, a backend,  *)
(* after a failed cloud or vLLM call Ollama, and the control plane again   *)
(* for the usage event.  Every one of these calls has a timeout, and each  *)
(* may fail, or be carried out with its answer lost.                       *)
(***************************************************************************)
EXTENDS Naturals, Sequences

CONSTANTS
    Requests,       \* authenticated requests of one tenant
    Sizes,          \* characters of a prompt
    Shorts,         \* values of short_max_chars
    DefaultShort    \* AF_HYBRID_SHORT_MAX_CHARS of the gateway

ASSUME SizeAssumption ==
    Sizes \subseteq Nat /\ Shorts \subseteq Nat /\ DefaultShort \in Shorts

VARIABLES
    config,     \* the gateway's environment
    policy,     \* the tenant's row of route_policies
    pc,         \* request -> what its handler awaits
    body,       \* request -> what of it the gateway looks at
    route,      \* request -> the route choose_route decided
    calls,      \* request -> the backends called for it, in order
    answer,     \* request -> what the client got
    usage,      \* request -> the route of its usage event, if one is stored
    read,       \* history: requests whose policy was read, not defaulted
    modes,      \* history: request -> the modes in force since it arrived
    served      \* history: requests a backend answered with a completion

vars == <<config, policy, pc, body, route, calls, answer, usage, read, modes, served>>

Modes == {"local_only", "cloud_only", "hybrid"}
Routes == {"local", "cloud", "vllm"}
Nothing == "none"

Policies == [mode: Modes, short: Shorts]
DefaultPolicy == [mode |-> "hybrid", short |-> DefaultShort]

\* foreign: the model belongs to another tenant; listed: the key's
\* allowed_models admit it; badAdapter: so does not the adapter's owner;
\* backend: what the model's preset asks for.
Bodies == [foreign: BOOLEAN, listed: BOOLEAN, stream: BOOLEAN, badAdapter: BOOLEAN,
           tools: BOOLEAN, size: Sizes, backend: {"ollama", "vllm"}]

\* AF_ROUTE_DEGRADE # "0", AF_CLOUD_API_KEY set, AF_HYBRID_SHORT_TO_PRESET = "1".
Configs == [degrade: BOOLEAN, cloudKey: BOOLEAN, shortToPreset: BOOLEAN]

Answers == {Nothing, "200", "403", "429", "500", "501", "502", "upstream error", "lost"}

TypeOK ==
    /\ config \in Configs
    /\ policy \in Policies
    /\ pc \in [Requests -> {"new", "policy", "call", "fallback", "usage", "done"}]
    /\ body \in [Requests -> Bodies]
    /\ route \in [Requests -> Routes \cup {Nothing}]
    /\ calls \in [Requests -> Seq(Routes)]
    /\ answer \in [Requests -> Answers]
    /\ \A r \in Requests : answer[r] # Nothing <=> pc[r] = "done"
    /\ usage \in [Requests -> Routes \cup {Nothing}]
    /\ read \subseteq Requests /\ served \subseteq Requests
    /\ modes \in [Requests -> SUBSET Modes]

Init ==
    /\ config \in Configs
    /\ policy \in Policies
    /\ pc = [r \in Requests |-> "new"]
    /\ body \in [Requests -> Bodies]
    /\ route = [r \in Requests |-> Nothing]
    /\ calls = [r \in Requests |-> <<>>]
    /\ answer = [r \in Requests |-> Nothing]
    /\ usage = [r \in Requests |-> Nothing]
    /\ read = {}
    /\ modes = [r \in Requests |-> {}]
    /\ served = {}

-----------------------------------------------------------------------------
(* choose_route.                                                           *)

Remote(b) == IF b.backend = "vllm" THEN "vllm" ELSE "cloud"

HybridRoute(p, b) ==
    CASE b.tools -> Remote(b)
      [] ~b.tools /\ b.size > p.short -> Remote(b)
      [] ~b.tools /\ b.size <= p.short ->
            IF b.backend = "vllm" /\ config.shortToPreset THEN "vllm" ELSE "local"

MutantChooseRoute(p, b) ==
    IF p.mode = "cloud_only" THEN "cloud" ELSE HybridRoute(p, b)
ChooseRoute(p, b) ==
    CASE p.mode = "local_only" -> "local"
      [] p.mode = "cloud_only" -> "cloud"
      [] p.mode = "hybrid" -> HybridRoute(p, b)

-----------------------------------------------------------------------------
Await(r, what) == pc' = [pc EXCEPT ![r] = what] /\ UNCHANGED answer

MutantAnswer(r, a) ==
    /\ pc' = [pc EXCEPT ![r] = "done"]
    /\ UNCHANGED answer
Answer(r, a) ==
    /\ pc' = [pc EXCEPT ![r] = "done"]
    /\ answer' = [answer EXCEPT ![r] = a]

\* The refusals before the first await, in the order of the code.
Refusal(b) ==
    CASE b.foreign -> "403"
      [] ~b.foreign /\ ~b.listed -> "403"
      [] ~b.foreign /\ b.listed /\ b.stream -> "501"
      [] ~b.foreign /\ b.listed /\ ~b.stream /\ b.badAdapter -> "403"
      [] OTHER -> Nothing

\* Up to the first await.  check_rpm, which RateLimit models, lets the request
\* pass, refuses it, or raises because Redis is gone.
Arrive(r) ==
    /\ pc[r] = "new"
    /\ modes' = [modes EXCEPT ![r] = {policy.mode}]
    /\ \/ Answer(r, "429")
       \/ Answer(r, "500")
       \/ Refusal(body[r]) # Nothing /\ Answer(r, Refusal(body[r]))
       \/ Refusal(body[r]) = Nothing /\ Await(r, "policy")
    /\ UNCHANGED <<config, policy, body, route, calls, usage, read, served>>

\* The policy, or the default when the control plane does not answer 200 in
\* time, and the decision.
FetchPolicy(r) ==
    /\ pc[r] = "policy"
    /\ \E ok \in BOOLEAN :
          /\ route' = [route EXCEPT ![r] =
                          ChooseRoute(IF ok THEN policy ELSE DefaultPolicy, body[r])]
          /\ read' = IF ok THEN read \cup {r} ELSE read
    /\ Await(r, "call")
    /\ UNCHANGED <<config, policy, body, calls, usage, modes, served>>

\* Both except clauses of _dispatch_chat, and chat_completions' own.
MutantRaise(r) == IF config.degrade THEN Await(r, "call") ELSE Answer(r, "502")
MutantAlwaysDegrades(r) == IF route[r] # "local" THEN Await(r, "fallback") ELSE Answer(r, "502")
Raise(r) ==
    IF route[r] # "local" /\ config.degrade
    THEN Await(r, "fallback") ELSE Answer(r, "502")

\* A backend's answer of 200 that is not JSON raises after the try block.
MutantReturned(r) ==
    /\ \/ Await(r, "usage") /\ UNCHANGED served
       \/ Await(r, "usage") /\ served' = served \cup {r}
       \/ Answer(r, "500") /\ UNCHANGED served
Returned(r) ==
    \/ Await(r, "usage") /\ served' = served \cup {r}
    \/ Answer(r, "upstream error") /\ UNCHANGED served
    \/ Answer(r, "500") /\ UNCHANGED served

\* The call the route asks for.  Without a cloud key nothing is sent.
Call(r) ==
    /\ pc[r] = "call"
    /\ \/ /\ route[r] = "cloud" /\ ~config.cloudKey
          /\ Raise(r)
          /\ UNCHANGED <<calls, served>>
       \/ /\ route[r] # "cloud" \/ config.cloudKey
          /\ calls' = [calls EXCEPT ![r] = Append(@, route[r])]
          /\ \/ Returned(r)
             \/ Raise(r) /\ UNCHANGED served
    /\ UNCHANGED <<config, policy, body, route, usage, read, modes>>

\* The degraded call, once.
CallOllama(r) ==
    /\ pc[r] = "fallback"
    /\ calls' = [calls EXCEPT ![r] = Append(@, "local")]
    /\ \/ Returned(r)
       \/ Answer(r, "502") /\ UNCHANGED served
    /\ UNCHANGED <<config, policy, body, route, usage, read, modes>>

\* record_usage swallows every failure.  Its label is the decided route.
MutantRecordUsage(r) ==
    /\ pc[r] = "usage"
    /\ usage' = [usage EXCEPT ![r] = calls[r][Len(calls[r])]] \/ UNCHANGED usage
    /\ Answer(r, "200")
    /\ UNCHANGED <<config, policy, body, route, calls, read, modes, served>>
RecordUsage(r) ==
    /\ pc[r] = "usage"
    /\ usage' = [usage EXCEPT ![r] = route[r]] \/ UNCHANGED usage
    /\ Answer(r, "200")
    /\ UNCHANGED <<config, policy, body, route, calls, read, modes, served>>

\* put_route_policy; a body without short_max_chars keeps the row's.
PutPolicy(m, s) ==
    /\ [mode |-> m, short |-> s] # policy
    /\ policy' = [mode |-> m, short |-> s]
    /\ modes' = [r \in Requests |->
                    IF pc[r] \in {"new", "done"} THEN modes[r] ELSE modes[r] \cup {m}]
    /\ UNCHANGED <<config, pc, body, route, calls, answer, usage, read, served>>

\* The gateway stops: nothing it was handling is answered.
Crash ==
    /\ \E r \in Requests : pc[r] \notin {"new", "done"}
    /\ pc' = [r \in Requests |-> IF pc[r] = "new" THEN "new" ELSE "done"]
    /\ answer' = [r \in Requests |->
                     IF pc[r] \in {"new", "done"} THEN answer[r] ELSE "lost"]
    /\ UNCHANGED <<config, policy, body, route, calls, usage, read, modes, served>>

Handle(r) == FetchPolicy(r) \/ Call(r) \/ CallOllama(r) \/ RecordUsage(r)

Next ==
    \/ \E r \in Requests : Arrive(r) \/ Handle(r)
    \/ \E m \in Modes, s \in Shorts : PutPolicy(m, s)
    \/ Crash

\* Every await of a handler has a timeout, so a handler that can go on does.
Fairness == \A r \in Requests : WF_vars(Handle(r))

Spec == Init /\ [][Next]_vars /\ Fairness

-----------------------------------------------------------------------------
(* What the pipeline promises.                                             *)

Called(r, S) == \E i \in DOMAIN calls[r] : calls[r][i] \in S

\* A prompt leaves for the cloud or vLLM only if the tenant had, at some
\* moment since the request arrived, a policy other than local_only, or if
\* its policy could not be read.
OffsiteIsSanctioned ==
    \A r \in Requests :
        Called(r, {"cloud", "vllm"}) => modes[r] # {"local_only"} \/ r \notin read

\* A request is tried at most twice, and the second time on Ollama after
\* another backend, only when degrading is on.
RetriedOnceLocally ==
    \A r \in Requests :
        Len(calls[r]) > 1 =>
            /\ config.degrade
            /\ Len(calls[r]) = 2
            /\ calls[r][1] # "local" /\ calls[r][2] = "local"

\* A usage event stands for a completion some backend delivered: neither an
\* upstream error nor a broken answer is charged, and a client that reads 200
\* was served.
BilledIsServed ==
    \A r \in Requests : usage[r] # Nothing \/ answer[r] = "200" => r \in served

\* A usage event labelled local stands for a prompt that no other backend was
\* sent.  The converse fails: after a degraded call the label still names the
\* backend that failed, or the cloud that had no key to be called with.
LocalUsageStayed ==
    \A r \in Requests : usage[r] = "local" => ~Called(r, {"cloud", "vllm"})

\* Every request that was let in is answered, or lost with the gateway.
EventuallyAnswered == \A r \in Requests : pc[r] = "policy" ~> pc[r] = "done"

\* docs/architecture.md:50: "local_only: Always Ollama".
LocalOnlyStaysLocal ==
    \A r \in Requests : Called(r, {"cloud", "vllm"}) => modes[r] # {"local_only"}

\* README.md:98: "set AF_ROUTE_DEGRADE=1 so cloud/vLLM failures fall back to
\* Ollama": no failed cloud or vLLM call is reported without Ollama's try.
FailureFallsBack ==
    \A r \in Requests :
        /\ config.degrade /\ Called(r, {"cloud", "vllm"})
        /\ answer[r] \in {"upstream error", "502"}
        => Called(r, {"local"})
=============================================================================
