---------------------------- MODULE KeyRegistry ----------------------------
(***************************************************************************)
(* What the key store of the control plane promises, without its rows,     *)
(* transactions and row ids: a secret is given to one tenant, lives until  *)
(* it is replaced, revoked or its tenant is deleted, and never lives       *)
(* again; a request is accepted only if its secret was live at one moment  *)
(* after it arrived, and the tenant active at a later one.                 *)
(***************************************************************************)
CONSTANTS Tenants, DevTenants, Secrets, EnvTenant, Requests, None

VARIABLES
    life,       \* secret -> "unborn", "live" or "dead"
    owner,      \* secret -> the tenant it was given to, or None
    status,     \* tenant -> "active", "disabled" or "absent"
    req         \* request -> its secret, where it is and the tenant found

avars == <<life, owner, status, req>>

AInit ==
    /\ life = [s \in Secrets |-> "unborn"]
    /\ owner = [s \in Secrets |-> None]
    /\ status = [d \in Tenants |-> IF d \in DevTenants THEN "active" ELSE "absent"]
    /\ req = [r \in Requests |-> [pc |-> "new", secret |-> None, tenant |-> None]]

Give(s, d) ==
    /\ life[s] = "unborn" /\ status[d] # "absent"
    /\ owner' = [owner EXCEPT ![s] = d]
    /\ life' = [life EXCEPT ![s] = "live"]
    /\ UNCHANGED <<status, req>>

\* The new secret takes the place of the old one at one moment: it lives if
\* the old one lived, and is dead if that was revoked meanwhile.
Replace(old, new) ==
    /\ life[old] # "unborn" /\ life[new] = "unborn"
    /\ owner' = [owner EXCEPT ![new] = owner[old]]
    /\ life' = [life EXCEPT ![old] = "dead", ![new] = life[old]]
    /\ UNCHANGED <<status, req>>

Revoke(s) ==
    /\ life[s] = "live"
    /\ life' = [life EXCEPT ![s] = "dead"]
    /\ UNCHANGED <<owner, status, req>>

Set(d, st) ==
    /\ status[d] # "absent"
    /\ status' = [status EXCEPT ![d] = st]
    /\ UNCHANGED <<life, owner, req>>

Delete(d) ==
    /\ status[d] # "absent"
    /\ status' = [status EXCEPT ![d] = "absent"]
    /\ life' = [s \in Secrets |->
                   IF life[s] = "live" /\ owner[s] = d THEN "dead" ELSE life[s]]
    /\ UNCHANGED <<owner, req>>

Open(D) ==
    /\ \A d \in D : status[d] = "absent"
    /\ status' = [d \in Tenants |-> IF d \in D THEN "active" ELSE status[d]]
    /\ UNCHANGED <<life, owner, req>>

-----------------------------------------------------------------------------
Answer(r, pc, d) ==
    /\ req' = [req EXCEPT ![r].pc = pc, ![r].tenant = d]
    /\ UNCHANGED <<life, owner, status>>

Present(r, s) ==
    /\ req[r].pc = "new"
    /\ s \in Secrets => life[s] # "unborn"
    /\ req' = [req EXCEPT ![r].pc = "sent", ![r].secret = s]
    /\ UNCHANGED <<life, owner, status>>

Find(r) ==
    /\ req[r].pc = "sent" /\ req[r].secret \in Secrets
    /\ life[req[r].secret] = "live"
    /\ Answer(r, "found", owner[req[r].secret])

Accept(r) ==
    /\ req[r].pc = "found" /\ status[req[r].tenant] = "active"
    /\ Answer(r, "accepted", req[r].tenant)

\* Secrets of the env are accepted whatever the tables say.
AcceptEnv(r) ==
    /\ req[r].pc = "sent" /\ req[r].secret \in DOMAIN EnvTenant
    /\ Answer(r, "accepted", EnvTenant[req[r].secret])

\* Secrets of the store may be refused at any time.
Refuse(r) ==
    /\ req[r].pc \in {"sent", "found"} /\ req[r].secret \in Secrets
    /\ Answer(r, "refused", None)

ANext ==
    \/ \E r \in Requests :
          \/ \E s \in Secrets \cup DOMAIN EnvTenant : Present(r, s)
          \/ Find(r) \/ Accept(r) \/ AcceptEnv(r) \/ Refuse(r)
    \/ \E d \in Tenants : (\E st \in {"active", "disabled"} : Set(d, st)) \/ Delete(d)
    \/ \E D \in SUBSET Tenants : Open(D)
    \/ \E s \in Secrets : (\E d \in Tenants : Give(s, d)) \/ Revoke(s)
    \/ \E old, new \in Secrets : Replace(old, new)

ASpec == AInit /\ [][ANext]_avars
=============================================================================
