----------------------------- MODULE Instances -----------------------------
(***************************************************************************)
(* Instances, their hosts and their runtimes: create_instance,             *)
(* stop_instance_api, wake_instance_api and the host handlers of           *)
(* control-plane/main.py, over docker_driver.py and ssh_driver.py.         *)
(*                                                                         *)
(* A handler loads what it needs, calls a driver, which takes up to three  *)
(* minutes, and then writes what the driver said; the transaction of the   *)
(* row spans all of it, but nothing is locked, so handlers on one instance *)
(* overlap.  What a driver did to the outside stays done when the          *)
(* transaction is rolled back or the control plane dies.                   *)
(*                                                                         *)
(* A runtime is a compose project on the control plane's own Docker, or a  *)
(* state file that runtime/remote-agent/start_runtime.sh keeps on a host.  *)
(***************************************************************************)
CONSTANTS
    Tenants,
    Instances,  \* ids of instance rows, each minted once
    Hosts,      \* ids of host rows, each minted once
    Threads,    \* control-plane threads
    None,       \* no host, no row
    Anyone,     \* tenant of a host that is bound to none
    Deleted     \* tenant of a host whose row is gone

ASSUME DistinctAssumption ==
    /\ None \notin Hosts \cup Tenants
    /\ {Anyone, Deleted} \cap (Tenants \cup {None}) = {} /\ Anyone # Deleted

VARIABLES
    docker,     \* AF_DOCKER_DRIVER is not off, and docker is there
    ssh,        \* AF_SSH_DRIVER is on
    tenants,    \* tenants with a row
    bound,      \* host -> its tenant_id: a tenant, Anyone; None before its row
    row,        \* instance -> its row, or None
    used,       \* instance ids generated so far
    tx,         \* thread -> the handler it runs
    local,      \* instances whose compose project runs here
    remote,     \* pairs of a host and an instance the host says it runs
    madeFor,    \* history: instance -> the tenant its creation named
    madeOn,     \* history: instance -> the host its creation named
    openTo      \* history: host -> tenants whose instances it once admitted

tables == <<tenants, bound, row>>
runtimes == <<local, remote>>
history == <<madeFor, madeOn, openTo>>
vars == <<docker, ssh, tables, used, tx, runtimes, history>>

Rows == [tenant: Tenants, status: {"created", "running", "stopped"},
         compose: BOOLEAN, host: Hosts \cup {None}]

Idle == [op |-> "idle"]
\* What a handler loaded (of its row: read), and what the driver told it.
Handlers == {Idle} \cup
    [op: {"create", "stop", "wake"}, inst: Instances, read: Rows,
     told: {"nothing", "created", "running", "stopped"}]

TypeOK ==
    /\ docker \in BOOLEAN /\ ssh \in BOOLEAN
    /\ tenants \subseteq Tenants
    /\ bound \in [Hosts -> Tenants \cup {Anyone, Deleted, None}]
    /\ row \in [Instances -> Rows \cup {None}]
    /\ used \subseteq Instances
    /\ \A i \in Instances : row[i] # None => i \in used
    /\ tx \in [Threads -> Handlers]
    /\ local \subseteq used /\ remote \subseteq Hosts \X used
    /\ madeFor \in [Instances -> Tenants \cup {None}]
    /\ madeOn \in [Instances -> Hosts \cup {None}]
    /\ openTo \in [Hosts -> SUBSET Tenants]

Init ==
    /\ docker \in BOOLEAN /\ ssh \in BOOLEAN
    /\ tenants = Tenants
    /\ bound = [h \in Hosts |-> None]
    /\ row = [i \in Instances |-> None]
    /\ used = {}
    /\ tx = [t \in Threads |-> Idle]
    /\ local = {} /\ remote = {}
    /\ madeFor = [i \in Instances |-> None]
    /\ madeOn = [i \in Instances |-> None]
    /\ openTo = [h \in Hosts |-> {}]

-----------------------------------------------------------------------------
Present(h) == bound[h] \in Tenants \cup {Anyone}

\* What "host_row.tenant_id and host_row.tenant_id != tenant_id" lets pass.
MutantAdmitted(h, d) == Present(h)
Admitted(h, d) == bound[h] \in {d, Anyone}

Begin(t, op, i, read) ==
    /\ tx[t] = Idle
    /\ tx' = [tx EXCEPT ![t] = [op |-> op, inst |-> i, read |-> read, told |-> "nothing"]]
    /\ UNCHANGED <<docker, ssh, tables, runtimes, openTo>>

\* create_instance up to the call of the driver.
BeginCreate(t, i, d, h) ==
    /\ i \notin used /\ used' = used \cup {i}
    /\ d \in tenants
    /\ h # None => Admitted(h, d)
    /\ Begin(t, "create", i, [tenant |-> d, status |-> "created", compose |-> FALSE, host |-> h])
    /\ madeFor' = [madeFor EXCEPT ![i] = d]
    /\ madeOn' = [madeOn EXCEPT ![i] = h]

MutantBeginStopOrWake(t, op, i) ==
    /\ Begin(t, op, i, row[i])
    /\ UNCHANGED <<used, madeFor, madeOn>>
BeginStopOrWake(t, op, i) ==
    /\ row[i] # None
    /\ Begin(t, op, i, row[i])
    /\ UNCHANGED <<used, madeFor, madeOn>>

-----------------------------------------------------------------------------
(* The calls of the drivers.                                               *)

Told(t, what) ==
    /\ tx[t] # Idle /\ tx[t].told = "nothing"
    /\ tx' = [tx EXCEPT ![t].told = what]
    /\ UNCHANGED <<docker, ssh, tables, used, history>>

Here(t) == tx[t].read.host = None
Target(t) == <<tx[t].read.host, tx[t].inst>>

\* start_instance, and wake_instance, which tries compose start before it.
\* When up -d fails or times out, containers may run all the same.
StartHere(t) ==
    /\ tx[t].op \in {"create", "wake"} /\ Here(t)
    /\ \/ docker /\ local' = local \cup {tx[t].inst} /\ Told(t, "running")
       \/ docker /\ local' = local \cup {tx[t].inst} /\ Told(t, "created")
       \/ UNCHANGED local /\ Told(t, "created")
    /\ UNCHANGED remote

\* start_remote_runtime.  wake looks the host up first, and answers 400
\* without it (Abort); create has the host it checked.
StartThere(t) ==
    /\ tx[t].op \in {"create", "wake"} /\ ~Here(t)
    /\ tx[t].op = "wake" => Present(tx[t].read.host)
    /\ \/ ssh /\ remote' = remote \cup {Target(t)} /\ Told(t, "running")
       \/ ssh /\ remote' = remote \cup {Target(t)} /\ Told(t, "created")
       \/ ssh /\ UNCHANGED remote /\ Told(t, "created")
       \/ ~ssh /\ UNCHANGED remote /\ Told(t, "running")
    /\ UNCHANGED local

\* stop_instance: without a project there is nothing to stop, and a compose
\* stop that fails is reported as stopped.
StopHere(t) ==
    /\ tx[t].op = "stop" /\ Here(t)
    /\ \/ docker /\ tx[t].read.compose /\ local' = local \ {tx[t].inst}
       \/ UNCHANGED local
    /\ Told(t, "stopped")
    /\ UNCHANGED remote

\* stop_remote_runtime, or nothing if the host is missing.
StopThere(t) ==
    /\ tx[t].op = "stop" /\ ~Here(t)
    /\ \/ ssh /\ Present(tx[t].read.host) /\ remote' = remote \ {Target(t)}
       \/ UNCHANGED remote
    /\ Told(t, "stopped")
    /\ UNCHANGED local

-----------------------------------------------------------------------------
(* The ends of the handlers.                                               *)

End(t) ==
    /\ tx' = [tx EXCEPT ![t] = Idle]
    /\ UNCHANGED <<docker, ssh, tenants, bound, used, runtimes, history>>

MutantCommitCreate(t) ==
    LET new == tx[t].read IN
    /\ tx[t].op = "create" /\ tx[t].told # "nothing"
    /\ new.tenant \in tenants
    /\ new.host # None => Present(new.host)
    /\ row' = [row EXCEPT ![tx[t].inst] =
                  [new EXCEPT !.status = tx[t].told, !.host = None,
                              !.compose = new.host = None /\ tx[t].told = "running"]]
    /\ End(t)
\* INSERT: the foreign keys need the tenant and the host.
CommitCreate(t) ==
    LET new == tx[t].read IN
    /\ tx[t].op = "create" /\ tx[t].told # "nothing"
    /\ new.tenant \in tenants
    /\ new.host # None => Present(new.host)
    /\ row' = [row EXCEPT ![tx[t].inst] =
                  [new EXCEPT !.status = tx[t].told,
                              !.compose = new.host = None /\ tx[t].told = "running"]]
    /\ End(t)

\* UPDATE of the columns that differ from what was loaded.
MutantCompose(t) == row[tx[t].inst].compose
Compose(t) ==
    \/ row[tx[t].inst].compose
    \/ tx[t].op = "wake" /\ Here(t) /\ tx[t].told = "running"

CommitUpdate(t) ==
    /\ tx[t].op \in {"stop", "wake"} /\ tx[t].told # "nothing"
    /\ row[tx[t].inst] # None
    /\ row' = [row EXCEPT
          ![tx[t].inst].status = IF tx[t].told = tx[t].read.status THEN @ ELSE tx[t].told,
          ![tx[t].inst].compose = Compose(t)]
    /\ End(t)

\* An error of the handler, a foreign key or a row that is gone: rolled back.
Abort(t) == tx[t] # Idle /\ UNCHANGED row /\ End(t)

\* The control plane stops and starts.
Restart ==
    /\ tx' = [t \in Threads |-> Idle]
    /\ UNCHANGED <<docker, ssh, tables, used, runtimes, history>>

-----------------------------------------------------------------------------
(* Hosts and tenants.                                                      *)

\* Keeps the history of a host's bindings.
Bind(new) ==
    /\ bound' = new
    /\ openTo' = [h \in Hosts |->
                     openTo[h] \cup (IF new[h] = Anyone THEN Tenants ELSE {new[h]} \cap Tenants)]
    /\ UNCHANGED <<docker, ssh, used, tx, runtimes, madeFor, madeOn>>

CreateHost(h, d) ==
    /\ bound[h] = None
    /\ d \in tenants \cup {Anyone}
    /\ Bind([bound EXCEPT ![h] = d])
    /\ UNCHANGED <<tenants, row>>

UpdateHost(h, d) ==
    /\ Present(h) /\ bound[h] # d
    /\ d \in tenants \cup {Anyone}
    /\ Bind([bound EXCEPT ![h] = d])
    /\ UNCHANGED <<tenants, row>>

\* ON DELETE SET NULL: its instances lose their host_id.
DeleteHost(h) ==
    /\ Present(h)
    /\ Bind([bound EXCEPT ![h] = Deleted])
    /\ row' = [i \in Instances |->
                  IF row[i] # None /\ row[i].host = h THEN [row[i] EXCEPT !.host = None] ELSE row[i]]
    /\ UNCHANGED tenants

\* Its instance rows go, its hosts become free, its runtimes stay.
DeleteTenant(d) ==
    /\ d \in tenants /\ tenants' = tenants \ {d}
    /\ row' = [i \in Instances |-> IF row[i] # None /\ row[i].tenant = d THEN None ELSE row[i]]
    /\ Bind([h \in Hosts |-> IF bound[h] = d THEN Anyone ELSE bound[h]])

CreateTenant(d) ==
    /\ d \notin tenants /\ tenants' = tenants \cup {d}
    /\ UNCHANGED <<docker, ssh, bound, row, used, tx, runtimes, history>>

\* A container ends by itself, or by the watchdog.
Falls(i) ==
    /\ i \in local /\ local' = local \ {i}
    /\ UNCHANGED <<docker, ssh, tables, used, tx, remote, history>>

Handle(t) ==
    \/ \E i \in Instances :
          \/ \E d \in Tenants, h \in Hosts \cup {None} : BeginCreate(t, i, d, h)
          \/ \E op \in {"stop", "wake"} : BeginStopOrWake(t, op, i)
    \/ StartHere(t) \/ StartThere(t) \/ StopHere(t) \/ StopThere(t)
    \/ CommitCreate(t) \/ CommitUpdate(t) \/ Abort(t)

Administer ==
    \/ \E h \in Hosts :
          \/ \E d \in Tenants \cup {Anyone} : CreateHost(h, d) \/ UpdateHost(h, d)
          \/ DeleteHost(h)
    \/ \E d \in Tenants : DeleteTenant(d) \/ CreateTenant(d)

Next ==
    \/ \E t \in Threads : Handle(t)
    \/ Administer
    \/ Restart
    \/ \E i \in Instances : Falls(i)

Spec == Init /\ [][Next]_vars

-----------------------------------------------------------------------------
(* What the instance handlers promise.                                     *)

\* A host runs an instance only for a tenant it was once open to: a machine
\* that has been one customer's since it was registered runs nobody else's
\* runtime, whatever hosts, tenants and instances go through meanwhile.
HostIsExclusive ==
    \A pair \in remote : madeFor[pair[2]] \in openTo[pair[1]]

\* The row leads to the runtime: while an instance has a row, its runtime is
\* where the row says, so that a later stop goes to the right place; only a
\* host that was deleted may still run an instance unknown to its row.
RowLeadsToRuntime ==
    \A i \in Instances :
        row[i] # None =>
            /\ i \in local => row[i].host = None
            /\ \A h \in Hosts :
                  <<h, i>> \in remote => row[i].host = h \/ bound[h] = Deleted

\* A local instance that its row calls running has a compose project that a
\* stop can name, also after overlapping stops and wakes.
RunningCanBeStopped ==
    \A i \in Instances :
        row[i] # None /\ row[i].status = "running" /\ madeOn[i] = None => row[i].compose
=============================================================================
