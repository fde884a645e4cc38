---------------------------- MODULE InstancesProofs ----------------------------
(***************************************************************************)
(* Safety of instances, hosts and runtimes for every number of tenants,    *)
(* instances, hosts and threads.                                           *)
(***************************************************************************)
EXTENDS Instances, TLAPS

\* The host an instance was made on is no longer, or there was none.
Hostless(i) == madeOn[i] = None \/ bound[madeOn[i]] = Deleted

\* Ids in use name a host that has been registered, for a tenant it was open to.
MadeIsOpen ==
    \A i \in Instances : madeOn[i] \in Hosts =>
        bound[madeOn[i]] # None /\ madeFor[i] \in openTo[madeOn[i]]

\* The history of a host's bindings includes the current one.
BindingsAreKept ==
    \A h \in Hosts :
        /\ bound[h] \in Tenants => bound[h] \in openTo[h]
        /\ bound[h] = Anyone => openTo[h] = Tenants

\* A row is on the host it was made on for as long as that exists.
RowsKeepHost ==
    \A i \in Instances : row[i] # None =>
        \/ row[i].host = None /\ Hostless(i)
        \/ row[i].host = madeOn[i] /\ Present(madeOn[i])

\* What a handler loaded is the host or its absence.
ReadsKeepHost ==
    \A t \in Threads : tx[t] # Idle =>
        LET i == tx[t].inst IN
        /\ i \in used
        /\ \/ tx[t].read.host = None /\ Hostless(i)
           \/ tx[t].read.host = madeOn[i]

\* An instance being created is nobody else's.
CreatesAreAlone ==
    \A t \in Threads : tx[t] # Idle /\ tx[t].op = "create" =>
        /\ row[tx[t].inst] = None
        /\ tx[t].read.host = madeOn[tx[t].inst]
        /\ \A u \in Threads : tx[u] # Idle /\ tx[u].inst = tx[t].inst => u = t

StopsStop ==
    \A t \in Threads : tx[t] # Idle /\ tx[t].op = "stop" => tx[t].told \in {"nothing", "stopped"}

RuntimesAreMade ==
    /\ \A i \in local : Hostless(i)
    /\ \A pair \in remote : pair[1] = madeOn[pair[2]]

IInv ==
    /\ TypeOK
    /\ MadeIsOpen /\ BindingsAreKept /\ RowsKeepHost /\ ReadsKeepHost
    /\ CreatesAreAlone /\ StopsStop /\ RuntimesAreMade /\ RunningCanBeStopped

-----------------------------------------------------------------------------
(* The invariant holds at the beginning and is kept by every action.       *)

LEMMA InitInv == Init => IInv
<1> SUFFICES ASSUME Init PROVE IInv
  OBVIOUS
<1>1. TypeOK
  BY DEF Init, TypeOK, Handlers
<1>2. QED
  BY <1>1, DistinctAssumption DEF Init, IInv, MadeIsOpen, BindingsAreKept, RowsKeepHost,
     ReadsKeepHost, CreatesAreAlone, StopsStop, RuntimesAreMade, RunningCanBeStopped

\* What a busy thread has.
LEMMA BusyThread ==
    ASSUME TypeOK, NEW t \in Threads, tx[t].op # "idle" \/ tx[t] # Idle
    PROVE  /\ tx[t] # Idle /\ tx[t].inst \in Instances /\ tx[t].read \in Rows
           /\ tx[t].op \in {"create", "stop", "wake"}
           /\ tx[t].told \in {"nothing", "created", "running", "stopped"}
BY DEF TypeOK, Handlers, Idle

\* What telling a thread does to the threads.
LEMMA Telling ==
    ASSUME TypeOK, NEW t \in Threads, tx[t] # Idle,
           NEW what \in {"created", "running", "stopped"}, Told(t, what)
    PROVE  tx' \in [Threads -> Handlers]
<1>1. [tx[t] EXCEPT !.told = what] \in Handlers
  <2>1. tx[t] \in [op: {"create", "stop", "wake"}, inst: Instances, read: Rows,
                   told: {"nothing", "created", "running", "stopped"}]
    BY DEF TypeOK, Handlers
  <2>2. QED
    BY <2>1 DEF Handlers
<1>2. QED
  BY <1>1 DEF Told, TypeOK

LEMMA BeginCreateStep ==
    ASSUME IInv, NEW t \in Threads, NEW i \in Instances, NEW d \in Tenants,
           NEW h \in Hosts \cup {None}, BeginCreate(t, i, d, h)
    PROVE  IInv'
<1> USE DEF IInv
<1>t. TypeOK'
  BY DEF BeginCreate, Begin, TypeOK, Handlers, Rows, Idle, tables, runtimes
<1>1. MadeIsOpen'
  BY DistinctAssumption DEF MadeIsOpen, Admitted, BindingsAreKept, BeginCreate, Begin, tables, runtimes, Idle, TypeOK
<1>2. BindingsAreKept'
  BY DistinctAssumption DEF BindingsAreKept, BeginCreate, Begin, tables, runtimes, Idle, TypeOK
<1>3. RowsKeepHost'
  BY DistinctAssumption DEF RowsKeepHost, BeginCreate, Begin, tables, runtimes, Idle, Hostless, Present, TypeOK
<1>4. ReadsKeepHost'
  BY DistinctAssumption DEF ReadsKeepHost, Handlers, BeginCreate, Begin, tables, runtimes, Idle, Hostless, TypeOK
<1>5. CreatesAreAlone'
  BY DistinctAssumption DEF CreatesAreAlone, ReadsKeepHost, BeginCreate, Begin, tables, runtimes, Idle, TypeOK
<1>6. StopsStop'
  BY DistinctAssumption DEF StopsStop, BeginCreate, Begin, tables, runtimes, Idle, TypeOK
<1>7. RuntimesAreMade'
  BY DistinctAssumption DEF RuntimesAreMade, BeginCreate, Begin, tables, runtimes, Idle, Hostless, TypeOK
<1>8. RunningCanBeStopped'
  BY DistinctAssumption DEF RunningCanBeStopped, BeginCreate, Begin, tables, runtimes, Idle, TypeOK
<1>9. QED
  BY <1>t, <1>1, <1>2, <1>3, <1>4, <1>5, <1>6, <1>7, <1>8

LEMMA BeginStopOrWakeStep ==
    ASSUME IInv, NEW t \in Threads, NEW op \in {"stop", "wake"}, NEW i \in Instances,
           BeginStopOrWake(t, op, i)
    PROVE  IInv'
<1> USE DEF IInv
<1>t. TypeOK'
  BY DEF BeginStopOrWake, Begin, TypeOK, Handlers, Rows, Idle, tables, runtimes
<1>1. MadeIsOpen'
  BY DEF MadeIsOpen, BeginStopOrWake, Begin, tables, runtimes, Idle, TypeOK
<1>2. BindingsAreKept'
  BY DEF BindingsAreKept, BeginStopOrWake, Begin, tables, runtimes, Idle, TypeOK
<1>3. RowsKeepHost'
  BY DEF RowsKeepHost, BeginStopOrWake, Begin, tables, runtimes, Idle, Hostless, Present, TypeOK
<1>4. ReadsKeepHost'
  BY DEF ReadsKeepHost, RowsKeepHost, BeginStopOrWake, Begin, tables, runtimes, Idle, Hostless, TypeOK
<1>5. CreatesAreAlone'
  BY DEF CreatesAreAlone, BeginStopOrWake, Begin, tables, runtimes, Idle, TypeOK
<1>6. StopsStop'
  BY DEF StopsStop, BeginStopOrWake, Begin, tables, runtimes, Idle, TypeOK
<1>7. RuntimesAreMade'
  BY DEF RuntimesAreMade, BeginStopOrWake, Begin, tables, runtimes, Idle, Hostless, TypeOK
<1>8. RunningCanBeStopped'
  BY DEF RunningCanBeStopped, BeginStopOrWake, Begin, tables, runtimes, Idle, TypeOK
<1>9. QED
  BY <1>t, <1>1, <1>2, <1>3, <1>4, <1>5, <1>6, <1>7, <1>8

LEMMA StartHereStep ==
    ASSUME IInv, NEW t \in Threads, StartHere(t)
    PROVE  IInv'
<1> USE DEF IInv
<1>b. /\ tx[t] # Idle /\ tx[t].inst \in Instances /\ tx[t].read \in Rows /\ tx[t].inst \in used
  BY BusyThread DEF StartHere, Told, ReadsKeepHost
<1>t. TypeOK'
  <2>1. tx' \in [Threads -> Handlers]
    BY <1>b, Telling DEF StartHere
  <2>2. QED
    BY <1>b, <2>1 DEF StartHere, Told, Here, Target, TypeOK, Rows, tables, history
<1>1. MadeIsOpen'
  BY <1>b, DistinctAssumption DEF MadeIsOpen, StartHere, Told, Here, Target, tables, history, Idle, Handlers, TypeOK
<1>2. BindingsAreKept'
  BY <1>b, DistinctAssumption DEF BindingsAreKept, StartHere, Told, Here, Target, tables, history, Idle, Handlers, TypeOK
<1>3. RowsKeepHost'
  BY <1>b, DistinctAssumption DEF RowsKeepHost, StartHere, Told, Here, Target, tables, history, Idle, Handlers, Hostless, Present, TypeOK
<1>4. ReadsKeepHost'
  BY <1>b, DistinctAssumption DEF ReadsKeepHost, StartHere, Told, Here, Target, tables, history, Idle, Handlers, Hostless, TypeOK
<1>5. CreatesAreAlone'
  BY <1>b, DistinctAssumption DEF CreatesAreAlone, StartHere, Told, Here, Target, tables, history, Idle, Handlers, TypeOK
<1>6. StopsStop'
  BY <1>b, DistinctAssumption DEF StopsStop, StartHere, Told, Here, Target, tables, history, Idle, Handlers, TypeOK
<1>7. RuntimesAreMade'
  BY <1>b, DistinctAssumption DEF RuntimesAreMade, ReadsKeepHost, StartHere, Told, Here, Target, tables, history, Idle, Handlers, Hostless, TypeOK
<1>8. RunningCanBeStopped'
  BY <1>b, DistinctAssumption DEF RunningCanBeStopped, StartHere, Told, Here, Target, tables, history, Idle, Handlers, TypeOK
<1>9. QED
  BY <1>t, <1>1, <1>2, <1>3, <1>4, <1>5, <1>6, <1>7, <1>8

LEMMA StartThereStep ==
    ASSUME IInv, NEW t \in Threads, StartThere(t)
    PROVE  IInv'
<1> USE DEF IInv
<1>b. /\ tx[t] # Idle /\ tx[t].inst \in Instances /\ tx[t].read \in Rows /\ tx[t].inst \in used
  BY BusyThread DEF StartThere, Told, ReadsKeepHost
<1>t. TypeOK'
  <2>1. tx' \in [Threads -> Handlers]
    BY <1>b, Telling DEF StartThere
  <2>2. QED
    BY <1>b, <2>1 DEF StartThere, Told, Here, Target, TypeOK, Rows, tables, history
<1>1. MadeIsOpen'
  BY <1>b, DistinctAssumption DEF MadeIsOpen, StartThere, Told, Here, Target, tables, history, Idle, Handlers, TypeOK
<1>2. BindingsAreKept'
  BY <1>b, DistinctAssumption DEF BindingsAreKept, StartThere, Told, Here, Target, tables, history, Idle, Handlers, TypeOK
<1>3. RowsKeepHost'
  BY <1>b, DistinctAssumption DEF RowsKeepHost, StartThere, Told, Here, Target, tables, history, Idle, Handlers, Hostless, Present, TypeOK
<1>4. ReadsKeepHost'
  BY <1>b, DistinctAssumption DEF ReadsKeepHost, StartThere, Told, Here, Target, tables, history, Idle, Handlers, Hostless, TypeOK
<1>5. CreatesAreAlone'
  BY <1>b, DistinctAssumption DEF CreatesAreAlone, StartThere, Told, Here, Target, tables, history, Idle, Handlers, TypeOK
<1>6. StopsStop'
  BY <1>b, DistinctAssumption DEF StopsStop, StartThere, Told, Here, Target, tables, history, Idle, Handlers, TypeOK
<1>7. RuntimesAreMade'
  BY <1>b, DistinctAssumption DEF RuntimesAreMade, ReadsKeepHost, StartThere, Told, Here, Target, tables, history, Idle, Handlers, Hostless, TypeOK
<1>8. RunningCanBeStopped'
  BY <1>b, DistinctAssumption DEF RunningCanBeStopped, StartThere, Told, Here, Target, tables, history, Idle, Handlers, TypeOK
<1>9. QED
  BY <1>t, <1>1, <1>2, <1>3, <1>4, <1>5, <1>6, <1>7, <1>8

LEMMA StopHereStep ==
    ASSUME IInv, NEW t \in Threads, StopHere(t)
    PROVE  IInv'
<1> USE DEF IInv
<1>b. /\ tx[t] # Idle /\ tx[t].inst \in Instances /\ tx[t].read \in Rows /\ tx[t].inst \in used
  BY BusyThread DEF StopHere, Told, ReadsKeepHost
<1>t. TypeOK'
  <2>1. tx' \in [Threads -> Handlers]
    BY <1>b, Telling DEF StopHere
  <2>2. QED
    BY <1>b, <2>1 DEF StopHere, Told, Here, Target, TypeOK, Rows, tables, history
<1>1. MadeIsOpen'
  BY <1>b, DistinctAssumption DEF MadeIsOpen, StopHere, Told, Here, Target, tables, history, Idle, Handlers, TypeOK
<1>2. BindingsAreKept'
  BY <1>b, DistinctAssumption DEF BindingsAreKept, StopHere, Told, Here, Target, tables, history, Idle, Handlers, TypeOK
<1>3. RowsKeepHost'
  BY <1>b, DistinctAssumption DEF RowsKeepHost, StopHere, Told, Here, Target, tables, history, Idle, Handlers, Hostless, Present, TypeOK
<1>4. ReadsKeepHost'
  BY <1>b, DistinctAssumption DEF ReadsKeepHost, StopHere, Told, Here, Target, tables, history, Idle, Handlers, Hostless, TypeOK
<1>5. CreatesAreAlone'
  BY <1>b, DistinctAssumption DEF CreatesAreAlone, StopHere, Told, Here, Target, tables, history, Idle, Handlers, TypeOK
<1>6. StopsStop'
  BY <1>b, DistinctAssumption DEF StopsStop, StopHere, Told, Here, Target, tables, history, Idle, Handlers, TypeOK
<1>7. RuntimesAreMade'
  BY <1>b, DistinctAssumption DEF RuntimesAreMade, ReadsKeepHost, StopHere, Told, Here, Target, tables, history, Idle, Handlers, Hostless, TypeOK
<1>8. RunningCanBeStopped'
  BY <1>b, DistinctAssumption DEF RunningCanBeStopped, StopHere, Told, Here, Target, tables, history, Idle, Handlers, TypeOK
<1>9. QED
  BY <1>t, <1>1, <1>2, <1>3, <1>4, <1>5, <1>6, <1>7, <1>8

LEMMA StopThereStep ==
    ASSUME IInv, NEW t \in Threads, StopThere(t)
    PROVE  IInv'
<1> USE DEF IInv
<1>b. /\ tx[t] # Idle /\ tx[t].inst \in Instances /\ tx[t].read \in Rows /\ tx[t].inst \in used
  BY BusyThread DEF StopThere, Told, ReadsKeepHost
<1>t. TypeOK'
  <2>1. tx' \in [Threads -> Handlers]
    BY <1>b, Telling DEF StopThere
  <2>2. QED
    BY <1>b, <2>1 DEF StopThere, Told, Here, Target, TypeOK, Rows, tables, history
<1>1. MadeIsOpen'
  BY <1>b, DistinctAssumption DEF MadeIsOpen, StopThere, Told, Here, Target, tables, history, Idle, Handlers, TypeOK
<1>2. BindingsAreKept'
  BY <1>b, DistinctAssumption DEF BindingsAreKept, StopThere, Told, Here, Target, tables, history, Idle, Handlers, TypeOK
<1>3. RowsKeepHost'
  BY <1>b, DistinctAssumption DEF RowsKeepHost, StopThere, Told, Here, Target, tables, history, Idle, Handlers, Hostless, Present, TypeOK
<1>4. ReadsKeepHost'
  BY <1>b, DistinctAssumption DEF ReadsKeepHost, StopThere, Told, Here, Target, tables, history, Idle, Handlers, Hostless, TypeOK
<1>5. CreatesAreAlone'
  BY <1>b, DistinctAssumption DEF CreatesAreAlone, StopThere, Told, Here, Target, tables, history, Idle, Handlers, TypeOK
<1>6. StopsStop'
  BY <1>b, DistinctAssumption DEF StopsStop, StopThere, Told, Here, Target, tables, history, Idle, Handlers, TypeOK
<1>7. RuntimesAreMade'
  BY <1>b, DistinctAssumption DEF RuntimesAreMade, ReadsKeepHost, StopThere, Told, Here, Target, tables, history, Idle, Handlers, Hostless, TypeOK
<1>8. RunningCanBeStopped'
  BY <1>b, DistinctAssumption DEF RunningCanBeStopped, StopThere, Told, Here, Target, tables, history, Idle, Handlers, TypeOK
<1>9. QED
  BY <1>t, <1>1, <1>2, <1>3, <1>4, <1>5, <1>6, <1>7, <1>8

LEMMA CommitCreateStep ==
    ASSUME IInv, NEW t \in Threads, CommitCreate(t)
    PROVE  IInv'
<1> USE DEF IInv
<1>b. /\ tx[t] # Idle /\ tx[t].inst \in Instances /\ tx[t].read \in Rows
  BY BusyThread DEF CommitCreate, Idle
<1>r. row'[tx[t].inst] \in Rows /\ tx[t].told # "nothing"
  BY <1>b, BusyThread DEF CommitCreate, TypeOK, Rows
<1>t. TypeOK'
  <2>1. row' \in [Instances -> Rows \cup {None}]
    BY <1>b, <1>r DEF CommitCreate, TypeOK
  <2>2. tx' \in [Threads -> Handlers]
    BY DEF CommitCreate, End, TypeOK, Handlers
  <2>3. \A i \in Instances : row'[i] # None => i \in used
    BY <1>b DEF CommitCreate, TypeOK, ReadsKeepHost
  <2>4. QED
    BY <2>1, <2>2, <2>3 DEF CommitCreate, End, TypeOK, runtimes, history
<1>1. MadeIsOpen'
  BY <1>b DEF MadeIsOpen, CommitCreate, End, runtimes, history, Idle, TypeOK
<1>2. BindingsAreKept'
  BY <1>b DEF BindingsAreKept, CommitCreate, End, runtimes, history, Idle, TypeOK
<1>3. RowsKeepHost'
  BY <1>b DEF RowsKeepHost, ReadsKeepHost, CreatesAreAlone, CommitCreate, End, runtimes, history, Idle, Hostless, Present, TypeOK
<1>4. ReadsKeepHost'
  BY <1>b DEF ReadsKeepHost, CommitCreate, End, runtimes, history, Idle, Hostless, TypeOK
<1>5. CreatesAreAlone'
  BY <1>b DEF CreatesAreAlone, CommitCreate, End, runtimes, history, Idle, TypeOK
<1>6. StopsStop'
  BY <1>b DEF StopsStop, CommitCreate, End, runtimes, history, Idle, TypeOK
<1>7. RuntimesAreMade'
  BY <1>b DEF RuntimesAreMade, CommitCreate, End, runtimes, history, Idle, Hostless, TypeOK
<1>8. RunningCanBeStopped'
  <2>1. ASSUME NEW i \in Instances, row'[i] # None, row'[i].status = "running", madeOn'[i] = None
        PROVE  row'[i].compose
    <3>1. CASE i = tx[t].inst
      <4>1. tx[t].read.host = None
        BY <1>b, <2>1, <3>1 DEF CreatesAreAlone, CommitCreate, End, history
      <4>2. row'[i] = [tx[t].read EXCEPT !.status = tx[t].told,
                                         !.compose = tx[t].read.host = None /\ tx[t].told = "running"]
        BY <1>b, <3>1 DEF CommitCreate, TypeOK
      <4>3. QED
        BY <1>b, <2>1, <4>1, <4>2 DEF Rows
    <3>2. CASE i # tx[t].inst
      BY <2>1, <3>2 DEF RunningCanBeStopped, CommitCreate, End, history, TypeOK
    <3>3. QED
      BY <3>1, <3>2
  <2>2. QED
    BY <2>1 DEF RunningCanBeStopped
<1>9. QED
  BY <1>t, <1>1, <1>2, <1>3, <1>4, <1>5, <1>6, <1>7, <1>8

LEMMA CommitUpdateStep ==
    ASSUME IInv, NEW t \in Threads, CommitUpdate(t)
    PROVE  IInv'
<1> USE DEF IInv
<1>b. /\ tx[t] # Idle /\ tx[t].inst \in Instances /\ tx[t].read \in Rows
  BY BusyThread DEF CommitUpdate, Idle
<1>i. row[tx[t].inst] \in Rows /\ tx[t].told \in {"created", "running", "stopped"}
  BY <1>b, BusyThread DEF CommitUpdate, TypeOK
<1>c. Compose(t) \in BOOLEAN
  BY <1>b, <1>i DEF Compose, Rows
<1>n. /\ row'[tx[t].inst].compose = Compose(t)
      /\ tx[t].told = tx[t].read.status => row'[tx[t].inst].status = row[tx[t].inst].status
      /\ tx[t].told # tx[t].read.status => row'[tx[t].inst].status = tx[t].told
  BY <1>b, <1>i DEF CommitUpdate, TypeOK, Rows
<1>r. row'[tx[t].inst] \in Rows
  <2>1. CASE tx[t].told = tx[t].read.status
    BY <1>b, <1>i, <1>c, <2>1 DEF CommitUpdate, TypeOK, Rows
  <2>2. CASE tx[t].told # tx[t].read.status
    BY <1>b, <1>i, <1>c, <2>2 DEF CommitUpdate, TypeOK, Rows
  <2>3. QED
    BY <2>1, <2>2
<1>t. TypeOK'
  <2>1. row' \in [Instances -> Rows \cup {None}]
    BY <1>b, <1>r DEF CommitUpdate, TypeOK
  <2>2. tx' \in [Threads -> Handlers]
    BY DEF CommitUpdate, End, TypeOK, Handlers
  <2>3. \A i \in Instances : row'[i] # None => i \in used
    BY <1>b DEF CommitUpdate, TypeOK, ReadsKeepHost
  <2>4. QED
    BY <2>1, <2>2, <2>3 DEF CommitUpdate, End, TypeOK, runtimes, history
<1>1. MadeIsOpen'
  BY <1>b DEF MadeIsOpen, CommitUpdate, End, runtimes, history, Idle, Compose, TypeOK
<1>2. BindingsAreKept'
  BY <1>b DEF BindingsAreKept, CommitUpdate, End, runtimes, history, Idle, Compose, TypeOK
<1>3. RowsKeepHost'
  BY <1>b DEF RowsKeepHost, CreatesAreAlone, ReadsKeepHost, CommitUpdate, End, runtimes, history, Idle, Compose, Hostless, Present, TypeOK
<1>4. ReadsKeepHost'
  BY <1>b DEF ReadsKeepHost, CommitUpdate, End, runtimes, history, Idle, Compose, Hostless, TypeOK
<1>5. CreatesAreAlone'
  <2>1. \A i \in Instances : row[i] = None => row'[i] = None
    BY DEF CommitUpdate, TypeOK
  <2>2. \A u \in Threads : tx'[u] # Idle => tx'[u] = tx[u] /\ tx[u].inst \in Instances
    BY BusyThread DEF CommitUpdate, End, TypeOK
  <2>3. madeOn' = madeOn
    BY DEF CommitUpdate, End, history
  <2>4. QED
    BY <2>1, <2>2, <2>3 DEF CreatesAreAlone
<1>6. StopsStop'
  BY <1>b DEF StopsStop, CommitUpdate, End, runtimes, history, Idle, Compose, TypeOK
<1>7. RuntimesAreMade'
  BY <1>b DEF RuntimesAreMade, CommitUpdate, End, runtimes, history, Idle, Compose, Hostless, TypeOK
<1>8. RunningCanBeStopped'
  <2>1. ASSUME NEW i \in Instances, row'[i] # None, row'[i].status = "running", madeOn'[i] = None
        PROVE  row'[i].compose
    <3>1. CASE i = tx[t].inst
      <4>0. madeOn' = madeOn
        BY DEF CommitUpdate, End, history
      <4>1. row'[i].compose = Compose(t) /\ row[i] # None /\ madeOn[i] = None
        BY <1>n, <2>1, <3>1, <4>0 DEF CommitUpdate
      <4>2. CASE tx[t].told = tx[t].read.status
        <5>1. row[i].status = "running"
          BY <1>i, <1>n, <2>1, <3>1, <4>2 DEF Rows
        <5>2. QED
          BY <3>1, <4>1, <5>1 DEF RunningCanBeStopped, Compose
      <4>3. CASE tx[t].told # tx[t].read.status
        <5>1. tx[t].told = "running"
          BY <1>i, <1>n, <2>1, <3>1, <4>3 DEF Rows
        <5>2. tx[t].op = "wake"
          BY <1>b, <5>1 DEF StopsStop, CommitUpdate
        <5>3. Here(t)
          BY <1>b, <3>1, <4>1 DEF ReadsKeepHost, Here
        <5>4. QED
          BY <4>1, <5>1, <5>2, <5>3 DEF Compose
      <4>4. QED
        BY <4>2, <4>3
    <3>2. CASE i # tx[t].inst
      BY <2>1, <3>2 DEF RunningCanBeStopped, CommitUpdate, End, history, TypeOK
    <3>3. QED
      BY <3>1, <3>2
  <2>2. QED
    BY <2>1 DEF RunningCanBeStopped
<1>9. QED
  BY <1>t, <1>1, <1>2, <1>3, <1>4, <1>5, <1>6, <1>7, <1>8

LEMMA AbortStep ==
    ASSUME IInv, NEW t \in Threads, Abort(t)
    PROVE  IInv'
<1> USE DEF IInv
<1>b. /\ tx[t] # Idle /\ tx[t].inst \in Instances /\ tx[t].read \in Rows
  BY BusyThread DEF Abort, Idle
<1>t. TypeOK'
  BY <1>b DEF Abort, End, TypeOK, Handlers, Rows, runtimes, history
<1>1. MadeIsOpen'
  BY <1>b DEF MadeIsOpen, Abort, End, runtimes, history, Idle, TypeOK
<1>2. BindingsAreKept'
  BY <1>b DEF BindingsAreKept, Abort, End, runtimes, history, Idle, TypeOK
<1>3. RowsKeepHost'
  BY <1>b DEF RowsKeepHost, Abort, End, runtimes, history, Idle, Hostless, Present, TypeOK
<1>4. ReadsKeepHost'
  BY <1>b DEF ReadsKeepHost, Abort, End, runtimes, history, Idle, Hostless, TypeOK
<1>5. CreatesAreAlone'
  BY <1>b DEF CreatesAreAlone, Abort, End, runtimes, history, Idle, TypeOK
<1>6. StopsStop'
  BY <1>b DEF StopsStop, Abort, End, runtimes, history, Idle, TypeOK
<1>7. RuntimesAreMade'
  BY <1>b DEF RuntimesAreMade, Abort, End, runtimes, history, Idle, Hostless, TypeOK
<1>8. RunningCanBeStopped'
  BY <1>b DEF RunningCanBeStopped, StopsStop, Here, ReadsKeepHost, RowsKeepHost, CreatesAreAlone, Abort, End, runtimes, history, Idle, TypeOK
<1>9. QED
  BY <1>t, <1>1, <1>2, <1>3, <1>4, <1>5, <1>6, <1>7, <1>8

LEMMA RestartStep ==
    ASSUME IInv, Restart
    PROVE  IInv'
<1> USE DEF IInv
<1>t. TypeOK'
  BY DEF Restart, TypeOK, Handlers, tables, runtimes, history
<1>1. MadeIsOpen'
  BY DEF MadeIsOpen, Restart, tables, runtimes, history, Idle, TypeOK
<1>2. BindingsAreKept'
  BY DEF BindingsAreKept, Restart, tables, runtimes, history, Idle, TypeOK
<1>3. RowsKeepHost'
  BY DEF RowsKeepHost, Restart, tables, runtimes, history, Idle, Hostless, Present, TypeOK
<1>4. ReadsKeepHost'
  BY DEF ReadsKeepHost, Restart, tables, runtimes, history, Idle, Hostless, TypeOK
<1>5. CreatesAreAlone'
  BY DEF CreatesAreAlone, Restart, tables, runtimes, history, Idle, TypeOK
<1>6. StopsStop'
  BY DEF StopsStop, Restart, tables, runtimes, history, Idle, TypeOK
<1>7. RuntimesAreMade'
  BY DEF RuntimesAreMade, Restart, tables, runtimes, history, Idle, Hostless, TypeOK
<1>8. RunningCanBeStopped'
  BY DEF RunningCanBeStopped, Restart, tables, runtimes, history, Idle, TypeOK
<1>9. QED
  BY <1>t, <1>1, <1>2, <1>3, <1>4, <1>5, <1>6, <1>7, <1>8

LEMMA CreateHostStep ==
    ASSUME IInv, NEW h \in Hosts, NEW d \in Tenants \cup {Anyone}, CreateHost(h, d)
    PROVE  IInv'
<1> USE DEF IInv
<1>t. TypeOK'
  BY DistinctAssumption DEF CreateHost, Bind, Present, TypeOK, Rows, runtimes
<1>1. MadeIsOpen'
  BY DistinctAssumption DEF MadeIsOpen, CreateHost, Bind, Present, runtimes, TypeOK
<1>2. BindingsAreKept'
  BY DistinctAssumption DEF BindingsAreKept, CreateHost, Bind, Present, runtimes, TypeOK
<1>3. RowsKeepHost'
  BY DistinctAssumption DEF RowsKeepHost, CreateHost, Bind, Present, runtimes, Hostless, TypeOK
<1>4. ReadsKeepHost'
  BY DistinctAssumption DEF ReadsKeepHost, CreateHost, Bind, Present, runtimes, Hostless, TypeOK
<1>5. CreatesAreAlone'
  BY DistinctAssumption DEF CreatesAreAlone, CreateHost, Bind, Present, runtimes, TypeOK
<1>6. StopsStop'
  BY DistinctAssumption DEF StopsStop, CreateHost, Bind, Present, runtimes, TypeOK
<1>7. RuntimesAreMade'
  BY DistinctAssumption DEF RuntimesAreMade, CreateHost, Bind, Present, runtimes, Hostless, TypeOK
<1>8. RunningCanBeStopped'
  BY DistinctAssumption DEF RunningCanBeStopped, CreateHost, Bind, Present, runtimes, TypeOK
<1>9. QED
  BY <1>t, <1>1, <1>2, <1>3, <1>4, <1>5, <1>6, <1>7, <1>8

LEMMA UpdateHostStep ==
    ASSUME IInv, NEW h \in Hosts, NEW d \in Tenants \cup {Anyone}, UpdateHost(h, d)
    PROVE  IInv'
<1> USE DEF IInv
<1>t. TypeOK'
  BY DistinctAssumption DEF UpdateHost, Bind, Present, TypeOK, Rows, runtimes
<1>1. MadeIsOpen'
  BY DistinctAssumption DEF MadeIsOpen, UpdateHost, Bind, Present, runtimes, TypeOK
<1>2. BindingsAreKept'
  BY DistinctAssumption DEF BindingsAreKept, UpdateHost, Bind, Present, runtimes, TypeOK
<1>3. RowsKeepHost'
  BY DistinctAssumption DEF RowsKeepHost, UpdateHost, Bind, Present, runtimes, Hostless, TypeOK
<1>4. ReadsKeepHost'
  BY DistinctAssumption DEF ReadsKeepHost, UpdateHost, Bind, Present, runtimes, Hostless, TypeOK
<1>5. CreatesAreAlone'
  BY DistinctAssumption DEF CreatesAreAlone, UpdateHost, Bind, Present, runtimes, TypeOK
<1>6. StopsStop'
  BY DistinctAssumption DEF StopsStop, UpdateHost, Bind, Present, runtimes, TypeOK
<1>7. RuntimesAreMade'
  BY DistinctAssumption DEF RuntimesAreMade, UpdateHost, Bind, Present, runtimes, Hostless, TypeOK
<1>8. RunningCanBeStopped'
  BY DistinctAssumption DEF RunningCanBeStopped, UpdateHost, Bind, Present, runtimes, TypeOK
<1>9. QED
  BY <1>t, <1>1, <1>2, <1>3, <1>4, <1>5, <1>6, <1>7, <1>8

LEMMA DeleteHostStep ==
    ASSUME IInv, NEW h \in Hosts, DeleteHost(h)
    PROVE  IInv'
<1> USE DEF IInv
<1>t. TypeOK'
  BY DistinctAssumption DEF DeleteHost, Bind, Present, TypeOK, Rows, runtimes
<1>1. MadeIsOpen'
  BY DistinctAssumption DEF MadeIsOpen, DeleteHost, Bind, Present, runtimes, TypeOK
<1>2. BindingsAreKept'
  BY DistinctAssumption DEF BindingsAreKept, DeleteHost, Bind, Present, runtimes, TypeOK
<1>3. RowsKeepHost'
  BY DistinctAssumption DEF RowsKeepHost, DeleteHost, Bind, Present, runtimes, Hostless, TypeOK
<1>4. ReadsKeepHost'
  BY DistinctAssumption DEF ReadsKeepHost, DeleteHost, Bind, Present, runtimes, Hostless, TypeOK
<1>5. CreatesAreAlone'
  <2>1. /\ \A i \in Instances : row[i] = None => row'[i] = None
        /\ UNCHANGED <<tx, madeOn>>
    BY DEF DeleteHost, Bind
  <2>2. \A t \in Threads : tx[t] # Idle => tx[t].inst \in Instances
    BY BusyThread
  <2>3. QED
    BY <2>1, <2>2 DEF CreatesAreAlone
<1>6. StopsStop'
  BY DistinctAssumption DEF StopsStop, DeleteHost, Bind, Present, runtimes, TypeOK
<1>7. RuntimesAreMade'
  BY DistinctAssumption DEF RuntimesAreMade, DeleteHost, Bind, Present, runtimes, Hostless, TypeOK
<1>8. RunningCanBeStopped'
  BY DistinctAssumption DEF RunningCanBeStopped, DeleteHost, Bind, Present, runtimes, TypeOK
<1>9. QED
  BY <1>t, <1>1, <1>2, <1>3, <1>4, <1>5, <1>6, <1>7, <1>8

LEMMA DeleteTenantStep ==
    ASSUME IInv, NEW d \in Tenants, DeleteTenant(d)
    PROVE  IInv'
<1> USE DEF IInv
<1>t. TypeOK'
  BY DistinctAssumption DEF DeleteTenant, Bind, Present, TypeOK, Rows, runtimes
<1>1. MadeIsOpen'
  BY DistinctAssumption DEF MadeIsOpen, DeleteTenant, Bind, Present, runtimes, TypeOK
<1>2. BindingsAreKept'
  BY DistinctAssumption DEF BindingsAreKept, DeleteTenant, Bind, Present, runtimes, TypeOK
<1>3. RowsKeepHost'
  BY DistinctAssumption DEF RowsKeepHost, DeleteTenant, Bind, Present, runtimes, Hostless, TypeOK
<1>4. ReadsKeepHost'
  BY DistinctAssumption DEF ReadsKeepHost, DeleteTenant, Bind, Present, runtimes, Hostless, TypeOK
<1>5. CreatesAreAlone'
  <2>1. /\ \A i \in Instances : row[i] = None => row'[i] = None
        /\ UNCHANGED <<tx, madeOn>>
    BY DEF DeleteTenant, Bind
  <2>2. \A t \in Threads : tx[t] # Idle => tx[t].inst \in Instances
    BY BusyThread
  <2>3. QED
    BY <2>1, <2>2 DEF CreatesAreAlone
<1>6. StopsStop'
  BY DistinctAssumption DEF StopsStop, DeleteTenant, Bind, Present, runtimes, TypeOK
<1>7. RuntimesAreMade'
  BY DistinctAssumption DEF RuntimesAreMade, DeleteTenant, Bind, Present, runtimes, Hostless, TypeOK
<1>8. RunningCanBeStopped'
  BY DistinctAssumption DEF RunningCanBeStopped, DeleteTenant, Bind, Present, runtimes, TypeOK
<1>9. QED
  BY <1>t, <1>1, <1>2, <1>3, <1>4, <1>5, <1>6, <1>7, <1>8

LEMMA CreateTenantStep ==
    ASSUME IInv, NEW d \in Tenants, CreateTenant(d)
    PROVE  IInv'
<1> USE DEF IInv
<1>t. TypeOK'
  BY DEF CreateTenant, TypeOK, runtimes, history
<1>1. MadeIsOpen'
  BY DEF MadeIsOpen, CreateTenant, runtimes, history, TypeOK
<1>2. BindingsAreKept'
  BY DEF BindingsAreKept, CreateTenant, runtimes, history, TypeOK
<1>3. RowsKeepHost'
  BY DEF RowsKeepHost, CreateTenant, runtimes, history, Hostless, Present, TypeOK
<1>4. ReadsKeepHost'
  BY DEF ReadsKeepHost, CreateTenant, runtimes, history, Hostless, TypeOK
<1>5. CreatesAreAlone'
  BY DEF CreatesAreAlone, CreateTenant, runtimes, history, TypeOK
<1>6. StopsStop'
  BY DEF StopsStop, CreateTenant, runtimes, history, TypeOK
<1>7. RuntimesAreMade'
  BY DEF RuntimesAreMade, CreateTenant, runtimes, history, Hostless, TypeOK
<1>8. RunningCanBeStopped'
  BY DEF RunningCanBeStopped, CreateTenant, runtimes, history, TypeOK
<1>9. QED
  BY <1>t, <1>1, <1>2, <1>3, <1>4, <1>5, <1>6, <1>7, <1>8

LEMMA FallsStep ==
    ASSUME IInv, NEW i \in Instances, Falls(i)
    PROVE  IInv'
<1> USE DEF IInv
<1>t. TypeOK'
  BY DEF Falls, TypeOK, tables, history
<1>1. MadeIsOpen'
  BY DEF MadeIsOpen, Falls, tables, history, TypeOK
<1>2. BindingsAreKept'
  BY DEF BindingsAreKept, Falls, tables, history, TypeOK
<1>3. RowsKeepHost'
  BY DEF RowsKeepHost, Falls, tables, history, Hostless, Present, TypeOK
<1>4. ReadsKeepHost'
  BY DEF ReadsKeepHost, Falls, tables, history, Hostless, TypeOK
<1>5. CreatesAreAlone'
  BY DEF CreatesAreAlone, Falls, tables, history, TypeOK
<1>6. StopsStop'
  BY DEF StopsStop, Falls, tables, history, TypeOK
<1>7. RuntimesAreMade'
  BY DEF RuntimesAreMade, Falls, tables, history, Hostless, TypeOK
<1>8. RunningCanBeStopped'
  BY DEF RunningCanBeStopped, Falls, tables, history, TypeOK
<1>9. QED
  BY <1>t, <1>1, <1>2, <1>3, <1>4, <1>5, <1>6, <1>7, <1>8

LEMMA StutterStep ==
    ASSUME IInv, UNCHANGED vars
    PROVE  IInv'
<1> USE DEF IInv
<1>t. TypeOK'
  BY DEF vars, TypeOK, tables, runtimes, history
<1>1. MadeIsOpen'
  BY DEF MadeIsOpen, vars, tables, runtimes, history, TypeOK
<1>2. BindingsAreKept'
  BY DEF BindingsAreKept, vars, tables, runtimes, history, TypeOK
<1>3. RowsKeepHost'
  BY DEF RowsKeepHost, vars, tables, runtimes, history, Hostless, Present, TypeOK
<1>4. ReadsKeepHost'
  BY DEF ReadsKeepHost, vars, tables, runtimes, history, Hostless, TypeOK
<1>5. CreatesAreAlone'
  BY DEF CreatesAreAlone, vars, tables, runtimes, history, TypeOK
<1>6. StopsStop'
  BY DEF StopsStop, vars, tables, runtimes, history, TypeOK
<1>7. RuntimesAreMade'
  BY DEF RuntimesAreMade, vars, tables, runtimes, history, Hostless, TypeOK
<1>8. RunningCanBeStopped'
  BY DEF RunningCanBeStopped, vars, tables, runtimes, history, TypeOK
<1>9. QED
  BY <1>t, <1>1, <1>2, <1>3, <1>4, <1>5, <1>6, <1>7, <1>8

LEMMA InvStep == IInv /\ [Next]_vars => IInv'
<1> SUFFICES ASSUME IInv, [Next]_vars PROVE IInv'
  OBVIOUS
<1>1. ASSUME NEW t \in Threads, Handle(t) PROVE IInv'
  BY <1>1, BeginCreateStep, BeginStopOrWakeStep, StartHereStep, StartThereStep, StopHereStep,
     StopThereStep, CommitCreateStep, CommitUpdateStep, AbortStep DEF Handle
<1>2. ASSUME Administer PROVE IInv'
  BY <1>2, CreateHostStep, UpdateHostStep, DeleteHostStep, DeleteTenantStep, CreateTenantStep
     DEF Administer
<1>3. QED
  BY <1>1, <1>2, RestartStep, FallsStep, StutterStep DEF Next

LEMMA Invariance == Spec => []IInv
BY InitInv, InvStep, PTL DEF Spec

-----------------------------------------------------------------------------
\* The variables of the instance handlers have their types; ids that rows,
\* runtimes and threads name were generated.
THEOREM TypeCorrect == Spec => []TypeOK
<1>1. IInv => TypeOK
  BY DEF IInv
<1>2. QED
  BY <1>1, Invariance, PTL

\* No host ever runs an instance of a tenant it was never open to.
THEOREM HostsAreExclusive == Spec => []HostIsExclusive
<1>1. IInv => HostIsExclusive
  BY DEF IInv, TypeOK, RuntimesAreMade, MadeIsOpen, HostIsExclusive
<1>2. QED
  BY <1>1, Invariance, PTL

\* A runtime is where the row of its instance sends a stop, but for a deleted
\* host, however handlers, hosts, tenants and restarts interleave.
THEOREM RowsLeadToRuntimes == Spec => []RowLeadsToRuntime
<1>1. IInv => RowLeadsToRuntime
  <2>1. ASSUME IInv, NEW i \in Instances, row[i] # None
        PROVE  /\ i \in local => row[i].host = None
               /\ \A h \in Hosts :
                     <<h, i>> \in remote => row[i].host = h \/ bound[h] = Deleted
    <3>1. \/ row[i].host = None /\ Hostless(i)
          \/ row[i].host = madeOn[i] /\ Present(madeOn[i])
      BY <2>1 DEF IInv, RowsKeepHost
    <3>2. i \in local => row[i].host = None
      BY <2>1, <3>1, DistinctAssumption DEF IInv, RuntimesAreMade, Hostless, Present
    <3>3. ASSUME NEW h \in Hosts, <<h, i>> \in remote
          PROVE  row[i].host = h \/ bound[h] = Deleted
      <4>1. h = madeOn[i]
        BY <2>1, <3>3 DEF IInv, RuntimesAreMade
      <4>2. QED
        BY <3>1, <3>3, <4>1, DistinctAssumption DEF Hostless
    <3>4. QED
      BY <3>2, <3>3
  <2>2. QED
    BY <2>1 DEF RowLeadsToRuntime
<1>2. QED
  BY <1>1, Invariance, PTL

\* A local instance its row calls running can be stopped by name, also after
\* overlapping stops and wakes.
THEOREM RunningAreStoppable == Spec => []RunningCanBeStopped
<1>1. IInv => RunningCanBeStopped
  BY DEF IInv
<1>2. QED
  BY <1>1, Invariance, PTL
=============================================================================
