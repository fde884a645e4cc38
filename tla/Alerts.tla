------------------------------- MODULE Alerts -------------------------------
(***************************************************************************)
(* Alert scans and the operators' decisions about alerts:                  *)
(* control-plane/main.py scan_alerts, ack_alert and resolve_alert, over    *)
(* the detectors and the webhook of control-plane/alerts.py.               *)
(*                                                                         *)
(* A scan drafts an alert for every condition it finds, selects the open   *)
(* row of each draft's fingerprint, inserts a row for the drafts that have *)
(* none, commits, and posts all its drafts to the webhook.  The table      *)
(* holds one row per fingerprint whatever its status (uq_alerts_           *)
(* fingerprint), and nothing deletes rows.  Scans run on threads of the    *)
(* control plane: a cron job and the console both start them.              *)
(*                                                                         *)
(* A fingerprint covers the message of the draft, and messages quote       *)
(* readings ("RPM window usage 61/60"): a condition seen at two readings   *)
(* has two fingerprints.                                                   *)
(***************************************************************************)
EXTENDS Naturals

CONSTANTS
    Conditions, \* kind, tenant and resource of an alert
    ReadingsOf, \* condition -> what the message may say of it
    Scanners,   \* threads that run scans
    MaxRestarts,\* bound on the restarts of the control plane
    Clear       \* the condition does not hold

ASSUME ReadingsAssumption ==
    DOMAIN ReadingsOf = Conditions /\ \A c \in Conditions : Clear \notin ReadingsOf[c]
ASSUME RestartAssumption == MaxRestarts \in Nat

VARIABLES
    reading,    \* condition -> its present reading, or Clear
    row,        \* alerts table: fingerprint -> status, "none" without a row
    pc,         \* scanner -> where its scan is
    drafts,     \* scanner -> the fingerprints of its drafts
    looked,     \* scanner -> those it has looked up
    existing,   \* scanner -> those for which it found an open row
    restarts    \* restarts so far

vars == <<reading, row, pc, drafts, looked, existing, restarts>>

Fingerprints == UNION {{c} \X ReadingsOf[c] : c \in Conditions}
Closed == {"acked", "resolved"}
Ended == {"idle", "200", "500"}     \* no scan yet, or the last one's answer

TypeOK ==
    /\ DOMAIN reading = Conditions
    /\ \A c \in Conditions : reading[c] \in ReadingsOf[c] \cup {Clear}
    /\ row \in [Fingerprints -> {"none", "open"} \cup Closed]
    /\ pc \in [Scanners -> Ended \cup {"drafted", "committed"}]
    /\ drafts \in [Scanners -> SUBSET Fingerprints]
    /\ existing \in [Scanners -> SUBSET Fingerprints]
    /\ looked \in [Scanners -> SUBSET Fingerprints]
    /\ \A t \in Scanners : existing[t] \subseteq looked[t] /\ looked[t] \subseteq drafts[t]
    /\ restarts \in 0..MaxRestarts

Init ==
    /\ reading = [c \in Conditions |-> Clear]
    /\ row = [f \in Fingerprints |-> "none"]
    /\ pc = [t \in Scanners |-> "idle"]
    /\ drafts = [t \in Scanners |-> {}]
    /\ looked = [t \in Scanners |-> {}]
    /\ existing = [t \in Scanners |-> {}]
    /\ restarts = 0

-----------------------------------------------------------------------------
Present == {f \in Fingerprints : reading[f[1]] = f[2]}

\* The row the scan takes for the draft's own.
MutantIsOpen(f) == \E g \in Fingerprints : row[g] = "open"
IsOpen(f) == row[f] = "open"

\* The scan ends with this answer; its local variables are gone.
MutantReturn(t, a) ==
    /\ pc' = [pc EXCEPT ![t] = a]
    /\ drafts' = [drafts EXCEPT ![t] = {}]
    /\ UNCHANGED <<looked, existing>>
Return(t, a) ==
    /\ pc' = [pc EXCEPT ![t] = a]
    /\ drafts' = [drafts EXCEPT ![t] = {}]
    /\ looked' = [looked EXCEPT ![t] = {}]
    /\ existing' = [existing EXCEPT ![t] = {}]

New(t) == drafts[t] \ existing[t]

\* scan_disk, scan_instances_rows, scan_quota.  They look at separate
\* resources one after the other; no property relates two readings of a scan.
Draft(t) ==
    /\ pc[t] \in Ended
    /\ pc' = [pc EXCEPT ![t] = "drafted"]
    /\ drafts' = [drafts EXCEPT ![t] = Present]
    /\ UNCHANGED <<reading, row, looked, existing, restarts>>

\* The SELECT for one draft.  Each sees what has committed by then, and the
\* inserts wait for the flush: sessions do not autoflush.
LookUp(t) ==
    /\ pc[t] = "drafted"
    /\ \E f \in drafts[t] \ looked[t] :
          /\ looked' = [looked EXCEPT ![t] = @ \cup {f}]
          /\ existing' = IF IsOpen(f) THEN [existing EXCEPT ![t] = @ \cup {f}] ELSE existing
    /\ UNCHANGED <<reading, row, pc, drafts, restarts>>

Flushing(t) == pc[t] = "drafted" /\ looked[t] = drafts[t]

\* Flush and commit.  The rows that were found get a time and a message, and
\* keep the status they have by now.
MutantInserted(t) == drafts[t]
Inserted(t) == New(t)

Commit(t) ==
    /\ Flushing(t)
    /\ \A f \in New(t) : row[f] = "none"
    /\ row' = [f \in Fingerprints |-> IF f \in Inserted(t) THEN "open" ELSE row[f]]
    /\ pc' = [pc EXCEPT ![t] = "committed"]
    /\ UNCHANGED <<reading, drafts, looked, existing, restarts>>

\* The unique constraint rejects the insert and everything is rolled back.
MutantReject(t) ==
    /\ Flushing(t)
    /\ \E f \in New(t) : row[f] # "none"
    /\ pc' = [pc EXCEPT ![t] = "committed"]
    /\ UNCHANGED <<reading, row, drafts, looked, existing, restarts>>
Reject(t) ==
    /\ Flushing(t)
    /\ \E f \in New(t) : row[f] # "none"
    /\ Return(t, "500")
    /\ UNCHANGED <<reading, row, restarts>>

\* post_webhook, after the transaction, announces the drafts; a failure to do
\* so is swallowed.
Post(t) ==
    /\ pc[t] = "committed"
    /\ Return(t, "200")
    /\ UNCHANGED <<reading, row, restarts>>

\* The control plane stops: scans end where they are, commits stand.
Restart ==
    /\ restarts < MaxRestarts
    /\ restarts' = restarts + 1
    /\ pc' = [t \in Scanners |-> "idle"]
    /\ drafts' = [t \in Scanners |-> {}]
    /\ looked' = [t \in Scanners |-> {}]
    /\ existing' = [t \in Scanners |-> {}]
    /\ UNCHANGED <<reading, row>>

\* ack_alert and resolve_alert take a row of any status.
Judge(f, decision) ==
    /\ row[f] # "none"
    /\ row' = [row EXCEPT ![f] = decision]
    /\ UNCHANGED <<reading, pc, drafts, looked, existing, restarts>>

\* The outside world: a condition appears, changes or goes away.
Change(c, m) ==
    /\ reading[c] # m
    /\ reading' = [reading EXCEPT ![c] = m]
    /\ UNCHANGED <<row, pc, drafts, looked, existing, restarts>>

Scan(t) == Draft(t) \/ LookUp(t) \/ Commit(t) \/ Reject(t) \/ Post(t)

Next ==
    \/ \E t \in Scanners : Scan(t)
    \/ Restart
    \/ \E f \in Fingerprints, decision \in Closed : Judge(f, decision)
    \/ \E c \in Conditions : \E m \in ReadingsOf[c] \cup {Clear} : Change(c, m)

\* Scans are started again and again (docs/deploy-remote.md has a cron job
\* every five minutes) and a handler that can go on does.
Fairness == \A t \in Scanners : WF_vars(Scan(t))

Spec == Init /\ [][Next]_vars /\ Fairness

-----------------------------------------------------------------------------
(* What scanning promises.                                                 *)

\* What the webhook announces and the scan answers with 200 is recorded: every
\* draft of the scan has a row the console can show.
AnnouncedIsRecorded ==
    [][\A t \in Scanners :
          pc[t] = "committed" /\ pc'[t] = "200"
              => \A f \in drafts[t] : row[f] # "none"]_vars

\* No scan takes back an operator's decision, not even one that had found
\* the alert open before the decision was made.
DecisionStands ==
    [][\A f \in Fingerprints : row[f] \in Closed => row'[f] \in Closed]_vars

\* Until an operator decides something, a condition that holds on at one
\* reading is recorded in the end, although scans overlap and the control
\* plane restarts in the middle of some.
LastingIsRecorded ==
    \A f \in Fingerprints :
        <>[](f \in Present) => <>(row[f] # "none" \/ \E g \in Fingerprints : row[g] \in Closed)

\* scripts/smoke_test.py:788, scripts/deep_test.py:794: POST /v1/alerts/scan
\* answers 200.  Stated for one scanner, which no other scan overlaps.
ScanSucceeds == \A t \in Scanners : pc[t] # "500"
=============================================================================
