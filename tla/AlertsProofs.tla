---------------------------- MODULE AlertsProofs ----------------------------
(***************************************************************************)
(* Safety of alert scans, for all conditions, readings and scanners.       *)
(***************************************************************************)
EXTENDS Alerts, TLAPS

\* A scan that has ended keeps nothing.
EndedKeepNothing ==
    \A t \in Scanners :
        pc[t] \in Ended => drafts[t] = {} /\ looked[t] = {} /\ existing[t] = {}

\* Rows are not deleted: what a scan found is there still.
ExistingHaveRows == \A t \in Scanners : \A f \in existing[t] : row[f] # "none"

\* After its commit every draft of a scan has a row.
CommittedHaveRows ==
    \A t \in Scanners : pc[t] = "committed" => \A f \in drafts[t] : row[f] # "none"

IInv == TypeOK /\ EndedKeepNothing /\ ExistingHaveRows /\ CommittedHaveRows

-----------------------------------------------------------------------------
(* The invariant holds at the beginning and is kept by every action.       *)

LEMMA InitInv == Init => IInv
<1> SUFFICES ASSUME Init PROVE IInv
  OBVIOUS
<1>1. TypeOK
  BY RestartAssumption DEF Init, TypeOK, Ended
<1>2. EndedKeepNothing /\ ExistingHaveRows /\ CommittedHaveRows
  BY DEF Init, EndedKeepNothing, ExistingHaveRows, CommittedHaveRows
<1>3. QED
  BY <1>1, <1>2 DEF IInv

\* Whatever only adds rows keeps the rows of the scans.
LEMMA RowsRemain ==
    ASSUME IInv, UNCHANGED <<pc, drafts, looked, existing>>,
           \A f \in Fingerprints : row[f] # "none" => row'[f] # "none"
    PROVE  EndedKeepNothing' /\ ExistingHaveRows' /\ CommittedHaveRows'
BY DEF IInv, TypeOK, EndedKeepNothing, ExistingHaveRows, CommittedHaveRows

LEMMA ReturnInv ==
    ASSUME IInv, NEW t \in Scanners, NEW a \in {"200", "500"}, Return(t, a),
           UNCHANGED <<reading, row, restarts>>
    PROVE  IInv'
<1>1. TypeOK'
  BY DEF IInv, Return, TypeOK, Ended
<1>2. EndedKeepNothing'
  BY DEF IInv, TypeOK, Return, EndedKeepNothing
<1>3. ExistingHaveRows'
  BY DEF IInv, TypeOK, Return, ExistingHaveRows
<1>4. CommittedHaveRows'
  BY DEF IInv, TypeOK, Return, CommittedHaveRows
<1>5. QED
  BY <1>1, <1>2, <1>3, <1>4 DEF IInv

LEMMA DraftInv ==
    ASSUME IInv, NEW t \in Scanners, Draft(t)
    PROVE  IInv'
<1>1. Present \subseteq Fingerprints
  BY DEF Present
<1>2. TypeOK'
  BY <1>1 DEF IInv, Draft, TypeOK, EndedKeepNothing
<1>3. EndedKeepNothing'
  BY DEF IInv, TypeOK, Draft, EndedKeepNothing, Ended
<1>4. ExistingHaveRows'
  BY DEF IInv, Draft, ExistingHaveRows
<1>5. CommittedHaveRows'
  BY DEF IInv, TypeOK, Draft, CommittedHaveRows
<1>6. QED
  BY <1>2, <1>3, <1>4, <1>5 DEF IInv

LEMMA LookUpInv ==
    ASSUME IInv, NEW t \in Scanners, LookUp(t)
    PROVE  IInv'
<1>1. PICK f \in drafts[t] \ looked[t] :
        /\ looked' = [looked EXCEPT ![t] = @ \cup {f}]
        /\ existing' = IF IsOpen(f) THEN [existing EXCEPT ![t] = @ \cup {f}] ELSE existing
  BY DEF LookUp
<1>2. TypeOK'
  <2>1. looked' \in [Scanners -> SUBSET Fingerprints] /\ existing' \in [Scanners -> SUBSET Fingerprints]
    BY <1>1 DEF IInv, TypeOK
  <2>2. \A u \in Scanners : existing'[u] \subseteq looked'[u] /\ looked'[u] \subseteq drafts[u]
    BY <1>1 DEF IInv, TypeOK
  <2>3. QED
    BY <2>1, <2>2 DEF IInv, LookUp, TypeOK
<1>3. EndedKeepNothing'
  BY <1>1 DEF IInv, TypeOK, LookUp, EndedKeepNothing, Ended
<1>4. ExistingHaveRows'
  BY <1>1 DEF IInv, TypeOK, LookUp, IsOpen, ExistingHaveRows
<1>5. CommittedHaveRows'
  BY DEF IInv, LookUp, CommittedHaveRows
<1>6. QED
  BY <1>2, <1>3, <1>4, <1>5 DEF IInv

LEMMA CommitInv ==
    ASSUME IInv, NEW t \in Scanners, Commit(t)
    PROVE  IInv'
<1>1. \A f \in Fingerprints : row'[f] = IF f \in New(t) THEN "open" ELSE row[f]
  BY DEF Commit, Inserted
<1>2. TypeOK'
  <2>1. row' \in [Fingerprints -> {"none", "open"} \cup Closed]
    BY DEF IInv, TypeOK, Commit, Inserted
  <2>2. QED
    BY <2>1 DEF IInv, TypeOK, Commit
<1>3. EndedKeepNothing'
  BY DEF IInv, TypeOK, Commit, EndedKeepNothing, Ended
<1>4. ExistingHaveRows'
  BY <1>1 DEF IInv, TypeOK, Commit, ExistingHaveRows
<1>5. CommittedHaveRows'
  <2>1. \A f \in drafts[t] : row'[f] # "none"
    BY <1>1 DEF IInv, TypeOK, New, ExistingHaveRows
  <2>2. QED
    BY <1>1, <2>1 DEF IInv, TypeOK, Commit, CommittedHaveRows
<1>6. QED
  BY <1>2, <1>3, <1>4, <1>5 DEF IInv

LEMMA RestartInv ==
    ASSUME IInv, Restart
    PROVE  IInv'
<1>1. TypeOK'
  BY RestartAssumption DEF IInv, Restart, TypeOK, Ended
<1>2. EndedKeepNothing' /\ ExistingHaveRows' /\ CommittedHaveRows'
  BY DEF Restart, EndedKeepNothing, ExistingHaveRows, CommittedHaveRows
<1>3. QED
  BY <1>1, <1>2 DEF IInv

LEMMA JudgeInv ==
    ASSUME IInv, NEW f \in Fingerprints, NEW decision \in Closed, Judge(f, decision)
    PROVE  IInv'
<1>1. TypeOK'
  BY DEF IInv, Judge, TypeOK
<1>2. \A g \in Fingerprints : row[g] # "none" => row'[g] # "none"
  BY DEF IInv, TypeOK, Judge, Closed
<1>3. QED
  BY <1>1, <1>2, RowsRemain DEF Judge, IInv

LEMMA ChangeInv ==
    ASSUME IInv, NEW c \in Conditions, NEW m \in ReadingsOf[c] \cup {Clear}, Change(c, m)
    PROVE  IInv'
<1>1. TypeOK'
  BY DEF IInv, Change, TypeOK
<1>2. QED
  BY <1>1, RowsRemain DEF Change, IInv

LEMMA NextInv == IInv /\ [Next]_vars => IInv'
<1> SUFFICES ASSUME IInv, [Next]_vars PROVE IInv'
  OBVIOUS
<1>1. ASSUME NEW t \in Scanners, Scan(t) PROVE IInv'
  <2>1. CASE Draft(t)
    BY <2>1, DraftInv
  <2>2. CASE LookUp(t)
    BY <2>2, LookUpInv
  <2>3. CASE Commit(t)
    BY <2>3, CommitInv
  <2>4. CASE Reject(t)
    BY <2>4, ReturnInv DEF Reject
  <2>5. CASE Post(t)
    BY <2>5, ReturnInv DEF Post
  <2>6. QED
    BY <1>1, <2>1, <2>2, <2>3, <2>4, <2>5 DEF Scan
<1>2. CASE Restart
  BY <1>2, RestartInv
<1>3. CASE \E f \in Fingerprints, decision \in Closed : Judge(f, decision)
  BY <1>3, JudgeInv
<1>4. CASE \E c \in Conditions : \E m \in ReadingsOf[c] \cup {Clear} : Change(c, m)
  BY <1>4, ChangeInv
<1>5. CASE UNCHANGED vars
  BY <1>5 DEF vars, IInv, TypeOK, EndedKeepNothing, ExistingHaveRows, CommittedHaveRows
<1>6. QED
  BY <1>1, <1>2, <1>3, <1>4, <1>5 DEF Next

LEMMA Invariance == Spec => []IInv
<1>1. QED
  BY InitInv, NextInv, PTL DEF Spec

-----------------------------------------------------------------------------
(* The theorems.                                                           *)

\* The variables of the alert scans keep their types.
THEOREM TypeCorrect == Spec => []TypeOK
<1>1. IInv => TypeOK
  BY DEF IInv
<1>2. QED
  BY <1>1, Invariance, PTL

\* A scan that posts its drafts and answers 200 has a row for each of them,
\* however scans overlap and operators decide.
THEOREM AnnouncedAreRecorded == Spec => AnnouncedIsRecorded
<1>1. IInv /\ [Next]_vars =>
        [\A t \in Scanners :
            pc[t] = "committed" /\ pc'[t] = "200"
                => \A f \in drafts[t] : row[f] # "none"]_vars
  BY DEF IInv, CommittedHaveRows
<1>2. QED
  BY <1>1, Invariance, PTL DEF Spec, AnnouncedIsRecorded

\* No action of a scan or of an operator brings an acknowledged or resolved
\* alert back to open: a scan only writes rows that are not there.
THEOREM DecisionsStand == Spec => DecisionStands
<1>1. ASSUME IInv, Next
      PROVE  \A f \in Fingerprints : row[f] \in Closed => row'[f] \in Closed
  <2>1. ASSUME NEW t \in Scanners, Scan(t)
        PROVE  \A f \in Fingerprints : row[f] \in Closed => row'[f] \in Closed
    <3>1. CASE Commit(t)
      BY <3>1 DEF Commit, Inserted, Closed
    <3>2. CASE Draft(t) \/ LookUp(t) \/ Reject(t) \/ Post(t)
      BY <3>2 DEF Draft, LookUp, Reject, Post
    <3>3. QED
      BY <2>1, <3>1, <3>2 DEF Scan
  <2>2. CASE \E g \in Fingerprints, decision \in Closed : Judge(g, decision)
    BY <1>1, <2>2 DEF Judge, IInv, TypeOK
  <2>3. CASE Restart \/ \E c \in Conditions : \E m \in ReadingsOf[c] \cup {Clear} : Change(c, m)
    BY <2>3 DEF Restart, Change
  <2>4. QED
    BY <1>1, <2>1, <2>2, <2>3 DEF Next
<1>2. IInv /\ [Next]_vars =>
        [\A f \in Fingerprints : row[f] \in Closed => row'[f] \in Closed]_vars
  BY <1>1
<1>3. QED
  BY <1>2, Invariance, PTL DEF Spec, DecisionStands

-----------------------------------------------------------------------------
(* With one scanner, as with the cron job alone, no other scan inserts     *)
(* between a look-up and the flush.                                        *)

\* A scan that fails is one that drafted an alert an operator had closed.
FailsOverDecision(t) ==
    pc[t] # "500" /\ pc'[t] = "500" => \E f \in drafts[t] : row[f] \in Closed

\* The fingerprints a scan looked up in vain still have no open row.
MissedAreNotOpen(t) ==
    pc[t] = "drafted" => \A f \in looked[t] \ existing[t] : row[f] # "open"

LEMMA MissedStep ==
    ASSUME NEW t, Scanners = {t}, IInv, MissedAreNotOpen(t), [Next]_vars
    PROVE  MissedAreNotOpen(t)'
<1>1. CASE Draft(t)
  BY <1>1 DEF IInv, TypeOK, EndedKeepNothing, Draft, MissedAreNotOpen
<1>2. CASE LookUp(t)
  <2>1. PICK f \in drafts[t] \ looked[t] :
          /\ looked' = [looked EXCEPT ![t] = @ \cup {f}]
          /\ existing' = IF IsOpen(f) THEN [existing EXCEPT ![t] = @ \cup {f}] ELSE existing
    BY <1>2 DEF LookUp
  <2>2. QED
    BY <1>2, <2>1 DEF IInv, TypeOK, LookUp, IsOpen, MissedAreNotOpen
<1>3. CASE Commit(t) \/ Reject(t) \/ Post(t)
  BY <1>3 DEF IInv, TypeOK, Commit, Reject, Post, Return, MissedAreNotOpen
<1>4. CASE Restart
  BY <1>4 DEF Restart, MissedAreNotOpen
<1>5. CASE \E f \in Fingerprints, decision \in Closed : Judge(f, decision)
  BY <1>5 DEF IInv, TypeOK, Judge, Closed, MissedAreNotOpen
<1>6. CASE UNCHANGED vars \/ \E c \in Conditions : \E m \in ReadingsOf[c] \cup {Clear} : Change(c, m)
  BY <1>6 DEF vars, Change, MissedAreNotOpen
<1>7. QED
  BY <1>1, <1>2, <1>3, <1>4, <1>5, <1>6 DEF Next, Scan

\* With one scanner a scan answers 500 only when a draft of it meets a row that
\* an operator acknowledged or resolved: the failure the run alerts_acked finds
\* is the only one.  Two scanners can also fail over each other's inserts.
THEOREM OneScannerFailsOverDecisions ==
    ASSUME NEW t, Scanners = {t}
    PROVE  Spec => [][FailsOverDecision(t)]_vars
<1>1. Init => MissedAreNotOpen(t)
  BY DEF Init, MissedAreNotOpen
<1>2. IInv /\ MissedAreNotOpen(t) /\ [Next]_vars => MissedAreNotOpen(t)'
  BY MissedStep
<1>3. IInv /\ MissedAreNotOpen(t) /\ [Next]_vars => [FailsOverDecision(t)]_vars
  <2> SUFFICES ASSUME IInv, MissedAreNotOpen(t), [Next]_vars, pc[t] # "500", pc'[t] = "500"
               PROVE  \E f \in drafts[t] : row[f] \in Closed
    BY DEF FailsOverDecision
  <2>1. Reject(t)
    BY DEF IInv, TypeOK, Next, Scan, Draft, LookUp, Commit, Post, Return, Restart, Judge, Change,
       vars, Ended
  <2>2. PICK f \in New(t) : row[f] # "none"
    BY <2>1 DEF Reject
  <2>3. f \in drafts[t] /\ f \in looked[t] \ existing[t] /\ pc[t] = "drafted" /\ f \in Fingerprints
    BY <2>1, <2>2 DEF Reject, Flushing, New, IInv, TypeOK
  <2>4. QED
    BY <2>2, <2>3 DEF MissedAreNotOpen, IInv, TypeOK
<1>4. QED
  BY <1>1, <1>2, <1>3, Invariance, PTL DEF Spec
=============================================================================
