------------------------- MODULE VectorStoreProofs -------------------------
(***************************************************************************)
(* The file store implements AtomicVectorStore, for every set of ids and   *)
(* documents: the rename is the moment an upsert takes effect.             *)
(***************************************************************************)
EXTENDS VectorStore, TLAPS

\* What was read and not yet renamed is the file with the batch in it: nobody
\* else renames in between.
MergedIsCurrent ==
    pc \in {"loaded", "writing"} => merged = Atomic!Merged(file, batch)

\* The temporary file holds rows of the merge only, whatever an earlier upsert
\* left in it.
TmpIsPartOfMerged ==
    pc = "writing" => \A i \in Ids : tmp[i] \in {None, merged[i]}

IInv == TypeOK /\ MergedIsCurrent /\ TmpIsPartOfMerged

\* IInv is inductive.
THEOREM Invariance == Spec => []IInv
<1> USE VectorAssumption DEF Contents, Empty
<1>1. Init => IInv
  BY DEF Init, IInv, TypeOK, MergedIsCurrent, TmpIsPartOfMerged
<1>2. IInv /\ [Next]_vars => IInv'
  <2> SUFFICES ASSUME IInv, [Next]_vars PROVE IInv'
    OBVIOUS
  <2> USE DEF IInv, TypeOK, MergedIsCurrent, TmpIsPartOfMerged, Atomic!Merged
  <2>1. ASSUME NEW b \in Contents, Call(b) PROVE IInv'
    BY <2>1 DEF Call
  <2>2. CASE Mismatch
    BY <2>2 DEF Mismatch, Answered
  <2>3. CASE Load
    BY <2>3 DEF Load
  <2>4. CASE Reject
    BY <2>4 DEF Reject, Answered
  <2>5. CASE OpenTmp
    BY <2>5 DEF OpenTmp
  <2>6. ASSUME NEW i \in Ids, WriteRow(i) PROVE IInv'
    BY <2>6 DEF WriteRow
  <2>7. CASE Rename
    BY <2>7 DEF Rename
  <2>8. CASE Fail
    BY <2>8 DEF Fail, Answered
  <2>9. CASE Return
    BY <2>9 DEF Return, Answered
  <2>10. CASE Crash
    BY <2>10 DEF Crash, Answered
  <2>11. ASSUME NEW k \in 1..MaxTopK, Query(k) PROVE IInv'
    BY <2>11 DEF Query, Held
  <2>12. CASE QueryFails
    BY <2>12 DEF QueryFails, Answered
  <2>13. CASE UNCHANGED vars
    BY <2>13 DEF vars
  <2> QED
    BY <2>1, <2>2, <2>3, <2>4, <2>5, <2>6, <2>7, <2>8, <2>9, <2>10, <2>11,
       <2>12, <2>13 DEF Next, Upsert
<1> QED
  BY <1>1, <1>2, PTL DEF Spec

\* The type invariant of the store.
THEOREM TypeCorrect == Spec => []TypeOK
BY Invariance, PTL DEF IInv

\* A rename puts the file with the whole batch in place.
LEMMA RenameApplies == IInv /\ Rename => file' = Atomic!Merged(file, batch)
<1> SUFFICES ASSUME IInv, Rename PROVE tmp = merged
  BY DEF Rename, IInv, MergedIsCurrent
<1>1. tmp \in Contents /\ merged \in Contents
  BY DEF IInv, TypeOK
<1>2. \A i \in Ids : tmp[i] = merged[i]
  BY DEF IInv, TmpIsPartOfMerged, Rename, Held
<1> QED
  BY <1>1, <1>2 DEF Contents

\* Both modules count alike.
LEMMA SameCardinality == \A S : Atomic!Cardinality(S) = Cardinality(S)
BY DEF Atomic!Cardinality, Cardinality

\* Upserts are atomic: every step of the store is one of AtomicVectorStore, or
\* none that a caller could notice.
THEOREM StoreIsAtomic == Spec => UpsertsAreAtomic
<1>1. Init => Atomic!AInit
  BY DEF Init, Atomic!AInit, Empty
<1>2. IInv /\ [Next]_vars => [Atomic!ANext]_Atomic!avars
  <2> SUFFICES ASSUME IInv, [Next]_vars PROVE [Atomic!ANext]_Atomic!avars
    OBVIOUS
  <2> USE DEF Atomic!avars
  <2>0. batch = None <=> pc = "idle"
    BY DEF IInv, TypeOK
  <2>1. ASSUME NEW b \in Contents, Call(b) PROVE Atomic!Call
    BY <2>0, <2>1 DEF Call, Atomic!Call, Atomic!Batches, Contents, Empty
  <2>2. CASE Mismatch
    BY <2>0, <2>2 DEF Mismatch, Answered, Atomic!ANext, Atomic!Refuse
  <2>3. CASE Load
    BY <2>3 DEF Load
  <2>4. CASE Reject
    BY <2>4 DEF Reject, Answered, Atomic!ANext, Atomic!Refuse
  <2>5. CASE OpenTmp
    BY <2>5 DEF OpenTmp
  <2>6. ASSUME NEW i \in Ids, WriteRow(i) PROVE UNCHANGED Atomic!avars
    BY <2>6 DEF WriteRow
  <2>7. CASE Rename
    BY <2>0, <2>7, RenameApplies DEF Rename, Atomic!ANext, Atomic!Apply
  <2>8. CASE Fail
    BY <2>8 DEF Fail, Answered, Atomic!ANext, Atomic!Refuse
  <2>9. CASE Return
    BY <2>0, <2>9 DEF Return, Answered, Atomic!ANext, Atomic!Succeed
  <2>10. CASE Crash
    BY <2>10 DEF Crash, Answered, Atomic!ANext, Atomic!Vanish
  <2>11. ASSUME NEW k \in 1..MaxTopK, Query(k) PROVE Atomic!Query
    BY <2>0, <2>11, SameCardinality DEF Query, Held, Atomic!Query
  <2>12. CASE QueryFails
    BY <2>0, <2>12 DEF QueryFails, Answered, Atomic!ANext, Atomic!Refuse
  <2>13. CASE UNCHANGED vars
    BY <2>13 DEF vars
  <2> QED
    BY <2>1, <2>2, <2>3, <2>4, <2>5, <2>6, <2>7, <2>8, <2>9, <2>10, <2>11,
       <2>12, <2>13 DEF Next, Upsert, Atomic!ANext
<1> QED
  BY Invariance, <1>1, <1>2, PTL DEF Spec, UpsertsAreAtomic, Atomic!ASpec
=============================================================================
