------------------------- MODULE AtomicVectorStore -------------------------
(***************************************************************************)
(* What a collection of a tenant's vector store promises its callers: an   *)
(* upsert takes effect at one moment between its call and its answer,      *)
(* whole or not at all, is answered ok only after it took effect and with  *)
(* an error only if it did not; a query sees all that took effect.         *)
(***************************************************************************)
EXTENDS Naturals, FiniteSets

CONSTANTS Ids, Documents, MaxTopK, None

VARIABLES
    docs,       \* id -> its document, or None
    batch,      \* the upsert under way, id -> document or None; None if there is none
    applied,    \* whether it took effect
    answer,     \* the last answer
    hits        \* ids the last query found

avars == <<docs, batch, applied, answer, hits>>

Batches == [Ids -> Documents \cup {None}] \ {[i \in Ids |-> None]}
Merged(old, new) == [i \in Ids |-> IF new[i] = None THEN old[i] ELSE new[i]]

AInit ==
    /\ docs = [i \in Ids |-> None]
    /\ batch = None /\ applied = FALSE
    /\ answer = "none" /\ hits = {}

Call ==
    /\ batch = None
    /\ batch' \in Batches
    /\ answer' = "none"
    /\ UNCHANGED <<docs, applied, hits>>

Apply ==
    /\ batch # None /\ ~applied
    /\ docs' = Merged(docs, batch) /\ applied' = TRUE
    /\ UNCHANGED <<batch, answer, hits>>

Succeed ==
    /\ batch # None /\ applied
    /\ batch' = None /\ applied' = FALSE /\ answer' = "ok"
    /\ UNCHANGED <<docs, hits>>

\* Of an upsert that did not take effect, or of a query.
Refuse ==
    /\ ~applied
    /\ batch' = None /\ answer' \in {"bad_vector_payload", "internal_error"}
    /\ UNCHANGED <<docs, applied, hits>>

\* The store stops, and the caller gets no answer.
Vanish ==
    /\ batch' = None /\ applied' = FALSE /\ answer' = "none"
    /\ UNCHANGED <<docs, hits>>

\* The k nearest documents, or all if there are fewer.
Query ==
    /\ batch = None
    /\ \E k \in 1..MaxTopK, found \in SUBSET {i \in Ids : docs[i] # None} :
          /\ Cardinality(found) = k \/ found = {i \in Ids : docs[i] # None}
          /\ Cardinality(found) <= k
          /\ hits' = found
    /\ answer' = "hits"
    /\ UNCHANGED <<docs, batch, applied>>

ANext == Call \/ Apply \/ Succeed \/ Refuse \/ Vanish \/ Query

ASpec == AInit /\ [][ANext]_avars
=============================================================================
