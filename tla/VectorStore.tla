---------------------------- MODULE VectorStore ----------------------------
(***************************************************************************)
(* One collection of one tenant in LocalVectorStore                        *)
(* (packages/tenantkit/vector.py), as the vector routes of gateway/main.py *)
(* call it.                                                                *)
(*                                                                         *)
(* upsert reads docs.jsonl, merges, writes every row to docs.tmp and       *)
(* renames it over docs.jsonl.  The routes have no await between entry and *)
(* answer, so in the one gateway process of the compose file calls do not  *)
(* interleave; the steps matter because writes fail and the process dies   *)
(* between them.  Rows are what the file holds for an id: neither their    *)
(* order nor their embedding, metadata and time is kept.                   *)
(***************************************************************************)
EXTENDS Naturals, FiniteSets

CONSTANTS
    Ids,
    Documents,
    Splitting,  \* documents with a character that str.splitlines splits at
                \* and json.dumps leaves as it is (U+0085, U+2028, U+2029)
    MaxTopK,    \* bound of top_k
    None        \* no document, no upsert

ASSUME VectorAssumption ==
    /\ Splitting \subseteq Documents /\ None \notin Documents
    /\ None \notin [Ids -> Documents \cup {None}]
    /\ IsFiniteSet(Ids) /\ MaxTopK \in Nat \ {0}

VARIABLES
    file,       \* docs.jsonl: id -> its document, or None; no file is all None
    tmp,        \* docs.tmp, which a failure leaves behind
    pc,         \* where the upsert is
    batch,      \* what it was given: a repeated id counts once, the last time
    merged,     \* existing, with the batch in it
    answer,     \* the last answer of a route
    hits        \* what the last query found

vars == <<file, tmp, pc, batch, merged, answer, hits>>

Contents == [Ids -> Documents \cup {None}]
Empty == [i \in Ids |-> None]
Held(c) == {i \in Ids : c[i] # None}

TypeOK ==
    /\ file \in Contents /\ tmp \in Contents /\ merged \in Contents
    /\ pc \in {"idle", "called", "loaded", "writing", "renamed"}
    /\ batch \in Contents \cup {None}
    /\ batch = None <=> pc = "idle"
    /\ answer \in {"none", "ok", "hits", "bad_vector_payload", "internal_error"}
    /\ hits \subseteq Ids

Init ==
    /\ file = Empty /\ tmp = Empty /\ merged = Empty
    /\ pc = "idle" /\ batch = None
    /\ answer = "none" /\ hits = {}

-----------------------------------------------------------------------------
\* read_text, splitlines, json.loads of each line: a row whose document
\* splits leaves a line that is no JSON.
Readable(c) == \A i \in Ids : c[i] \notin Splitting

Call(b) ==
    /\ pc = "idle"
    /\ b \in Contents \ {Empty}
    /\ pc' = "called" /\ batch' = b /\ answer' = "none"
    /\ UNCHANGED <<file, tmp, merged, hits>>

Answered(what) ==
    /\ pc' = "idle" /\ batch' = None /\ answer' = what
    /\ UNCHANGED <<merged, hits>>

\* ids, documents and metadatas of different lengths.
Mismatch ==
    /\ pc = "idle"
    /\ Answered("bad_vector_payload")
    /\ UNCHANGED <<file, tmp>>

Load ==
    /\ pc = "called" /\ Readable(file)
    /\ pc' = "loaded" /\ merged' = [i \in Ids |-> IF batch[i] # None THEN batch[i] ELSE file[i]]
    /\ UNCHANGED <<file, tmp, batch, answer, hits>>

\* json.JSONDecodeError is a ValueError, which the route takes for the payload's.
Reject ==
    /\ pc = "called" /\ ~Readable(file)
    /\ Answered("bad_vector_payload")
    /\ UNCHANGED <<file, tmp>>

OpenTmp ==
    /\ pc = "loaded"
    /\ pc' = "writing" /\ tmp' = Empty
    /\ UNCHANGED <<file, batch, merged, answer, hits>>

WriteRow(i) ==
    /\ pc = "writing"
    /\ merged[i] # None /\ tmp[i] = None
    /\ tmp' = [tmp EXCEPT ![i] = merged[i]]
    /\ UNCHANGED <<file, pc, batch, merged, answer, hits>>

\* tmp.replace, after all rows.
MutantRename ==
    /\ pc = "writing"
    /\ pc' = "renamed" /\ file' = tmp /\ tmp' = Empty
    /\ UNCHANGED <<batch, merged, answer, hits>>
Rename ==
    /\ pc = "writing" /\ Held(tmp) = Held(merged)
    /\ pc' = "renamed" /\ file' = tmp /\ tmp' = Empty
    /\ UNCHANGED <<batch, merged, answer, hits>>

\* OSError of an open, a write or the rename; a ValueError of a metadata that
\* cannot be encoded.
MutantFail ==
    /\ pc \in {"called", "loaded", "writing"}
    /\ \E what \in {"bad_vector_payload", "internal_error"} :
          /\ answer' = what /\ pc' = "idle"
          /\ UNCHANGED <<batch, merged, hits>>
    /\ UNCHANGED <<file, tmp>>
Fail ==
    /\ pc \in {"called", "loaded", "writing"}
    /\ \/ Answered("internal_error")
       \/ pc # "called" /\ Answered("bad_vector_payload")
    /\ UNCHANGED <<file, tmp>>

Return ==
    /\ pc = "renamed"
    /\ Answered("ok")
    /\ UNCHANGED <<file, tmp>>

\* The gateway dies; the caller gets no answer.
Crash ==
    /\ pc # "idle"
    /\ Answered("none")
    /\ UNCHANGED <<file, tmp>>

\* scored[:max(1, top_k)] of all rows, in the order of some score.
Query(k) ==
    /\ pc = "idle" /\ Readable(file)
    /\ \E found \in SUBSET Held(file) :
          /\ Cardinality(found) <= k
          /\ Cardinality(found) = k \/ found = Held(file)
          /\ hits' = found
    /\ answer' = "hits"
    /\ UNCHANGED <<file, tmp, pc, batch, merged>>

\* Nothing in the route catches the JSONDecodeError.
QueryFails ==
    /\ pc = "idle" /\ ~Readable(file)
    /\ Answered("internal_error")
    /\ UNCHANGED <<file, tmp>>

Upsert ==
    \/ (\E b \in Contents : Call(b)) \/ Mismatch
    \/ Load \/ Reject \/ OpenTmp \/ (\E i \in Ids : WriteRow(i)) \/ Rename
    \/ Fail \/ Return \/ Crash

Next == Upsert \/ (\E k \in 1..MaxTopK : Query(k)) \/ QueryFails

Spec == Init /\ [][Next]_vars

-----------------------------------------------------------------------------
(* What the store promises.                                                *)

\* Upserts are atomic for the callers of the routes: the rename is the moment
\* at which one takes effect, whatever fails or dies before or after it.
Atomic == INSTANCE AtomicVectorStore WITH docs <- file, applied <- pc = "renamed"
UpsertsAreAtomic == Atomic!ASpec

\* scripts/smoke_test.py:497: "if up.status_code != 200: fail(...)" of an
\* upsert of two lists of equal length.  When the store is asked to, it loads
\* what it wrote itself.
StoreReadsItsOwn ==
    [][pc = "called" /\ pc' = "idle" => answer' # "bad_vector_payload"]_vars
=============================================================================
