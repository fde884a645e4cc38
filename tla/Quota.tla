-------------------------------- MODULE Quota --------------------------------
(***************************************************************************)
(* The quota detector of an alert scan (control-plane/alerts.py            *)
(* scan_quota), which looks from another process at the sorted set that    *)
(* the limiter keeps.  The limiter takes its limit from the key in use,    *)
(* which may be one of the env; the detector takes it from the rows of     *)
(* the table api_keys.                                                     *)
(***************************************************************************)
EXTENDS RateLimit, FiniteSetsExt

\* The rows of the tenant in api_keys, whose limits are 1 or more
\* (ApiKeyCreate); rows that agree in both columns count once here, as they do
\* for the detector.
KeyRows == [limit : 1..MaxLimit, revoked : BOOLEAN]

\* The rows the detector does not skip.
MutantScanned(rows) == rows
Scanned(rows) == {row \in rows : ~row.revoked}

\* by_tenant[tid], or 0 for a tenant that is not in by_tenant: one without a
\* row that is not revoked, such as a tenant with keys of the env only.
LargestLimit(rows) == Max({0} \cup {row.limit : row \in Scanned(rows)})

\* int(limit * 0.9): the product is rounded down, to 0 for a limit of 1.
NearlyUsed(n, l) == n >= (l * 9) \div 10

\* The severity of the alert that a scan drafts for a tenant with these rows,
\* or "none".  ZCARD counts without a trim; a set that is gone has no members,
\* and without Redis the scan is silent.
Severity(rows) ==
    LET n == Cardinality(zset)
        l == LargestLimit(rows)
    IN  CASE ~configured \/ ~up \/ l = 0 \/ ~NearlyUsed(n, l) -> "none"
          [] OTHER -> IF n >= l THEN "critical" ELSE "warn"

-----------------------------------------------------------------------------
\* When a tenant has used up the largest limit among its issued keys that are
\* not revoked, a scan says so, whichever keys, of the table or of the env, it
\* was used up with: what the scan counts includes every request that was let
\* through and is still inside the window, whatever trims and expirations the
\* checks of other processes cause.  Nothing is said of a tenant that has no
\* such key: scan_quota passes over it, however full its window.
ExhaustionIsAlerted ==
    \A rows \in SUBSET KeyRows :
        /\ up
        /\ \E row \in rows : ~row.revoked
        /\ \A row \in rows : row.revoked \/ Cardinality(Live) >= row.limit
        => Severity(rows) = "critical"
=============================================================================
