\* One request, every body and environment, thresholds 1 and 2.
SPECIFICATION Spec
CONSTANTS
    Requests = {r1}
    Sizes = {1, 2, 3}
    Shorts = {1, 2}
    DefaultShort = 1
INVARIANTS TypeOK OffsiteIsSanctioned RetriedOnceLocally BilledIsServed LocalUsageStayed
PROPERTY EventuallyAnswered
CHECK_DEADLOCK FALSE
