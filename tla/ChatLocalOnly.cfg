\* The policy table of the architecture document.
SPECIFICATION Spec
CONSTANTS
    Requests = {r1}
    Sizes = {1, 2, 3}
    Shorts = {1, 2}
    DefaultShort = 1
INVARIANT LocalOnlyStaysLocal
CHECK_DEADLOCK FALSE
