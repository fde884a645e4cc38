\* Two processes, four requests, limits 0..2, a window of two ticks.
SPECIFICATION Spec
CONSTANTS
    Procs = {p1, p2}
    Requests = {r1, r2, r3, r4}
    Window = 2
    Grace = 1
    MaxLimit = 2
    MaxTime = 3
    None = None
SYMMETRY Symmetry
INVARIANTS TypeOK WindowBound NothingLiveIsDropped ExhaustionIsAlerted
PROPERTY DenialIsEarned
CHECK_DEADLOCK FALSE
