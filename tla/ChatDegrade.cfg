\* The degrade switch of the README.
SPECIFICATION Spec
CONSTANTS
    Requests = {r1}
    Sizes = {1, 2, 3}
    Shorts = {1, 2}
    DefaultShort = 1
INVARIANT FailureFallsBack
CHECK_DEADLOCK FALSE
