\* A monitor whose waiter is aborted.
SPECIFICATION Spec
CONSTANTS
    Fibers = {f1, f2, f3}
    Kinds = {"monitor"}
    Permits = 1
    Cap = 1
    MaxOps = 2
    MaxAborts = 1
    AbortsWaits = TRUE
    Hosted = {}
INVARIANT Exclusion
CHECK_DEADLOCK FALSE
