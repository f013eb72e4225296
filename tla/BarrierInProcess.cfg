\* A barrier shared by the sub-fibers of a process.
SPECIFICATION Spec
CONSTANTS
    Fibers = {f1, f2, f3}
    Kinds = {"barrier"}
    Permits = 1
    Cap = 1
    MaxOps = 1
    MaxAborts = 0
    AbortsWaits = FALSE
    Hosted = {"barrier"}
INVARIANT GatesHold
CHECK_DEADLOCK FALSE
