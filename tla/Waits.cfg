\* Spawns, joins, selects over pools that grow, and aborts; a pump with no entry.
\* The loop stops when :pump ends, and blocks for good when every fiber waits.
SPECIFICATION Spec
CONSTANTS
    f1 = f1
    f2 = f2
    f3 = f3
    None = None
    Fibers = {f1, f2, f3}
    Start <- OneStart
    Entry = {}
    Protected = {f1, f2}
    Keys = {}
    Ids = {}
    Ops = {"spawn", "join", "select", "abort", "yield", "fail", "denied", "submitfail"}
    MaxOps = 2
    MaxWake = 0
    Careless = {}
INVARIANTS
    SingleWait
    WaitsPaired
    NoStrandedWaiter
    VerdictAgrees
PROPERTIES
    FinishedForGood
CHECK_DEADLOCK FALSE
