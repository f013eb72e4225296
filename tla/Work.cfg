\* Operations, parks, forwarded operations, joins, aborts and kills, up to and
\* through the teardown that a shutdown or the end of the program begins.
\* The loop stops when :pump ends, and blocks for good when every fiber waits.
SPECIFICATION Spec
CONSTANTS
    f1 = f1
    f2 = f2
    f3 = f3
    None = None
    Fibers = {f1, f2, f3}
    Start <- ThreeStart
    Entry = {f1}
    Protected = {f2}
    Keys = {"k"}
    Ids = {1, 2}
    Ops = {"io", "kill", "join", "abort", "park", "notify", "forward", "unforward", "shutdown"}
    MaxOps = 2
    MaxWake = 2
    Careless = {}
INVARIANTS
    TypeOK
    LookupsSound
    EmptyQueueHasNoKey
    OnlyLiveWait
    ResumesOnlyLive
    OperationsOwned
    
    FailureAccounting
CHECK_DEADLOCK FALSE
