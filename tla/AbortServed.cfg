\* Aborting a fiber whose futex wake is being served.
SPECIFICATION Spec
CONSTANTS
    f1 = f1
    f2 = f2
    f3 = f3
    None = None
    Fibers = {f1, f2}
    Start <- TwoStart
    Entry = {f1}
    Protected = {}
    Keys = {"k"}
    Ids = {}
    Ops = {"park", "notify", "abort"}
    MaxOps = 2
    MaxWake = 1
    Careless = {"abortServed"}
INVARIANTS
    ResumesOnlyLive
CHECK_DEADLOCK FALSE
