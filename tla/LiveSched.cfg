\* A shutdown ends the pump although no operation ever completes; joiners,
\* selectors and child schedulers are answered if operations complete.
\* The loop stops when :pump ends, and blocks for good when every fiber waits.
SPECIFICATION FairSpec
CONSTANTS
    f1 = f1
    f2 = f2
    f3 = f3
    None = None
    Fibers = {f1, f2, f3}
    Start <- ThreeStart
    Entry = {f1}
    Protected = {f2}
    Keys = {"k"}
    Ids = {1}
    Ops = {"io", "kill", "join", "select", "forward", "park", "shutdown"}
    MaxOps = 1
    MaxWake = 0
    Careless = {}
PROPERTIES
    ShutdownHonoured
    WaitAnswered
    ForwardAnswered
CHECK_DEADLOCK FALSE
