\* Every object of the library shared by three fibers, with an abort outside
\* the condition waits.
SPECIFICATION Spec
CONSTANTS
    Fibers = {f1, f2, f3}
    Kinds = {"lock", "semaphore", "rwlock", "barrier", "latch", "once", "queue", "monitor"}
    Permits = 2
    Cap = 1
    MaxOps = 2
    MaxAborts = 1
    AbortsWaits = FALSE
    Hosted = {"lock", "semaphore", "rwlock", "latch", "once", "queue", "monitor"}
INVARIANTS
    Exclusion
    GatesHold
    NoLostWakeup
PROPERTIES
    ImplementsBoundedQueue
CHECK_DEADLOCK FALSE
