\* Three operations on at most two threads: one that ends, two that wait for an
\* event that may never happen.  The backend stops when it is dropped.
SPECIFICATION FairSpec
CONSTANTS
    Jobs = {1, 2, 3}
    Workers = {w1, w2}
    Piped = {1, 2}
    Endless = {1, 2}
    Keepalive = TRUE
    MaxWaits = 3
    None = None
INVARIANTS
    NoStrandedJob
    JobInOnePlace
    InFlightExact
    PipesOwned
    BlocksForReaders
    
PROPERTIES
    OperationReaped
    CrewWindsDown
CHECK_DEADLOCK FALSE
