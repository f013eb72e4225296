\* Processes that make any command, a server and its caller, a supervisor.
SPECIFICATION Spec
CONSTANTS
    Scenes = {"links", "monitors", "mail", "names", "call", "supervisor"}
    MaxPids = 6
    MaxRefs = 6
    Names = {"n1"}
    Budget <- Commands
    Preempts <- Fuel
    Ticks = {2}
    Strategies = {"one-for-one", "one-for-all", "rest-for-one"}
    Policies = {"permanent", "transient", "temporary"}
    MaxRestarts = 1
INVARIANTS
    TablesAgree
    OnePlace
    CallLeavesNothing
    DeadlockIsReal
    
PROPERTIES
    ExitsSpread
    MailInOrder
CHECK_DEADLOCK FALSE
