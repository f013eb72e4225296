\* A message and the deadline of a recv-timeout in the same round.
SPECIFICATION Spec
CONSTANTS
    Scenes = {"mail"}
    MaxPids = 2
    MaxRefs = 6
    Names = {"n1"}
    Budget <- Commands
    Preempts <- Fuel
    Ticks = {2}
    Strategies = {"one-for-one"}
    Policies = {"permanent"}
    MaxRestarts = 1
PROPERTY TimeoutWaits
CHECK_DEADLOCK FALSE
