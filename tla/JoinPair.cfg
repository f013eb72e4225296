\* Two fibers join one worker, without a bound.
SPECIFICATION Spec
CONSTANTS
    c1 = c1
    c2 = c2
    done = done
    s1 = s1
    s2 = s2
    Channels = {done}
    Producers = {w}
    Selectors = {j1, j2}
    Watch <- MCWatch
    Cap <- MCCap
    MaxSends = 1
    Bounded = {}
    Fds = {1, 2}
    Worker = w
    Done = done
    Joiners = {j1, j2}
    Killers = {}
    None = None
PROPERTIES JoinReturns
CHECK_DEADLOCK FALSE
