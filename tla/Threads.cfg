\* Ordinary traffic of one producer and two selectors over two channels, or a
\* worker, its joiner and its killer.
SPECIFICATION Spec
CONSTANTS
    c1 = c1
    c2 = c2
    done = done
    s1 = s1
    s2 = s2
    Channels = {c1, c2, done}
    Producers = {p1, w}
    Selectors = {s1, s2, j1}
    Watch <- MCWatch
    Cap <- MCCap
    MaxSends = 1
    Bounded = {s2, j1}
    Fds = {1, 2}
    Worker = w
    Done = done
    Joiners = {j1}
    Killers = {j1}
    None = None
INVARIANTS  FdsOwned JoinAnswersOutcome
PROPERTIES JoinReturns 
