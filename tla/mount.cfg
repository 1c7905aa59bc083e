SPECIFICATION FairSpec
CONSTANTS
    Calls = {t1, t2, t3}
    None = None
    MaxDials = 3
    MaxCuts = 2
CHECK_DEADLOCK FALSE
INVARIANTS UnavailableMeansUnreachable DialsOnlyUntilKept ProbesTakeTurns
PROPERTIES EveryCallEnds
