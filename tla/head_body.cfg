SPECIFICATION Spec
CONSTANTS
    Plain = {"note"}
    MaxPairs = 2
INVARIANTS HeadSendsHeadersOnly
CHECK_DEADLOCK FALSE
