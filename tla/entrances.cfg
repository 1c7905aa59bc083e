SPECIFICATION Spec
CONSTANTS
    Plain = {"note"}
    MaxPairs = 2
INVARIANTS EntrancesAgree
CHECK_DEADLOCK FALSE
