SPECIFICATION Spec
CONSTANTS
    None = None
    Graphs = {"g1", "g2"}
    Default <- MCDefault
    Requests <- MCRequests
    MaxClicks = 2
INVARIANTS FormOfTheQuery NarrowingTravels QueryTravels Answerable
CHECK_DEADLOCK FALSE
