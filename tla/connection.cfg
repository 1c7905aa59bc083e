SPECIFICATION Spec
CONSTANTS
    MaxHead = 5
    HeadChunk = 5
    MaxBody = 2
    BodyChunk = 2
    Budget = 2
    MaxBytes = 13
INVARIANTS TypeOK VerdictOfTheStream BufferBounded ReadingBounded
CHECK_DEADLOCK FALSE
