SPECIFICATION Spec
CONSTANTS
    Plain = {"note"}
    MaxPairs = 2
INVARIANTS OffLoopbackNeverSinks ForeignPagesNeverSink OneWriteRoute BodyReachesTheSink RefusedUnasked TypeOK
CHECK_DEADLOCK FALSE
