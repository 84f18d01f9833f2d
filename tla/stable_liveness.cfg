\* Queues that overflow in one process; clients read as they like.
SPECIFICATION FairSpec
CONSTANTS
    Listener = {h1, h2}
    Source = {p1}
    Process = {g1}
    Cap = 1
    MaxChunk = 2
    None = None
CHECK_DEADLOCK FALSE
PROPERTIES
    RelaySpec
    PumpReleasesLock
    DeadEncoderIsCleared
    StoppedProcessEnds
    ClosedRequestEnds
