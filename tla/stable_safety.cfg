\* Two requests, two processes, queues that overflow.
SPECIFICATION Spec
CONSTANTS
    Listener = {h1, h2}
    Source = {}
    Process = {g1, g2}
    Cap = 2
    MaxChunk = 3
    None = None
SYMMETRY Symmetry
CHECK_DEADLOCK FALSE
INVARIANTS
    TypeOK
    RunsForListeners
    NoSendOnClosed
    NewestNeverLost
    NoHoleInQueue
