\* A QuitChan closed twice.
SPECIFICATION Spec
CONSTANTS
    Channel = {ch1}
    PubConn = {p1, p2}
    SubConn = {s1, s2}
    Streamer = {}
    None = None
SYMMETRY Symmetry
CHECK_DEADLOCK FALSE
INVARIANTS
    AllToldToQuit
