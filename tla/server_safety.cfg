\* Two channels, two publishers that may compete, a subscriber, a stream request.
SPECIFICATION Spec
CONSTANTS
    Channel = {ch1, ch2}
    PubConn = {p1, p2}
    SubConn = {s1}
    Streamer = {h1}
    None = None
SYMMETRY Symmetry
CHECK_DEADLOCK FALSE
INVARIANTS
    TypeOK
    HolderIsServed
    RegisteredIsServed
    HearsOwnChannel
    OffAirIsTold
    NoSilentHangup
    ListenerIsServed
