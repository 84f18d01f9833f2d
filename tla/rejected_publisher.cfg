\* A publisher refused because the channel is in use closes the channel.
SPECIFICATION Spec
CONSTANTS
    Channel = {ch1}
    PubConn = {p1, p2, p3}
    SubConn = {}
    Streamer = {}
    None = None
SYMMETRY Symmetry
CHECK_DEADLOCK FALSE
INVARIANTS
    OnePublisherPerChannel
