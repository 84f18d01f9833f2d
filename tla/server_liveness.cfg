\* Goroutines are scheduled fairly; clients come and go as they like.
SPECIFICATION FairSpec
CONSTANTS
    Channel = {ch1}
    PubConn = {p1, p2}
    SubConn = {s1}
    Streamer = {}
    None = None
CHECK_DEADLOCK FALSE
PROPERTIES
    PublisherLeavesChannel
    ToldSubscriberLeaves
    GoneSessionEnds
