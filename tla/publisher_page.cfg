\* One publisher page, its user, the network and the server.
SPECIFICATION AudioFairSpec
INVARIANTS
    OneReconnect
    ChannelKept
    AudioTypeOK
    MutedIsSilent
    RecordingIsShown
PROPERTIES
    ComesBackOnline
    IceLossIsRepaired
