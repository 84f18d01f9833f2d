\* Two channels; only the order of the periods matters.
SPECIFICATION FairSpec
CONSTANTS
    Channel = {a, b}
    None = None
    StallCheck = 1
    LoadingTimeout = 2
    StableTimeout = 3
    MaxPolls = 2
    MaxWaits = 2
INVARIANTS
    TypeOK
    SparesPlayingAudio
    PlaysPickedChannel
    OneWatch
    LongPauseReloads
PROPERTIES
    FrozenAudioIsRepaired
    SpinnerEnds
