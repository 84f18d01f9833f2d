\* One channel, the code's periods in seconds.
SPECIFICATION ServedSpec
CONSTANTS
    Channel = {a}
    None = None
    StallCheck = 3
    LoadingTimeout = 4
    StableTimeout = 30
    MaxPolls = 1
    MaxWaits = 1
PROPERTIES
    DeadStreamFallsBack
