\* One connection, a publisher's or a subscriber's.
SPECIFICATION FairSpec
CONSTANTS
    MaxWire = 1
CHECK_DEADLOCK FALSE
INVARIANTS
    TypeOK
    OneWriter
PROPERTIES
    InfoIsSent
    MessageIsTaken
    ToldIsLetGo
    LeavesOnlyBlocked
