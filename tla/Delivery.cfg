CONSTANTS
    NumCommands = 3
    MaxFaults = 2
SPECIFICATION FairSpec
INVARIANTS
    TypeOK
    AtMostOnce
    ResultIsTrue
    LostOnlyToFaults
PROPERTIES
    BegunInOrder
    ServedUnlessFault
    ImplementsLedger
\* The agent stops when its token is revoked.
CHECK_DEADLOCK FALSE
