CONSTANTS
    NumCommands = 5
    Updates = {1, 2, 3, 5}
    Versionless = {3}
    MaxFaults = 2
SPECIFICATION FairSpec
INVARIANTS
    TypeOK
    BinaryRunnable
    DoneIsInstalled
    RunsInstalled
PROPERTIES
    DoneComesToRun
\* Every command may be over.
CHECK_DEADLOCK FALSE
