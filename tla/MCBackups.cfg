CONSTANTS
    Objects = {b1, b2}
    b1 = b1
    b2 = b2
    MaxWrites = 1
    MaxCommands = 3
    MaxFaults = 2
SPECIFICATION Spec
SYMMETRY Symmetry
INVARIANTS
    TypeOK
    BackupsAreGood
    RestoredIsStored
    RestoresAreSafe
\* The number of commands is bounded.
CHECK_DEADLOCK FALSE
