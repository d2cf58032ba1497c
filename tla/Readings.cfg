CONSTANTS
    Families = {"debian", "rhel", "arch"}
    MaxCommands = 3
    MaxFaults = 2
SPECIFICATION Spec
INVARIANTS
    TypeOK
    DoneIsEffective
    AdviceIsCured
    HealthyIsTrue
    ReadingsAreTrue
PROPERTIES
    FailsOnlyToFaults
    PlatformReachable
\* The number of commands is bounded.
CHECK_DEADLOCK FALSE
