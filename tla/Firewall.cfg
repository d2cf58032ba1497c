CONSTANTS
    Families = {"debian", "rhel", "arch"}
    RequestedPorts = {0, 22, 8080}
    Protocols = {"none"}
    MaxCommands = 4
    MaxFaults = 2
SPECIFICATION Spec
INVARIANTS
    TypeOK
    NeverCutOff
    StaysHardened
    LastRequestHolds
\* The number of commands is bounded.
CHECK_DEADLOCK FALSE
