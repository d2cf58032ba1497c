CONSTANTS
    NumCommands = 1
    Updates = {1}
    Versionless = {}
    MaxFaults = 0
SPECIFICATION Spec
PROPERTIES
    ReportedBeforeRestart
CHECK_DEADLOCK FALSE
