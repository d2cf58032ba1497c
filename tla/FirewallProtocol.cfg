CONSTANTS
    Families = {"arch"}
    RequestedPorts = {8080}
    Protocols = {"tcp", "udp"}
    MaxCommands = 2
    MaxFaults = 0
SPECIFICATION Spec
PROPERTIES
    UdpIsNotTcp
CHECK_DEADLOCK FALSE
