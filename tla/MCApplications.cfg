CONSTANTS
    Names = {a, b}
    a = a
    b = b
    Images = {i}
    i = i
    Domains = {d, e}
    d = d
    e = e
    None = None
    MaxCommands = 5
    MaxFaults = 2
SPECIFICATION Spec
SYMMETRY Symmetry
INVARIANTS
    TypeOK
    ReportsHold
    NoOrphanCertificate
\* The number of commands is bounded.
CHECK_DEADLOCK FALSE
