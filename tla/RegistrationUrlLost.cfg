CONSTANTS
    MaxInstalls = 1
    MaxFaults = 1
    CustomUrl = TRUE
SPECIFICATION Spec
INVARIANTS
    StopsOnlyWhenRevoked
\* The agent ends inactive when its token is revoked.
CHECK_DEADLOCK FALSE
