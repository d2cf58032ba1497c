CONSTANTS
    MaxInstalls = 2
    MaxFaults = 0
    CustomUrl = FALSE
SPECIFICATION Spec
INVARIANTS
    FreshTokenUsed
\* The agent ends inactive when its token is revoked.
CHECK_DEADLOCK FALSE
