CONSTANTS
    MaxInstalls = 2
    MaxFaults = 2
    CustomUrl = TRUE
SPECIFICATION FairSpec
INVARIANTS
    TypeOK
    RunsOnIssuedToken
    CredentialsInPlace
    FreshRegistration
PROPERTIES
    ConnectsUnlessStranded
    RevokedStaysDown
\* The agent ends inactive when its token is revoked.
CHECK_DEADLOCK FALSE
