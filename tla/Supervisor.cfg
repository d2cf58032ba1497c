CONSTANTS
    Workers = {"poller", "metrics", "ssl"}
    MaxLeaks = 1
    Configured = 30
    Hints = {0, 5, 7200}
SPECIFICATION FairSpec
INVARIANTS
    TypeOK
    EndsForACause
PROPERTIES
    StopsEnd
    LeaksDrain
\* The process ends.
CHECK_DEADLOCK FALSE
