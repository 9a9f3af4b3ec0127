SPECIFICATION FairSpec
CONSTANTS
    Deployments = {"compose", "railway", "monolith"}
    MaxRetries = 2
    MaxFaults = 2
INVARIANTS
    TypeOK
    ReadyFindsItsTables
PROPERTY
    ComesUp
CHECK_DEADLOCK FALSE
