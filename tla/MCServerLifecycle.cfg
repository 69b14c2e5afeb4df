CONSTANTS
    Endpoints = {"unset", "malformed", "valid"}
    OtlpVariables = {"general", "metrics"}
    MaxInFlight = 2
SPECIFICATION FairSpec
\* The process exits.
CHECK_DEADLOCK FALSE
INVARIANTS
    IInv
    UnprobedDrainNotReady
    FlushedAtExit
PROPERTIES
    MalformedNeverReady
    StorageReported
    ShutdownCompletes
