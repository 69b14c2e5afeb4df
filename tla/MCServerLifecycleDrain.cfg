\* A process with a probe loop is told to shut down.
CONSTANTS
    Endpoints = {"valid"}
    OtlpVariables = {"general"}
    MaxInFlight = 1
SPECIFICATION Spec
CHECK_DEADLOCK FALSE
INVARIANTS
    DrainingNotReady
