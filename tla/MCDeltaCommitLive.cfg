\* Three calls on two replicas under fairness; clients may leave, lost versions are retried.
CONSTANTS
    Requests = {c1, c2, c3}
    Replicas = {r1, r2}
    CallKinds <- LiveKinds
    MaxAttempts = 2
    Faults = {"cancel"}
    None = None
SPECIFICATION FairSpec
PROPERTIES
    EveryCallEnds
