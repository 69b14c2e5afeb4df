\* Two replicas race to create the table.
CONSTANTS
    Requests = {c1, c2}
    Replicas = {r1, r2}
    CallKinds <- RaceKinds
    MaxAttempts = 2
    Faults = {}
    None = None
SPECIFICATION Spec
INVARIANTS
    AbortedNotCommitted
