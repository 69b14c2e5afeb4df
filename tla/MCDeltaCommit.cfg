\* Three calls on two replicas, every kind of request, all faults.
CONSTANTS
    Requests = {c1, c2, c3}
    Replicas = {r1, r2}
    CallKinds <- AllKinds
    MaxAttempts = 2
    Faults = {"storage", "cancel", "crash"}
    None = None
SPECIFICATION Spec
SYMMETRY Symmetry
INVARIANTS
    IInv
    AtMostOnce
    StartsWithCreate
    ExpectedHonoured
    NoLostRace
    ExpectedExact
PROPERTIES
    ImplementsCommitLog
