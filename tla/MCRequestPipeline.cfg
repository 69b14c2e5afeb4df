\* Two requests, every service and pair of credentials, every key setting.
CONSTANTS
    Calls = {c1, c2}
SPECIFICATION FairSpec
INVARIANTS
    IInv
    CountersExact
    GateExact
PROPERTIES
    CountedUnlessDropped
