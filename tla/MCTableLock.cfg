\* Two tables, three Commit calls: a late remover, a holder and a newcomer.
\* Entries has one address more than the map and the handles can use.
CONSTANTS
    Tasks = {t1, t2, t3}
    Keys = {k1, k2}
    Entries = {e1, e2, e3, e4}
    None = None
SPECIFICATION FairSpec
INVARIANTS
    MutualExclusion
    NoLeakedEntry
    IInv
PROPERTIES
    ImplementsKeyLock
    WaiterServed
