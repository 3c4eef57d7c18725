SPECIFICATION FairCacheSpec
CONSTANTS
    Key = {k1, k2}
    Value = {v1, v2}
    None = None
    Capacity = 1
    Thread = {t1, t2, t3}
    NoThread = NoThread
INVARIANTS
    TypeOK
    LockProtects
    NeverStuck
    EntryStillThere
    RemoveHandsOver
PROPERTIES
    SomeCallReturns
