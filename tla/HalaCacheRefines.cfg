SPECIFICATION CacheSpec
CONSTANTS
    Key = {k1, k2, k3}
    Value = {v1, v2}
    None = None
    Capacity = 2
    Thread = {t1, t2}
    NoThread = NoThread
PROPERTIES
    AtomicSpec
    NothingLost
