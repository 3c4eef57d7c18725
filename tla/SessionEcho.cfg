SPECIFICATION FairSpec
CONSTANTS
    Controller = {c1, c2}
    Session = {s1, s2, s3}
    Tls = {t1, t2, t3}
    None = None
INVARIANTS
    TypeOK
    SessionKept
    FiberDataKept
    PoolsBounded
PROPERTIES
    EveryCallAnswered
