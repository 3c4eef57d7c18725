SPECIFICATION Spec
CONSTANTS
    Key <- MCKey
    Value = {v1, v2}
    None = None
    Capacity = 2
    Page = {p1, p2}
    TypedKey <- MCKey
    UrlKey <- MCUrlKey
    TypedValue = {v2}
    LocalKey = {"l"}
    FirstKey = "k"
    FirstValue = v1
    MaxRequests = 3
    MaxRetried = 1
    MaxLost = 1
    MaxTypings = 1
SYMMETRY Symmetry
INVARIANTS
    TypeOK
    RowIsTrue
    OkWasDone
    RegularRead
