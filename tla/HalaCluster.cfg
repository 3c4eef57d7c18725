SPECIFICATION Spec
CONSTANTS
    Key <- MCKey
    Value = {v1, v2}
    None = None
    Capacity = 1
    Node <- MCNode
    Peers <- MCPeers
    Hash <- MCHash
    Call = {c1, c2}
    Workload <- MCWorkload
    kRetryTimes = 2
    MaxRestarts = 0
    MaxResends = 1
SYMMETRY Symmetry
INVARIANTS
    TypeOK
    OwnerOnly
    OneHop
    AnswerWasExecuted
    ValuesWereSent
    SettledPutVisible
PROPERTIES
    AbstractSpec
CHECK_DEADLOCK FALSE
