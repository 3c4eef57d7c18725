SPECIFICATION FairSpec
CONSTANTS
    Key <- MCKey
    Value = {v1, v2}
    None = None
    Capacity = 1
    Node <- MCNode
    Peers <- MCPeers
    Hash <- MCHashSame
    Call = {c1, c2}
    Workload <- MCWorkload
    kRetryTimes = 2
    MaxRestarts = 1
    MaxResends = 0
PROPERTIES
    AbstractSpec
    ForwardEnds
CHECK_DEADLOCK FALSE
