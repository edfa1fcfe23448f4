SPECIFICATION MCSpec
CONSTANTS
    first = first
    second = second
    other = other
    mac = mac
    IPs <- MCIPs
    Ports <- MCPorts
    Prints <- MCPrints
    StoredPrint <- MCStoredPrint
    Closed = Closed
    Absent = Absent
    NotRead = NotRead
    Targets <- MCTargets
    MACs <- MCMACs
    NoMAC = NoMAC
    Names <- MCNames
    NoName = NoName
    NameClass <- MCNameClass
    WindowsPorts <- MCNone
    Unknown = Unknown
    Workstation = Workstation
    Observations <- MCHost
    ChangeLists <- MCChangeLists
    Times <- MCTimes
    NoRow = NoRow
    Clients <- MCClients
    Watches <- MCWatches
    targetOf <- MCTargetOf
    shownTarget <- MCShown
    Notifying <- MCNotifying
    notifyLevel = "LOW"
    CardLimit = 2
    FindingRows = 1
    EventRows = 1
    Waiting = Waiting
    MaxRefreshes = 1
    MaxScans = 3
INVARIANT
    ErrorsAreFailedRequests
CHECK_DEADLOCK FALSE
