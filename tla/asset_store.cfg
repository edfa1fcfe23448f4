SPECIFICATION MCSpec
CONSTANTS
    port = 1000
    page = page
    mac = mac
    pc = pc
    target = target
    IPs <- MCIPs
    Ports <- MCPorts
    Prints <- MCPrints
    StoredPrint <- MCStoredPrint
    Closed = Closed
    Absent = Absent
    Targets <- MCTargets
    MACs <- MCMACs
    NoMAC = NoMAC
    Names <- MCNames
    NoName = NoName
    NameClass <- MCNameClass
    WindowsPorts <- MCPorts
    Unknown = Unknown
    Workstation = Workstation
    Observations <- MCObservations
    ChangeLists <- MCChangeLists
    Times <- MCTimes
    MaxScans = 5
    NoRow = NoRow
INVARIANTS
    TypeOK
    AssetsDigestLog
    StateTellsRecentSightings
    CountAndNewAgreeWithLog
    HistoryTellsLatestScan
CHECK_DEADLOCK FALSE
