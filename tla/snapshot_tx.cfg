SPECIFICATION TxSpec
CONSTANTS
    port = 1000
    page = page
    mac = mac
    pc = pc
    tv = tv
    target = target
    IPs <- MCIPs
    Ports <- MCPorts
    Prints <- MCPrints
    StoredPrint <- MCStoredPrint
    Closed = Closed
    Absent = Absent
    Targets <- MCTargets
    MACs <- MCMACs
    NoMAC = NoMAC
    Names <- MCNames
    NoName = NoName
    NameClass <- MCNameClass
    WindowsPorts <- MCPorts
    Unknown = Unknown
    Workstation = Workstation
    Observations <- MCObservations
    ChangeLists <- MCChangeLists
    Times <- MCTimes
    MaxScans = 3
    NoRow = NoRow
    NoTx = NoTx
INVARIANTS
    TxTypeOK
    LoopInvariant
    NameAndTypeDigestLog
PROPERTY
    ImplementsStore
CHECK_DEADLOCK FALSE
