SPECIFICATION CycleSpec
CONSTANTS
    port = 80
    page = page
    bare = bare
    cut = cut
    mended = mended
    mac = mac
    watch = watch
    sweep = sweep
    Ports <- MCPorts
    Prints <- MCPrints
    Closed = Closed
    Absent = Absent
    Targets <- MCTargets
    target <- MCTarget
    MACs <- MCMACs
    NoMAC = NoMAC
    Names <- MCNames
    NoName = NoName
    NameClass <- MCNameClass
    WindowsPorts <- MCNone
    Unknown = Unknown
    Workstation = Workstation
    Observations <- MCHost
    ChangeLists <- MCChangeLists
    Times <- MCTimes
    NoRow = NoRow
    NoScan = NoScan
    Bare = bare
    IPs <- MCIPs
    StoredPrint <- MCStoredPrint
    Procs <- MCWatch
    Watchers <- MCWatch
    Devices <- MCQuietDevices
    Faults = {"drift", "arp", "loss", "database", "interrupt", "crash"}
    MaxScans = 4
INVARIANTS
    CycleTypeOK
    ChangesAreFromPredecessor
    EventsReportCommittedChanges
    EventsExplainLatestSnapshot
    MonitoringRowTellsWatch
PROPERTY
    LastSeenNeedsSighting
CHECK_DEADLOCK FALSE
