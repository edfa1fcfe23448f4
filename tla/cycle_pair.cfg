SPECIFICATION CycleSpec
CONSTANTS
    port = 80
    page = page
    bare = bare
    cut = cut
    mended = mended
    mac = mac
    watch = watch
    sweep = sweep
    Ports <- MCPorts
    Prints <- MCPrints
    Closed = Closed
    Absent = Absent
    Targets <- MCTargets
    target <- MCTarget
    MACs <- MCMACs
    NoMAC = NoMAC
    Names <- MCNames
    NoName = NoName
    NameClass <- MCNameClass
    WindowsPorts <- MCNone
    Unknown = Unknown
    Workstation = Workstation
    Observations <- MCHost
    ChangeLists <- MCChangeLists
    Times <- MCTimes
    NoRow = NoRow
    NoScan = NoScan
    Bare = bare
    IPs <- MCIPs
    StoredPrint <- MCStoredPrint
    Procs <- MCBoth
    Watchers <- MCWatch
    Devices <- MCDevices
    Faults = {"drift", "arp", "loss", "database"}
    MaxScans = 3
INVARIANTS
    ChangesAreFromSomeEarlierScan
    EventsReportCommittedChanges
    AssetsDigestLog
    WatchComparesSinceBaseline
CHECK_DEADLOCK FALSE
