SPECIFICATION CycleSpec
CONSTANTS
    port = 80
    page = page
    bare = bare
    cut = cut
    mended = mended
    mac = mac
    watch = watch
    sweep = sweep
    Ports <- MCPorts
    Prints <- MCPrints
    Closed = Closed
    Absent = Absent
    Targets <- MCTargets
    target <- MCTarget
    MACs <- MCMACs
    NoMAC = NoMAC
    Names <- MCNames
    NoName = NoName
    NameClass <- MCNameClass
    WindowsPorts <- MCNone
    Unknown = Unknown
    Workstation = Workstation
    Observations <- MCHost
    ChangeLists <- MCChangeLists
    Times <- MCTimes
    NoRow = NoRow
    NoScan = NoScan
    Bare = bare
    IPs <- MCIPs
    StoredPrint <- MCStoredPrint
    Procs <- MCSweep
    Watchers <- MCNone
    Devices <- MCDevices
    Faults = {"drift", "database"}
    MaxScans = 2
INVARIANT
    NoSilentReplacement
CHECK_DEADLOCK FALSE
