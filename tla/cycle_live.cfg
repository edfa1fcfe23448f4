SPECIFICATION CycleFairSpec
CONSTANTS
    port = 80
    page = page
    bare = bare
    cut = cut
    mended = mended
    mac = mac
    watch = watch
    sweep = sweep
    Ports <- MCPorts
    Prints <- MCPrints
    Closed = Closed
    Absent = Absent
    Targets <- MCTargets
    target <- MCTarget
    MACs <- MCMACs
    NoMAC = NoMAC
    Names <- MCNames
    NoName = NoName
    NameClass <- MCNameClass
    WindowsPorts <- MCNone
    Unknown = Unknown
    Workstation = Workstation
    Observations <- MCHost
    ChangeLists <- MCChangeLists
    Times <- MCTimes
    NoRow = NoRow
    NoScan = NoScan
    Bare = bare
    IPs <- MCIPs
    StoredPrint <- MCStoredPrint
    Procs <- MCWatch
    Watchers <- MCWatch
    Devices <- MCDevices
    Faults = {"drift", "interrupt"}
    MaxScans = 3
PROPERTIES
    ImplementsMonitor
    ChangesBecomeEvents
    InterruptEndsWatch
CHECK_DEADLOCK FALSE
