SPECIFICATION FairSpec
CONSTANTS
    w1 = w1
    w2 = w2
    Workers <- MCWorkers
    NumJobs = 3
INVARIANTS
    TypeOK
    CompleteUnlessCancelled
    ReportedOnceAndTruly
    NoSendOnClosed
PROPERTIES
    ImplementsProbeCall
    EverythingReturns
