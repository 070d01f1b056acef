SPECIFICATION MCFairSpec
CONSTANTS
    Workers = {w1, w2}
    Newest = 2
    Operations = TRUE
    DiskFaults = TRUE
    w1 = w1
    w2 = w2
INVARIANTS ReportIsTrue InstallsWhatIsRequested SuccessRestores
PROPERTIES RequestIsKept WorkEnds InterruptedIsReported
