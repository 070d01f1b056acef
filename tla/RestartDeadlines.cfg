SPECIFICATION FairPairsSpec
CONSTANTS
    Watched = {"auto", "sched"}
    Changes = {}
    Policies = {"countdown", "scheduled"}
    Products = {"steam"}
    OtherActions = {}
    Lead = 2
    Late = 0
    NoticeAt <- MCNoticeAt
    Gaps = {2, 5}
    ManagerStops = FALSE
    DiskFaults = FALSE
PROPERTIES DeadlinesAreSettled
