SPECIFICATION PairsSpec
CONSTANTS
    Watched = {"mod", "auto", "sched"}
    Changes = {}
    Policies = {"scheduled", "when_empty"}
    Products = {"steam"}
    OtherActions = {}
    Lead = 2
    Late = 0
    NoticeAt <- MCNoticeAt
    Gaps = {2, 5}
    ManagerStops = FALSE
    DiskFaults = FALSE
PROPERTIES RestartsItsOwnProcess YieldsToAnnounced
VIEW Needed
