SPECIFICATION Spec
CONSTANTS
    Watched = {"mod"}
    Changes = {}
    Policies = {"when_empty"}
    Products = {}
    OtherActions = {}
    Lead = 2
    Late = 0
    NoticeAt <- MCNoticeAt
    Gaps = {2, 5}
    ManagerStops = FALSE
    DiskFaults = FALSE
PROPERTIES EmptyAllTheTime
