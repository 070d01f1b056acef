SPECIFICATION SinglesSpec
CONSTANTS
    Watched = {"mod", "auto", "sched"}
    Changes = {"mod", "auto", "sched"}
    Policies = {"countdown", "scheduled"}
    Products = {"manager"}
    OtherActions = {"restart"}
    Lead = 2
    Late = 0
    NoticeAt <- MCNoticeAt
    Gaps = {2, 5}
    ManagerStops = TRUE
    DiskFaults = TRUE
INVARIANTS DisabledHasNoPlan PlansAreWatched
PROPERTIES NoticesBeforeRestart
VIEW NeededSingly
