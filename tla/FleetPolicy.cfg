SPECIFICATION MCSpec
CONSTANTS
    Policies = {"off", "on"}
    AllOff = "off"
    Workers = {w1, w2}
    Changes = 5
INVARIANTS OneWorker StatusIsWatched
PROPERTIES PolicyArrives
CHECK_DEADLOCK FALSE
