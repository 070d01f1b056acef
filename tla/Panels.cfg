SPECIFICATION PanelsSpec
CONSTANTS
    Names = {a, b, u}
    Managed = {u}
    DiskFaults = TRUE
    Game = {a, b}
    Engine = {}
    Rotation = {a, b}
    NoFile = NoFile
    WritesFail = TRUE
    Callers = {x, y}
    Loop = Loop
    Intervals = {1, 2}
    Retry = 1
    MaxChanges = 1
    MaxTime = 1
    Restrictions = {mute, ban}
    Durations = {0, 1, 2}
    Horizon = 3
    Off = Off
    Forever = Forever
    SavesFail = TRUE
    Players = {p, q}
    MaxRuns = 2
    MaxLines = 3
    mute = mute
INVARIANTS
    TypeOK RequestsHaveFiles LaunchIsSettled NothingIsLost LogoutOnce
    SessionsMatch RestrictionsStand ChangeIsShown NothingIsOverslept
PROPERTIES FollowsPlan CacheGoesForward
CONSTRAINTS NotExposed Claimed
SYMMETRY Alike
CHECK_DEADLOCK FALSE
