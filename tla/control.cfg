CONSTANTS
    DefaultSource = 1
    MatchTolerance = 1
    Request = {1, 2, 3}
    Odd = {1}
    Keys = {"order", "undated", "exit"}
    Record <- MCRecord
    FileLength = 3
    MaxTime = 2
    Windows <- MCWindows
    MaxPageSize = 2
    MaxPages = {1, 3}
SPECIFICATION RunSpec
INVARIANTS MissingIsExplained UnrecordedIsExplained NothingLostSilently OrderIndependent
CHECK_DEADLOCK FALSE
