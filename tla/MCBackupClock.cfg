SPECIFICATION BackupSpec
CONSTANTS
    Names = {n1, n2, n3}
    Runs = {r1, r2}
    Wedged = r1
    Commands = {}
    SameSecond = FALSE
    Every = 5
    Timeout = 1
    Keep = 1
    Horizon = 7
    MayBlock = {}
    None = None
INVARIANT
    NoFalseAlarm
PROPERTY
    EveryRunEnds
