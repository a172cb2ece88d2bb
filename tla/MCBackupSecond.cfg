SPECIFICATION BackupSpec
CONSTANTS
    Names = {n1, n2, n3}
    Runs = {r1, r2}
    Wedged = r1
    Commands = {c1}
    SameSecond = TRUE
    Every = 2
    Timeout = 1
    Keep = 1
    Horizon = 4
    MayBlock = {}
    None = None
PROPERTY
    PublishedWhole
