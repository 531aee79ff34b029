\* A second server is started while the first one serves.
SPECIFICATION Spec
CONSTANTS
    Procs = {s1, s2}
    Cmds = {}
    Args <- StatsArgs
    NoProc = NoProc  Dead = Dead
    Files <- OneFile
INVARIANTS FailedStartIsHarmless
CHECK_DEADLOCK FALSE
