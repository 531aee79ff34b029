\* Servers that are started, killed and started again, also side by side, with
\* another configuration each time, and a command that reaches for them.
SPECIFICATION FairSpec
CONSTANTS
    Procs = {s1, s2}
    Cmds = {c1}
    Args <- StatsArgs
    NoProc = NoProc  Dead = Dead
    Files <- SomeFiles
INVARIANTS TypeOK ServingIsReachable RestartSucceeds OkMeansDone
PROPERTIES StartEnds CommandEnds
\* All processes may have ended and all commands be done.
CHECK_DEADLOCK FALSE
