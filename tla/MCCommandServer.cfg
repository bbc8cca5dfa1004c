CONSTANTS
    s1 = s1
    s2 = s2
    s3 = s3
    NULL = NULL
    Shell <- MCShell
    Stale <- MCStale
    Daemon <- MCDaemon
    Fd <- MCFd
    Backlog = 1
SPECIFICATION FairSpec
INVARIANTS TypeOK OneFate WholeCommands SequentialOrder
 
CHECK_DEADLOCK FALSE
