CONSTANTS
    t1 = t1
    t2 = t2
    f1 = f1
    f2 = f2
    NULL = NULL
    Thread <- MCThread
    Fd <- MCFd
    ACC_CLIENT_MAX_SIZE = 2
    MaxStale = 1
SPECIFICATION Spec
INVARIANT AcceptMeansAccepted
