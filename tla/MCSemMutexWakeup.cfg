SPECIFICATION Spec
CONSTANTS
    p1 = p1
    p2 = p2
    p3 = p3
    mutex = mutex
    Proc <- MCProc
    KernelProc = {p1, p2, p3}
    Sem <- MCSem
    InitialValue <- MCInitialValue
    Idle = Idle
    None = None
    Mutex = mutex
    Inc <- MCInc
    Rounds = 2
INVARIANT WaitersAreWoken
