SPECIFICATION Spec
CONSTANTS
    idle = idle
    init = init
    p1 = p1
    p2 = p2
    p3 = p3
    Pcb <- MCPcb
    IdlePcb = idle
    InitPcb = init
    MAX_PROCESSES = 5
    MAX_CHILDREN = 2
    MaxCreated = 5
    Reckless = FALSE
    NULL = NULL
PROPERTY Watchdog
CHECK_DEADLOCK FALSE
