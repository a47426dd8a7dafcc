SPECIFICATION SpecNice
CONSTANTS
    idle = idle
    init = init
    a = a
    b = b
    Proc <- MCProcNice
    Idle = idle
    InitProc = init
    NoProc = NoProc
    MaxPriority = 2
    AgingBoost = 1
    AgingThreshold = 2
    DefaultQuantum = 2
CONSTRAINT QueueBound
INVARIANTS ReadyIsReachable
