SPECIFICATION SpecNice
CONSTANTS
    idle = idle
    init = init
    a = a
    b = b
    Proc <- MCProc
    Idle = idle
    InitProc = init
    NoProc = NoProc
    MaxPriority = 1
    AgingBoost = 1
    AgingThreshold = 2
    DefaultQuantum = 1
PROPERTY ScheduleReturns
