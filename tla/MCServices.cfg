SPECIFICATION MCSpec
CONSTANTS
    p1 = p1
    p2 = p2
    p3 = p3
    mutex = mutex
    Proc <- MCProc
    KernelProc = {p3}
    Sem <- MCSem
    InitialValue <- MCInitialValue
    Idle = Idle
    None = None
    Mutex = mutex
    Inc <- MCInc
    Rounds = 2
    HeapUnits = 8
    UnitSize = 2
    SizeMax = 7
    MaxOrder = 4
    HeapMinBlocks = 9
    MinBlockSize = 2
    MetaSize = 1
    FreeBlockSize = 2
INVARIANTS TokenConserved NoLostUpdate NoLostWakeup NoUnitLost Coalesced RoomForRequest StatsAreRight Partition FullyMerged
PROPERTIES ImplementsFairSemaphore ImplementsMemoryManager BuddyImplementsMemoryManager FailsOnlyWhenFull CallsReturn
