SPECIFICATION FairSpec
CONSTANTS
    t1 = t1
    t2 = t2
    a = a
    b = b
    c = c
    Threads <- TwoThreads
    MainThread = t1
    Tasks <- ThreeTasks
    MainFiber = MainFiber
    NoFiber = NoFiber
    MaxCalls = 1
INVARIANTS
    TypeOK
    CountsExact
    BlockCoversChildren
    DestroyedUnused
    NobodyStuck
PROPERTIES
    ImplementsForkJoin
    DestructorReturns
    BlockReturns
