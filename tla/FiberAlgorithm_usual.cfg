SPECIFICATION FairSpec
CONSTANTS
    t1 = t1
    t2 = t2
    t3 = t3
    main = main
    a = a
    b = b
    c = c
    Threads <- TwoThreads
    MainThread = t1
    Fibers <- TwoTasks
    MainFiber = main
    Dispatcher = Dispatcher
    NoFiber = NoFiber
    AnyThread = AnyThread
    Parameters <- UsualParameters
    Pollers <- NoPollers
    MaxSwitches = 1
INVARIANTS
    TypeOK
    NoLostWakeup
    RequiredThreadKept
    FiberOnce
    DispatcherReady
PROPERTIES
    ReadyFibersRun
