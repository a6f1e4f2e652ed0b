SPECIFICATION Spec
CONSTANTS
    t1 = t1
    t2 = t2
    t3 = t3
    main = main
    a = a
    b = b
    c = c
    Threads <- TwoThreads
    MainThread = t1
    Fibers <- ThreeTasks
    MainFiber = main
    Dispatcher = Dispatcher
    NoFiber = NoFiber
    AnyThread = AnyThread
    Parameters <- HighBound
    Pollers <- NoPollers
    MaxSwitches = 0
INVARIANTS
    LocalQueuePrivate
