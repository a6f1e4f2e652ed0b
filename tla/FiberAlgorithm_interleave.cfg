SPECIFICATION FairSpec
CONSTANTS
    t1 = t1
    t2 = t2
    t3 = t3
    main = main
    a = a
    b = b
    c = c
    Threads <- OneThread
    MainThread = t1
    Fibers <- TwoTasks
    MainFiber = main
    Dispatcher = Dispatcher
    NoFiber = NoFiber
    AnyThread = AnyThread
    Parameters <- SharedUX
    Pollers <- TwoPollers
    MaxSwitches = 0
PROPERTIES
    SharedTasksInterleaved
