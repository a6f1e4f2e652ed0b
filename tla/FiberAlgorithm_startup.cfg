SPECIFICATION Spec
CONSTANTS
    t1 = t1
    t2 = t2
    t3 = t3
    main = main
    a = a
    b = b
    c = c
    Threads <- ThreeThreads
    MainThread = t1
    Fibers <- OneTask
    MainFiber = main
    Dispatcher = Dispatcher
    NoFiber = NoFiber
    AnyThread = AnyThread
    Parameters <- UsualParameters
    Pollers <- NoPollers
    MaxSwitches = 0
INVARIANTS
    NotifiedRegistered
