SPECIFICATION Spec
CONSTANTS
    t1 = t1
    t2 = t2
    a = a
    b = b
    c = c
    Threads <- TwoThreads
    MainThread = t1
    Tasks <- TwoTasks
    MainFiber = MainFiber
    NoFiber = NoFiber
    MaxCalls = 0
INVARIANTS
    ChildrenCompleteFirst
