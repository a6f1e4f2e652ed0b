----------------------------- MODULE FiberTasks -----------------------------
(***************************************************************************)
(* SchedulerBackend over fibers: tasks that launch tasks, the count of     *)
(* children a fiber blocks on, the count of fibers the destructor waits    *)
(* for, and the worker threads that leave when it reaches zero.            *)
(*                                                                         *)
(* Which ready fiber a thread runs is FiberAlgorithm's concern: here any   *)
(* thread may run any fiber that is ready, the main fiber and the fibers   *)
(* of worker threads excepted.  A fiber keeps its thread until it blocks,  *)
(* yields or ends; one critical section of a fiber mutex is one step.      *)
(***************************************************************************)
EXTENDS Naturals, FiniteSets

CONSTANTS
    Threads,      \* the main thread and the workers
    MainThread,
    Tasks,        \* the tasks the program may launch
    MainFiber,    \* the fiber of main(), which owns the scheduler
    NoFiber,
    MaxCalls      \* bound: calls of Block() and Yield() by the bodies of fibers

ASSUME FibersAssumption ==
    /\ MainThread \in Threads
    /\ IsFiniteSet(Tasks) /\ IsFiniteSet(Threads)
    /\ MainFiber \notin Tasks \cup Threads
    /\ NoFiber \notin Tasks \cup Threads \cup {MainFiber}
    /\ Tasks \cap Threads = {}
ASSUME CallsAssumption == MaxCalls \in Nat

Workers == Threads \ {MainThread}       \* a worker also names the fiber that runs ThreadRun
Callers == Tasks \cup {MainFiber}       \* fibers that run code of the program
Fibers == Callers \cup Workers

VARIABLES
    pc,          \* what each fiber does
    current,     \* the fiber each thread runs
    parent,      \* whose blockCount_ a task holds, or NoFiber
    job,         \* the task a fiber is launching or joining, and how
    count,       \* blockCount_
    fiberCount,  \* fiberCount_
    shouldRun,   \* shouldRun_
    calls        \* bounded calls so far

vars == <<pc, current, parent, job, count, fiberCount, shouldRun, calls>>

NoJob == [task |-> NoFiber, how |-> "post"]

Init ==
    /\ pc = [f \in Fibers |->
               IF f = MainFiber THEN "body" ELSE IF f \in Tasks THEN "new" ELSE "check"]
    /\ current = [t \in Threads |-> IF t = MainThread THEN MainFiber ELSE t]
    /\ parent = [f \in Tasks |-> NoFiber]
    /\ job = [f \in Callers |-> NoJob]
    /\ count = [f \in Callers |-> 0]
    /\ fiberCount = 1       \* the constructor counts the main fiber
    /\ shouldRun = TRUE
    /\ calls = 0

Goto(f, label) == pc' = [pc EXCEPT ![f] = label]

\* Fiber f goes on at label, or its thread t is left without a fiber.
Release(t) == current' = [current EXCEPT ![t] = NoFiber]

-----------------------------------------------------------------------------
(* AddTask and LaunchFiber *)

\* Mutant: a task that blocks its launcher is not counted.
AddTaskUncounted(f, g, p, how) ==
    /\ pc[f] = "body" /\ pc[g] = "new" /\ g \notin {job[h].task : h \in Callers}
    /\ how = "dispatch" => p = f
    /\ fiberCount' = IF p = NoFiber THEN fiberCount + 1 ELSE fiberCount
    /\ parent' = [parent EXCEPT ![g] = p]
    /\ job' = [job EXCEPT ![f] = [task |-> g, how |-> how]]
    /\ Goto(f, IF p = NoFiber THEN "launch" ELSE "hold")
    /\ UNCHANGED <<current, count, shouldRun, calls>>

\* The task is counted, under fiberMutex_.  Parameters that dispatch also block.
AddTask(f, g, p, how) ==
    /\ pc[f] = "body" /\ pc[g] = "new" /\ g \notin {job[h].task : h \in Callers}
    /\ how = "dispatch" => p = f
    /\ fiberCount' = fiberCount + 1
    /\ parent' = [parent EXCEPT ![g] = p]
    /\ job' = [job EXCEPT ![f] = [task |-> g, how |-> how]]
    /\ Goto(f, IF p = NoFiber THEN "launch" ELSE "hold")
    /\ UNCHANGED <<current, count, shouldRun, calls>>

\* Mutant: the hold is not counted.
HoldForgotten(f) ==
    /\ pc[f] = "hold"
    /\ Goto(f, "launch")
    /\ UNCHANGED <<current, parent, job, count, fiberCount, shouldRun, calls>>

\* shouldBlock_: the launching fiber holds the task, under its blockMutex_.
Hold(f) ==
    /\ pc[f] = "hold"
    /\ count' = [count EXCEPT ![f] = @ + 1]
    /\ Goto(f, "launch")
    /\ UNCHANGED <<current, parent, job, fiberCount, shouldRun, calls>>

\* A posted task becomes ready.
Post(f) ==
    /\ pc[f] = "launch" /\ job[f].how = "post"
    /\ pc' = [pc EXCEPT ![f] = "body", ![job[f].task] = "body"]
    /\ job' = [job EXCEPT ![f] = NoJob]
    /\ UNCHANGED <<current, parent, count, fiberCount, shouldRun, calls>>

\* A dispatched task takes the thread; its launcher joins it when it runs again.
Dispatch(t, f) ==
    /\ pc[f] = "launch" /\ job[f].how = "dispatch"
    /\ pc' = [pc EXCEPT ![f] = "join", ![job[f].task] = "body"]
    /\ current' = [current EXCEPT ![t] = job[f].task]
    /\ UNCHANGED <<parent, job, count, fiberCount, shouldRun, calls>>

Join(f) ==
    /\ pc[f] = "join" /\ pc[job[f].task] = "done"
    /\ job' = [job EXCEPT ![f] = NoJob]
    /\ Goto(f, "body")
    /\ UNCHANGED <<current, parent, count, fiberCount, shouldRun, calls>>

-----------------------------------------------------------------------------
(* The bodies of fibers, and Block *)

Yield(t, f) ==
    /\ pc[f] = "body" /\ calls < MaxCalls
    /\ calls' = calls + 1
    /\ Release(t)
    /\ UNCHANGED <<pc, parent, job, count, fiberCount, shouldRun>>

\* The program calls Block, ...
CallBlock(f) ==
    /\ pc[f] = "body" /\ calls < MaxCalls
    /\ calls' = calls + 1
    /\ Goto(f, "sync")
    /\ UNCHANGED <<current, parent, job, count, fiberCount, shouldRun>>

\* Mutant: the function returns and the task ends without Block.
EndBodyAtOnce(f) ==
    /\ f \in Tasks /\ pc[f] = "body"
    /\ Goto(f, "finish")
    /\ UNCHANGED <<current, parent, job, count, fiberCount, shouldRun, calls>>

\* ... and every task does when its function returns.
EndBody(f) ==
    /\ f \in Tasks /\ pc[f] = "body"
    /\ Goto(f, "block")
    /\ UNCHANGED <<current, parent, job, count, fiberCount, shouldRun, calls>>

\* Mutant: the last child is not waited for.
BlockPassesEarly(f) ==
    /\ pc[f] \in {"sync", "block"} /\ count[f] \in {0, 1}
    /\ Goto(f, IF pc[f] = "sync" THEN "body" ELSE "finish")
    /\ UNCHANGED <<current, parent, job, count, fiberCount, shouldRun, calls>>

\* Block checks its predicate under blockMutex_, and waits while it is false.
BlockPasses(f) ==
    /\ pc[f] \in {"sync", "block"} /\ count[f] = 0
    /\ Goto(f, IF pc[f] = "sync" THEN "body" ELSE "finish")
    /\ UNCHANGED <<current, parent, job, count, fiberCount, shouldRun, calls>>

BlockWaits(t, f) ==
    /\ pc[f] \in {"sync", "block"} /\ count[f] # 0
    /\ Goto(f, IF pc[f] = "sync" THEN "syncAsleep" ELSE "blockAsleep")
    /\ Release(t)
    /\ UNCHANGED <<parent, job, count, fiberCount, shouldRun, calls>>

-----------------------------------------------------------------------------
(* The end of a task *)

\* After its thread-wide tail, a task that is held goes on to its parent.
Tail(f) == IF parent[f] = NoFiber THEN "end" ELSE "unhold"

\* fiberCount_ is decremented under fiberMutex_.
Finish(f) ==
    /\ pc[f] = "finish"
    /\ fiberCount' = fiberCount - 1
    /\ Goto(f, IF fiberCount' = 0 THEN "notifyAll" ELSE Tail(f))
    /\ UNCHANGED <<current, parent, job, count, shouldRun, calls>>

\* fiberCondition_.notify_all() returns its waiters to their predicates.
Woken(label) ==
    CASE label = "asleep" -> "check"
      [] label = "destroyAsleep" -> "destroyCheck"
      [] OTHER -> label

\* Mutant: only one of the waiters is notified.
NotifyOne(f) ==
    /\ pc[f] = "notifyAll"
    /\ \E w \in Fibers :
          /\ pc[w] \in {"asleep", "destroyAsleep"} \/ \A x \in Fibers : pc[x] \notin {"asleep", "destroyAsleep"}
          /\ pc' = [pc EXCEPT ![w] = Woken(@),
                              ![f] = IF f = MainFiber THEN "threads" ELSE Tail(f)]
    /\ UNCHANGED <<current, parent, job, count, fiberCount, shouldRun, calls>>

NotifyAll(f) ==
    /\ pc[f] = "notifyAll"
    /\ pc' = [g \in Fibers |-> IF g # f THEN Woken(pc[g])
                               ELSE IF f = MainFiber THEN "threads" ELSE Tail(f)]
    /\ UNCHANGED <<current, parent, job, count, fiberCount, shouldRun, calls>>

\* Mutant: what remains is read before the decrement.
UnholdReadsBefore(f) ==
    /\ pc[f] = "unhold"
    /\ count' = [count EXCEPT ![parent[f]] = @ - 1]
    /\ Goto(f, IF count[parent[f]] = 0 THEN "notifyParent" ELSE "end")
    /\ UNCHANGED <<current, parent, job, fiberCount, shouldRun, calls>>

\* The parent's count is decremented under the parent's mutex, ...
Unhold(f) ==
    /\ pc[f] = "unhold"
    /\ count' = [count EXCEPT ![parent[f]] = @ - 1]
    /\ Goto(f, IF count'[parent[f]] = 0 THEN "notifyParent" ELSE "end")
    /\ UNCHANGED <<current, parent, job, fiberCount, shouldRun, calls>>

\* ... and its condition is notified when the mutex is free again.
NotifyParent(f) ==
    /\ pc[f] = "notifyParent"
    /\ LET p == parent[f] IN
       pc' = [pc EXCEPT ![p] = CASE @ = "syncAsleep" -> "sync"
                                 [] @ = "blockAsleep" -> "block"
                                 [] OTHER -> @,
                        ![f] = "end"]
    /\ UNCHANGED <<current, parent, job, count, fiberCount, shouldRun, calls>>

\* The fiber is over and its fiber-specific mutex, count and condition are freed.
End(t, f) ==
    /\ pc[f] = "end"
    /\ Goto(f, "done")
    /\ Release(t)
    /\ UNCHANGED <<parent, job, count, fiberCount, shouldRun, calls>>

-----------------------------------------------------------------------------
(* The destructor and the worker threads *)

\* Mutant: the destructor and the threads do not wait for the fibers that remain.
OverAtOnce == ~shouldRun

Over == fiberCount = 0 /\ ~shouldRun

\* ~SchedulerBackend counts the main fiber out.
Destroy(f) ==
    /\ f = MainFiber /\ pc[f] = "body"
    /\ shouldRun' = FALSE
    /\ fiberCount' = fiberCount - 1
    /\ Goto(f, IF fiberCount' = 0 THEN "notifyAll" ELSE "destroyCheck")
    /\ UNCHANGED <<current, parent, job, count, calls>>

DestroyWaits(t, f) ==
    /\ pc[f] = "destroyCheck"
    /\ IF Over THEN Goto(f, "threads") /\ UNCHANGED current
       ELSE Goto(f, "destroyAsleep") /\ Release(t)
    /\ UNCHANGED <<parent, job, count, fiberCount, shouldRun, calls>>

\* The main thread itself blocks until every worker thread has ended.
JoinThreads(f) ==
    /\ pc[f] = "threads" /\ \A w \in Workers : pc[w] = "gone"
    /\ Goto(f, "destroyed")
    /\ UNCHANGED <<current, parent, job, count, fiberCount, shouldRun, calls>>

\* ThreadRun waits on fiberCondition_ and leaves.
WorkerChecks(t, w) ==
    /\ pc[w] = "check"
    /\ IF Over THEN Goto(w, "gone") /\ UNCHANGED current
       ELSE Goto(w, "asleep") /\ Release(t)
    /\ UNCHANGED <<parent, job, count, fiberCount, shouldRun, calls>>

-----------------------------------------------------------------------------
Ready(f) ==
    /\ pc[f] \notin {"new", "syncAsleep", "blockAsleep", "asleep", "destroyAsleep", "done"}
    /\ pc[f] = "join" => pc[job[f].task] = "done"
    /\ \A t \in Threads : current[t] # f

\* A thread without a fiber runs one that is ready (FiberAlgorithm).
Pick(t, f) ==
    /\ current[t] = NoFiber /\ Ready(f)
    /\ f \in Workers => f = t
    /\ f = MainFiber => t = MainThread
    /\ current' = [current EXCEPT ![t] = f]
    /\ UNCHANGED <<pc, parent, job, count, fiberCount, shouldRun, calls>>

CallerStep(t, f) ==
    \/ \E g \in Tasks, p \in {f, NoFiber}, how \in {"post", "dispatch"} : AddTask(f, g, p, how)
    \/ Hold(f) \/ Post(f) \/ Dispatch(t, f) \/ Join(f)
    \/ Yield(t, f) \/ CallBlock(f) \/ EndBody(f)
    \/ BlockPasses(f) \/ BlockWaits(t, f)
    \/ Finish(f) \/ NotifyAll(f) \/ Unhold(f) \/ NotifyParent(f) \/ End(t, f)
    \/ Destroy(f) \/ DestroyWaits(t, f) \/ JoinThreads(f)

Step(t) ==
    \/ \E f \in Callers : current[t] = f /\ CallerStep(t, f)
    \/ \E w \in Workers : current[t] = w /\ WorkerChecks(t, w)
    \/ \E f \in Fibers : Pick(t, f)

Destroyed == pc[MainFiber] = "destroyed" /\ UNCHANGED vars

Next == (\E t \in Threads : Step(t)) \/ Destroyed

Spec == Init /\ [][Next]_vars

\* Every thread runs, and bodies end.
FairSpec == Spec /\ \A t \in Threads : WF_vars(Step(t))

-----------------------------------------------------------------------------
(* Properties *)

Labels == {"new", "body", "hold", "launch", "join", "sync", "syncAsleep", "block", "blockAsleep",
           "finish", "notifyAll", "unhold", "notifyParent", "end", "done", "check", "asleep",
           "gone", "destroyCheck", "destroyAsleep", "threads", "destroyed"}

TypeOK ==
    /\ pc \in [Fibers -> Labels]
    /\ current \in [Threads -> Fibers \cup {NoFiber}]
    /\ parent \in [Tasks -> Callers \cup {NoFiber}]
    /\ job \in [Callers -> [task : Tasks \cup {NoFiber}, how : {"post", "dispatch"}]]
    /\ count \in [Callers -> Nat]
    /\ fiberCount \in Nat
    /\ shouldRun \in BOOLEAN
    /\ calls \in Nat

Launching(g) == \E f \in Callers : pc[f] \in {"hold", "launch"} /\ job[f].task = g
Unfinished == {"body", "hold", "launch", "join", "sync", "syncAsleep", "block", "blockAsleep",
               "finish"}

\* A task whose function, or Block, has not returned.
Working(f) == pc[f] \in Unfinished \/ Launching(f)

\* Tasks that hold f: launched with shouldBlock_ and not yet counted out.
Holding(f) ==
    {g \in Tasks :
        /\ parent[g] = f
        /\ \/ pc[g] \in Unfinished \cup {"notifyAll", "unhold"}
           \/ pc[f] = "launch" /\ job[f].task = g}

\* blockCount_ and fiberCount_ are exact at every step, whatever the order in
\* which tasks are counted, launched and counted out: neither drifts nor wraps.
CountsExact ==
    /\ \A f \in Callers : pc[f] # "done" => count[f] = Cardinality(Holding(f))
    /\ fiberCount = Cardinality({f \in Tasks : Working(f)}) + (IF shouldRun THEN 1 ELSE 0)

\* When a task's own Block has returned, every task it launched with
\* shouldBlock_, and every one those launched, has run to its end.
BlockCoversChildren ==
    \A g \in Tasks :
        parent[g] \in Tasks /\ pc[parent[g]] \in {"finish", "notifyAll", "unhold", "notifyParent",
                                                   "end", "done"}
            => ~Working(g)

\* Once the destructor returns nothing touches the scheduler's mutex, counter or
\* condition: no task works or is about to notify, and no worker waits.
DestroyedUnused ==
    pc[MainFiber] = "destroyed" =>
        /\ \A f \in Tasks : ~Working(f) /\ pc[f] # "notifyAll"
        /\ \A w \in Workers : pc[w] = "gone"

\* What a thread that is not stuck is doing: it runs a fiber that has a step, or has
\* none and there is a ready one it may run.
Stopped == {"new", "done", "syncAsleep", "blockAsleep", "asleep", "destroyAsleep", "gone"}

HasStep(f) ==
    /\ pc[f] \notin Stopped \cup {"destroyed"}
    /\ pc[f] = "join" => pc[job[f].task] = "done"
    /\ pc[f] = "threads" => \A w \in Workers : pc[w] = "gone"

CanStep(t) ==
    \/ current[t] \in Fibers /\ HasStep(current[t])
    \/ /\ current[t] = NoFiber
       /\ \E f \in Fibers :
             /\ Ready(f) /\ HasStep(f)
             /\ f \in Workers => f = t
             /\ f = MainFiber => t = MainThread

\* Tasks that wait for tasks that wait, a destructor that waits for all of them, and
\* workers that wait for the destructor never all wait for each other, and none for
\* a notification that was given before it slept: until the scheduler is destroyed
\* some thread can go on (scheduler.cpp:51-125, scheduler.ixx:121-165).
NobodyStuck == pc[MainFiber] # "destroyed" => \E t \in Threads : CanStep(t)

\* The destructor returns: a fiber that waits on fiberCondition_ is notified.
DestructorReturns == pc[MainFiber] = "destroyCheck" ~> pc[MainFiber] = "destroyed"

\* A fiber asleep in Block wakes up.
BlockReturns ==
    \A f \in Callers :
        pc[f] \in {"syncAsleep", "blockAsleep"} ~> pc[f] \notin {"syncAsleep", "blockAsleep"}

\* shouldBlock_: "Guaranteed to complete before the parent does".
ChildrenCompleteFirst ==
    \A g \in Tasks :
        parent[g] \in Tasks /\ pc[parent[g]] = "done" /\ pc[g] # "new" => pc[g] = "done"

Promise == INSTANCE ForkJoin WITH
    state <- [f \in Tasks |-> IF Working(f) THEN "running"
                              ELSE IF pc[f] = "new" THEN "new" ELSE "over"],
    parent <- parent,
    stopped <- pc[MainFiber] = "destroyed"

\* The counters, mutexes and conditions implement the promise of ForkJoin.
ImplementsForkJoin == Promise!Spec
=============================================================================
