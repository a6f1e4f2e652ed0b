--------------------------- MODULE FiberAlgorithm ---------------------------
(***************************************************************************)
(* SchedulerAlgorithm: which fiber each worker thread runs next, how       *)
(* fibers move between threads, and how an idle thread sleeps and is       *)
(* woken.                                                                  *)
(*                                                                         *)
(* Each thread has three local queues, that only it picks from, and three  *)
(* shared queues, that any thread steals from; index 0 is the most urgent. *)
(* The fiber library around the algorithm (external) keeps one dispatcher  *)
(* context per thread, ready or running at all times, which drains what    *)
(* other threads made ready, picks a fiber, or suspends the thread.        *)
(***************************************************************************)
EXTENDS Naturals, FiniteSets, Sequences, SequencesExt

CONSTANTS
    Threads,       \* worker threads, the main thread included
    MainThread,    \* the thread that constructs the scheduler
    Fibers,        \* fibers the program may launch
    MainFiber,     \* the fiber of main()
    Dispatcher,    \* each thread's dispatcher context
    NoFiber,
    AnyThread,     \* requiredThread_ = -1
    Parameters,    \* <<priority, required thread>> pairs tasks are launched with
    Pollers,       \* fibers that may yield for ever, waiting for others
    MaxSwitches    \* bound: blocks, sleeps and the other yields of fibers

UX == 0      \* TaskPriority, by the index of its queue
HIGH == 1
LOW == 2
Levels == {UX, HIGH, LOW}

ASSUME ThreadsAssumption == MainThread \in Threads /\ AnyThread \notin Threads /\ IsFiniteSet(Threads)
ASSUME FibersAssumption ==
    /\ MainFiber \in Fibers
    /\ Pollers \subseteq Fibers
    /\ Dispatcher \notin Fibers /\ NoFiber \notin Fibers /\ Dispatcher # NoFiber
ASSUME ParametersAssumption == Parameters \subseteq Levels \X (Threads \cup {AnyThread})
ASSUME SwitchesAssumption == MaxSwitches \in Nat

Contexts == Fibers \cup {Dispatcher}
Default == <<HIGH, AnyThread>>    \* Properties as they are constructed

\* The queues pick_next looks into, in its order: local and shared of each level.
ScanEnd == 6

VARIABLES
    registered, \* threads with an entry in schedulers_
    local,      \* localQueues_
    shared,     \* sharedQueues_
    sleepFlag,  \* sleepFlag_
    props,      \* Properties of each fiber: <<priority, required thread>>
    pc,         \* what each thread does
    running,    \* the context each thread runs
    yielded,    \* the context that becomes ready once the thread has switched
    scan,       \* how far pick_next has got
    job,        \* the fiber being launched or woken
    target,     \* the thread about to be notified
    wanted,     \* the parameters of the task being launched
    status,     \* "new", "ready", "running", "blocked", "timed", "due" or "done"
    home,       \* the thread whose scheduler the fiber belongs to (library)
    remote,     \* fibers made ready by other threads (library)
    drained,    \* those taken from remote that are still to be awakened (library)
    switches    \* blocks, sleeps and counted yields so far

queueVars == <<local, shared, remote, drained>>
fiberVars == <<props, status, home>>
launchVars == <<job, target, wanted>>
pickVars == <<running, yielded, scan>>
vars == <<registered, queueVars, sleepFlag, fiberVars, pc, pickVars, launchVars, switches>>

-----------------------------------------------------------------------------
Priority(c) == IF c = Dispatcher THEN HIGH ELSE props[c][1]
Required(f) == props[f][2]

Empty == [p \in Levels |-> << >>]

\* awakened: a context that became ready joins a local queue of its thread.
Awaken(t, c) == [local EXCEPT ![t][Priority(c)] = Append(@, c)]

\* The thread starts to look for its next context; c becomes ready afterwards.
StartPick(t, c) ==
    /\ pc' = [pc EXCEPT ![t] = "pick"]
    /\ scan' = [scan EXCEPT ![t] = 0]
    /\ yielded' = [yielded EXCEPT ![t] = c]
    /\ running' = [running EXCEPT ![t] = NoFiber]

Goto(t, label) == pc' = [pc EXCEPT ![t] = label]

\* A null entry of schedulers_ is dereferenced: the process dies.
Crash == pc' = [t \in Threads |-> "crashed"]

-----------------------------------------------------------------------------
Init ==
    /\ registered = {MainThread}
    /\ local = [t \in Threads |-> IF t = MainThread THEN [Empty EXCEPT ![HIGH] = <<Dispatcher>>]
                                                    ELSE Empty]
    /\ shared = [t \in Threads |-> Empty]
    /\ sleepFlag = [t \in Threads |-> FALSE]
    /\ props = [f \in Fibers |-> IF f = MainFiber THEN <<UX, AnyThread>> ELSE Default]
    /\ pc = [t \in Threads |-> IF t = MainThread THEN "run" ELSE "start"]
    /\ running = [t \in Threads |-> IF t = MainThread THEN MainFiber ELSE NoFiber]
    /\ yielded = [t \in Threads |-> NoFiber]
    /\ scan = [t \in Threads |-> 0]
    /\ job = [t \in Threads |-> NoFiber]
    /\ target = [t \in Threads |-> t]
    /\ wanted = [t \in Threads |-> Default]
    /\ status = [f \in Fibers |-> IF f = MainFiber THEN "running" ELSE "new"]
    /\ home = [f \in Fibers |-> MainThread]
    /\ remote = [t \in Threads |-> << >>]
    /\ drained = [t \in Threads |-> << >>]
    /\ switches = 0

\* ThreadRun: the algorithm registers itself; the thread's own fiber waits for
\* the end of the program and its dispatcher takes over.
Register(t) ==
    /\ pc[t] = "start"
    /\ registered' = registered \cup {t}
    /\ running' = [running EXCEPT ![t] = Dispatcher]
    /\ Goto(t, "drain")
    /\ UNCHANGED <<queueVars, sleepFlag, fiberVars, yielded, scan, launchVars, switches>>

-----------------------------------------------------------------------------
(* What a running fiber does *)

\* LaunchFiber, launch::post: the new fiber is awakened with default properties.
Post(t, f, w) ==
    /\ pc[t] = "run" /\ status[f] = "new"
    /\ local' = Awaken(t, f)
    /\ status' = [status EXCEPT ![f] = "ready"]
    /\ home' = [home EXCEPT ![f] = t]
    /\ job' = [job EXCEPT ![t] = f] /\ wanted' = [wanted EXCEPT ![t] = w]
    /\ Goto(t, "properties")
    /\ UNCHANGED <<registered, shared, remote, drained, sleepFlag, props, pickVars, target, switches>>

\* LaunchFiber, launch::dispatch: the new fiber runs at once, its launcher is
\* awakened and joins it (a block) when it runs again.
Dispatch(t, f) ==
    /\ pc[t] = "run" /\ status[f] = "new"
    /\ local' = Awaken(t, running[t])
    /\ status' = [status EXCEPT ![f] = "running", ![running[t]] = "ready"]
    /\ home' = [home EXCEPT ![f] = t]
    /\ running' = [running EXCEPT ![t] = f]
    /\ UNCHANGED <<registered, shared, remote, drained, sleepFlag, props, pc, yielded, scan, launchVars,
                   switches>>

\* Mutant: the properties are stored the wrong way round.
SetPropertiesSwapped(t) ==
    /\ pc[t] = "properties"
    /\ props' = [props EXCEPT ![job[t]] = <<wanted[t][2], wanted[t][1]>>]
    /\ Goto(t, "unlink")
    /\ wanted' = [wanted EXCEPT ![t] = Default]
    /\ UNCHANGED <<registered, queueVars, sleepFlag, status, home, pickVars, job, target, switches>>

\* SetProperties: only properties that differ reach property_change.
SetProperties(t) ==
    /\ pc[t] = "properties"
    /\ props' = [props EXCEPT ![job[t]] = wanted[t]]
    /\ IF props[job[t]] = wanted[t]
       THEN Goto(t, "run") /\ job' = [job EXCEPT ![t] = NoFiber]
       ELSE Goto(t, "unlink") /\ UNCHANGED job
    /\ wanted' = [wanted EXCEPT ![t] = Default]
    /\ UNCHANGED <<registered, queueVars, sleepFlag, status, home, pickVars, target, switches>>

\* property_change takes the fiber out of the local queue, without its lock.
Unlink(t) ==
    /\ pc[t] = "unlink"
    /\ \E i \in DOMAIN local[t][HIGH] :
          /\ local[t][HIGH][i] = job[t]
          /\ local' = [local EXCEPT ![t][HIGH] = RemoveAt(@, i)]
    /\ Goto(t, "push")
    /\ UNCHANGED <<registered, shared, remote, drained, sleepFlag, fiberVars, pickVars, launchVars, switches>>

\* Mutant: the fiber joins a queue of the launching thread.
PushRequiredHere(t) ==
    /\ pc[t] = "push" /\ Required(job[t]) # AnyThread
    /\ local' = Awaken(t, job[t])
    /\ job' = [job EXCEPT ![t] = NoFiber]
    /\ Goto(t, "run")
    /\ UNCHANGED <<registered, shared, remote, drained, sleepFlag, fiberVars, pickVars, wanted,
                   target, switches>>

\* Mutant: the thread that got the fiber is not notified.
PushRequiredSilently(t) ==
    /\ pc[t] = "push" /\ Required(job[t]) # AnyThread
    /\ local' = Awaken(Required(job[t]), job[t])
    /\ job' = [job EXCEPT ![t] = NoFiber]
    /\ Goto(t, "run")
    /\ UNCHANGED <<registered, shared, remote, drained, sleepFlag, fiberVars, pickVars, wanted,
                   target, switches>>

\* property_change pushes the fiber to the local queue of the thread it
\* requires.  That thread may be unlinking from the same queue: the push can
\* then be lost.
PushRequired(t) ==
    /\ pc[t] = "push" /\ Required(job[t]) # AnyThread
    /\ LET r == Required(job[t]) p == Priority(job[t]) IN
       IF r \notin registered
       THEN Crash /\ UNCHANGED <<local, job, target>>
       ELSE /\ \/ local' = [local EXCEPT ![r][p] = Append(@, job[t])]
               \/ r # t /\ pc[r] = "unlink" /\ p = HIGH /\ UNCHANGED local
            /\ job' = [job EXCEPT ![t] = NoFiber]
            /\ target' = [target EXCEPT ![t] = r]
            /\ Goto(t, "notify")
    /\ UNCHANGED <<registered, shared, remote, drained, sleepFlag, fiberVars, pickVars, wanted, switches>>

\* ... or to its own shared queue, and wakes one other thread at random.
PushShared(t) ==
    /\ pc[t] = "push" /\ Required(job[t]) = AnyThread
    /\ shared' = [shared EXCEPT ![t][Priority(job[t])] = Append(@, job[t])]
    /\ job' = [job EXCEPT ![t] = NoFiber]
    /\ IF Threads = {t} THEN Goto(t, "run") /\ UNCHANGED target
       ELSE \E u \in Threads \ {t} : target' = [target EXCEPT ![t] = u] /\ Goto(t, "notify")
    /\ UNCHANGED <<registered, local, remote, drained, sleepFlag, fiberVars, pickVars, wanted, switches>>

\* A fiber makes a blocked one ready: on its own thread at once, on another by
\* way of that thread's remote queue and a notification (library).
Wake(t, f) ==
    /\ pc[t] = "run" /\ status[f] = "blocked"
    /\ status' = [status EXCEPT ![f] = "ready"]
    /\ IF home[f] = t
       THEN local' = Awaken(t, f) /\ UNCHANGED <<remote, target, pc>>
       ELSE /\ remote' = [remote EXCEPT ![home[f]] = Append(@, f)]
            /\ target' = [target EXCEPT ![t] = home[f]]
            /\ Goto(t, "notify")
            /\ UNCHANGED local
    /\ UNCHANGED <<registered, shared, drained, sleepFlag, props, home, pickVars, job, wanted, switches>>

\* notify, first half: the flag is set under the mutex of the target.
Notify(t) ==
    /\ pc[t] = "notify"
    /\ IF target[t] \notin registered
       THEN Crash /\ UNCHANGED sleepFlag
       ELSE sleepFlag' = [sleepFlag EXCEPT ![target[t]] = TRUE] /\ Goto(t, "signal")
    /\ UNCHANGED <<registered, queueVars, fiberVars, pickVars, launchVars, switches>>

\* notify, second half: notify_all sends a sleeping target back to its predicate.
Signal(t) ==
    /\ pc[t] = "signal"
    /\ pc' = [pc EXCEPT ![target[t]] = IF @ = "sleep" THEN "suspend" ELSE @, ![t] = "run"]
    /\ target' = [target EXCEPT ![t] = t]
    /\ UNCHANGED <<registered, queueVars, sleepFlag, fiberVars, pickVars, job, wanted, switches>>

\* The running fiber yields, blocks, sleeps until a time, or ends.
Yield(t) ==
    /\ pc[t] = "run"
    /\ \/ running[t] \in Pollers /\ UNCHANGED switches
       \/ switches < MaxSwitches /\ switches' = switches + 1
    /\ status' = [status EXCEPT ![running[t]] = "ready"]
    /\ StartPick(t, running[t])
    /\ UNCHANGED <<registered, queueVars, sleepFlag, props, home, launchVars>>

Suspend(t, how) ==
    /\ pc[t] = "run" /\ switches < MaxSwitches
    /\ switches' = switches + 1
    /\ status' = [status EXCEPT ![running[t]] = how]
    /\ StartPick(t, NoFiber)
    /\ UNCHANGED <<registered, queueVars, sleepFlag, props, home, launchVars>>

Finish(t) ==
    /\ pc[t] = "run"
    /\ status' = [status EXCEPT ![running[t]] = "done"]
    /\ StartPick(t, NoFiber)
    /\ UNCHANGED <<registered, queueVars, sleepFlag, props, home, launchVars, switches>>

-----------------------------------------------------------------------------
(* pick_next *)

\* The thread switches to c; the context it came from is awakened.
SwitchTo(t, c, queues) ==
    /\ running' = [running EXCEPT ![t] = c]
    /\ yielded' = [yielded EXCEPT ![t] = NoFiber]
    /\ scan' = [scan EXCEPT ![t] = 0]
    /\ local' = IF yielded[t] = NoFiber THEN queues
                ELSE [queues EXCEPT ![t][Priority(yielded[t])] = Append(@, yielded[t])]
    /\ IF c = Dispatcher
       THEN Goto(t, "drain") /\ UNCHANGED <<status, home>>
       ELSE /\ Goto(t, "run")
            /\ status' = [status EXCEPT ![c] = "running"]
            /\ home' = [home EXCEPT ![c] = t]
    /\ UNCHANGED <<registered, remote, drained, sleepFlag, props, launchVars, switches>>

ScanOn(t) ==
    /\ scan' = [scan EXCEPT ![t] = @ + 1]
    /\ UNCHANGED <<registered, queueVars, sleepFlag, fiberVars, pc, running, yielded, launchVars,
                   switches>>

\* The place of pick_next in the queues of thread t.
AtLocal(t, p) == pc[t] = "pick" /\ scan[t] = 2 * p
AtShared(t, p) == pc[t] = "pick" /\ scan[t] = 2 * p + 1

\* PickLocal takes the front of the queue.
PickLocal(t, p) ==
    /\ AtLocal(t, p)
    /\ IF local[t][p] = << >> THEN ScanOn(t)
       ELSE /\ SwitchTo(t, Head(local[t][p]), [local EXCEPT ![t][p] = Tail(@)])
            /\ UNCHANGED shared

\* PickShared takes the front of the thread's own shared queue ...
PickShared(t, p) ==
    /\ AtShared(t, p) /\ shared[t][p] # << >>
    /\ SwitchTo(t, Head(shared[t][p]), local)
    /\ shared' = [shared EXCEPT ![t][p] = Tail(@)]

\* Mutant: the fiber stays in the queue it is stolen from.
StealCopied(t, u, p) ==
    /\ AtShared(t, p) /\ shared[t][p] = << >>
    /\ u # t /\ u \in registered /\ shared[u][p] # << >>
    /\ SwitchTo(t, Head(shared[u][p]), local)
    /\ UNCHANGED shared

\* ... or steals from one of the other threads it tries at random ...
Steal(t, u, p) ==
    /\ AtShared(t, p) /\ shared[t][p] = << >>
    /\ u # t /\ u \in registered /\ shared[u][p] # << >>
    /\ SwitchTo(t, Head(shared[u][p]), local)
    /\ shared' = [shared EXCEPT ![u][p] = Tail(@)]

\* ... at least one of them, and gives up when all it tried had nothing.
GiveUp(t, p) ==
    /\ AtShared(t, p) /\ shared[t][p] = << >>
    /\ Threads = {t} \/ \E u \in Threads \ {t} : u \notin registered \/ shared[u][p] = << >>
    /\ ScanOn(t)

\* Only the dispatcher finds nothing at all: it is in the queues otherwise.
PickNothing(t) ==
    /\ pc[t] = "pick" /\ scan[t] = ScanEnd
    /\ Goto(t, "suspend")
    /\ running' = [running EXCEPT ![t] = Dispatcher]
    /\ yielded' = [yielded EXCEPT ![t] = NoFiber]
    /\ scan' = [scan EXCEPT ![t] = 0]
    /\ UNCHANGED <<registered, queueVars, sleepFlag, fiberVars, launchVars, switches>>

-----------------------------------------------------------------------------
(* The dispatcher, and the sleep of an idle thread *)

Due(t) == {f \in Fibers : status[f] = "due" /\ home[f] = t}

\* What other threads made ready is taken in one step (library) ...
Drain(t) ==
    /\ pc[t] = "drain"
    /\ drained' = [drained EXCEPT ![t] = remote[t]]
    /\ remote' = [remote EXCEPT ![t] = << >>]
    /\ Goto(t, "awaken")
    /\ UNCHANGED <<registered, local, shared, sleepFlag, fiberVars, pickVars, launchVars, switches>>

\* ... and awakened one by one, ...
AwakenRemote(t) ==
    /\ pc[t] = "awaken" /\ drained[t] # << >>
    /\ local' = Awaken(t, Head(drained[t]))
    /\ drained' = [drained EXCEPT ![t] = Tail(@)]
    /\ UNCHANGED <<registered, shared, remote, sleepFlag, fiberVars, pc, pickVars, launchVars, switches>>

\* ... then the fibers whose time has come (library).
AwakenDue(t, f) ==
    /\ pc[t] = "awaken" /\ drained[t] = << >> /\ f \in Due(t)
    /\ local' = Awaken(t, f)
    /\ status' = [status EXCEPT ![f] = "ready"]
    /\ UNCHANGED <<registered, shared, remote, drained, sleepFlag, props, home, pc, pickVars,
                   launchVars, switches>>

\* Mutant: the dispatcher does not become ready as it gives way.
DrainedForgotten(t) ==
    /\ pc[t] = "awaken" /\ drained[t] = << >> /\ Due(t) = {}
    /\ StartPick(t, NoFiber)
    /\ UNCHANGED <<registered, queueVars, sleepFlag, fiberVars, launchVars, switches>>

\* The dispatcher gives way to whatever pick_next finds.
Drained(t) ==
    /\ pc[t] = "awaken" /\ drained[t] = << >> /\ Due(t) = {}
    /\ StartPick(t, Dispatcher)
    /\ UNCHANGED <<registered, queueVars, sleepFlag, fiberVars, launchVars, switches>>

\* suspend_until: the predicate is checked under the mutex, ...
SkipSleep(t) ==
    /\ pc[t] = "suspend" /\ sleepFlag[t]
    /\ sleepFlag' = [sleepFlag EXCEPT ![t] = FALSE]
    /\ Goto(t, "drain")
    /\ UNCHANGED <<registered, queueVars, fiberVars, pickVars, launchVars, switches>>

\* Mutant: the flag is not checked under the mutex before the wait.
SleepUnchecked(t) ==
    /\ pc[t] = "suspend"
    /\ Goto(t, "sleep")
    /\ UNCHANGED <<registered, queueVars, sleepFlag, fiberVars, pickVars, launchVars, switches>>


Sleep(t) ==
    /\ pc[t] = "suspend" /\ ~sleepFlag[t]
    /\ Goto(t, "sleep")
    /\ UNCHANGED <<registered, queueVars, sleepFlag, fiberVars, pickVars, launchVars, switches>>

\* ... and a timed sleep ends with its time.
TimeOut(t) ==
    /\ pc[t] = "sleep" /\ Due(t) # {}
    /\ sleepFlag' = [sleepFlag EXCEPT ![t] = FALSE]
    /\ Goto(t, "drain")
    /\ UNCHANGED <<registered, queueVars, fiberVars, pickVars, launchVars, switches>>

\* Time passes.
Expire(f) ==
    /\ status[f] = "timed"
    /\ status' = [status EXCEPT ![f] = "due"]
    /\ UNCHANGED <<registered, queueVars, sleepFlag, props, home, pc, pickVars, launchVars, switches>>

-----------------------------------------------------------------------------
FiberStep(t) ==
    \/ \E f \in Fibers, w \in Parameters : Post(t, f, w)
    \/ \E f \in Fibers : Dispatch(t, f) \/ Wake(t, f)
    \/ SetProperties(t)
    \/ Unlink(t)
    \/ PushRequired(t)
    \/ PushShared(t)
    \/ Notify(t)
    \/ Signal(t)
    \/ Yield(t)
    \/ \E how \in {"blocked", "timed"} : Suspend(t, how)
    \/ Finish(t)

PickStep(t) ==
    \/ \E p \in Levels : PickLocal(t, p) \/ PickShared(t, p) \/ GiveUp(t, p)
    \/ \E u \in Threads, p \in Levels : Steal(t, u, p)
    \/ PickNothing(t)

DispatchStep(t) ==
    \/ Drain(t)
    \/ AwakenRemote(t)
    \/ \E f \in Fibers : AwakenDue(t, f)
    \/ Drained(t)
    \/ SkipSleep(t)
    \/ Sleep(t)
    \/ TimeOut(t)

ThreadStep(t) == Register(t) \/ FiberStep(t) \/ PickStep(t) \/ DispatchStep(t)

\* Every thread sleeps, or the process has died.
Stopped ==
    /\ \A t \in Threads : pc[t] \in {"sleep", "crashed"}
    /\ UNCHANGED vars

Next ==
    \/ \E t \in Threads : ThreadStep(t)
    \/ \E f \in Fibers : Expire(f)
    \/ Stopped

Spec == Init /\ [][Next]_vars

\* The operating system runs every thread, and time passes.
Fairness ==
    /\ \A t \in Threads : WF_vars(ThreadStep(t))
    /\ \A f \in Fibers : WF_vars(Expire(f))

FairSpec == Spec /\ Fairness

-----------------------------------------------------------------------------
(* Properties *)

Labels == {"start", "run", "properties", "unlink", "push", "notify", "signal", "pick", "drain",
           "awaken", "suspend", "sleep", "crashed"}
Statuses == {"new", "ready", "running", "blocked", "timed", "due", "done"}

TypeOK ==
    /\ registered \subseteq Threads
    /\ local \in [Threads -> [Levels -> Seq(Contexts)]]
    /\ shared \in [Threads -> [Levels -> Seq(Fibers)]]
    /\ remote \in [Threads -> Seq(Fibers)]
    /\ drained \in [Threads -> Seq(Fibers)]
    /\ sleepFlag \in [Threads -> BOOLEAN]
    /\ props \in [Fibers -> Levels \X (Threads \cup {AnyThread})]
    /\ status \in [Fibers -> Statuses]
    /\ home \in [Fibers -> Threads]
    /\ pc \in [Threads -> Labels]
    /\ running \in [Threads -> Contexts \cup {NoFiber}]
    /\ yielded \in [Threads -> Contexts \cup {NoFiber}]
    /\ scan \in [Threads -> 0 .. ScanEnd]
    /\ job \in [Threads -> Fibers \cup {NoFiber}]
    /\ target \in [Threads -> Threads]
    /\ wanted \in [Threads -> Levels \X (Threads \cup {AnyThread})]
    /\ switches \in Nat

\* A thread about to notify t, or that has set its flag but not yet signalled.
Notifying(t) == {u \in Threads : pc[u] \in {"notify", "signal"} /\ target[u] = t}

\* Work thread t would find if it looked.
HasWork(t) ==
    \/ remote[t] # << >>
    \/ \E p \in Levels : local[t][p] # << >> \/ shared[t][p] # << >>

\* No wake-up is lost: whenever a thread sleeps although it has work, a notify
\* for it is under way, however pushes, scans and sleeps interleave.
NoLostWakeup ==
    \A t \in Threads : pc[t] = "sleep" /\ HasWork(t) => Notifying(t) # {}

\* A fiber whose properties name a thread runs on that thread only, from its
\* first time slice and after every block, yield and wake-up.
RequiredThreadKept ==
    \A t \in Threads : running[t] \in Fibers /\ Required(running[t]) # AnyThread =>
        Required(running[t]) = t

In(s, c) == {i \in DOMAIN s : s[i] = c}
Copies(s, c) == Cardinality(In(s, c))

\* Where fiber f is in a family of queues by thread and level, or by thread.
InQueues(q, f) == UNION {{<<t, p, i>> : i \in In(q[t][p], f)} : t \in Threads, p \in Levels}
InLists(q, f) == UNION {{<<t, i>> : i \in In(q[t], f)} : t \in Threads}

\* How often the scheduler holds fiber f, in the queues and in its threads' hands.
Held(f) ==
    Cardinality(InQueues(local, f)) + Cardinality(InQueues(shared, f))
    + Cardinality(InLists(remote, f)) + Cardinality(InLists(drained, f))
    + Cardinality({t \in Threads : f \in {running[t], yielded[t]}})
    + Cardinality({t \in Threads : pc[t] = "push" /\ job[t] = f})

\* A fiber that is ready or runs is in one place, and one only: no step of
\* launching, moving, stealing or waking loses it or lets two threads run it.
FiberOnce ==
    \A f \in Fibers : pc[MainThread] # "crashed" =>
        Held(f) = IF status[f] \in {"ready", "running"} THEN 1 ELSE 0

\* The dispatcher of a thread is always ready or running, so that a fiber that
\* blocks has something to switch to.
DispatcherReady ==
    \A t \in registered : pc[t] # "crashed" =>
        Copies(local[t][HIGH], Dispatcher)
        + (IF running[t] = Dispatcher \/ yielded[t] = Dispatcher THEN 1 ELSE 0) = 1

\* A fiber that is ready gets to run, if the program does not die first.
ReadyFibersRun ==
    \A f \in Fibers :
        status[f] = "ready" ~> status[f] # "ready" \/ pc[MainThread] = "crashed"

\* pick_next interleaves local and shared queues: a task in a shared queue is
\* taken from it, however often the fibers of the local queues yield.
SharedTasksInterleaved ==
    \A f \in Fibers :
        (\E t \in Threads, p \in Levels : In(shared[t][p], f) # {}) ~>
        (\A t \in Threads, p \in Levels : In(shared[t][p], f) = {})

\* property_change unlinks from its own local queue without a lock because no
\* other thread touches that queue.
LocalQueuePrivate ==
    \A t, u \in Threads :
        ~(/\ t # u /\ pc[t] = "unlink"
          /\ pc[u] = "push" /\ Required(job[u]) = t /\ Priority(job[u]) = HIGH)

\* A scheduler that is notified, or pushed to, has registered itself.
NotifiedRegistered == pc[MainThread] # "crashed"
=============================================================================
