-------------------------- MODULE FiberTasks_proofs --------------------------
(***************************************************************************)
(* Proofs about the fiber scheduler's tasks, for every finite set of tasks *)
(* and threads: the counts are exact, a task ends after those it holds,    *)
(* and the counters, mutexes and conditions implement ForkJoin.            *)
(***************************************************************************)
EXTENDS FiberTasks, FiniteSetTheorems, TLAPS

(* Where the program of each kind of fiber can be. *)
TaskLabels == {"new", "body", "hold", "launch", "join", "sync", "syncAsleep", "block",
               "blockAsleep", "finish", "notifyAll", "unhold", "notifyParent", "end", "done"}
MainLabels == {"body", "hold", "launch", "join", "sync", "syncAsleep", "notifyAll",
               "destroyCheck", "destroyAsleep", "threads", "destroyed"}
WorkerLabels == {"check", "asleep", "gone"}

Places ==
    /\ \A f \in Tasks : pc[f] \in TaskLabels
    /\ pc[MainFiber] \in MainLabels
    /\ \A w \in Workers : pc[w] \in WorkerLabels
    /\ \A f \in Tasks : pc[f] \in {"unhold", "notifyParent"} => parent[f] # NoFiber

(* A task between the count and the launch is new and belongs to one        *)
(* launcher; its parent is that launcher or nobody.  A new task that nobody *)
(* launches has no parent yet.                                              *)
Jobs ==
    /\ \A f \in Callers :
          /\ pc[f] \in {"hold", "launch"} =>
                /\ job[f].task \in Tasks
                /\ pc[job[f].task] = "new"
                /\ parent[job[f].task] \in {f, NoFiber}
          /\ pc[f] = "hold" => parent[job[f].task] = f
    /\ \A f, h \in Callers :
          pc[f] \in {"hold", "launch"} /\ pc[h] \in {"hold", "launch"} /\ job[f].task = job[h].task
             => f = h
    /\ \A g \in Tasks : pc[g] = "new" /\ ~Launching(g) => parent[g] = NoFiber

(* The labels after a task's own Block. *)
Past == {"finish", "notifyAll", "unhold", "notifyParent", "end", "done"}

(* The counts are exact, and nothing holds a task that is past its Block. *)
Counts ==
    /\ \A f \in Callers : count[f] = Cardinality(Holding(f))
    /\ fiberCount = Cardinality({f \in Tasks : Working(f)}) + (IF shouldRun THEN 1 ELSE 0)
    /\ \A f \in Tasks : pc[f] \in Past => Holding(f) = {}

(* How far the destructor is. *)
Destruction ==
    /\ shouldRun <=> pc[MainFiber] \notin {"notifyAll", "destroyCheck", "destroyAsleep",
                                            "threads", "destroyed"}
    /\ pc[MainFiber] \in {"notifyAll", "threads", "destroyed"} => fiberCount = 0
    /\ pc[MainFiber] = "destroyed" => \A w \in Workers : pc[w] = "gone"

(* A fiber about to notify has a thread, which has not ended: a thread ends *)
(* in its own fiber, the main thread in the main fiber.                     *)
OnThreads ==
    /\ \A t \in Threads : current[t] \in Workers => current[t] = t
    /\ \A t \in Threads : current[t] = MainFiber => t = MainThread
    /\ \A f \in Fibers : pc[f] = "notifyAll" => \E t \in Threads : current[t] = f
    /\ \A w \in Workers : pc[w] = "gone" => current[w] = w
    /\ pc[MainFiber] \in {"threads", "destroyed"} => current[MainThread] = MainFiber

IInv == TypeOK /\ Places /\ Jobs /\ Counts /\ Destruction /\ OnThreads

-----------------------------------------------------------------------------
(* Steps that leave the tasks alone *)

(* The classes of fibers do not overlap. *)
LEMMA Classes ==
    /\ MainFiber \in Callers /\ MainFiber \in Fibers /\ MainFiber \notin Tasks
    /\ \A f \in Tasks : f \in Callers /\ f \in Fibers /\ f # MainFiber /\ f \notin Workers
    /\ \A w \in Workers : w \in Fibers /\ w \in Threads /\ w # MainThread /\ w \notin Callers
    /\ \A f \in Callers : f \in Fibers /\ f # NoFiber /\ f \notin Workers
    /\ NoFiber \notin Fibers /\ NoFiber \notin Tasks /\ MainThread \in Threads
    /\ Callers = Tasks \cup {MainFiber}
BY FibersAssumption DEF Callers, Fibers, Workers

Held == Unfinished \cup {"notifyAll", "unhold"}

Working_ == {f \in Tasks : Working(f)}

(* A step that starts, counts or ends no task. *)
Quiet ==
    /\ parent' = parent
    /\ \A f \in Tasks : /\ pc'[f] = "new" <=> pc[f] = "new"
                        /\ pc'[f] \in Unfinished <=> pc[f] \in Unfinished
                        /\ parent[f] # NoFiber => (pc'[f] \in Held <=> pc[f] \in Held)
    /\ \A f \in Callers : /\ pc'[f] = "hold" <=> pc[f] = "hold"
                          /\ pc'[f] = "launch" <=> pc[f] = "launch"
                          /\ pc[f] \in {"hold", "launch"} => job'[f] = job[f]

(* Such a step leaves every set of tasks the counts are about as it is. *)
LEMMA QuietSets ==
    ASSUME Quiet
    PROVE  /\ \A f \in Callers : Holding(f)' = Holding(f)
           /\ \A f \in Tasks : Launching(f)' <=> Launching(f)
           /\ \A f \in Tasks : Working(f)' <=> Working(f)
           /\ Working_' = Working_
<1>1. \A f \in Tasks : Launching(f)' <=> Launching(f)
  BY DEF Quiet, Launching
<1>2. \A f \in Tasks : Working(f)' <=> Working(f)
  BY <1>1 DEF Quiet, Working
<1>3. \A f \in Callers : Holding(f)' = Holding(f)
  <2> SUFFICES ASSUME NEW f \in Callers PROVE Holding(f)' = Holding(f)
    OBVIOUS
  <2>1. \A g \in Tasks : pc'[f] = "launch" /\ job'[f].task = g <=> pc[f] = "launch" /\ job[f].task = g
    BY DEF Quiet
  <2> QED BY <2>1, Classes DEF Quiet, Holding, Held
<1> QED BY <1>1, <1>2, <1>3 DEF Working_

LEMMA QuietJobs ==
    ASSUME Jobs, Quiet
    PROVE  Jobs'
<1>1. \A f \in Tasks : Launching(f)' <=> Launching(f)
  BY QuietSets
<1> QED BY <1>1 DEF Jobs, Quiet

(* The sets that are counted are finite, and an empty one counts nothing. *)
LEMMA FiniteCounts ==
    /\ IsFiniteSet(Working_) /\ Cardinality(Working_) \in Nat
    /\ \A f \in Callers : /\ IsFiniteSet(Holding(f))
                          /\ Cardinality(Holding(f)) \in Nat
                          /\ Cardinality(Holding(f)) = 0 <=> Holding(f) = {}
<1>1. Working_ \subseteq Tasks /\ \A f \in Callers : Holding(f) \subseteq Tasks
  BY DEF Working_, Holding
<1>2. IsFiniteSet(Working_) /\ \A f \in Callers : IsFiniteSet(Holding(f))
  BY <1>1, FS_Subset, FibersAssumption
<1> QED BY <1>2, FS_CardinalityType, FS_EmptySet

(* The step of a caller on its thread keeps fibers that notify on theirs. *)
LEMMA ThreadsKept ==
    ASSUME TypeOK, OnThreads, NEW t \in Threads, NEW f \in Callers, current[t] = f,
           \/ current' = current
           \/ current' = [current EXCEPT ![t] = NoFiber] /\ pc'[f] # "notifyAll",
           \A g \in Fibers : g # f /\ pc'[g] = "notifyAll" => pc[g] = "notifyAll",
           \A w \in Workers : pc'[w] = "gone" => pc[w] = "gone",
           pc'[MainFiber] \in {"threads", "destroyed"} =>
               \/ pc[MainFiber] \in {"threads", "destroyed"} /\ f # MainFiber
               \/ f = MainFiber /\ current' = current
    PROVE  OnThreads'
<1> USE Classes
<1>1. CASE current' = current
  BY <1>1 DEF OnThreads
<1>2. CASE current' = [current EXCEPT ![t] = NoFiber] /\ pc'[f] # "notifyAll"
  <2>1. \A u \in Threads : current'[u] = IF u = t THEN NoFiber ELSE current[u]
    BY <1>2 DEF TypeOK
  <2> QED BY <1>2, <2>1 DEF OnThreads
<1> QED BY <1>1, <1>2

(* A step that starts, counts or ends no task keeps the counts. *)
LEMMA QuietCounts ==
    ASSUME TypeOK, Counts, Quiet, count' = count,
           fiberCount' = fiberCount /\ shouldRun' = shouldRun,
           \A f \in Tasks : pc'[f] \in Past => pc[f] \in Past \/ count[f] = 0
    PROVE  Counts'
<1>1. \A f \in Callers : Holding(f)' = Holding(f)
  BY QuietSets
<1>2. {f \in Tasks : Working(f)}' = {f \in Tasks : Working(f)}
  BY QuietSets DEF Working_
<1>3. \A f \in Tasks : count[f] = 0 => Holding(f) = {}
  BY FiniteCounts, Classes DEF Counts
<1>4. \A f \in Callers : count'[f] = Cardinality(Holding(f)')
  BY <1>1 DEF Counts
<1>5. fiberCount' = Cardinality({f \in Tasks : Working(f)}') + (IF shouldRun' THEN 1 ELSE 0)
  BY <1>2 DEF Counts
<1>6. \A f \in Tasks : pc'[f] \in Past => Holding(f)' = {}
  BY <1>1, <1>3, Classes DEF Counts
<1> QED BY <1>4, <1>5, <1>6 DEF Counts

-----------------------------------------------------------------------------
LEMMA InitIInv == Init => IInv
<1> SUFFICES ASSUME Init PROVE IInv
  OBVIOUS
<1> USE Classes
<1>1. TypeOK
  BY FibersAssumption DEF Init, TypeOK, Labels, NoJob, Workers, Fibers, Callers
<1>2. Places
  BY DEF Init, Places, TaskLabels, MainLabels, WorkerLabels
<1>3. Jobs
  BY DEF Init, Jobs, Fibers
<1>4. /\ \A f \in Callers : Holding(f) = {}
      /\ {f \in Tasks : Working(f)} = {}
  BY DEF Init, Holding, Working, Launching, Unfinished, Fibers
<1>5. Counts
  BY <1>4, FS_EmptySet DEF Counts, Init
<1>6. Destruction
  BY DEF Destruction, Init
<1>7. OnThreads
  BY FibersAssumption DEF OnThreads, Init, Workers
<1> QED BY <1>1, <1>2, <1>3, <1>5, <1>6, <1>7 DEF IInv

-----------------------------------------------------------------------------
(* The steps of callers that start, count and end no task *)

(* A dispatched task is joined. *)
LEMMA JoinKeeps ==
    ASSUME IInv, NEW t \in Threads, NEW f \in Callers, current[t] = f, Join(f)
    PROVE  IInv' /\ Quiet
<1> USE Classes DEF Join, Goto, Release
<1>1. TypeOK /\ Places /\ Jobs /\ Counts /\ Destruction /\ OnThreads
  BY DEF IInv
<1>2. TypeOK'
  BY <1>1 DEF TypeOK, Labels, NoJob
<1>3. Places'
  BY <1>1 DEF TypeOK, Places, TaskLabels, MainLabels, WorkerLabels
<1>4. Quiet
  BY <1>1 DEF TypeOK, Places, TaskLabels, MainLabels, Quiet, Held, Unfinished
<1>5. Jobs'
  BY <1>1, <1>4, QuietJobs
<1>6. Counts'
  BY <1>1, <1>4, QuietCounts DEF TypeOK, Past, Places, TaskLabels, MainLabels
<1>7. Destruction'
  BY <1>1 DEF TypeOK, Destruction, Places, TaskLabels, MainLabels, WorkerLabels
<1>8. OnThreads'
  BY <1>1, ThreadsKept DEF TypeOK, Places, TaskLabels, MainLabels, WorkerLabels
<1> QED BY <1>2, <1>3, <1>4, <1>5, <1>6, <1>7, <1>8 DEF IInv

(* A fiber yields its thread. *)
LEMMA YieldKeeps ==
    ASSUME IInv, NEW t \in Threads, NEW f \in Callers, current[t] = f, Yield(t, f)
    PROVE  IInv' /\ Quiet
<1> USE Classes DEF Yield, Goto, Release
<1>1. TypeOK /\ Places /\ Jobs /\ Counts /\ Destruction /\ OnThreads
  BY DEF IInv
<1>2. TypeOK'
  BY <1>1 DEF TypeOK, Labels, NoJob
<1>3. Places'
  BY <1>1 DEF TypeOK, Places, TaskLabels, MainLabels, WorkerLabels
<1>4. Quiet
  BY <1>1 DEF TypeOK, Places, TaskLabels, MainLabels, Quiet, Held, Unfinished
<1>5. Jobs'
  BY <1>1, <1>4, QuietJobs
<1>6. Counts'
  BY <1>1, <1>4, QuietCounts DEF TypeOK, Past, Places, TaskLabels, MainLabels
<1>7. Destruction'
  BY <1>1 DEF TypeOK, Destruction, Places, TaskLabels, MainLabels, WorkerLabels
<1>8. OnThreads'
  BY <1>1, ThreadsKept DEF TypeOK, Places, TaskLabels, MainLabels, WorkerLabels
<1> QED BY <1>2, <1>3, <1>4, <1>5, <1>6, <1>7, <1>8 DEF IInv

(* The program calls Block. *)
LEMMA CallBlockKeeps ==
    ASSUME IInv, NEW t \in Threads, NEW f \in Callers, current[t] = f, CallBlock(f)
    PROVE  IInv' /\ Quiet
<1> USE Classes DEF CallBlock, Goto, Release
<1>1. TypeOK /\ Places /\ Jobs /\ Counts /\ Destruction /\ OnThreads
  BY DEF IInv
<1>2. TypeOK'
  BY <1>1 DEF TypeOK, Labels, NoJob
<1>3. Places'
  BY <1>1 DEF TypeOK, Places, TaskLabels, MainLabels, WorkerLabels
<1>4. Quiet
  BY <1>1 DEF TypeOK, Places, TaskLabels, MainLabels, Quiet, Held, Unfinished
<1>5. Jobs'
  BY <1>1, <1>4, QuietJobs
<1>6. Counts'
  BY <1>1, <1>4, QuietCounts DEF TypeOK, Past, Places, TaskLabels, MainLabels
<1>7. Destruction'
  BY <1>1 DEF TypeOK, Destruction, Places, TaskLabels, MainLabels, WorkerLabels
<1>8. OnThreads'
  BY <1>1, ThreadsKept DEF TypeOK, Places, TaskLabels, MainLabels, WorkerLabels
<1> QED BY <1>2, <1>3, <1>4, <1>5, <1>6, <1>7, <1>8 DEF IInv

(* A task's function returns. *)
LEMMA EndBodyKeeps ==
    ASSUME IInv, NEW t \in Threads, NEW f \in Callers, current[t] = f, EndBody(f)
    PROVE  IInv' /\ Quiet
<1> USE Classes DEF EndBody, Goto, Release
<1>1. TypeOK /\ Places /\ Jobs /\ Counts /\ Destruction /\ OnThreads
  BY DEF IInv
<1>2. TypeOK'
  BY <1>1 DEF TypeOK, Labels, NoJob
<1>3. Places'
  BY <1>1 DEF TypeOK, Places, TaskLabels, MainLabels, WorkerLabels
<1>4. Quiet
  BY <1>1 DEF TypeOK, Places, TaskLabels, MainLabels, Quiet, Held, Unfinished
<1>5. Jobs'
  BY <1>1, <1>4, QuietJobs
<1>6. Counts'
  BY <1>1, <1>4, QuietCounts DEF TypeOK, Past, Places, TaskLabels, MainLabels
<1>7. Destruction'
  BY <1>1 DEF TypeOK, Destruction, Places, TaskLabels, MainLabels, WorkerLabels
<1>8. OnThreads'
  BY <1>1, ThreadsKept DEF TypeOK, Places, TaskLabels, MainLabels, WorkerLabels
<1> QED BY <1>2, <1>3, <1>4, <1>5, <1>6, <1>7, <1>8 DEF IInv

(* Block returns: nothing holds the fiber. *)
LEMMA BlockPassesKeeps ==
    ASSUME IInv, NEW t \in Threads, NEW f \in Callers, current[t] = f, BlockPasses(f)
    PROVE  IInv' /\ Quiet
<1> USE Classes DEF BlockPasses, Goto, Release
<1>1. TypeOK /\ Places /\ Jobs /\ Counts /\ Destruction /\ OnThreads
  BY DEF IInv
<1>2. TypeOK'
  BY <1>1 DEF TypeOK, Labels, NoJob
<1>3. Places'
  BY <1>1 DEF TypeOK, Places, TaskLabels, MainLabels, WorkerLabels
<1>4. Quiet
  BY <1>1 DEF TypeOK, Places, TaskLabels, MainLabels, Quiet, Held, Unfinished
<1>5. Jobs'
  BY <1>1, <1>4, QuietJobs
<1>6. Counts'
  BY <1>1, <1>4, QuietCounts DEF TypeOK, Past, Places, TaskLabels, MainLabels
<1>7. Destruction'
  BY <1>1 DEF TypeOK, Destruction, Places, TaskLabels, MainLabels, WorkerLabels
<1>8. OnThreads'
  BY <1>1, ThreadsKept DEF TypeOK, Places, TaskLabels, MainLabels, WorkerLabels
<1> QED BY <1>2, <1>3, <1>4, <1>5, <1>6, <1>7, <1>8 DEF IInv

(* Block waits. *)
LEMMA BlockWaitsKeeps ==
    ASSUME IInv, NEW t \in Threads, NEW f \in Callers, current[t] = f, BlockWaits(t, f)
    PROVE  IInv' /\ Quiet
<1> USE Classes DEF BlockWaits, Goto, Release
<1>1. TypeOK /\ Places /\ Jobs /\ Counts /\ Destruction /\ OnThreads
  BY DEF IInv
<1>2. TypeOK'
  BY <1>1 DEF TypeOK, Labels, NoJob
<1>3. Places'
  BY <1>1 DEF TypeOK, Places, TaskLabels, MainLabels, WorkerLabels
<1>4. Quiet
  BY <1>1 DEF TypeOK, Places, TaskLabels, MainLabels, Quiet, Held, Unfinished
<1>5. Jobs'
  BY <1>1, <1>4, QuietJobs
<1>6. Counts'
  BY <1>1, <1>4, QuietCounts DEF TypeOK, Past, Places, TaskLabels, MainLabels
<1>7. Destruction'
  BY <1>1 DEF TypeOK, Destruction, Places, TaskLabels, MainLabels, WorkerLabels
<1>8. OnThreads'
  BY <1>1, ThreadsKept DEF TypeOK, Places, TaskLabels, MainLabels, WorkerLabels
<1> QED BY <1>2, <1>3, <1>4, <1>5, <1>6, <1>7, <1>8 DEF IInv

(* The waiters on fiberCondition_ check again. *)
LEMMA NotifyAllKeeps ==
    ASSUME IInv, NEW t \in Threads, NEW f \in Callers, current[t] = f, NotifyAll(f)
    PROVE  IInv' /\ Quiet
<1> USE Classes DEF NotifyAll, Goto, Release
<1>1. TypeOK /\ Places /\ Jobs /\ Counts /\ Destruction /\ OnThreads
  BY DEF IInv
<1>2. TypeOK'
  BY <1>1 DEF TypeOK, Labels, NoJob, Tail, Woken
<1>3. Places'
  BY <1>1 DEF TypeOK, Places, TaskLabels, MainLabels, WorkerLabels, Tail, Woken
<1>4. Quiet
  <2>1. \A g \in Callers : g # f /\ pc[g] # "destroyAsleep" => pc'[g] = pc[g]
    BY <1>1 DEF TypeOK, Places, TaskLabels, MainLabels, Woken
  <2>2. pc[MainFiber] = "destroyAsleep" /\ MainFiber # f => pc'[MainFiber] = "destroyCheck"
    BY <1>1 DEF Woken
  <2>3. IF f = MainFiber THEN pc'[f] = "threads"
        ELSE /\ pc'[f] \in {"end", "unhold"}
             /\ pc'[f] = "unhold" <=> parent[f] # NoFiber
    BY DEF Tail
  <2> QED BY <1>1, <2>1, <2>2, <2>3
          DEF TypeOK, Places, TaskLabels, MainLabels, Quiet, Held, Unfinished
<1>5. Jobs'
  BY <1>1, <1>4, QuietJobs
<1>6. Counts'
  BY <1>1, <1>4, QuietCounts DEF TypeOK, Past, Places, TaskLabels, MainLabels, Tail, Woken
<1>7. Destruction'
  BY <1>1 DEF TypeOK, Destruction, Places, TaskLabels, MainLabels, WorkerLabels, Tail, Woken
<1>8. OnThreads'
  BY <1>1, ThreadsKept DEF TypeOK, Places, TaskLabels, MainLabels, WorkerLabels, Tail, Woken
<1> QED BY <1>2, <1>3, <1>4, <1>5, <1>6, <1>7, <1>8 DEF IInv

(* The parent that waits in Block checks again. *)
LEMMA NotifyParentKeeps ==
    ASSUME IInv, NEW t \in Threads, NEW f \in Callers, current[t] = f, NotifyParent(f)
    PROVE  IInv' /\ Quiet
<1> USE Classes DEF NotifyParent, Goto, Release
<1>1. TypeOK /\ Places /\ Jobs /\ Counts /\ Destruction /\ OnThreads
  BY DEF IInv
<1>2. TypeOK'
  BY <1>1 DEF TypeOK, Labels, NoJob
<1>3. Places'
  BY <1>1 DEF TypeOK, Places, TaskLabels, MainLabels, WorkerLabels
<1>4. Quiet
  BY <1>1 DEF TypeOK, Places, TaskLabels, MainLabels, Quiet, Held, Unfinished
<1>5. Jobs'
  BY <1>1, <1>4, QuietJobs
<1>6. Counts'
  BY <1>1, <1>4, QuietCounts DEF TypeOK, Past, Places, TaskLabels, MainLabels
<1>7. Destruction'
  BY <1>1 DEF TypeOK, Destruction, Places, TaskLabels, MainLabels, WorkerLabels
<1>8. OnThreads'
  BY <1>1, ThreadsKept DEF TypeOK, Places, TaskLabels, MainLabels, WorkerLabels
<1> QED BY <1>2, <1>3, <1>4, <1>5, <1>6, <1>7, <1>8 DEF IInv

(* A task is over. *)
LEMMA EndKeeps ==
    ASSUME IInv, NEW t \in Threads, NEW f \in Callers, current[t] = f, End(t, f)
    PROVE  IInv' /\ Quiet
<1> USE Classes DEF End, Goto, Release
<1>1. TypeOK /\ Places /\ Jobs /\ Counts /\ Destruction /\ OnThreads
  BY DEF IInv
<1>2. TypeOK'
  BY <1>1 DEF TypeOK, Labels, NoJob
<1>3. Places'
  BY <1>1 DEF TypeOK, Places, TaskLabels, MainLabels, WorkerLabels
<1>4. Quiet
  BY <1>1 DEF TypeOK, Places, TaskLabels, MainLabels, Quiet, Held, Unfinished
<1>5. Jobs'
  BY <1>1, <1>4, QuietJobs
<1>6. Counts'
  BY <1>1, <1>4, QuietCounts DEF TypeOK, Past, Places, TaskLabels, MainLabels
<1>7. Destruction'
  BY <1>1 DEF TypeOK, Destruction, Places, TaskLabels, MainLabels, WorkerLabels
<1>8. OnThreads'
  BY <1>1, ThreadsKept DEF TypeOK, Places, TaskLabels, MainLabels, WorkerLabels
<1> QED BY <1>2, <1>3, <1>4, <1>5, <1>6, <1>7, <1>8 DEF IInv

(* The destructor checks its predicate, and waits while it is false. *)
LEMMA DestroyWaitsKeeps ==
    ASSUME IInv, NEW t \in Threads, NEW f \in Callers, current[t] = f, DestroyWaits(t, f)
    PROVE  IInv' /\ Quiet
<1> USE Classes DEF DestroyWaits, Goto, Release
<1>1. TypeOK /\ Places /\ Jobs /\ Counts /\ Destruction /\ OnThreads
  BY DEF IInv
<1>2. TypeOK'
  BY <1>1 DEF TypeOK, Labels, NoJob, Over
<1>3. Places'
  BY <1>1 DEF TypeOK, Places, TaskLabels, MainLabels, WorkerLabels, Over
<1>4. Quiet
  BY <1>1 DEF TypeOK, Places, TaskLabels, MainLabels, Quiet, Held, Unfinished, Over
<1>5. Jobs'
  BY <1>1, <1>4, QuietJobs
<1>6. Counts'
  BY <1>1, <1>4, QuietCounts DEF TypeOK, Past, Places, TaskLabels, MainLabels, Over
<1>7. Destruction'
  BY <1>1 DEF TypeOK, Destruction, Places, TaskLabels, MainLabels, WorkerLabels, Over
<1>8. OnThreads'
  BY <1>1, ThreadsKept DEF TypeOK, Places, TaskLabels, MainLabels, WorkerLabels, Over
<1> QED BY <1>2, <1>3, <1>4, <1>5, <1>6, <1>7, <1>8 DEF IInv

(* The worker threads have ended. *)
LEMMA JoinThreadsKeeps ==
    ASSUME IInv, NEW t \in Threads, NEW f \in Callers, current[t] = f, JoinThreads(f)
    PROVE  IInv' /\ Quiet
<1> USE Classes DEF JoinThreads, Goto, Release
<1>1. TypeOK /\ Places /\ Jobs /\ Counts /\ Destruction /\ OnThreads
  BY DEF IInv
<1>2. TypeOK'
  BY <1>1 DEF TypeOK, Labels, NoJob
<1>3. Places'
  BY <1>1 DEF TypeOK, Places, TaskLabels, MainLabels, WorkerLabels
<1>4. Quiet
  BY <1>1 DEF TypeOK, Places, TaskLabels, MainLabels, Quiet, Held, Unfinished
<1>5. Jobs'
  BY <1>1, <1>4, QuietJobs
<1>6. Counts'
  BY <1>1, <1>4, QuietCounts DEF TypeOK, Past, Places, TaskLabels, MainLabels
<1>7. Destruction'
  BY <1>1 DEF TypeOK, Destruction, Places, TaskLabels, MainLabels, WorkerLabels
<1>8. OnThreads'
  BY <1>1, ThreadsKept DEF TypeOK, Places, TaskLabels, MainLabels, WorkerLabels
<1> QED BY <1>2, <1>3, <1>4, <1>5, <1>6, <1>7, <1>8 DEF IInv

-----------------------------------------------------------------------------
(* The destructor is called, worker threads wait and leave, threads pick *)

(* The main fiber is counted out. *)
LEMMA DestroyKeeps ==
    ASSUME IInv, NEW t \in Threads, NEW f \in Callers, current[t] = f, Destroy(f)
    PROVE  IInv' /\ Quiet
<1> USE Classes DEF Destroy, Goto
<1>1. TypeOK /\ Places /\ Jobs /\ Counts /\ Destruction /\ OnThreads
  BY DEF IInv
<1>2. shouldRun = TRUE /\ shouldRun' = FALSE
  BY <1>1 DEF Destruction, TypeOK
<1>3. fiberCount = Cardinality(Working_) + 1 /\ fiberCount' = Cardinality(Working_)
  BY <1>1, <1>2, FiniteCounts DEF Counts, Working_
<1>4. TypeOK'
  BY <1>1, <1>3, FiniteCounts DEF TypeOK, Labels
<1>5. Places'
  BY <1>1 DEF TypeOK, Places, TaskLabels, MainLabels, WorkerLabels
<1>6. Quiet
  BY <1>1 DEF TypeOK, Places, TaskLabels, MainLabels, Quiet, Held, Unfinished
<1>7. Jobs'
  BY <1>1, <1>6, QuietJobs
<1>8. Counts'
  <2>1. \A g \in Callers : Holding(g)' = Holding(g)
    BY <1>6, QuietSets
  <2>2. fiberCount' = Cardinality(Working_') /\ ~shouldRun'
    BY <1>2, <1>3, <1>6, QuietSets
  <2>3. Cardinality(Working_') \in Nat
    BY <1>6, QuietSets, FiniteCounts
  <2>4. fiberCount' = Cardinality(Working_') + (IF shouldRun' THEN 1 ELSE 0)
    BY <2>2, <2>3
  <2>5. fiberCount' = Cardinality({x \in Tasks : Working(x)}') + (IF shouldRun' THEN 1 ELSE 0)
    BY <2>4 DEF Working_
  <2>6. \A x \in Tasks : pc'[x] = pc[x]
    BY <1>1 DEF TypeOK
  <2>7. \A x \in Callers : count'[x] = Cardinality(Holding(x)')
    BY <1>1, <2>1 DEF Counts
  <2>8. \A x \in Tasks : pc'[x] \in Past => Holding(x)' = {}
    BY <1>1, <2>1, <2>6 DEF Counts
  <2> QED BY <2>5, <2>7, <2>8 DEF Counts
<1>9. Destruction'
  BY <1>1 DEF TypeOK, Destruction, Places, TaskLabels, MainLabels, WorkerLabels
<1>10. OnThreads'
  BY <1>1 DEF TypeOK, OnThreads
<1> QED BY <1>4, <1>5, <1>6, <1>7, <1>8, <1>9, <1>10 DEF IInv

(* A worker checks its predicate: it leaves, or waits without its thread. *)
LEMMA WorkerChecksKeeps ==
    ASSUME IInv, NEW t \in Threads, NEW w \in Workers, current[t] = w, WorkerChecks(t, w)
    PROVE  IInv' /\ Quiet
<1> USE Classes DEF WorkerChecks, Goto, Release
<1>1. TypeOK /\ Places /\ Jobs /\ Counts /\ Destruction /\ OnThreads
  BY DEF IInv
<1>2. t = w
  BY <1>1 DEF OnThreads
<1>3. TypeOK'
  BY <1>1 DEF TypeOK, Labels
<1>4. Places'
  BY <1>1 DEF TypeOK, Places, TaskLabels, MainLabels, WorkerLabels
<1>5. Quiet
  BY <1>1 DEF TypeOK, Quiet
<1>6. Jobs'
  BY <1>1, <1>5, QuietJobs
<1>7. \A f \in Callers : pc'[f] = pc[f]
  BY <1>1 DEF TypeOK
<1>8. Counts'
  BY <1>1, <1>5, <1>7, QuietCounts
<1>9. Destruction'
  BY <1>1, <1>7 DEF TypeOK, Destruction
<1>10. OnThreads'
  <2>1. pc'[w] \in {"gone", "asleep"} /\ \A f \in Fibers : f # w => pc'[f] = pc[f]
    BY <1>1 DEF TypeOK
  <2>2. \A u \in Threads : u # t => current'[u] = current[u]
    BY <1>1 DEF TypeOK
  <2>3. IF pc'[w] = "gone" THEN current'[t] = w ELSE current'[t] = NoFiber
    BY <1>1 DEF TypeOK
  <2> QED BY <1>1, <1>2, <2>1, <2>2, <2>3 DEF OnThreads
<1> QED BY <1>3, <1>4, <1>5, <1>6, <1>8, <1>9, <1>10 DEF IInv

(* A free thread picks a ready fiber. *)
LEMMA PickKeeps ==
    ASSUME IInv, NEW t \in Threads, NEW f \in Fibers, Pick(t, f)
    PROVE  IInv' /\ Quiet
<1> USE Classes DEF Pick
<1>1. TypeOK /\ Places /\ Jobs /\ Counts /\ Destruction /\ OnThreads
  BY DEF IInv
<1>2. TypeOK'
  BY <1>1 DEF TypeOK
<1>3. Places' /\ Destruction'
  BY <1>1 DEF Places, Destruction
<1>4. Quiet
  BY DEF Quiet
<1>5. Jobs'
  BY <1>1, <1>4, QuietJobs
<1>6. Counts'
  BY <1>1, <1>4, QuietCounts
<1>7. OnThreads'
  <2>1. \A u \in Threads : current'[u] = IF u = t THEN f ELSE current[u]
    BY <1>1 DEF TypeOK
  <2> QED BY <1>1, <2>1 DEF OnThreads
<1> QED BY <1>2, <1>3, <1>4, <1>5, <1>6, <1>7 DEF IInv

-----------------------------------------------------------------------------
(* Counting in, launching and counting out *)

(* A step that neither starts nor ends a task. *)
SameTasks ==
    /\ parent' = parent
    /\ \A f \in Tasks : /\ Working(f)' <=> Working(f)
                        /\ Working(f) \/ (pc'[f] = "new" <=> pc[f] = "new")

LEMMA QuietSameTasks ==
    ASSUME Quiet
    PROVE  SameTasks
BY QuietSets DEF Quiet, SameTasks

(* A task is counted in: it is new, and nobody launched it before. *)
LEMMA AddTaskKeeps ==
    ASSUME IInv, NEW t \in Threads, NEW f \in Callers, current[t] = f,
           NEW g \in Tasks, NEW p \in {f, NoFiber}, NEW how \in {"post", "dispatch"},
           AddTask(f, g, p, how)
    PROVE  /\ IInv'
           /\ pc[g] = "new" /\ ~Working(g) /\ (f \in Tasks => Working(f))
           /\ pc[MainFiber] # "destroyed" /\ pc'[MainFiber] # "destroyed"
           /\ \A x \in Tasks : /\ Working(x)' <=> Working(x) \/ x = g
                               /\ pc'[x] = "new" <=> pc[x] = "new"
<1> USE Classes DEF AddTask, Goto
<1>1. TypeOK /\ Places /\ Jobs /\ Counts /\ Destruction /\ OnThreads
  BY DEF IInv
<1>2. /\ f # g /\ pc[g] = "new" /\ pc[f] = "body"
      /\ \A h \in Callers : job[h].task # g
  BY <1>1
<1>3. /\ \A x \in Fibers : x # f => pc'[x] = pc[x]
      /\ pc'[f] = IF p = NoFiber THEN "launch" ELSE "hold"
      /\ \A x \in Callers : x # f => job'[x] = job[x]
      /\ job'[f] = [task |-> g, how |-> how]
      /\ \A x \in Tasks : x # g => parent'[x] = parent[x]
      /\ parent'[g] = p
  BY <1>1 DEF TypeOK
<1>4. job'[f].task = g
  BY <1>3
<1>5. TypeOK'
  BY <1>1 DEF TypeOK, Labels
<1>6. Places'
  BY <1>1, <1>2, <1>3 DEF Places, TaskLabels, MainLabels
<1>7. \A x \in Tasks : Launching(x)' <=> Launching(x) \/ x = g
  BY <1>2, <1>3, <1>4 DEF Launching
<1>8. Jobs'
  <2>1. \A x \in Callers : x # f /\ pc[x] \in {"hold", "launch"} => job[x].task \in Tasks \ {g}
    BY <1>1, <1>2 DEF Jobs
  <2>2. \A x \in Callers : x # f =>
          /\ pc'[x] \in {"hold", "launch"} =>
                /\ job'[x].task \in Tasks
                /\ pc'[job'[x].task] = "new"
                /\ parent'[job'[x].task] \in {x, NoFiber}
          /\ pc'[x] = "hold" => parent'[job'[x].task] = x
    BY <1>1, <1>2, <1>3, <2>1 DEF Jobs
  <2>3. /\ job'[f].task \in Tasks
        /\ pc'[job'[f].task] = "new"
        /\ parent'[job'[f].task] \in {f, NoFiber}
        /\ pc'[f] = "hold" => parent'[job'[f].task] = f
    BY <1>2, <1>3, <1>4
  <2>4. \A x, h \in Callers :
          pc'[x] \in {"hold", "launch"} /\ pc'[h] \in {"hold", "launch"} /\ job'[x].task = job'[h].task
             => x = h
    BY <1>1, <1>3, <1>4, <2>1 DEF Jobs
  <2>5. \A x \in Tasks : pc'[x] = "new" /\ ~Launching(x)' => parent'[x] = NoFiber
    BY <1>1, <1>2, <1>3, <1>7 DEF Jobs
  <2> QED BY <2>2, <2>3, <2>4, <2>5 DEF Jobs
<1>9. Counts'
  <2>1. \A x \in Callers : Holding(x)' = Holding(x)
    BY <1>2, <1>3, <1>4 DEF Holding, Unfinished
  <2>2. g \notin Working_ /\ Working_' = Working_ \cup {g}
    BY <1>1, <1>2, <1>3, <1>7 DEF Working_, Working, Unfinished, Launching
  <2>3. Cardinality(Working_') = Cardinality(Working_) + 1
    BY <2>2, FiniteCounts, FS_AddElement
  <2>4. fiberCount' = Cardinality({x \in Tasks : Working(x)}') + (IF shouldRun' THEN 1 ELSE 0)
    BY <1>1, <2>3, FiniteCounts DEF Working_, Counts
  <2>5. \A x \in Tasks : pc'[x] \in Past => pc[x] \in Past
    BY <1>3 DEF Past
  <2> QED BY <1>1, <2>1, <2>4, <2>5 DEF Counts
<1>10. pc[MainFiber] \notin {"notifyAll", "threads", "destroyed"}
  <2>1. CASE f = MainFiber
    BY <1>2, <2>1
  <2>2. CASE f # MainFiber
    <3>1. f \in Working_
      BY <1>2, <2>2 DEF Working_, Working, Unfinished
    <3>2. Cardinality(Working_) # 0
      BY <3>1, FiniteCounts, FS_EmptySet
    <3> QED BY <1>1, <3>2, FiniteCounts DEF Counts, Destruction, Working_
  <2> QED BY <2>1, <2>2
<1>11. Destruction'
  BY <1>1, <1>2, <1>3, <1>10 DEF Destruction
<1>12. OnThreads'
  BY <1>1, <1>2, <1>3, ThreadsKept DEF OnThreads
<1>13. ~Working(g) /\ (f \in Tasks => Working(f))
  BY <1>1, <1>2 DEF Working, Unfinished, Launching
<1>14. \A x \in Tasks : /\ Working(x)' <=> Working(x) \/ x = g
                        /\ pc'[x] = "new" <=> pc[x] = "new"
  BY <1>2, <1>3, <1>7 DEF Working, Unfinished
<1>15. pc'[MainFiber] # "destroyed"
  <2>1. CASE f = MainFiber
    BY <1>3, <2>1
  <2>2. CASE f # MainFiber
    BY <1>3, <1>10, <2>2
  <2> QED BY <2>1, <2>2
<1> QED BY <1>2, <1>5, <1>6, <1>8, <1>9, <1>10, <1>11, <1>12, <1>13, <1>14, <1>15 DEF IInv

(* The launcher holds the task: one more holds it. *)
LEMMA HoldKeeps ==
    ASSUME IInv, NEW t \in Threads, NEW f \in Callers, current[t] = f, Hold(f)
    PROVE  IInv' /\ SameTasks
<1> USE Classes DEF Hold, Goto
<1>1. TypeOK /\ Places /\ Jobs /\ Counts /\ Destruction /\ OnThreads
  BY DEF IInv
<1>2. PICK g \in Tasks : g = job[f].task
  BY <1>1 DEF Jobs
<1>3. /\ \A x \in Fibers : x # f => pc'[x] = pc[x]
      /\ pc[f] = "hold" /\ pc'[f] = "launch"
      /\ \A x \in Callers : x # f => count'[x] = count[x]
      /\ count'[f] = count[f] + 1
  BY <1>1 DEF TypeOK
<1>4. pc[g] = "new" /\ parent[g] = f
  BY <1>1, <1>2, <1>3 DEF Jobs
<1>5. TypeOK'
  BY <1>1 DEF TypeOK, Labels
<1>6. Places'
  BY <1>1, <1>3 DEF Places, TaskLabels, MainLabels
<1>7. \A x \in Tasks : Launching(x)' <=> Launching(x)
  BY <1>3 DEF Launching
<1>8. Jobs'
  BY <1>1, <1>2, <1>3, <1>4, <1>7 DEF Jobs
<1>9. Counts'
  <2>1. \A x \in Callers : x # f => Holding(x)' = Holding(x)
    BY <1>3 DEF Holding, Unfinished
  <2>2. g \notin Holding(f) /\ Holding(f)' = Holding(f) \cup {g}
    BY <1>2, <1>3, <1>4 DEF Holding, Unfinished
  <2>3. Cardinality(Holding(f)') = Cardinality(Holding(f)) + 1
    BY <2>2, FiniteCounts, FS_AddElement
  <2>4. Working_' = Working_
    BY <1>3, <1>7 DEF Working_, Working, Unfinished
  <2>5. \A x \in Tasks : pc'[x] \in Past => pc[x] \in Past /\ x # f
    BY <1>3 DEF Past
  <2> QED BY <1>1, <1>3, <2>1, <2>3, <2>4, <2>5 DEF Counts, Working_
<1>10. Destruction'
  BY <1>1, <1>3 DEF Destruction
<1>11. OnThreads'
  BY <1>1, <1>3, ThreadsKept DEF OnThreads
<1>12. SameTasks
  BY <1>3, <1>7 DEF SameTasks, Working, Unfinished
<1> QED BY <1>12, <1>5, <1>6, <1>8, <1>9, <1>10, <1>11 DEF IInv

(* A launched task runs: it holds its parent through its own label now.  The *)
(* launcher goes on, or waits to join it.                                    *)
LEMMA LaunchKeeps ==
    ASSUME TypeOK, Places, Jobs, Counts, Destruction, NEW f \in Callers,
           NEW label \in {"body", "join"}, pc[f] = "launch",
           pc' = [pc EXCEPT ![f] = label, ![job[f].task] = "body"],
           \A h \in Callers : h # f => job'[h] = job[h],
           UNCHANGED <<parent, count, fiberCount, shouldRun>>
    PROVE  /\ pc' \in [Fibers -> Labels]
           /\ \A x \in Fibers : x # f /\ pc'[x] # pc[x] => pc'[x] = "body"
           /\ pc'[f] = label
           /\ Places' /\ Jobs' /\ Counts' /\ Destruction' /\ SameTasks
<1> USE Classes
<1>1. PICK g \in Tasks : g = job[f].task
  BY DEF Jobs
<1>2. pc[g] = "new" /\ parent[g] \in {f, NoFiber} /\ g # f
  BY <1>1 DEF Jobs
<1>3. /\ \A x \in Fibers : x # f /\ x # g => pc'[x] = pc[x]
      /\ pc'[f] = label /\ pc'[g] = "body"
      /\ pc' \in [Fibers -> Labels]
  BY <1>1, <1>2 DEF TypeOK, Labels
<1>4. \A x \in Callers : x # f /\ pc[x] \in {"hold", "launch"} => job[x].task # g
  BY <1>1 DEF Jobs
<1>5. \A x \in Tasks : Launching(x) <=> Launching(x)' \/ x = g
  BY <1>1, <1>2, <1>3 DEF Launching
<1>6. Places'
  BY <1>2, <1>3 DEF Places, TaskLabels, MainLabels
<1>7. Jobs'
  <2>1. \A x \in Callers :
          /\ pc'[x] \in {"hold", "launch"} =>
                /\ job'[x].task \in Tasks
                /\ pc'[job'[x].task] = "new"
                /\ parent'[job'[x].task] \in {x, NoFiber}
          /\ pc'[x] = "hold" => parent'[job'[x].task] = x
    <3> SUFFICES ASSUME NEW x \in Callers, pc'[x] \in {"hold", "launch"}
                 PROVE  /\ job'[x].task \in Tasks
                        /\ pc'[job'[x].task] = "new"
                        /\ parent'[job'[x].task] \in {x, NoFiber}
                        /\ pc'[x] = "hold" => parent'[job'[x].task] = x
      OBVIOUS
    <3>1. x # f /\ x # g /\ pc'[x] = pc[x] /\ job'[x] = job[x]
      BY <1>3
    <3>2. job[x].task \in Tasks /\ pc[job[x].task] = "new"
      BY <3>1 DEF Jobs
    <3>3. job[x].task # g /\ job[x].task # f
      BY <1>4, <3>1, <3>2
    <3> QED BY <1>3, <3>1, <3>2, <3>3 DEF Jobs
  <2>2. \A x, h \in Callers :
          pc'[x] \in {"hold", "launch"} /\ pc'[h] \in {"hold", "launch"} /\ job'[x].task = job'[h].task
             => x = h
    BY <1>3 DEF Jobs
  <2>3. \A x \in Tasks : pc'[x] = "new" /\ ~Launching(x)' => parent'[x] = NoFiber
    BY <1>3, <1>5 DEF Jobs
  <2> QED BY <2>1, <2>2, <2>3 DEF Jobs
<1>8. Counts'
  <2>1. \A x \in Callers : Holding(x)' = Holding(x)
    BY <1>1, <1>2, <1>3, <1>4 DEF Holding, Unfinished
  <2>2. Working_' = Working_
    BY <1>1, <1>2, <1>3, <1>5 DEF Working_, Working, Unfinished
  <2>3. \A x \in Tasks : pc'[x] \in Past => pc[x] \in Past
    BY <1>3 DEF Past
  <2> QED BY <2>1, <2>2, <2>3 DEF Counts, Working_
<1>9. Destruction'
  BY <1>3 DEF Destruction
<1>10. SameTasks
  BY <1>1, <1>2, <1>3, <1>5 DEF SameTasks, Working, Unfinished
<1> QED BY <1>10, <1>3, <1>6, <1>7, <1>8, <1>9

(* A posted task becomes ready. *)
LEMMA PostKeeps ==
    ASSUME IInv, NEW t \in Threads, NEW f \in Callers, current[t] = f, Post(f)
    PROVE  IInv' /\ SameTasks
<1> USE Classes DEF Post
<1>1. TypeOK /\ Places /\ Jobs /\ Counts /\ Destruction /\ OnThreads
  BY DEF IInv
<1>2. \A h \in Callers : h # f => job'[h] = job[h]
  BY <1>1 DEF TypeOK
<1>3. /\ pc' \in [Fibers -> Labels]
      /\ \A x \in Fibers : x # f /\ pc'[x] # pc[x] => pc'[x] = "body"
      /\ pc'[f] = "body"
      /\ Places' /\ Jobs' /\ Counts' /\ Destruction' /\ SameTasks
  BY <1>1, <1>2, LaunchKeeps
<1>4. TypeOK'
  BY <1>1, <1>3 DEF TypeOK, NoJob
<1>5. OnThreads'
  BY <1>1, <1>3 DEF OnThreads
<1> QED BY <1>3, <1>4, <1>5 DEF IInv

(* A dispatched task takes the thread of its launcher. *)
LEMMA DispatchKeeps ==
    ASSUME IInv, NEW t \in Threads, NEW f \in Callers, current[t] = f, Dispatch(t, f)
    PROVE  IInv' /\ SameTasks
<1> USE Classes DEF Dispatch
<1>1. TypeOK /\ Places /\ Jobs /\ Counts /\ Destruction /\ OnThreads
  BY DEF IInv
<1>2. /\ pc' \in [Fibers -> Labels]
      /\ \A x \in Fibers : x # f /\ pc'[x] # pc[x] => pc'[x] = "body"
      /\ pc'[f] = "join"
      /\ Places' /\ Jobs' /\ Counts' /\ Destruction' /\ SameTasks
  BY <1>1, LaunchKeeps
<1>3. job[f].task \in Tasks
  BY <1>1 DEF Jobs
<1>4. TypeOK'
  BY <1>1, <1>2, <1>3 DEF TypeOK
<1>5. OnThreads'
  <2>1. \A u \in Threads : current'[u] = IF u = t THEN job[f].task ELSE current[u]
    BY <1>1 DEF TypeOK
  <2> QED BY <1>1, <1>2, <1>3, <2>1 DEF OnThreads
<1> QED BY <1>2, <1>4, <1>5 DEF IInv

(* A task is counted out; the last one when the destructor waits notifies. *)
LEMMA FinishKeeps ==
    ASSUME IInv, NEW t \in Threads, NEW f \in Callers, current[t] = f, Finish(f)
    PROVE  /\ IInv'
           /\ f \in Tasks /\ Holding(f) = {}
           /\ \A x \in Tasks : Working(x)' <=> Working(x) /\ x # f
<1> USE Classes DEF Finish, Goto
<1>1. TypeOK /\ Places /\ Jobs /\ Counts /\ Destruction /\ OnThreads
  BY DEF IInv
<1>2. f \in Tasks /\ Holding(f) = {}
  BY <1>1 DEF Places, MainLabels, Counts, Past
<1>3. /\ \A x \in Fibers : x # f => pc'[x] = pc[x]
      /\ pc[f] = "finish"
      /\ pc'[f] \in {"notifyAll", "end", "unhold"}
      /\ parent[f] = NoFiber => pc'[f] # "unhold"
      /\ parent[f] # NoFiber => pc'[f] # "end"
  BY <1>1 DEF TypeOK, Tail
<1>4. \A x \in Tasks : Launching(x)' <=> Launching(x)
  BY <1>1, <1>3 DEF Launching
<1>5. ~Launching(f)
  BY <1>1, <1>3 DEF Launching, Jobs
<1>6. \A x \in Tasks : Working(x)' <=> Working(x) /\ x # f
  BY <1>2, <1>3, <1>4, <1>5 DEF Working, Unfinished
<1>7. f \in Working_ /\ Working_' = Working_ \ {f}
  BY <1>2, <1>3, <1>6 DEF Working_, Working, Unfinished
<1>8. /\ Cardinality(Working_') = Cardinality(Working_) - 1
      /\ Cardinality(Working_) \in Nat \ {0}
  BY <1>7, FiniteCounts, FS_RemoveElement, FS_EmptySet
<1>9. fiberCount' = Cardinality(Working_') + (IF shouldRun THEN 1 ELSE 0)
  BY <1>1, <1>8, FiniteCounts DEF Counts, Working_
<1>10. TypeOK'
  BY <1>1, <1>3, <1>8, <1>9 DEF TypeOK, Labels
<1>11. Places'
  BY <1>1, <1>2, <1>3 DEF Places, TaskLabels
<1>12. Jobs'
  BY <1>1, <1>3, <1>4 DEF Jobs
<1>13. Counts'
  <2>1. \A x \in Callers : Holding(x)' = Holding(x)
    BY <1>1, <1>2, <1>3 DEF Holding, Unfinished
  <2>2. \A x \in Tasks : pc'[x] \in Past => pc[x] \in Past
    BY <1>3 DEF Past
  <2> QED BY <1>1, <1>9, <2>1, <2>2 DEF Counts, Working_
<1>14. Destruction'
  <2>1. fiberCount # 0
    BY <1>1, <1>8 DEF Counts, Working_, TypeOK
  <2> QED BY <1>1, <1>2, <1>3, <2>1 DEF Destruction
<1>15. OnThreads'
  BY <1>1, <1>2, <1>3 DEF OnThreads
<1> QED BY <1>2, <1>6, <1>10, <1>11, <1>12, <1>13, <1>14, <1>15 DEF IInv

(* The parent's count loses the task. *)
LEMMA UnholdKeeps ==
    ASSUME IInv, NEW t \in Threads, NEW f \in Callers, current[t] = f, Unhold(f)
    PROVE  IInv' /\ SameTasks
<1> USE Classes DEF Unhold, Goto
<1>1. TypeOK /\ Places /\ Jobs /\ Counts /\ Destruction /\ OnThreads
  BY DEF IInv
<1>2. f \in Tasks /\ parent[f] \in Callers
  BY <1>1 DEF Places, MainLabels, TypeOK
<1>3. PICK p \in Callers : p = parent[f]
  BY <1>2
<1>4. /\ \A x \in Fibers : x # f => pc'[x] = pc[x]
      /\ pc[f] = "unhold" /\ pc'[f] \in {"notifyParent", "end"}
      /\ \A x \in Callers : x # p => count'[x] = count[x]
      /\ count'[p] = count[p] - 1
  BY <1>1, <1>3 DEF TypeOK
<1>5. f \in Holding(p) /\ Holding(p)' = Holding(p) \ {f}
  BY <1>1, <1>2, <1>3, <1>4 DEF Holding, Unfinished, Jobs
<1>6. /\ Cardinality(Holding(p)') = Cardinality(Holding(p)) - 1
      /\ Cardinality(Holding(p)) \in Nat \ {0}
  BY <1>5, FiniteCounts, FS_RemoveElement, FS_EmptySet
<1>7. count[p] \in Nat \ {0} /\ count'[p] = Cardinality(Holding(p)')
  BY <1>1, <1>4, <1>6 DEF Counts
<1>8. TypeOK'
  BY <1>1, <1>3, <1>4, <1>7 DEF TypeOK, Labels
<1>9. Places'
  BY <1>1, <1>2, <1>4 DEF Places, TaskLabels
<1>10. \A x \in Tasks : Launching(x)' <=> Launching(x)
  BY <1>4 DEF Launching
<1>11. Jobs'
  BY <1>1, <1>4, <1>10 DEF Jobs
<1>12. Counts'
  <2>1. \A x \in Callers : x # p => Holding(x)' = Holding(x)
    BY <1>1, <1>2, <1>3, <1>4 DEF Holding, Unfinished
  <2>2. Working_' = Working_
    BY <1>4, <1>10 DEF Working_, Working, Unfinished
  <2>3. \A x \in Tasks : pc'[x] \in Past => pc[x] \in Past
    BY <1>4 DEF Past
  <2>4. \A x \in Tasks : pc[x] \in Past => x # p
    BY <1>1, <1>5 DEF Counts
  <2> QED BY <1>1, <1>4, <1>7, <2>1, <2>2, <2>3, <2>4 DEF Counts, Working_
<1>13. Destruction'
  BY <1>1, <1>2, <1>4 DEF Destruction
<1>14. OnThreads'
  BY <1>1, <1>2, <1>4 DEF OnThreads
<1>15. SameTasks
  BY <1>4, <1>10 DEF SameTasks, Working, Unfinished
<1> QED BY <1>15, <1>8, <1>9, <1>11, <1>12, <1>13, <1>14 DEF IInv

-----------------------------------------------------------------------------
(* What every step does to the tasks: it starts one, ends one, or neither. *)

Starts(f, g, p) ==
    /\ p \in {f, NoFiber} /\ (f \in Tasks => Working(f))
    /\ pc[g] = "new" /\ ~Working(g)
    /\ parent' = [parent EXCEPT ![g] = p]
    /\ \A x \in Tasks : /\ Working(x)' <=> Working(x) \/ x = g
                        /\ pc'[x] = "new" <=> pc[x] = "new"
    /\ pc[MainFiber] # "destroyed" /\ pc'[MainFiber] # "destroyed"

Finishes(f) ==
    /\ Holding(f) = {} /\ pc[f] = "finish"
    /\ \A x \in Tasks : /\ Working(x)' <=> Working(x) /\ x # f
                        /\ pc'[x] = "new" <=> pc[x] = "new"
    /\ parent' = parent
    /\ pc'[MainFiber] = pc[MainFiber]

(* Only JoinThreads destroys the scheduler. *)
Stops == pc[MainFiber] = "threads" /\ pc'[MainFiber] = "destroyed"

Kept == pc'[MainFiber] = "destroyed" <=> pc[MainFiber] = "destroyed"

LEMMA StepKeeps ==
    ASSUME IInv, [Next]_vars
    PROVE  /\ IInv'
           /\ \/ \E f \in Callers, g \in Tasks, p \in Callers \cup {NoFiber} : Starts(f, g, p)
              \/ \E f \in Tasks : Finishes(f)
              \/ SameTasks /\ (Stops \/ Kept)
<1> USE Classes
<1>1. TypeOK /\ Places
  BY DEF IInv
<1>2. ASSUME NEW t \in Threads, NEW f \in Callers, current[t] = f,
             NEW g \in Tasks, NEW p \in {f, NoFiber}, NEW how \in {"post", "dispatch"},
             AddTask(f, g, p, how)
      PROVE  IInv' /\ Starts(f, g, p)
  BY <1>2, AddTaskKeeps DEF Starts, AddTask
<1>3. ASSUME NEW t \in Threads, NEW f \in Callers, current[t] = f, Finish(f)
      PROVE  IInv' /\ f \in Tasks /\ Finishes(f)
  <2>1. /\ IInv' /\ f \in Tasks /\ Holding(f) = {}
        /\ \A x \in Tasks : Working(x)' <=> Working(x) /\ x # f
    BY <1>3, FinishKeeps
  <2>2. pc'[f] # "new" /\ pc[f] = "finish" /\ \A x \in Fibers : x # f => pc'[x] = pc[x]
    BY <1>1, <1>3 DEF Finish, Goto, Tail, TypeOK
  <2> QED BY <1>3, <2>1, <2>2 DEF Finishes, Finish
<1>4. ASSUME NEW t \in Threads, NEW f \in Callers, current[t] = f, JoinThreads(f)
      PROVE  IInv' /\ SameTasks /\ Stops
  <2>1. f = MainFiber
    BY <1>1, <1>4 DEF JoinThreads, Places, TaskLabels
  <2> QED BY <1>1, <1>4, <2>1, JoinThreadsKeeps, QuietSameTasks DEF JoinThreads, Goto, Stops, TypeOK
<1>5. ASSUME NEW t \in Threads, NEW f \in Callers, current[t] = f,
             \/ Hold(f) \/ Post(f) \/ Dispatch(t, f) \/ Unhold(f)
      PROVE  IInv' /\ SameTasks /\ Kept
  <2>1. IInv' /\ SameTasks
    BY <1>5, HoldKeeps, PostKeeps, DispatchKeeps, UnholdKeeps
  <2>2. Kept
    BY <1>1, <1>5 DEF Kept, Hold, Post, Dispatch, Unhold, Goto, TypeOK
  <2> QED BY <2>1, <2>2
<1>6. ASSUME NEW t \in Threads, NEW f \in Callers, current[t] = f,
             \/ Join(f) \/ Yield(t, f) \/ CallBlock(f) \/ EndBody(f)
             \/ BlockPasses(f) \/ BlockWaits(t, f) \/ NotifyAll(f)
             \/ NotifyParent(f) \/ End(t, f) \/ Destroy(f) \/ DestroyWaits(t, f)
      PROVE  IInv' /\ SameTasks /\ Kept
  <2>1. IInv' /\ SameTasks
    BY <1>6, JoinKeeps, YieldKeeps, CallBlockKeeps, EndBodyKeeps, BlockPassesKeeps, BlockWaitsKeeps,
       NotifyAllKeeps, NotifyParentKeeps, EndKeeps, DestroyKeeps, DestroyWaitsKeeps, QuietSameTasks
  <2>2. ASSUME NotifyAll(f) PROVE Kept
    <3>1. CASE f = MainFiber
      BY <2>2, <3>1 DEF Kept, NotifyAll
    <3>2. CASE f # MainFiber
      <4>1. pc'[MainFiber] = Woken(pc[MainFiber])
        BY <2>2, <3>2 DEF NotifyAll
      <4> QED BY <4>1 DEF Kept, Woken
    <3> QED BY <3>1, <3>2
  <2>3. ASSUME ~NotifyAll(f) PROVE Kept
    BY <1>1, <1>6, <2>3
       DEF Places, MainLabels, TaskLabels, Kept, Join, Yield, CallBlock, EndBody, BlockPasses, BlockWaits, NotifyParent, End,
           Destroy, DestroyWaits, Goto, TypeOK
  <2> QED BY <2>1, <2>2, <2>3
<1>7. ASSUME NEW t \in Threads, NEW w \in Workers, current[t] = w, WorkerChecks(t, w)
      PROVE  IInv' /\ SameTasks /\ Kept
  <2>1. Kept
    BY <1>1, <1>7 DEF Kept, WorkerChecks, Goto, TypeOK
  <2> QED BY <1>7, <2>1, WorkerChecksKeeps, QuietSameTasks
<1>8. ASSUME NEW t \in Threads, NEW f \in Fibers, Pick(t, f)
      PROVE  IInv' /\ SameTasks /\ Kept
  BY <1>8, PickKeeps, QuietSameTasks DEF Kept, Pick
<1>9. CASE UNCHANGED vars
  <2>1. Quiet /\ Kept
    BY <1>9 DEF vars, Quiet, Kept
  <2>2. TypeOK' /\ Places' /\ Destruction' /\ OnThreads'
    BY <1>9 DEF IInv, vars, TypeOK, Places, Destruction, OnThreads
  <2>3. Jobs' /\ Counts'
    BY <1>9, <2>1, QuietJobs, QuietCounts DEF IInv, vars
  <2> QED BY <2>1, <2>2, <2>3, QuietSameTasks DEF IInv
<1> QED
  <2>1. ASSUME NEW t \in Threads, NEW f \in Callers, current[t] = f, CallerStep(t, f)
        PROVE  /\ IInv'
               /\ \/ \E g \in Tasks, p \in Callers \cup {NoFiber} : Starts(f, g, p)
                  \/ f \in Tasks /\ Finishes(f)
                  \/ SameTasks /\ (Stops \/ Kept)
    <3>1. CASE \E g \in Tasks, p \in {f, NoFiber}, how \in {"post", "dispatch"} : AddTask(f, g, p, how)
      <4>1. PICK g \in Tasks, p \in {f, NoFiber}, how \in {"post", "dispatch"} : AddTask(f, g, p, how)
        BY <3>1
      <4>2. IInv' /\ Starts(f, g, p) /\ p \in Callers \cup {NoFiber}
        BY <1>2, <2>1, <4>1
      <4> QED BY <4>2
    <3>2. CASE Finish(f)
      BY <1>3, <2>1, <3>2
    <3>3. CASE JoinThreads(f)
      BY <1>4, <2>1, <3>3
    <3>4. CASE \/ Hold(f) \/ Post(f) \/ Dispatch(t, f) \/ Unhold(f)
      BY <1>5, <2>1, <3>4
    <3>5. CASE \/ Join(f) \/ Yield(t, f) \/ CallBlock(f) \/ EndBody(f)
               \/ BlockPasses(f) \/ BlockWaits(t, f) \/ NotifyAll(f)
               \/ NotifyParent(f) \/ End(t, f) \/ Destroy(f) \/ DestroyWaits(t, f)
      BY <1>6, <2>1, <3>5
    <3> QED BY <2>1, <3>1, <3>2, <3>3, <3>4, <3>5 DEF CallerStep
  <2>2. ASSUME NEW t \in Threads, Step(t)
        PROVE  /\ IInv'
               /\ \/ \E f \in Callers, g \in Tasks, p \in Callers \cup {NoFiber} : Starts(f, g, p)
                  \/ \E f \in Tasks : Finishes(f)
                  \/ SameTasks /\ (Stops \/ Kept)
    BY <1>7, <1>8, <2>1, <2>2 DEF Step
  <2> QED BY <1>9, <2>2 DEF Next, Destroyed

-----------------------------------------------------------------------------
(* The theorems *)

(* What the invariant says of each step and each state is inductive. *)
THEOREM Inductive == Spec => []IInv
<1>1. IInv /\ [Next]_vars => IInv'
  BY StepKeeps
<1> QED BY <1>1, InitIInv, PTL DEF Spec

(* Every variable of the scheduler keeps its type: no count wraps. *)
THEOREM TypeCorrect == Spec => []TypeOK
<1>1. IInv => TypeOK
  BY DEF IInv
<1> QED BY <1>1, Inductive, PTL

(* blockCount_ and fiberCount_ are exact at every step. *)
THEOREM CountsAreExact == Spec => []CountsExact
<1>1. IInv => CountsExact
  BY DEF IInv, Counts, CountsExact
<1> QED BY <1>1, Inductive, PTL

(* A task nobody holds has no child that works. *)
LEMMA UnheldOver ==
    ASSUME IInv, NEW f \in Tasks, Holding(f) = {}, pc[f] \notin {"hold", "launch"},
           NEW g \in Tasks, parent[g] = f
    PROVE  ~Working(g) /\ pc[g] # "new"
<1>1. Jobs /\ Places
  BY DEF IInv
<1>2. pc[g] \notin Unfinished
  BY DEF Holding
<1>3. ~Launching(g)
  BY <1>1, Classes DEF Launching, Jobs
<1> QED BY <1>1, <1>2, <1>3, Classes DEF Working, Jobs

(* When a task's own Block has returned, the tasks it holds have ended. *)
THEOREM BlockIsComplete == Spec => []BlockCoversChildren
<1>1. IInv => BlockCoversChildren
  <2> SUFFICES ASSUME IInv, NEW g \in Tasks, parent[g] \in Tasks, pc[parent[g]] \in Past
               PROVE  ~Working(g)
    BY DEF BlockCoversChildren, Past
  <2>1. Holding(parent[g]) = {} /\ pc[parent[g]] \notin {"hold", "launch"}
    BY DEF IInv, Counts, Past
  <2> QED BY <2>1, UnheldOver
<1> QED BY <1>1, Inductive, PTL

(* When every fiber is counted out no task works. *)
LEMMA NobodyWorks ==
    ASSUME IInv, pc[MainFiber] \in {"threads", "destroyed"}
    PROVE  \A f \in Tasks : ~Working(f)
<1>1. fiberCount = 0 /\ Counts
  BY DEF IInv, Destruction
<1>2. Cardinality(Working_) = 0
  BY <1>1, FiniteCounts DEF Counts, Working_
<1>3. Working_ = {}
  BY <1>2, FiniteCounts, FS_EmptySet
<1> QED BY <1>3 DEF Working_

(* Once the destructor returns nothing touches the scheduler again. *)
THEOREM DestroyedIsUnused == Spec => []DestroyedUnused
<1>1. IInv => DestroyedUnused
  <2> SUFFICES ASSUME IInv, pc[MainFiber] = "destroyed"
               PROVE  /\ \A f \in Tasks : ~Working(f) /\ pc[f] # "notifyAll"
                      /\ \A w \in Workers : pc[w] = "gone"
    BY DEF DestroyedUnused
  <2>1. \A w \in Workers : pc[w] = "gone" /\ current[w] = w
    BY DEF IInv, Destruction, OnThreads
  <2>2. current[MainThread] = MainFiber
    BY DEF IInv, OnThreads
  <2>3. \A f \in Tasks : pc[f] # "notifyAll"
    <3>1. \A t \in Threads : current[t] \notin Tasks
      BY <2>1, <2>2, Classes DEF Workers
    <3> QED BY <3>1, Classes DEF IInv, OnThreads
  <2> QED BY <2>1, <2>3, NobodyWorks
<1> QED BY <1>1, Inductive, PTL

-----------------------------------------------------------------------------
(* The refinement of ForkJoin *)

(* The state ForkJoin sees of each task. *)
Seen == [f \in Tasks |-> IF Working(f) THEN "running"
                         ELSE IF pc[f] = "new" THEN "new" ELSE "over"]

(* A started task, whose parent runs, is launched. *)
LEMMA StartsLaunch ==
    ASSUME TypeOK, TypeOK', NEW f \in Callers, NEW g \in Tasks, NEW p \in Callers \cup {NoFiber},
           Starts(f, g, p)
    PROVE  Promise!Launch(g, p)
<1>1. Seen' = [Seen EXCEPT ![g] = "running"]
  BY DEF Starts, Seen
<1>2. Seen[g] = "new" /\ (p \in Tasks => Seen[p] = "running")
  BY Classes DEF Starts, Seen
<1>3. (pc[MainFiber] = "destroyed")' = (pc[MainFiber] = "destroyed")
  BY DEF Starts
<1> QED BY <1>1, <1>2, <1>3 DEF Promise!Launch, Starts, Seen

(* A task that is counted out ends after those it holds. *)
LEMMA FinishesEnd ==
    ASSUME IInv, NEW f \in Tasks, Finishes(f)
    PROVE  Promise!End(f)
<1>1. Seen' = [Seen EXCEPT ![f] = "over"]
  BY DEF Finishes, Seen
<1>2. Seen[f] = "running"
  BY DEF Finishes, Seen, Working, Unfinished
<1>3. \A g \in Tasks : parent[g] = f => Seen[g] = "over"
  BY UnheldOver DEF Finishes, Seen
<1>4. (pc[MainFiber] = "destroyed")' = (pc[MainFiber] = "destroyed")
  BY DEF Finishes
<1> QED BY <1>1, <1>2, <1>3, <1>4 DEF Promise!End, Finishes, Seen

(* The scheduler is destroyed when no task runs. *)
LEMMA StopsStop ==
    ASSUME IInv, SameTasks, Stops
    PROVE  Promise!Stop
<1>1. Seen' = Seen
  BY DEF SameTasks, Seen
<1>2. \A f \in Tasks : Seen[f] # "running"
  BY NobodyWorks DEF Stops, Seen
<1> QED BY <1>1, <1>2 DEF Promise!Stop, SameTasks, Stops, Seen

(* Any other step is none of ForkJoin. *)
LEMMA OthersStutter ==
    ASSUME SameTasks, Kept
    PROVE  UNCHANGED Promise!vars
<1>1. Seen' = Seen
  BY DEF SameTasks, Seen
<1>2. (pc[MainFiber] = "destroyed")' = (pc[MainFiber] = "destroyed")
  BY DEF Kept
<1> QED BY <1>1, <1>2 DEF Promise!vars, SameTasks, Seen

(* The counters, mutexes and conditions keep the promise of ForkJoin: a task *)
(* is over after those it launched with shouldBlock_, and the scheduler stops *)
(* when every task is over.                                                   *)
THEOREM Refinement == Spec => ImplementsForkJoin
<1>1. Init => Promise!Init
  <2> SUFFICES ASSUME Init PROVE Promise!Init
    OBVIOUS
  <2>1. Seen = [f \in Tasks |-> "new"]
    BY Classes DEF Init, Seen, Working, Launching, Unfinished
  <2>2. (pc[MainFiber] = "destroyed") = FALSE
    BY Classes DEF Init
  <2> QED BY <2>1, <2>2 DEF Init, Promise!Init, Seen
<1>2. IInv /\ [Next]_vars => [Promise!Next]_(Promise!vars)
  <2> SUFFICES ASSUME IInv, [Next]_vars
               PROVE  [Promise!Next]_(Promise!vars)
    OBVIOUS
  <2>1. TypeOK /\ TypeOK'
    BY StepKeeps DEF IInv
  <2>2. ASSUME NEW f \in Callers, NEW g \in Tasks, NEW p \in Callers \cup {NoFiber}, Starts(f, g, p)
        PROVE  Promise!Next
    BY <2>1, <2>2, StartsLaunch DEF Promise!Next, Callers
  <2>3. ASSUME NEW f \in Tasks, Finishes(f)
        PROVE  Promise!Next
    BY <2>3, FinishesEnd DEF Promise!Next
  <2>4. CASE SameTasks /\ Stops
    BY <2>4, StopsStop DEF Promise!Next
  <2>5. CASE SameTasks /\ Kept
    BY <2>5, OthersStutter
  <2> QED BY StepKeeps, <2>2, <2>3, <2>4, <2>5
<1> QED BY <1>1, <1>2, Inductive, PTL DEF Spec, ImplementsForkJoin, Promise!Spec
-----------------------------------------------------------------------------
(* Nobody is stuck *)

Sleeping == {"syncAsleep", "blockAsleep", "asleep", "destroyAsleep"}
Ending == {"finish", "notifyAll", "unhold", "notifyParent", "end"}

(* A fiber that ends keeps its thread, a thread runs no fiber that sleeps, or *)
(* waits for the task it dispatched, and no two threads run the same fiber.   *)
Threaded ==
    /\ \A f \in Fibers : pc[f] \in Ending => \E t \in Threads : current[t] = f
    /\ \A t \in Threads : current[t] \in Fibers =>
          /\ pc[current[t]] \notin Sleeping \cup {"new", "done"}
          /\ pc[current[t]] = "join" => pc[job[current[t]].task] = "done"
    /\ \A t, u \in Threads : current[t] \in Fibers /\ current[t] = current[u] => t = u

(* A dispatched task holds its launcher, which joins it. *)
Joins ==
    \A f \in Callers :
       /\ pc[f] = "join" => /\ job[f].task \in Tasks /\ pc[job[f].task] # "new"
                            /\ parent[job[f].task] = f
       /\ pc[f] \in {"hold", "launch"} /\ job[f].how = "dispatch" => parent[job[f].task] = f

(* A fiber sleeps only while its predicate is false, or a notification is on *)
(* its way to it.                                                            *)
BlockSleepers ==
    \A f \in Callers : pc[f] \in {"syncAsleep", "blockAsleep"} =>
       count[f] # 0 \/ \E g \in Tasks : parent[g] = f /\ pc[g] = "notifyParent"
EndSleepers ==
    \A f \in Fibers : pc[f] \in {"asleep", "destroyAsleep"} =>
       ~Over \/ \E g \in Callers : pc[g] = "notifyAll"

(* Tasks hold older ones, so of any tasks one holds none of the others: *)
(* to wait for a child never leads round in a circle.                   *)
Forest ==
    /\ \A g \in Tasks : parent[g] \in Tasks => pc[parent[g]] # "new"
    /\ \A S \in SUBSET Tasks : S # {} => \E f \in S : \A g \in S : parent[g] # f

Progress == Threaded /\ Joins /\ BlockSleepers /\ EndSleepers /\ Forest

(* What a step of a caller on its thread does to the other fibers, and to *)
(* where it is itself.                                                    *)
Others(f) ==
    /\ \A g \in Fibers : g # f =>
          \/ pc'[g] = pc[g]
          \/ pc[g] = "new" /\ pc'[g] = "body"
          \/ pc[g] \in Sleeping /\ pc'[g] \in {"sync", "block", "check", "destroyCheck"}
    /\ \A g \in Callers : g # f => job'[g] = job[g]
    /\ pc'[f] # "new"

Goes(t, f) ==
    \/ /\ current' = current
       /\ pc'[f] \notin Sleeping \cup {"new", "done", "join"}
    \/ /\ current' = [current EXCEPT ![t] = NoFiber]
       /\ pc'[f] \notin Ending

LEMMA ThreadedFollows ==
    ASSUME TypeOK, Places, Joins, Threaded, NEW t \in Threads, NEW f \in Callers, current[t] = f,
           Others(f), Goes(t, f)
    PROVE  Threaded'
<1> USE Classes
<1>1. \A g \in Fibers : g # f /\ pc'[g] \in Ending => pc[g] \in Ending
  BY DEF Others, Ending, Sleeping
<1>2. \A g \in Fibers : g # f /\ pc[g] \notin Sleeping \cup {"new", "done"} => pc'[g] = pc[g]
  BY DEF Others
<1>3. \A g \in Fibers : pc[g] = "done" => pc'[g] = "done"
  <2>1. pc[f] # "done"
    BY DEF Threaded
  <2> QED BY <2>1 DEF Others, Sleeping
<1>4. \A u \in Threads : u # t => current'[u] = current[u] /\ current[u] # f
  BY DEF Goes, TypeOK, Threaded
<1>5. ASSUME NEW u \in Threads, u # t, current'[u] \in Fibers
      PROVE  /\ pc'[current'[u]] \notin Sleeping \cup {"new", "done"}
             /\ pc'[current'[u]] = "join" => pc'[job'[current'[u]].task] = "done"
  <2>1. PICK g \in Fibers : g = current'[u] /\ g = current[u] /\ g # f
    BY <1>4, <1>5
  <2>2. pc[g] \notin Sleeping \cup {"new", "done"} /\ pc'[g] = pc[g]
    BY <1>2, <1>5, <2>1 DEF Threaded
  <2>3. ASSUME pc[g] = "join" PROVE pc'[job'[g].task] = "done"
    <3>1. g \in Callers /\ job'[g] = job[g] /\ job[g].task \in Fibers
      BY <2>1, <2>3 DEF Others, Joins, Places, WorkerLabels, Fibers
    <3>2. pc[job[g].task] = "done"
      BY <1>5, <2>1, <2>3 DEF Threaded
    <3> QED BY <1>3, <3>1, <3>2
  <2> QED BY <2>1, <2>2, <2>3
<1>6. current'[t] = f \/ current'[t] = NoFiber
  BY DEF Goes, TypeOK
<1>7. current'[t] = f => pc'[f] \notin Sleeping \cup {"new", "done", "join"}
  BY DEF Goes, TypeOK
<1>8. \A g \in Fibers : pc'[g] \in Ending => \E u \in Threads : current'[u] = g
  <2> SUFFICES ASSUME NEW g \in Fibers, pc'[g] \in Ending
               PROVE  \E u \in Threads : current'[u] = g
    OBVIOUS
  <2>1. CASE g = f
    BY <2>1 DEF Goes
  <2>2. CASE g # f
    BY <1>1, <1>4, <2>2 DEF Threaded
  <2> QED BY <2>1, <2>2
<1>9. \A u \in Threads : current'[u] \in Fibers =>
          /\ pc'[current'[u]] \notin Sleeping \cup {"new", "done"}
          /\ pc'[current'[u]] = "join" => pc'[job'[current'[u]].task] = "done"
  BY <1>5, <1>6, <1>7
<1>10. \A u, v \in Threads : current'[u] \in Fibers /\ current'[u] = current'[v] => u = v
  BY <1>4, <1>6 DEF Threaded
<1> QED BY <1>8, <1>9, <1>10 DEF Threaded

(* Every step of a caller, but for a dispatch, keeps its thread or leaves it. *)
LEMMA CallerMoves ==
    ASSUME IInv, NEW t \in Threads, NEW f \in Callers, current[t] = f,
           CallerStep(t, f), ~Dispatch(t, f)
    PROVE  Others(f) /\ Goes(t, f)
<1> USE Classes DEF Goto, Release
<1>1. TypeOK /\ Places /\ Jobs
  BY DEF IInv
<1>2. ASSUME NEW g \in Tasks, NEW p \in {f, NoFiber}, NEW how \in {"post", "dispatch"},
             AddTask(f, g, p, how)
      PROVE  Others(f) /\ Goes(t, f)
  BY <1>1, <1>2 DEF AddTask, TypeOK, Others, Goes, Sleeping
<1>3. CASE Post(f)
  <2>1. PICK g \in Tasks : g = job[f].task /\ pc[g] = "new" /\ g # f
    BY <1>1, <1>3 DEF Post, Jobs
  <2>2. pc' = [pc EXCEPT ![f] = "body", ![g] = "body"]
    BY <1>3, <2>1 DEF Post
  <2>3. \A h \in Callers : h # f => job'[h] = job[h]
    BY <1>1, <1>3 DEF Post, TypeOK
  <2>4. pc'[f] = "body" /\ pc'[g] = "body" /\ \A h \in Fibers : h # f /\ h # g => pc'[h] = pc[h]
    BY <1>1, <2>2 DEF TypeOK
  <2> QED BY <1>3, <2>1, <2>3, <2>4 DEF Post, Others, Goes, Sleeping
<1>4. CASE NotifyAll(f)
  <2>1. ASSUME NEW g \in Fibers, g # f
        PROVE  pc'[g] = pc[g] \/ (pc[g] \in Sleeping /\ pc'[g] \in {"check", "destroyCheck"})
    <3>1. pc'[g] = Woken(pc[g])
      BY <1>4, <2>1 DEF NotifyAll
    <3>2. CASE pc[g] = "asleep"
      BY <3>1, <3>2 DEF Woken, Sleeping
    <3>3. CASE pc[g] = "destroyAsleep"
      BY <3>1, <3>3 DEF Woken, Sleeping
    <3>4. CASE pc[g] # "asleep" /\ pc[g] # "destroyAsleep"
      <4>1. Woken(pc[g]) = pc[g]
        BY <3>4 DEF Woken
      <4> QED BY <3>1, <4>1
    <3> QED BY <3>2, <3>3, <3>4
  <2>2. pc'[f] \in {"threads", "end", "unhold"}
    BY <1>4 DEF NotifyAll, Tail
  <2>3. job' = job /\ current' = current
    BY <1>4 DEF NotifyAll
  <2> QED BY <2>1, <2>2, <2>3 DEF Others, Goes, Sleeping
<1>5. CASE NotifyParent(f)
  <2>2. f \in Tasks /\ parent[f] \in Callers /\ pc[f] = "notifyParent"
    BY <1>1, <1>5 DEF NotifyParent, Places, MainLabels, TypeOK
  <2>3. PICK p \in Callers : p = parent[f]
    BY <2>2
  <2>4. pc' = [pc EXCEPT ![p] = CASE @ = "syncAsleep" -> "sync"
                                  [] @ = "blockAsleep" -> "block"
                                  [] OTHER -> @,
                         ![f] = "end"]
    BY <1>5, <2>3 DEF NotifyParent
  <2>5. /\ pc'[f] = "end" /\ \A g \in Fibers : g # f /\ g # p => pc'[g] = pc[g]
        /\ p # f => pc'[p] = CASE pc[p] = "syncAsleep" -> "sync"
                               [] pc[p] = "blockAsleep" -> "block"
                               [] OTHER -> pc[p]
    BY <1>1, <2>2, <2>4 DEF TypeOK
  <2>6. ASSUME p # f
        PROVE  pc'[p] = pc[p] \/ (pc[p] \in Sleeping /\ pc'[p] \in {"sync", "block"})
    <3>1. CASE pc[p] = "syncAsleep"
      BY <2>5, <2>6, <3>1 DEF Sleeping
    <3>2. CASE pc[p] = "blockAsleep"
      BY <2>5, <2>6, <3>2 DEF Sleeping
    <3>3. CASE pc[p] # "syncAsleep" /\ pc[p] # "blockAsleep"
      <4>1. pc'[p] = pc[p]
        BY <2>5, <2>6, <3>3
      <4> QED BY <4>1
    <3> QED BY <3>1, <3>2, <3>3
  <2>7. \A g \in Fibers : g # f =>
          \/ pc'[g] = pc[g]
          \/ pc[g] \in Sleeping /\ pc'[g] \in {"sync", "block", "check", "destroyCheck"}
    <3> SUFFICES ASSUME NEW g \in Fibers, g # f
                 PROVE  \/ pc'[g] = pc[g]
                        \/ pc[g] \in Sleeping /\ pc'[g] \in {"sync", "block", "check", "destroyCheck"}
      OBVIOUS
    <3>1. CASE g = p
      BY <2>6, <3>1
    <3>2. CASE g # p
      BY <2>5, <3>2
    <3> QED BY <3>1, <3>2
  <2>8. job' = job /\ current' = current
    BY <1>5 DEF NotifyParent
  <2> QED BY <2>5, <2>7, <2>8 DEF Others, Goes, Sleeping
<1>6. CASE Hold(f) \/ Join(f) \/ CallBlock(f) \/ EndBody(f) \/ BlockPasses(f)
  BY <1>1, <1>6 DEF Hold, Join, CallBlock, EndBody, BlockPasses, TypeOK, Others, Goes, Sleeping
<1>7. CASE Finish(f) \/ Unhold(f) \/ Destroy(f) \/ JoinThreads(f)
  BY <1>1, <1>7 DEF Finish, Tail, Unhold, Destroy, JoinThreads, TypeOK, Others, Goes, Sleeping
<1>8. CASE Yield(t, f) \/ BlockWaits(t, f) \/ End(t, f) \/ DestroyWaits(t, f)
  BY <1>1, <1>8
     DEF Yield, BlockWaits, End, DestroyWaits, TypeOK, Others, Goes, Sleeping, Ending
<1> QED BY <1>2, <1>3, <1>4, <1>5, <1>6, <1>7, <1>8 DEF CallerStep

(* A dispatch hands the thread to the task, which was on none. *)
LEMMA DispatchMoves ==
    ASSUME IInv, Joins, Threaded, NEW t \in Threads, NEW f \in Callers, current[t] = f, Dispatch(t, f)
    PROVE  Others(f) /\ Threaded'
<1> USE Classes
<1>1. TypeOK /\ Places /\ Jobs
  BY DEF IInv
<1>2. PICK g \in Tasks : g = job[f].task /\ pc[g] = "new" /\ g # f
  BY <1>1 DEF Dispatch, Jobs
<1>3. pc' = [pc EXCEPT ![f] = "join", ![g] = "body"] /\ current' = [current EXCEPT ![t] = g]
      /\ job' = job
  BY <1>2 DEF Dispatch
<1>4. /\ pc'[f] = "join" /\ pc'[g] = "body" /\ \A h \in Fibers : h # f /\ h # g => pc'[h] = pc[h]
      /\ current'[t] = g /\ \A u \in Threads : u # t => current'[u] = current[u]
  BY <1>1, <1>2, <1>3 DEF TypeOK
<1>5. Others(f)
  BY <1>2, <1>3, <1>4 DEF Others
<1>6. \A u \in Threads : u # t => current[u] # f /\ current[u] # g
  BY <1>2 DEF Threaded
<1>7. \A h \in Fibers : pc'[h] \in Ending => \E u \in Threads : current'[u] = h
  BY <1>4 DEF Threaded, Ending
<1>8. ASSUME NEW u \in Threads, current'[u] \in Fibers
      PROVE  /\ pc'[current'[u]] \notin Sleeping \cup {"new", "done"}
             /\ pc'[current'[u]] = "join" => pc'[job'[current'[u]].task] = "done"
  <2>1. CASE u = t
    BY <1>4, <2>1 DEF Sleeping
  <2>2. CASE u # t
    <3>1. PICK h \in Fibers : h = current[u] /\ h = current'[u] /\ pc'[h] = pc[h]
      BY <1>4, <1>6, <1>8, <2>2
    <3>2. pc[h] \notin Sleeping \cup {"new", "done"}
      BY <1>8, <3>1 DEF Threaded
    <3>3. ASSUME pc[h] = "join" PROVE pc'[job[h].task] = "done"
      <4>1. h \in Callers
        BY <1>1, <3>3 DEF Places, WorkerLabels, Fibers
      <4>2. current[u] \in Fibers /\ pc[current[u]] = "join"
        BY <3>1, <3>3
      <4>3. pc[job[h].task] = "done" /\ job[h].task \in Tasks
        BY <3>1, <3>3, <4>1, <4>2 DEF Threaded, Joins
      <4>4. job[h].task # f /\ job[h].task # g
        BY <1>2, <4>3 DEF Dispatch
      <4> QED BY <1>4, <4>3, <4>4
    <3> QED BY <1>3, <3>1, <3>2, <3>3
  <2> QED BY <2>1, <2>2
<1>9. \A u, v \in Threads : current'[u] \in Fibers /\ current'[u] = current'[v] => u = v
  BY <1>4, <1>6 DEF Threaded
<1> QED BY <1>5, <1>7, <1>8, <1>9 DEF Threaded

(* Every step keeps threads and fibers together. *)
LEMMA ThreadedKeeps ==
    ASSUME IInv, Joins, Threaded, [Next]_vars
    PROVE  Threaded'
<1> USE Classes
<1>1. TypeOK /\ Places /\ OnThreads
  BY DEF IInv
<1>2. ASSUME NEW t \in Threads, NEW f \in Callers, current[t] = f, CallerStep(t, f)
      PROVE  Threaded'
  <2>1. CASE Dispatch(t, f)
    BY <1>2, <2>1, DispatchMoves
  <2>2. CASE ~Dispatch(t, f)
    <3>1. Others(f) /\ Goes(t, f)
      BY <1>2, <2>2, CallerMoves
    <3> QED BY <1>1, <1>2, <3>1, ThreadedFollows
  <2> QED BY <2>1, <2>2
<1>3. ASSUME NEW t \in Threads, NEW w \in Workers, current[t] = w, WorkerChecks(t, w)
      PROVE  Threaded'
  <2>1. /\ pc'[w] \in {"gone", "asleep"} /\ job' = job
        /\ \A g \in Fibers : g # w => pc'[g] = pc[g]
        /\ (current'[t] = w /\ pc'[w] = "gone") \/ current'[t] = NoFiber
        /\ \A u \in Threads : u # t => current'[u] = current[u]
    BY <1>1, <1>3 DEF WorkerChecks, Goto, Release, TypeOK
  <2>2. \A u \in Threads : u # t => current[u] # w
    BY <1>3 DEF Threaded
  <2>3. \A g \in Fibers : pc'[g] \in Ending => g # w
    BY <2>1 DEF Ending
  <2>4. \A g \in Fibers : pc'[g] \in Ending => \E u \in Threads : current'[u] = g
    BY <1>3, <2>1, <2>3 DEF Threaded
  <2>5. ASSUME NEW u \in Threads, current'[u] \in Fibers
        PROVE  /\ pc'[current'[u]] \notin Sleeping \cup {"new", "done"}
               /\ pc'[current'[u]] = "join" => pc'[job'[current'[u]].task] = "done"
    <3>1. CASE u = t
      BY <2>1, <2>5, <3>1 DEF Sleeping
    <3>2. CASE u # t
      <4>1. PICK g \in Fibers : g = current[u] /\ g = current'[u] /\ pc'[g] = pc[g]
        BY <2>1, <2>2, <2>5, <3>2
      <4>2. current[u] \in Fibers
        BY <4>1
      <4>3. /\ pc[g] \notin Sleeping \cup {"new", "done"}
            /\ pc[g] = "join" => pc[job[g].task] = "done"
        BY <4>1, <4>2 DEF Threaded
      <4>4. ASSUME pc[g] = "join" PROVE job[g].task \in Fibers /\ job[g].task # w
        BY <1>1, <4>4 DEF Joins, Places, WorkerLabels, Fibers
      <4> QED BY <2>1, <4>1, <4>3, <4>4
    <3> QED BY <3>1, <3>2
  <2>6. \A u, v \in Threads : current'[u] \in Fibers /\ current'[u] = current'[v] => u = v
    BY <2>1, <2>2 DEF Threaded
  <2> QED BY <2>4, <2>5, <2>6 DEF Threaded
<1>4. ASSUME NEW t \in Threads, NEW f \in Fibers, Pick(t, f)
      PROVE  Threaded'
  <2>1. /\ current[t] = NoFiber /\ Ready(f) /\ pc' = pc /\ job' = job
        /\ current'[t] = f /\ \A u \in Threads : u # t => current'[u] = current[u]
    BY <1>1, <1>4 DEF Pick, TypeOK
  <2>2. /\ pc[f] \notin Sleeping \cup {"new", "done"}
        /\ pc[f] = "join" => pc[job[f].task] = "done"
        /\ \A u \in Threads : current[u] # f
    BY <2>1 DEF Ready, Sleeping
  <2>3. \A g \in Fibers : pc'[g] \in Ending => \E u \in Threads : current'[u] = g
    BY <2>1 DEF Threaded
  <2>4. ASSUME NEW u \in Threads, current'[u] \in Fibers
        PROVE  /\ pc'[current'[u]] \notin Sleeping \cup {"new", "done"}
               /\ pc'[current'[u]] = "join" => pc'[job'[current'[u]].task] = "done"
    <3>1. CASE u = t
      BY <2>1, <2>2, <3>1
    <3>2. CASE u # t
      BY <2>1, <2>4, <3>2 DEF Threaded
    <3> QED BY <3>1, <3>2
  <2>5. \A u, v \in Threads : current'[u] \in Fibers /\ current'[u] = current'[v] => u = v
    BY <2>1, <2>2 DEF Threaded
  <2> QED BY <2>3, <2>4, <2>5 DEF Threaded
<1>5. CASE UNCHANGED vars
  BY <1>5 DEF vars, Threaded
<1> QED BY <1>2, <1>3, <1>4, <1>5 DEF Next, Step, Destroyed

(* A dispatched task goes on holding its launcher until it is joined. *)
LEMMA JoinsKeeps ==
    ASSUME IInv, Joins, Threaded, [Next]_vars
    PROVE  Joins'
<1> USE Classes
<1>1. TypeOK /\ Places /\ Jobs
  BY DEF IInv
<1>2. ASSUME NEW t \in Threads, NEW f \in Callers, current[t] = f,
             NEW g \in Tasks, NEW p \in {f, NoFiber}, NEW how \in {"post", "dispatch"},
             AddTask(f, g, p, how)
      PROVE  Joins'
  <2>1. /\ f # g /\ pc[g] = "new" /\ (how = "dispatch" => p = f)
        /\ \A h \in Callers : job[h].task # g
    BY <1>2 DEF AddTask
  <2>2. /\ \A h \in Fibers : h # f => pc'[h] = pc[h]
        /\ pc'[f] \in {"hold", "launch"}
        /\ \A h \in Callers : h # f => job'[h] = job[h]
        /\ job'[f].task = g /\ job'[f].how = how
        /\ \A h \in Tasks : h # g => parent'[h] = parent[h]
        /\ parent'[g] = p
    BY <1>1, <1>2 DEF AddTask, Goto, TypeOK
  <2>3. \A h \in Callers : h # f /\ pc[h] \in {"hold", "launch", "join"} =>
          job[h].task \in Tasks \ {g}
    BY <1>1, <2>1 DEF Joins, Jobs
  <2>4. ASSUME NEW h \in Callers, h # f
        PROVE  /\ pc'[h] = "join" => /\ job'[h].task \in Tasks /\ pc'[job'[h].task] # "new"
                                     /\ parent'[job'[h].task] = h
               /\ pc'[h] \in {"hold", "launch"} /\ job'[h].how = "dispatch"
                    => parent'[job'[h].task] = h
    BY <2>2, <2>3, <2>4 DEF Joins
  <2> QED BY <2>1, <2>2, <2>4 DEF Joins
<1>3. ASSUME NEW t \in Threads, NEW f \in Callers, current[t] = f, Dispatch(t, f)
      PROVE  Joins'
  <2>1. Others(f) /\ pc'[f] = "join" /\ UNCHANGED <<parent, job>>
    BY <1>1, <1>3, DispatchMoves DEF Dispatch, TypeOK, Jobs
  <2>2. job[f].task \in Tasks /\ parent[job[f].task] = f /\ pc'[job[f].task] # "new"
    <3>1. job[f].task \in Tasks /\ parent[job[f].task] = f /\ job[f].task # f
      BY <1>1, <1>3 DEF Dispatch, Jobs, Joins
    <3>2. PICK g \in Tasks : g = job[f].task
      BY <3>1
    <3>3. pc' = [pc EXCEPT ![f] = "join", ![g] = "body"]
      BY <1>3, <3>2 DEF Dispatch
    <3> QED BY <1>1, <3>1, <3>2, <3>3 DEF TypeOK
  <2>3. \A h \in Fibers : pc[h] # "new" => pc'[h] # "new"
    BY <2>1 DEF Others
  <2> QED BY <2>1, <2>2, <2>3 DEF Joins, Others, Sleeping
<1>4. ASSUME NEW t \in Threads, NEW f \in Callers, current[t] = f, CallerStep(t, f),
             ~Dispatch(t, f),
             \A g \in Tasks, p \in {f, NoFiber}, how \in {"post", "dispatch"} : ~AddTask(f, g, p, how)
      PROVE  Joins'
  <2>1. Others(f) /\ Goes(t, f)
    BY <1>4, CallerMoves
  <2>2. parent' = parent
    BY <1>4 DEF CallerStep, Hold, Post, Join, Yield, CallBlock, EndBody, BlockPasses, BlockWaits,
       Finish, NotifyAll, Unhold, NotifyParent, End, Destroy, DestroyWaits, JoinThreads
  <2>3. pc'[f] # "join"
    BY <1>1, <1>4
       DEF CallerStep, Hold, Post, Join, Yield, CallBlock, EndBody, BlockPasses, BlockWaits,
       Finish, NotifyAll, Unhold, NotifyParent, End, Destroy, DestroyWaits, JoinThreads,
       Goto, TypeOK, Tail
  <2>4. pc'[f] \in {"hold", "launch"} => pc[f] = "hold" /\ job'[f] = job[f]
    BY <1>1, <1>4
       DEF CallerStep, Hold, Post, Join, Yield, CallBlock, EndBody, BlockPasses, BlockWaits,
       Finish, NotifyAll, Unhold, NotifyParent, End, Destroy, DestroyWaits, JoinThreads,
       Goto, TypeOK, Tail
  <2>5. \A h \in Fibers : pc[h] # "new" => pc'[h] # "new"
    BY <2>1 DEF Others
  <2> QED BY <2>1, <2>2, <2>3, <2>4, <2>5 DEF Joins, Others, Sleeping
<1>5. ASSUME NEW t \in Threads, NEW w \in Workers, current[t] = w, WorkerChecks(t, w)
      PROVE  Joins'
  <2>1. \A h \in Fibers : h # w => pc'[h] = pc[h]
    BY <1>1, <1>5 DEF WorkerChecks, Goto, TypeOK
  <2>2. parent' = parent /\ job' = job
    BY <1>5 DEF WorkerChecks
  <2> QED BY <2>1, <2>2 DEF Joins
<1>6. ASSUME NEW t \in Threads, NEW f \in Fibers, Pick(t, f)
      PROVE  Joins'
  BY <1>6 DEF Pick, Joins
<1>7. CASE UNCHANGED vars
  BY <1>7 DEF vars, Joins
<1> QED BY <1>2, <1>3, <1>4, <1>5, <1>6, <1>7 DEF Next, Step, Destroyed

(* Every step of a caller changes the others as Others says. *)
LEMMA CallerOthers ==
    ASSUME IInv, Joins, Threaded, NEW t \in Threads, NEW f \in Callers, current[t] = f,
           CallerStep(t, f)
    PROVE  Others(f)
BY CallerMoves, DispatchMoves

(* A fiber falls asleep in Block only while it holds a task, and the task   *)
(* that it holds last wakes it.                                             *)
LEMMA BlockSleepersKeeps ==
    ASSUME IInv, Joins, Threaded, BlockSleepers, [Next]_vars
    PROVE  BlockSleepers'
<1> USE Classes
<1>1. TypeOK /\ Places
  BY DEF IInv
<1> DEFINE Asleep == {"syncAsleep", "blockAsleep"}
<1>2. ASSUME NEW t \in Threads, NEW f \in Callers, current[t] = f, CallerStep(t, f)
      PROVE  BlockSleepers'
  <2>1. Others(f)
    BY <1>2, CallerOthers
  <2>2. \A h \in Callers : h # f /\ pc'[h] \in Asleep => pc[h] = pc'[h]
    BY <2>1 DEF Others, Sleeping
  <2>3. \A g \in Tasks : g # f /\ pc[g] = "notifyParent" => pc'[g] = "notifyParent"
    BY <2>1 DEF Others, Sleeping
  <2>4. CASE Unhold(f)
    <3>1. PICK p \in Callers : p = parent[f] /\ f \in Tasks /\ p # NoFiber
      BY <1>1, <2>4 DEF Unhold, Places, MainLabels, TypeOK
    <3>2. /\ count' = [count EXCEPT ![p] = @ - 1] /\ parent' = parent
          /\ count'[p] = 0 => pc'[f] = "notifyParent"
      BY <1>1, <2>4, <3>1 DEF Unhold, Goto, TypeOK
    <3>3. \A h \in Callers : h # p => count'[h] = count[h]
      BY <1>1, <3>2 DEF TypeOK
    <3>4. pc[f] = "unhold" /\ pc'[f] \notin Asleep
      BY <1>1, <2>4 DEF Unhold, Goto, TypeOK
    <3>5. ASSUME NEW h \in Callers, pc'[h] \in Asleep
          PROVE  count'[h] # 0 \/ \E g \in Tasks : parent'[g] = h /\ pc'[g] = "notifyParent"
      <4>1. h # f /\ pc[h] \in Asleep
        BY <2>2, <3>4, <3>5
      <4>2. CASE h = p
        BY <3>1, <3>2, <4>2
      <4>3. CASE h # p /\ count[h] # 0
        BY <3>3, <4>3
      <4>4. CASE h # p /\ count[h] = 0
        BY <2>3, <3>2, <3>4, <4>1, <4>4 DEF BlockSleepers
      <4> QED BY <4>2, <4>3, <4>4
    <3> QED BY <3>5 DEF BlockSleepers
  <2>5. CASE NotifyParent(f)
    <3>1. PICK p \in Callers : p = parent[f] /\ f \in Tasks
      BY <1>1, <2>5 DEF NotifyParent, Places, MainLabels, TypeOK
    <3>2. pc' = [pc EXCEPT ![p] = CASE @ = "syncAsleep" -> "sync"
                                    [] @ = "blockAsleep" -> "block"
                                    [] OTHER -> @,
                           ![f] = "end"]
      BY <2>5, <3>1 DEF NotifyParent
    <3>3. /\ pc'[f] = "end" /\ count' = count /\ parent' = parent
          /\ p # f => pc'[p] = CASE pc[p] = "syncAsleep" -> "sync"
                                 [] pc[p] = "blockAsleep" -> "block"
                                 [] OTHER -> pc[p]
      BY <1>1, <2>5, <3>1, <3>2 DEF NotifyParent, TypeOK
    <3>4. pc'[p] \notin Asleep
      <4>1. CASE p = f
        BY <3>3, <4>1
      <4>2. CASE p # f /\ pc[p] = "syncAsleep"
        BY <3>3, <4>2
      <4>3. CASE p # f /\ pc[p] = "blockAsleep"
        BY <3>3, <4>3
      <4>4. CASE p # f /\ pc[p] \notin Asleep
        <5>1. pc'[p] = pc[p]
          BY <3>3, <4>4
        <5> QED BY <4>4, <5>1
      <4> QED BY <4>1, <4>2, <4>3, <4>4
    <3> QED BY <2>2, <2>3, <3>1, <3>3, <3>4 DEF BlockSleepers
  <2>6. CASE ~Unhold(f) /\ ~NotifyParent(f)
    <3>1. /\ pc[f] # "notifyParent"
          /\ \A h \in Callers : count[h] # 0 => count'[h] # 0
          /\ pc'[f] \in Asleep => count'[f] # 0
      BY <1>1, <1>2, <2>6
         DEF CallerStep, AddTask, Hold, Post, Join, Dispatch, Yield, CallBlock, EndBody, BlockPasses,
         BlockWaits, Finish, NotifyAll, End, Destroy, DestroyWaits, JoinThreads,
         Goto, TypeOK, Tail
    <3>2. \A g \in Tasks : pc[g] # "new" => parent'[g] = parent[g]
      BY <1>1, <1>2, <2>6
         DEF CallerStep, AddTask, Hold, Post, Join, Dispatch, Yield, CallBlock, EndBody, BlockPasses,
         BlockWaits, Finish, NotifyAll, End, Destroy, DestroyWaits, JoinThreads, TypeOK
    <3> QED BY <2>2, <2>3, <3>1, <3>2 DEF BlockSleepers
  <2> QED BY <2>4, <2>5, <2>6
<1>3. ASSUME NEW t \in Threads, NEW w \in Workers, current[t] = w, WorkerChecks(t, w)
      PROVE  BlockSleepers'
  <2>1. \A h \in Fibers : h # w => pc'[h] = pc[h]
    BY <1>1, <1>3 DEF WorkerChecks, Goto, TypeOK
  <2>2. parent' = parent /\ count' = count
    BY <1>3 DEF WorkerChecks
  <2> QED BY <2>1, <2>2 DEF BlockSleepers
<1>4. ASSUME NEW t \in Threads, NEW f \in Fibers, Pick(t, f)
      PROVE  BlockSleepers'
  BY <1>4 DEF Pick, BlockSleepers
<1>5. CASE UNCHANGED vars
  BY <1>5 DEF vars, BlockSleepers
<1> QED BY <1>2, <1>3, <1>4, <1>5 DEF Next, Step, Destroyed

(* Who waits for the end sleeps while it is not reached, and who reaches it *)
(* notifies all.                                                            *)
LEMMA EndSleepersKeeps ==
    ASSUME IInv, Joins, Threaded, EndSleepers, [Next]_vars
    PROVE  EndSleepers'
<1> USE Classes
<1>1. TypeOK /\ Places
  BY DEF IInv
<1> DEFINE Asleep == {"asleep", "destroyAsleep"}
<1>2. ASSUME NEW t \in Threads, NEW f \in Callers, current[t] = f, CallerStep(t, f)
      PROVE  EndSleepers'
  <2>1. Others(f)
    BY <1>2, CallerOthers
  <2>2. \A h \in Fibers : h # f /\ pc'[h] \in Asleep => pc[h] = pc'[h]
    BY <2>1 DEF Others, Sleeping
  <2>3. \A g \in Callers : g # f /\ pc[g] = "notifyAll" => pc'[g] = "notifyAll"
    BY <2>1 DEF Others, Sleeping
  <2>4. CASE NotifyAll(f)
    <3>1. ASSUME NEW h \in Fibers PROVE pc'[h] \notin Asleep
      <4>1. CASE h = f
        BY <2>4, <4>1 DEF NotifyAll, Tail
      <4>2. CASE h # f
        <5>1. pc'[h] = Woken(pc[h])
          BY <2>4, <4>2 DEF NotifyAll
        <5>2. CASE pc[h] = "asleep"
          BY <5>1, <5>2 DEF Woken
        <5>3. CASE pc[h] = "destroyAsleep"
          BY <5>1, <5>3 DEF Woken
        <5>4. CASE pc[h] \notin Asleep
          <6>1. Woken(pc[h]) = pc[h]
            BY <5>4 DEF Woken
          <6> QED BY <5>1, <5>4, <6>1
        <5> QED BY <5>2, <5>3, <5>4
      <4> QED BY <4>1, <4>2
    <3> QED BY <3>1 DEF EndSleepers
  <2>5. CASE Finish(f) \/ Destroy(f)
    <3>1. (fiberCount' = 0 => pc'[f] = "notifyAll") /\ pc[f] # "notifyAll" /\ pc'[f] \notin Asleep
      BY <1>1, <2>5 DEF Finish, Destroy, Goto, TypeOK, Tail
    <3> QED BY <2>2, <2>3, <3>1 DEF EndSleepers, Over
  <2>6. CASE DestroyWaits(t, f)
    <3>1. /\ pc'[f] \in Asleep => ~Over
          /\ pc[f] # "notifyAll" /\ (Over' <=> Over)
      BY <1>1, <2>6 DEF DestroyWaits, Goto, TypeOK, Over
    <3> QED BY <2>2, <2>3, <3>1 DEF EndSleepers
  <2>7. CASE ~NotifyAll(f) /\ ~Finish(f) /\ ~Destroy(f) /\ ~DestroyWaits(t, f)
    <3>1. /\ pc[f] # "notifyAll" /\ pc'[f] \notin Asleep
          /\ fiberCount' \in {fiberCount, fiberCount + 1} /\ shouldRun' = shouldRun
      BY <1>1, <1>2, <2>7
         DEF CallerStep, AddTask, Hold, Post, Join, Dispatch, Yield, CallBlock, EndBody, BlockPasses,
         BlockWaits, Unhold, NotifyParent, End, JoinThreads, Goto, TypeOK
    <3>2. ~Over => ~Over'
      BY <1>1, <3>1 DEF Over, TypeOK
    <3> QED BY <2>2, <2>3, <3>1, <3>2 DEF EndSleepers
  <2> QED BY <2>4, <2>5, <2>6, <2>7
<1>3. ASSUME NEW t \in Threads, NEW w \in Workers, current[t] = w, WorkerChecks(t, w)
      PROVE  EndSleepers'
  <2>1. \A h \in Fibers : h # w => pc'[h] = pc[h]
    BY <1>1, <1>3 DEF WorkerChecks, Goto, TypeOK
  <2>2. (Over' <=> Over) /\ (pc'[w] \in Asleep => ~Over)
    BY <1>1, <1>3 DEF WorkerChecks, Over, Goto, TypeOK
  <2> QED BY <2>1, <2>2 DEF EndSleepers
<1>4. ASSUME NEW t \in Threads, NEW f \in Fibers, Pick(t, f)
      PROVE  EndSleepers'
  BY <1>4 DEF Pick, EndSleepers, Over
<1>5. CASE UNCHANGED vars
  BY <1>5 DEF vars, EndSleepers, Over
<1> QED BY <1>2, <1>3, <1>4, <1>5 DEF Next, Step, Destroyed

(* A task gets its launcher when nothing holds for it yet. *)
LEMMA ForestKeeps ==
    ASSUME IInv, Joins, Threaded, Forest, [Next]_vars
    PROVE  Forest'
<1> USE Classes
<1>1. TypeOK /\ Places
  BY DEF IInv
<1>2. ASSUME NEW t \in Threads, NEW f \in Callers, current[t] = f,
             NEW g \in Tasks, NEW p \in {f, NoFiber}, NEW how \in {"post", "dispatch"},
             AddTask(f, g, p, how)
      PROVE  Forest'
  <2>1. /\ pc[g] = "new" /\ f # g
        /\ parent'[g] = p /\ \A h \in Tasks : h # g => parent'[h] = parent[h]
        /\ \A h \in Fibers : pc'[h] = "new" <=> pc[h] = "new"
        /\ pc[f] # "new"
    BY <1>1, <1>2 DEF AddTask, Goto, TypeOK
  <2>2. \A h \in Tasks : parent'[h] # g
    BY <2>1 DEF Forest
  <2>3. ASSUME NEW S \in SUBSET Tasks, S # {}
        PROVE  \E x \in S : \A h \in S : parent'[h] # x
    <3>1. CASE g \in S
      BY <2>2, <3>1
    <3>2. CASE g \notin S
      BY <2>1, <2>3, <3>2 DEF Forest
    <3> QED BY <3>1, <3>2
  <2>4. \A h \in Tasks : parent'[h] \in Tasks => pc'[parent'[h]] # "new"
    BY <2>1 DEF Forest
  <2> QED BY <2>3, <2>4 DEF Forest
<1>3. ASSUME parent' = parent, \A g \in Fibers : pc[g] # "new" => pc'[g] # "new"
      PROVE  Forest'
  BY <1>3 DEF Forest
<1>4. ASSUME NEW t \in Threads, NEW f \in Callers, current[t] = f, CallerStep(t, f),
             \A g \in Tasks, p \in {f, NoFiber}, how \in {"post", "dispatch"} : ~AddTask(f, g, p, how)
      PROVE  Forest'
  <2>1. parent' = parent
    BY <1>4
       DEF CallerStep, Hold, Post, Join, Dispatch, Yield, CallBlock, EndBody, BlockPasses,
       BlockWaits, Finish, NotifyAll, Unhold, NotifyParent, End, Destroy, DestroyWaits, JoinThreads
  <2>2. Others(f)
    BY <1>4, CallerOthers
  <2>3. \A g \in Fibers : pc[g] # "new" => pc'[g] # "new"
    BY <2>2 DEF Others
  <2> QED BY <1>3, <2>1, <2>3
<1>5. ASSUME NEW t \in Threads, NEW w \in Workers, current[t] = w, WorkerChecks(t, w)
      PROVE  Forest'
  BY <1>1, <1>3, <1>5 DEF WorkerChecks, Goto, TypeOK
<1>6. ASSUME NEW t \in Threads, NEW f \in Fibers, Pick(t, f)
      PROVE  Forest'
  BY <1>3, <1>6 DEF Pick
<1>7. CASE UNCHANGED vars
  BY <1>3, <1>7 DEF vars
<1> QED BY <1>2, <1>4, <1>5, <1>6, <1>7 DEF Next, Step, Destroyed

LEMMA InitProgress ==
    ASSUME Init
    PROVE  Progress
<1> USE Classes
<1>1. /\ \A f \in Fibers : pc[f] \in {"body", "new", "check"}
      /\ \A f \in Tasks : pc[f] = "new" /\ parent[f] = NoFiber
      /\ current \in [Threads -> Fibers]
      /\ current[MainThread] = MainFiber
      /\ pc[MainFiber] = "body" /\ \A w \in Workers : current[w] = w /\ pc[w] = "check"
  BY DEF Init, Workers
<1>2. \A t \in Threads : t = MainThread \/ t \in Workers
  BY DEF Workers
<1>3. Threaded
  BY <1>1, <1>2 DEF Threaded, Ending, Sleeping
<1>4. Joins /\ BlockSleepers /\ EndSleepers
  BY <1>1 DEF Joins, BlockSleepers, EndSleepers
<1>5. Forest
  BY <1>1 DEF Forest
<1> QED BY <1>3, <1>4, <1>5 DEF Progress

(* At every step of the program each fiber that waits has somebody to wait  *)
(* for: a task it holds, the task it dispatched, or a notification on its   *)
(* way (Threaded, Joins, BlockSleepers, EndSleepers and Forest).            *)
THEOREM WaitersHaveCause == Spec => []Progress
<1>1. Init => Progress
  BY InitProgress
<1>2. IInv /\ Progress /\ [Next]_vars => Progress'
  BY ThreadedKeeps, JoinsKeeps, BlockSleepersKeeps, EndSleepersKeeps, ForestKeeps DEF Progress
<1> QED BY <1>1, <1>2, Inductive, PTL DEF Spec

(* A fiber in Block, or in the launch of a task it dispatched. *)
Waits(f) ==
    \/ pc[f] \in {"syncAsleep", "blockAsleep"}
    \/ pc[f] = "join" /\ pc[job[f].task] # "done"

(* Where every fiber waits for another one, none of them can be stuck: the  *)
(* tasks that wait would each hold another, and Forest forbids a circle.    *)
LEMMA ProgressMoves ==
    ASSUME IInv, Progress, pc[MainFiber] # "destroyed", \A t \in Threads : ~CanStep(t)
    PROVE  FALSE
<1> USE Classes
<1>1. TypeOK /\ Places /\ Jobs /\ Counts /\ Destruction /\ OnThreads
  BY DEF IInv
<1>2. Threaded /\ Joins /\ BlockSleepers /\ EndSleepers /\ Forest
  BY DEF Progress
<1>3. ASSUME NEW t \in Threads, current[t] \in Fibers
      PROVE  pc[current[t]] \in {"gone", "threads"}
  <2>1. ~HasStep(current[t])
    BY <1>3 DEF CanStep
  <2>2. /\ pc[current[t]] \notin Sleeping \cup {"new", "done"}
        /\ pc[current[t]] = "join" => pc[job[current[t]].task] = "done"
    BY <1>2, <1>3 DEF Threaded
  <2>3. pc[current[t]] # "destroyed"
    BY <1>1, <1>3 DEF Places, TaskLabels, WorkerLabels, Fibers
  <2> QED BY <2>1, <2>2, <2>3 DEF HasStep, Stopped, Sleeping
<1>4. \A g \in Callers : pc[g] \notin Ending
  BY <1>2, <1>3 DEF Threaded, Ending
<1>5. CASE pc[MainFiber] = "threads"
  <2>1. PICK w \in Workers : pc[w] # "gone"
    <3>1. current[MainThread] = MainFiber
      BY <1>1, <1>5 DEF OnThreads
    <3> QED BY <1>5, <3>1 DEF CanStep, HasStep, Stopped
  <2>2. pc[w] = "check"
    <3>1. Over
      BY <1>1, <1>5 DEF Destruction, Over
    <3>2. pc[w] # "asleep"
      BY <1>2, <1>4, <3>1 DEF EndSleepers, Ending
    <3> QED BY <1>1, <2>1, <3>2 DEF Places, WorkerLabels
  <2>3. current[w] = NoFiber
    <3>1. current[w] # w
      BY <1>3, <2>2
    <3>2. current[w] \notin Workers
      BY <1>1, <3>1 DEF OnThreads
    <3>3. current[w] \notin Callers
      <4>1. current[w] # MainFiber
        BY <1>1 DEF OnThreads
      <4>2. current[w] \notin Tasks
        BY <1>1, <1>3 DEF Places, TaskLabels
      <4> QED BY <4>1, <4>2
    <3> QED BY <1>1, <3>2, <3>3 DEF TypeOK, Fibers
  <2>4. \A t \in Threads : current[t] # w
    BY <1>1, <2>3 DEF OnThreads
  <2>5. Ready(w) /\ HasStep(w)
    BY <2>2, <2>4 DEF Ready, HasStep, Stopped
  <2> QED BY <2>3, <2>5 DEF CanStep
<1>6. CASE pc[MainFiber] # "threads"
  <2>1. \A t \in Threads : current[t] \notin Callers
    <3>1. \A f \in Callers : f \in Fibers /\ pc[f] \notin {"gone", "threads"}
      BY <1>1, <1>6 DEF Places, TaskLabels, MainLabels
    <3> QED BY <1>3, <3>1
  <2>2. current[MainThread] = NoFiber
    <3>1. current[MainThread] \notin Workers
      BY <1>1 DEF OnThreads
    <3> QED BY <1>1, <2>1, <3>1 DEF TypeOK, Fibers
  <2>3. ASSUME NEW f \in Callers PROVE pc[f] \in {"new", "done", "destroyAsleep"} \/ Waits(f)
    <3>1. ~(Ready(f) /\ HasStep(f))
      BY <2>2 DEF CanStep
    <3>2. pc[f] \notin {"asleep", "gone", "threads", "destroyed"}
      BY <1>1, <1>6 DEF Places, TaskLabels, MainLabels
    <3> QED BY <2>1, <3>1, <3>2 DEF Ready, HasStep, Stopped, Waits
  <2>4. ASSUME NEW g \in Tasks, pc[g] \in Unfinished \cup {"notifyAll", "unhold"}
        PROVE  Waits(g)
    BY <2>3, <2>4 DEF Unfinished
  <2>5. ASSUME NEW f \in Callers, Waits(f)
        PROVE  \E g \in Tasks : parent[g] = f /\ Waits(g)
    <3>1. CASE pc[f] = "join"
      <4>1. PICK g \in Tasks : g = job[f].task /\ parent[g] = f /\ pc[g] # "new" /\ pc[g] # "done"
        BY <1>2, <2>5, <3>1 DEF Joins, Waits
      <4>2. pc[g] # "destroyAsleep"
        BY <1>1 DEF Places, TaskLabels
      <4> QED BY <2>3, <4>1, <4>2
    <3>2. CASE pc[f] \in {"syncAsleep", "blockAsleep"}
      <4>1. count[f] # 0
        BY <1>2, <1>4, <3>2 DEF BlockSleepers, Ending
      <4>2. PICK g \in Holding(f) : TRUE
        BY <1>1, <4>1, FS_EmptySet DEF Counts
      <4>3. g \in Tasks /\ parent[g] = f /\ pc[g] \in Unfinished \cup {"notifyAll", "unhold"}
        BY <3>2, <4>2 DEF Holding
      <4> QED BY <2>4, <4>3
    <3> QED BY <2>5, <3>1, <3>2 DEF Waits
  <2>6. \E g \in Tasks : Waits(g)
    <3>1. CASE Waits(MainFiber)
      BY <2>5, <3>1
    <3>2. CASE pc[MainFiber] = "destroyAsleep"
      <4>1. ~Over
        BY <1>2, <1>4, <3>2 DEF EndSleepers, Ending
      <4>2. fiberCount # 0 /\ ~shouldRun
        BY <1>1, <3>2, <4>1 DEF Over, Destruction
      <4>3. fiberCount = Cardinality({f \in Tasks : Working(f)})
        BY <1>1, <4>2, FiniteCounts DEF Counts, Working_
      <4>4. PICK g \in {f \in Tasks : Working(f)} : TRUE
        BY <4>2, <4>3, FS_EmptySet
      <4>5. ~Launching(g)
        BY <2>3 DEF Launching, Waits
      <4> QED BY <2>4, <4>4, <4>5 DEF Working
    <3>3. pc[MainFiber] \notin {"new", "done"}
      BY <1>1 DEF Places, MainLabels
    <3> QED BY <2>3, <3>1, <3>2, <3>3
  <2>7. PICK f \in {g \in Tasks : Waits(g)} : \A h \in {g \in Tasks : Waits(g)} : parent[h] # f
    BY <1>2, <2>6 DEF Forest
  <2> QED BY <2>5, <2>7
<1> QED BY <1>5, <1>6

(* Until the scheduler is destroyed some thread can go on: tasks, the      *)
(* destructor and the worker threads never all wait (NobodyStuck).          *)
THEOREM NobodyIsStuck == Spec => []NobodyStuck
<1>1. IInv /\ Progress => NobodyStuck
  BY ProgressMoves DEF NobodyStuck
<1> QED BY <1>1, Inductive, WaitersHaveCause, PTL
=============================================================================
