------------------------------ MODULE ForkJoin ------------------------------
(***************************************************************************)
(* What the scheduler promises of tasks: a task is over only after every   *)
(* task it launched with shouldBlock_, and the scheduler stops only when   *)
(* every launched task is over.                                            *)
(***************************************************************************)
CONSTANTS Tasks, MainFiber, NoFiber

VARIABLES
    state,     \* "new", "running" or "over", for each task
    parent,    \* the fiber that waits for the task, or NoFiber
    stopped    \* the scheduler is destroyed

vars == <<state, parent, stopped>>

Init ==
    /\ state = [f \in Tasks |-> "new"]
    /\ parent = [f \in Tasks |-> NoFiber]
    /\ stopped = FALSE

Launch(f, p) ==
    /\ ~stopped /\ state[f] = "new"
    /\ p \in Tasks => state[p] = "running"
    /\ state' = [state EXCEPT ![f] = "running"]
    /\ parent' = [parent EXCEPT ![f] = p]
    /\ UNCHANGED stopped

End(f) ==
    /\ state[f] = "running"
    /\ \A g \in Tasks : parent[g] = f => state[g] = "over"
    /\ state' = [state EXCEPT ![f] = "over"]
    /\ UNCHANGED <<parent, stopped>>

Stop ==
    /\ ~stopped
    /\ \A f \in Tasks : state[f] # "running"
    /\ stopped' = TRUE
    /\ UNCHANGED <<state, parent>>

Next ==
    \/ \E f \in Tasks : \E p \in Tasks \cup {MainFiber, NoFiber} : Launch(f, p)
    \/ \E f \in Tasks : End(f)
    \/ Stop

Spec == Init /\ [][Next]_vars
=============================================================================
