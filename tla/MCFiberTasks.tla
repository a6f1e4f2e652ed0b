---------------------------- MODULE MCFiberTasks ----------------------------
(* Small instances of FiberTasks for the model checker. *)
EXTENDS FiberTasks

CONSTANTS t1, t2, a, b, c

TwoThreads == {t1, t2}
TwoTasks == {a, b}
ThreeTasks == {a, b, c}
=============================================================================
