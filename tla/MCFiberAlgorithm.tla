-------------------------- MODULE MCFiberAlgorithm --------------------------
(* Small instances of FiberAlgorithm for the model checker. *)
EXTENDS FiberAlgorithm

CONSTANTS t1, t2, t3, main, a, b, c

OneThread == {t1}
TwoThreads == {t1, t2}
ThreeThreads == {t1, t2, t3}

OneTask == {main, a}
TwoTasks == {main, a, b}
ThreeTasks == {main, a, b, c}

NoPollers == {}
TwoPollers == {main, a}

\* The launches of ForEachThread(UX), of default tasks and of shared LOW tasks.
UsualParameters == {<<UX, t2>>, <<HIGH, AnyThread>>, <<LOW, AnyThread>>}
\* Tasks of default priority that require a thread.
HighBound == {<<HIGH, t1>>, <<HIGH, t2>>}
SharedUX == {<<UX, AnyThread>>}
=============================================================================
