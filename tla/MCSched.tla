------------------------------- MODULE MCSched -------------------------------
(* Sched with two procs and three threads, for TLC.                          *)
EXTENDS Sched
CONSTANTS p1, p2, t1, t2, t3
TwoProcs == {p1, p2}
ThreeThreads == {t1, t2, t3}
=============================================================================
