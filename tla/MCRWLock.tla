------------------------------ MODULE MCRWLock ------------------------------
(* RWLock with four threads: enough for a reader and a writer inside or     *)
(* readying, with a reader and a writer queued behind them.                 *)
EXTENDS RWLock
CONSTANTS t1, t2, t3, t4
FourThreads == {t1, t2, t3, t4}
=============================================================================
