------------------------------ MODULE MCQLock ------------------------------
(* QLock with three threads: an owner, a thread queued on the lock and one   *)
(* asleep at the rendezvous point, in every combination.                     *)
EXTENDS QLock
CONSTANTS t1, t2, t3, t4
ThreeThreads == {t1, t2, t3}
FourThreads == {t1, t2, t3, t4}
=============================================================================
