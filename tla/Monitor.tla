------------------------------- MODULE Monitor -------------------------------
(***************************************************************************)
(* What a QLock and a Rendez guarded by it promise (lock(3)): at most one  *)
(* thread is inside; rsleep releases the lock and suspends the thread in   *)
(* one step; rwakeup, called inside, wakes one sleeper if there is one,    *)
(* and rwakeupall all of them; a woken thread has to get inside again.     *)
(***************************************************************************)
EXTENDS FiniteSets

CONSTANT Threads

VARIABLES inside,       \* the threads that hold the lock
          sleeping      \* the threads asleep at the rendezvous point

vars == <<inside, sleeping>>

Init == inside = {} /\ sleeping = {}

Enter(t) ==
    /\ inside = {}
    /\ t \notin sleeping
    /\ inside' = {t}
    /\ UNCHANGED sleeping

Leave(t) ==
    /\ t \in inside
    /\ inside' = inside \ {t}
    /\ UNCHANGED sleeping

Sleep(t) ==
    /\ t \in inside
    /\ inside' = inside \ {t}
    /\ sleeping' = sleeping \cup {t}

WakeOne(t) ==
    /\ t \in inside
    /\ \E u \in sleeping : sleeping' = sleeping \ {u}
    /\ UNCHANGED inside

WakeAll(t) ==
    /\ t \in inside
    /\ sleeping' = {}
    /\ UNCHANGED inside

Next == \E t \in Threads :
            Enter(t) \/ Leave(t) \/ Sleep(t) \/ WakeOne(t) \/ WakeAll(t)

Spec == Init /\ [][Next]_vars
=============================================================================
