----------------------------- MODULE Coroutines -----------------------------
(***************************************************************************)
(* What libthread's scheduler promises to the locks and channels built on  *)
(* it: a thread that calls _threadswitch returns from it after somebody    *)
(* readied it, once for each time it was readied, and while a thread runs  *)
(* no other thread of its proc does.                                       *)
(***************************************************************************)
CONSTANTS Procs, Threads, nil

VARIABLES
    home,       \* the proc of each thread, nil if there is no such thread
    parked,     \* the threads that have called _threadswitch
    ready       \* the parked threads that have been readied

vars == <<home, parked, ready>>

Init ==
    /\ \E t \in Threads, p \in Procs :
           home = [u \in Threads |-> IF u = t THEN p ELSE nil]
    /\ parked = {}
    /\ ready = {}

Running(t) == home[t] # nil /\ t \notin parked

\* A new thread is ready to run.
Create(t, p) ==
    /\ home[t] = nil
    /\ home' = [home EXCEPT ![t] = p]
    /\ parked' = parked \cup {t}
    /\ ready' = ready \cup {t}

Exit(t) ==
    /\ Running(t)
    /\ home' = [home EXCEPT ![t] = nil]
    /\ UNCHANGED <<parked, ready>>

Park(t) ==
    /\ Running(t)
    /\ parked' = parked \cup {t}
    /\ UNCHANGED <<home, ready>>

Yield(t) ==
    /\ Running(t)
    /\ parked' = parked \cup {t}
    /\ ready' = ready \cup {t}
    /\ UNCHANGED home

Ready(t) ==
    /\ t \in parked \ ready
    /\ ready' = ready \cup {t}
    /\ UNCHANGED <<home, parked>>

Return(t) ==
    /\ t \in ready
    /\ \A u \in Threads : home[u] = home[t] => u \in parked
    /\ parked' = parked \ {t}
    /\ ready' = ready \ {t}
    /\ UNCHANGED home

Next == \E t \in Threads :
    \/ \E p \in Procs : Create(t, p)
    \/ Exit(t) \/ Park(t) \/ Yield(t) \/ Ready(t) \/ Return(t)

Spec == Init /\ [][Next]_vars
=============================================================================
