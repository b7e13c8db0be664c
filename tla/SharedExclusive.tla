-------------------------- MODULE SharedExclusive --------------------------
(***************************************************************************)
(* What an RWLock promises (lock(3)): any number of simultaneous readers,  *)
(* but only one writer, and no reader while there is a writer.  A thread   *)
(* is inside from the return of rlock/wlock to its call of                 *)
(* runlock/wunlock.                                                        *)
(***************************************************************************)
CONSTANT Threads

VARIABLES reading,      \* the threads inside with read access
          writing       \* the threads inside with write access

vars == <<reading, writing>>

Init == reading = {} /\ writing = {}

EnterRead(t) ==
    /\ t \notin reading
    /\ writing = {}
    /\ reading' = reading \cup {t}
    /\ UNCHANGED writing

EnterWrite(t) ==
    /\ reading = {}
    /\ writing = {}
    /\ writing' = {t}
    /\ UNCHANGED reading

LeaveRead(t) ==
    /\ t \in reading
    /\ reading' = reading \ {t}
    /\ UNCHANGED writing

LeaveWrite(t) ==
    /\ t \in writing
    /\ writing' = writing \ {t}
    /\ UNCHANGED reading

Next == \E t \in Threads :
            EnterRead(t) \/ EnterWrite(t) \/ LeaveRead(t) \/ LeaveWrite(t)

Spec == Init /\ [][Next]_vars
=============================================================================
