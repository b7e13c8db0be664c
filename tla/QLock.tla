-------------------------------- MODULE QLock --------------------------------
(***************************************************************************)
(* A QLock l and a Rendez r with r->l = &l (src/src/libthread/thread.c,    *)
(* threadqlock, threadqunlock, threadrsleep, threadrwakeup; lib9/qlock.c   *)
(* calls them).                                                            *)
(*                                                                         *)
(* The section between lock(&l->l) and unlock(&l->l) is one action.  The   *)
(* list r->waiting has no lock of its own: it is touched only by the owner *)
(* of l.  qunlock passes l to the first waiting thread while that thread   *)
(* sleeps, and readies it only after unlock(&l->l).  The scheduler is what *)
(* Coroutines promises; `runnable' holds the threads that were readied and *)
(* are not back from _threadswitch.  A canqlock that fails, and an rwakeup *)
(* with nobody asleep, change nothing.                                     *)
(***************************************************************************)
EXTENDS ThreadList

CONSTANTS Threads, nil

ASSUME NilAssumption == nil \notin Threads

VARIABLES
    owner,      \* l->owner
    waiting,    \* l->waiting, head first
    rwaiting,   \* r->waiting, head first
    pc,         \* where each thread is
    ready,      \* the local variable of threadqunlock, nil outside it
    runnable,   \* threads readied and not yet back from _threadswitch
    abort       \* the message printed before abort(), or "no"

vars == <<owner, waiting, rwaiting, pc, ready, runnable, abort>>

\* "idle" has nothing to do with the lock; "inside" owns it; "qblocked" is in
\* the _threadswitch of qlock and "rblocked" in that of rsleep; "unlock" and
\* "runlock" are past the unlock(&l->l) of qunlock, called by the user and by
\* rsleep; "relock" is at the qlock that ends rsleep.
PC == {"idle", "inside", "qblocked", "rblocked", "unlock", "runlock",
       "relock", "gone"}

Init ==
    /\ owner = nil
    /\ waiting = <<>>
    /\ rwaiting = <<>>
    /\ pc = [t \in Threads |-> "idle"]
    /\ ready = [t \in Threads |-> nil]
    /\ runnable = {}
    /\ abort = "no"

at(t, label) == abort = "no" /\ pc[t] = label
goto(t, label) == pc' = [pc EXCEPT ![t] = label]

singlethreaded == \E t \in Threads : \A u \in Threads \ {t} : pc[u] = "gone"

----------------------------------------------------------------------------
(* Definitions named BAD_... are the mistakes the properties are tried     *)
(* against; the specification does not use them.                           *)

threadqlock(t) ==
    /\ at(t, "idle") \/ at(t, "relock")
    /\ \/ /\ owner = nil
          /\ owner' = t
          /\ goto(t, "inside")
          /\ UNCHANGED <<waiting, abort>>
       \/ /\ owner # nil
          /\ abort' = IF singlethreaded THEN "qlock deadlock" ELSE "no"
          /\ waiting' = addthread(waiting, t)
          /\ goto(t, "qblocked")
          /\ UNCHANGED owner
    /\ UNCHANGED <<rwaiting, ready, runnable>>

qlock(t) == threadqlock(t)

\* _threadswitch returns in qlock, which checks who owns the lock.
qlockreturn(t) ==
    /\ at(t, "qblocked")
    /\ t \in runnable
    /\ runnable' = runnable \ {t}
    /\ abort' = IF owner # t THEN "qlock owner oops" ELSE "no"
    /\ goto(t, "inside")
    /\ UNCHANGED <<owner, waiting, rwaiting, ready>>

BAD_release_to_nobody(t) ==
    /\ owner' = nil
    /\ abort' = IF owner = nil THEN "qunlock owner oops" ELSE "no"
    /\ UNCHANGED <<waiting, ready>>

BAD_release_lets_barge(t) ==
    /\ owner' = nil
    /\ ready' = [ready EXCEPT ![t] = IF waiting = <<>> THEN nil ELSE Head(waiting)]
    /\ waiting' = IF waiting = <<>> THEN <<>> ELSE delthread(waiting, Head(waiting))
    /\ abort' = IF owner = nil THEN "qunlock owner oops" ELSE "no"

\* The locked section of threadqunlock.
release(t) ==
    /\ abort' = IF owner = nil THEN "qunlock owner oops" ELSE "no"
    /\ \/ /\ waiting # <<>>
          /\ owner' = Head(waiting)
          /\ waiting' = delthread(waiting, Head(waiting))
          /\ ready' = [ready EXCEPT ![t] = Head(waiting)]
       \/ /\ waiting = <<>>
          /\ owner' = nil
          /\ UNCHANGED <<waiting, ready>>

threadqunlock(t) ==
    /\ at(t, "inside")
    /\ release(t)
    /\ goto(t, "unlock")
    /\ UNCHANGED <<rwaiting, runnable>>

qunlock(t) == threadqunlock(t)

\* if(ready) _threadready(l->owner): the owner is read again here.
qunlockready(t) ==
    /\ at(t, "unlock") \/ at(t, "runlock")
    /\ runnable' = IF ready[t] = nil THEN runnable ELSE runnable \cup {owner}
    /\ ready' = [ready EXCEPT ![t] = nil]
    /\ goto(t, IF pc[t] = "unlock" THEN "idle" ELSE "rblocked")
    /\ UNCHANGED <<owner, waiting, rwaiting, abort>>

\* rsleep up to the unlock(&l->l) of its qunlock.
threadrsleep(t) ==
    /\ at(t, "inside")
    /\ \/ /\ singlethreaded
          /\ abort' = "rsleep deadlock"
          /\ UNCHANGED <<owner, waiting, ready, rwaiting, pc>>
       \/ /\ ~singlethreaded
          /\ release(t)
          /\ rwaiting' = addthread(rwaiting, t)
          /\ goto(t, "runlock")
    /\ UNCHANGED runnable

rsleep(t) == threadrsleep(t)

BAD_rsleepreturn_no_qlock(t) ==
    /\ at(t, "rblocked")
    /\ t \in runnable
    /\ runnable' = runnable \ {t}
    /\ goto(t, "inside")
    /\ UNCHANGED <<owner, waiting, rwaiting, ready, abort>>

\* _threadswitch returns in rsleep, which still has to qlock.
rsleepreturn(t) ==
    /\ at(t, "rblocked")
    /\ t \in runnable
    /\ runnable' = runnable \ {t}
    /\ goto(t, "relock")
    /\ UNCHANGED <<owner, waiting, rwaiting, ready, abort>>

BAD_threadrwakeup_forgets(t, all) ==
    /\ at(t, "inside")
    /\ rwaiting # <<>>
    /\ rwaiting' = <<>>
    /\ runnable' = runnable \cup {Head(rwaiting)}
    /\ UNCHANGED <<owner, waiting, pc, ready, abort>>

\* The woken threads are taken off the list and readied one by one.
threadrwakeup(t, all) ==
    /\ at(t, "inside")
    /\ rwaiting # <<>>
    /\ rwaiting' = IF all THEN <<>> ELSE delthread(rwaiting, Head(rwaiting))
    /\ runnable' = runnable \cup (IF all THEN InList(rwaiting) ELSE {Head(rwaiting)})
    /\ UNCHANGED <<owner, waiting, pc, ready, abort>>

rwakeup(t) == threadrwakeup(t, FALSE)
rwakeupall(t) == threadrwakeup(t, TRUE)

threadexits(t) ==
    /\ at(t, "idle")
    /\ goto(t, "gone")
    /\ UNCHANGED <<owner, waiting, rwaiting, ready, runnable, abort>>

Next == \E t \in Threads :
    \/ qlock(t) \/ qlockreturn(t) \/ qunlock(t) \/ qunlockready(t)
    \/ rsleep(t) \/ rsleepreturn(t) \/ rwakeup(t) \/ rwakeupall(t)
    \/ threadexits(t)

Spec == Init /\ [][Next]_vars

\* The owner releases the lock, rsleep goes on to its end, and the scheduler
\* runs what is ready.  (The owner may also wake threads for as long as it
\* likes, but not for ever.)
Fairness == \A t \in Threads :
    /\ WF_vars(qunlock(t))
    /\ WF_vars(qunlockready(t))
    /\ WF_vars(qlockreturn(t))
    /\ WF_vars(rsleepreturn(t))
    /\ WF_vars(at(t, "relock") /\ qlock(t))

FairSpec == Spec /\ Fairness

----------------------------------------------------------------------------
(* Properties.                                                             *)

\* Every field has its type.
TypeOK ==
    /\ owner \in Threads \cup {nil}
    /\ waiting \in Seq(Threads)
    /\ rwaiting \in Seq(Threads)
    /\ pc \in [Threads -> PC]
    /\ ready \in [Threads -> Threads \cup {nil}]
    /\ runnable \in SUBSET Threads
    /\ abort \in {"no", "qlock deadlock", "qlock owner oops",
                  "qunlock owner oops", "rsleep deadlock"}

Waiting == InList(waiting) \cup InList(rwaiting)
Blocked == {t \in Threads : pc[t] \in {"qblocked", "rblocked", "runlock"}}

\* l->owner is exactly the thread that is inside or was passed the lock in
\* its sleep; there is never a second one.
OwnerExact == abort = "no" =>
    {owner} \ {nil} = {t \in Threads : \/ pc[t] = "inside"
                                       \/ pc[t] = "qblocked" /\ t \notin InList(waiting)}

\* The thread that qunlock readies, by reading l->owner again after
\* unlock(&l->l), is the thread it took off the waiting list: nobody can
\* take the lock or release it before the new owner runs.  So none of the
\* "oops" aborts of qlock and qunlock happens, and qlock never takes the
\* last thread of the program for deadlocked.
OwnerStable ==
    /\ TypeOK
    /\ abort \in {"no", "rsleep deadlock"}
    /\ \A t \in Threads : ready[t] # nil => owner = ready[t]

\* A thread is on at most one list, once, only while it is blocked, and it is
\* readied once for each time it was taken off a list.
OneList ==
    /\ NoDup(waiting) /\ NoDup(rwaiting)
    /\ \A t \in InList(waiting) : pc[t] = "qblocked"
    /\ \A t \in InList(rwaiting) : pc[t] \in {"rblocked", "runlock"}
    /\ runnable \subseteq Blocked \ Waiting
    /\ \A t \in Threads : ready[t] # nil =>
           /\ pc[ready[t]] = "qblocked"
           /\ ready[t] \notin Waiting \cup runnable
           /\ \A u \in Threads \ {t} : ready[u] # ready[t]

\* Nobody waits for a lock that is free, and a blocked thread that is on no
\* list has been readied or is about to be: no wakeup is lost, in particular
\* not that of a thread that is woken between the qunlock and the
\* _threadswitch of its rsleep.
NoStrandedWaiter ==
    /\ waiting # <<>> => owner # nil
    /\ \A t \in Blocked :
           t \in Waiting \cup runnable \/ \E u \in Threads : ready[u] = t

\* Whoever asks for the lock gets it, and a thread that was woken comes back
\* from rsleep with the lock, as long as nobody keeps it for ever.
Served == \A t \in Threads :
    /\ pc[t] = "qblocked" ~> pc[t] = "inside"
    /\ pc[t] = "rblocked" /\ t \notin InList(rwaiting) ~> pc[t] = "inside"

\* To its users the pair is a monitor: in particular rsleep "atomically
\* releases r->l and suspends execution of the calling task" (lock(3)).
Abstract == INSTANCE Monitor WITH
    inside <- {t \in Threads : pc[t] = "inside"},
    sleeping <- InList(rwaiting)
ImplementsMonitor == Abstract!Spec
=============================================================================
