------------------------------- MODULE RWLock -------------------------------
(***************************************************************************)
(* The RWLock of libthread (src/src/libthread/thread.c, threadrlock,       *)
(* threadwlock, threadrunlock, threadwunlock).                             *)
(*                                                                         *)
(* Every routine does its work between lock(&l->l) and unlock(&l->l), so   *)
(* that section is one action.  What comes after the unlock is a step of   *)
(* its own: the _threadready of the thread taken off a waiting list, and   *)
(* the return from _threadswitch of a thread that had to wait.  The        *)
(* scheduler is what Coroutines promises: a blocked thread returns from    *)
(* _threadswitch after a _threadready of it, whether that came before or   *)
(* after it reached the scheduler.  Threads are not grouped into procs:    *)
(* each may run beside any other, the most concurrent arrangement.         *)
(*                                                                         *)
(* canrlock and canwlock either take the granting branch below or change   *)
(* nothing, a stuttering step.                                             *)
(***************************************************************************)
EXTENDS ThreadList, FiniteSets

CONSTANTS Threads, NoThread

ASSUME NoThreadAssumption == NoThread \notin Threads

VARIABLES
    writer,     \* l->writer
    readers,    \* l->readers
    rwaiting,   \* l->rwaiting, head first
    wwaiting,   \* l->wwaiting, head first
    pc,         \* where each thread is
    handoff,    \* the thread it must still _threadready after its unlock
    runnable,   \* threads readied and not yet back from _threadswitch
    aborted     \* an assert failed or abort() was called

lockvars == <<writer, readers, rwaiting, wwaiting>>
vars == <<lockvars, pc, handoff, runnable, aborted>>

PC == {"idle", "reading", "writing", "rblocked", "wblocked", "readying", "gone"}

Init ==
    /\ writer = NoThread
    /\ readers = 0
    /\ rwaiting = <<>>
    /\ wwaiting = <<>>
    /\ pc = [t \in Threads |-> "idle"]
    /\ handoff = [t \in Threads |-> NoThread]
    /\ runnable = {}
    /\ aborted = FALSE

\* Thread t is about to do what label says (nobody does anything after an
\* abort).
at(t, label) == ~aborted /\ pc[t] = label

\* Only one thread is left in the program; waiting would be forever.
singlethreaded == \E t \in Threads : \A u \in Threads \ {t} : pc[u] = "gone"

----------------------------------------------------------------------------
(* Definitions named BAD_... are the mistakes the properties are tried      *)
(* against; the specification does not use them.                            *)

BAD_canread_writer_inside == wwaiting = <<>>
BAD_canread_past_writers == writer = NoThread

canread == writer = NoThread /\ wwaiting = <<>>

BAD_canwrite_readers_inside == writer = NoThread
BAD_canwrite_writer_inside == readers = 0

canwrite == writer = NoThread /\ readers = 0

threadrlock(t) ==
    /\ at(t, "idle")
    /\ \/ /\ canread
          /\ readers' = readers + 1
          /\ pc' = [pc EXCEPT ![t] = "reading"]
          /\ UNCHANGED <<rwaiting, aborted>>
       \/ /\ ~canread
          /\ aborted' = singlethreaded
          /\ rwaiting' = addthread(rwaiting, t)
          /\ pc' = [pc EXCEPT ![t] = "rblocked"]
          /\ UNCHANGED readers
    /\ UNCHANGED <<writer, wwaiting, handoff, runnable>>

threadwlock(t) ==
    /\ at(t, "idle")
    /\ \/ /\ canwrite
          /\ writer' = t
          /\ pc' = [pc EXCEPT ![t] = "writing"]
          /\ UNCHANGED <<wwaiting, aborted>>
       \/ /\ ~canwrite
          /\ aborted' = singlethreaded
          /\ wwaiting' = addthread(wwaiting, t)
          /\ pc' = [pc EXCEPT ![t] = "wblocked"]
          /\ UNCHANGED writer
    /\ UNCHANGED <<readers, rwaiting, handoff, runnable>>

\* n readers are left: if there are none, the first waiting writer is taken
\* off its list and made the owner, and t must ready it once l->l is
\* unlocked; otherwise the writer becomes w.
passtowriter(t, n, w) ==
    \/ /\ n = 0 /\ wwaiting # <<>>
       /\ wwaiting' = delthread(wwaiting, Head(wwaiting))
       /\ writer' = Head(wwaiting)
       /\ handoff' = [handoff EXCEPT ![t] = Head(wwaiting)]
       /\ pc' = [pc EXCEPT ![t] = "readying"]
    \/ /\ n > 0 \/ wwaiting = <<>>
       /\ writer' = w
       /\ pc' = [pc EXCEPT ![t] = "idle"]
       /\ UNCHANGED <<wwaiting, handoff>>

BAD_threadrunlock_no_wakeup(t) ==
    /\ at(t, "reading")
    /\ readers' = readers - 1
    /\ pc' = [pc EXCEPT ![t] = "idle"]
    /\ UNCHANGED <<writer, wwaiting, handoff, rwaiting, runnable, aborted>>

threadrunlock(t) ==
    /\ at(t, "reading")
    /\ readers' = readers - 1
    /\ passtowriter(t, readers - 1, writer)
    /\ UNCHANGED <<rwaiting, runnable, aborted>>

\* The loop admits and readies every waiting reader while l->l is held; a
\* writer is admitted only when there was no reader to admit.
threadwunlock(t) ==
    /\ at(t, "writing")
    /\ aborted' = (readers # 0)
    /\ readers' = readers + Len(rwaiting)
    /\ rwaiting' = <<>>
    /\ runnable' = runnable \cup InList(rwaiting)
    /\ passtowriter(t, readers + Len(rwaiting), NoThread)

\* if(t) _threadready(t), after unlock(&l->l).
readyafterunlock(t) ==
    /\ at(t, "readying")
    /\ runnable' = runnable \cup {handoff[t]}
    /\ handoff' = [handoff EXCEPT ![t] = NoThread]
    /\ pc' = [pc EXCEPT ![t] = "idle"]
    /\ UNCHANGED <<lockvars, aborted>>

\* _threadswitch returns in a thread that queued itself.
threadswitchreturn(t) ==
    /\ t \in runnable
    /\ at(t, "rblocked") \/ at(t, "wblocked")
    /\ runnable' = runnable \ {t}
    /\ pc' = [pc EXCEPT ![t] = IF @ = "rblocked" THEN "reading" ELSE "writing"]
    /\ UNCHANGED <<lockvars, handoff, aborted>>

\* A thread that holds nothing may leave the program.
threadexits(t) ==
    /\ at(t, "idle")
    /\ pc' = [pc EXCEPT ![t] = "gone"]
    /\ UNCHANGED <<lockvars, handoff, runnable, aborted>>

\* lib9 calls the routines of the thread library.
rlock(t) == threadrlock(t)
wlock(t) == threadwlock(t)
runlock(t) == threadrunlock(t)
wunlock(t) == threadwunlock(t)

Step(t) == \/ rlock(t) \/ wlock(t) \/ runlock(t) \/ wunlock(t)
           \/ readyafterunlock(t) \/ threadswitchreturn(t)
           \/ threadexits(t)

Next == \E t \in Threads : Step(t)

Spec == Init /\ [][Next]_vars

\* Holders release what they hold, and the scheduler runs what is ready.
Fairness == \A t \in Threads :
    /\ WF_vars(runlock(t))
    /\ WF_vars(wunlock(t))
    /\ WF_vars(readyafterunlock(t))
    /\ WF_vars(threadswitchreturn(t))

FairSpec == Spec /\ Fairness

----------------------------------------------------------------------------
Waiting == InList(rwaiting) \cup InList(wwaiting)

\* A thread owns its access from the moment it is granted, which for a
\* thread that waited is before it runs again.
ReadOwners == {t \in Threads : \/ pc[t] = "reading"
                               \/ pc[t] = "rblocked" /\ t \notin InList(rwaiting)}
WriteOwners == {t \in Threads : \/ pc[t] = "writing"
                                \/ pc[t] = "wblocked" /\ t \notin InList(wwaiting)}

\* The fields of the lock and of the threads keep their types.
TypeOK ==
    /\ writer \in Threads \cup {NoThread}
    /\ readers \in Nat
    /\ rwaiting \in Seq(Threads)
    /\ wwaiting \in Seq(Threads)
    /\ pc \in [Threads -> PC]
    /\ handoff \in [Threads -> Threads \cup {NoThread}]
    /\ runnable \in SUBSET Threads
    /\ aborted \in BOOLEAN

\* l->readers and l->writer always say who has been granted access, the
\* threads that were granted it in their sleep included, and a writer is
\* never granted access beside anybody else (lock(3): "if write access is
\* granted no one may have read access until write access is released").
Accounting ==
    /\ readers = Cardinality(ReadOwners)
    /\ WriteOwners = {writer} \ {NoThread}
    /\ WriteOwners # {} => ReadOwners = {}

\* The next and prev links of a thread are shared by every list it can be
\* on.  A thread is on at most one list, once, and only while it is blocked;
\* a thread that was taken off a list by an unlock is readied by exactly one
\* other thread, exactly once.
OneList ==
    /\ NoDup(rwaiting) /\ NoDup(wwaiting)
    /\ \A t \in InList(rwaiting) : pc[t] = "rblocked"
    /\ \A t \in InList(wwaiting) : pc[t] = "wblocked"
    /\ \A t \in runnable : pc[t] \in {"rblocked", "wblocked"} /\ t \notin Waiting
    /\ \A t \in Threads : handoff[t] # NoThread =>
           /\ pc[handoff[t]] = "wblocked"
           /\ handoff[t] \notin Waiting \cup runnable
           /\ \A u \in Threads \ {t} : handoff[u] # handoff[t]

\* Nobody waits for a lock that no one will release: a waiting reader has a
\* writer inside or ahead of it, a waiting writer has someone inside, and a
\* blocked thread that is off the lists has been readied or is about to be.
\* (threadrunlock and threadwunlock must between them wake whoever can go.)
NoStrandedWaiter ==
    /\ rwaiting # <<>> => writer # NoThread \/ wwaiting # <<>>
    /\ wwaiting # <<>> => writer # NoThread \/ readers > 0
    /\ \A t \in Threads : pc[t] \in {"rblocked", "wblocked"} =>
           t \in Waiting \cup runnable \/ \E u \in Threads : handoff[u] = t

\* The assert(l->readers == 0) of threadwunlock never fails, and no thread
\* finds itself alone and blocked on a lock (the "deadlock" aborts).
NoAbort == ~aborted

\* The inductive invariant of the proofs: a thread has somebody in hand
\* exactly while it is between its unlock and its _threadready.
IInv ==
    /\ TypeOK /\ OneList /\ Accounting /\ NoStrandedWaiter /\ NoAbort
    /\ IsFiniteSet(ReadOwners)
    /\ \A t \in Threads : pc[t] = "readying" <=> handoff[t] # NoThread

\* A thread blocked in rlock or wlock eventually has the lock, whatever the
\* other threads ask for meanwhile: readers cannot starve a writer because
\* rlock queues behind waiting writers, and writers cannot starve a reader
\* because wunlock admits every waiting reader first.
Served == \A t \in Threads :
    /\ pc[t] = "rblocked" ~> pc[t] = "reading"
    /\ pc[t] = "wblocked" ~> pc[t] = "writing"

\* What callers see of the lock is the shared/exclusive lock of lock(3).
Abstract == INSTANCE SharedExclusive WITH
    reading <- {t \in Threads : pc[t] = "reading"},
    writing <- {t \in Threads : pc[t] = "writing"}
ImplementsSharedExclusive == Abstract!Spec
=============================================================================
