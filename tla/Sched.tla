-------------------------------- MODULE Sched --------------------------------
(***************************************************************************)
(* The scheduler of libthread (src/src/libthread/thread.c, pthread.c).     *)
(*                                                                         *)
(* Every thread is carried by a pthread.  The threads of one proc pass the *)
(* proc from one to the next: the thread that gives it up runs procnext    *)
(* itself, names its successor in p->schedthread, wakes it, and sleeps on  *)
(* its own schedrend.  If there is no successor it sleeps in procnext, on  *)
(* p->runrend, until another proc readies a thread.                        *)
(*                                                                         *)
(* Everything between lock(&p->lock) and unlock(&p->lock), or the          *)
(* _procsleep that releases the lock, is one action.  A condition variable *)
(* is its asleep flag and the set `woken' of pthreads that were signalled; *)
(* a pthread may also return from _procsleep without a signal.             *)
(*                                                                         *)
(* Locks, rendezvous points and channels are reduced to what they do to    *)
(* the scheduler: a thread puts itself on some waiting list (block) and    *)
(* later another one takes it off (take) and readies it.  Proc and thread  *)
(* structures are reused after they are freed.  The counter p->nswitch,    *)
(* which only yield and idle return, and names and messages are left out.  *)
(***************************************************************************)
EXTENDS ThreadList, FiniteSets

CONSTANTS
    Procs, Threads,         \* addresses of Proc and _Thread structures
    MainProc, MainThread,   \* the ones main() allocates
    Pinners,                \* threads that may call threadpin
    nil

ASSUME SchedAssumption ==
    /\ IsFiniteSet(Procs) /\ IsFiniteSet(Threads)
    /\ MainProc \in Procs /\ MainThread \in Threads
    /\ Pinners \subseteq Threads
    /\ nil \notin Procs \cup Threads

VARIABLES
    procs,          \* _threadprocs, the procs that are not torn down
    sysproc,        \* p->sysproc
    thread,         \* p->thread
    schedthread,    \* p->schedthread
    pinthread,      \* p->pinthread
    runqueue,       \* p->runqueue, head first
    idlequeue,      \* p->idlequeue, head first
    nthread,        \* p->nthread
    runasleep,      \* p->runrend.asleep
    threadnproc, threadnsysproc,
    tproc,          \* t->proc
    exiting,        \* t->exiting
    schedasleep,    \* t->schedrend.asleep
    pc,             \* where the pthread of t is
    hand,           \* the thread that t is about to _threadready
    waiting,        \* threads on the waiting list of some lock or channel
    woken,          \* pthreads signalled in _procsleep
    halted          \* threadexitsall was called

countvars == <<procs, sysproc, threadnproc, threadnsysproc, halted>>
vars == <<countvars, thread, schedthread, pinthread, runqueue, idlequeue,
          nthread, runasleep, tproc, exiting, schedasleep, pc, hand, waiting,
          woken>>

PC == {"none", "newpthread", "procmain", "run", "readying", "switch",
       "procnext", "schedsleep", "sleeper"}

\* main() and its procmain: one proc, one thread, running.
Init ==
    /\ procs = {MainProc}
    /\ sysproc = [p \in Procs |-> FALSE]
    /\ thread = [p \in Procs |-> IF p = MainProc THEN MainThread ELSE nil]
    /\ schedthread = [p \in Procs |-> nil]
    /\ pinthread = [p \in Procs |-> nil]
    /\ runqueue = [p \in Procs |-> <<>>]
    /\ idlequeue = [p \in Procs |-> <<>>]
    /\ nthread = [p \in Procs |-> IF p = MainProc THEN 1 ELSE 0]
    /\ runasleep = [p \in Procs |-> FALSE]
    /\ threadnproc = 1
    /\ threadnsysproc = 0
    /\ tproc = [t \in Threads |-> IF t = MainThread THEN MainProc ELSE nil]
    /\ exiting = [t \in Threads |-> FALSE]
    /\ schedasleep = [t \in Threads |-> FALSE]
    /\ pc = [t \in Threads |-> IF t = MainThread THEN "run" ELSE "none"]
    /\ hand = [t \in Threads |-> nil]
    /\ waiting = {}
    /\ woken = {}
    /\ halted = FALSE

at(t, label) == ~halted /\ pc[t] = label
goto(t, label) == pc' = [pc EXCEPT ![t] = label]

----------------------------------------------------------------------------
(* What a running thread may do.  Definitions named BAD_... are the        *)
(* mistakes the properties are tried against; nothing uses them.           *)

\* t makes u, in its own proc.  No wakeup: the proc is running t.
threadcreate(t, u) ==
    /\ at(t, "run") /\ at(u, "none")
    /\ tproc' = [tproc EXCEPT ![u] = tproc[t]]
    /\ nthread' = [nthread EXCEPT ![tproc[t]] = @ + 1]
    /\ runqueue' = [runqueue EXCEPT ![tproc[t]] = addthread(@, u)]
    /\ goto(u, "newpthread")
    /\ UNCHANGED <<countvars, thread, schedthread, pinthread, idlequeue,
                   runasleep, exiting, schedasleep, hand, waiting, woken>>

\* t makes proc p with first thread u.  p's fields are zeroed.  (p is not
\* reused if the main thread was its last: that pthread never frees it.)
proccreate(t, p, u) ==
    /\ at(t, "run") /\ at(u, "none")
    /\ \A v \in Threads : tproc[v] # p
    /\ p \notin procs
    /\ procs' = procs \cup {p}
    /\ threadnproc' = threadnproc + 1
    /\ tproc' = [tproc EXCEPT ![u] = p]
    /\ nthread' = [nthread EXCEPT ![p] = 1]
    /\ runqueue' = [runqueue EXCEPT ![p] = <<u>>]
    /\ sysproc' = [sysproc EXCEPT ![p] = FALSE]
    /\ schedthread' = [schedthread EXCEPT ![p] = nil]
    /\ goto(u, "procmain")
    /\ UNCHANGED <<threadnsysproc, halted, thread, pinthread, idlequeue,
                   runasleep, exiting, schedasleep, hand, waiting, woken>>

\* The first thread of a proc starts without the scheduler.
procmain(u) ==
    /\ at(u, "procmain")
    /\ runqueue' = [runqueue EXCEPT ![tproc[u]] = delthread(@, Head(@))]
    /\ thread' = [thread EXCEPT ![tproc[u]] = Head(runqueue[tproc[u]])]
    /\ goto(u, "run")
    /\ UNCHANGED <<countvars, schedthread, pinthread, idlequeue, nthread,
                   runasleep, tproc, exiting, schedasleep, hand, waiting, woken>>

\* _threadready(p->thread), then _threadswitch.
threadyield(t) ==
    /\ at(t, "run")
    /\ runqueue' = [runqueue EXCEPT ![tproc[t]] = addthread(@, t)]
    /\ goto(t, "switch")
    /\ UNCHANGED <<countvars, thread, schedthread, pinthread, idlequeue, nthread,
                   runasleep, tproc, exiting, schedasleep, hand, waiting, woken>>

\* A pinned thread that idles would never be found on the run queue.
threadidle(t) ==
    /\ at(t, "run")
    /\ pinthread[tproc[t]] = nil
    /\ idlequeue' = [idlequeue EXCEPT ![tproc[t]] = addthread(@, t)]
    /\ goto(t, "switch")
    /\ UNCHANGED <<countvars, thread, schedthread, pinthread, runqueue, nthread,
                   runasleep, tproc, exiting, schedasleep, hand, waiting, woken>>

threadexits(t) ==
    /\ at(t, "run")
    /\ pinthread[tproc[t]] = nil
    /\ exiting' = [exiting EXCEPT ![t] = TRUE]
    /\ goto(t, "switch")
    /\ UNCHANGED <<countvars, thread, schedthread, pinthread, runqueue,
                   idlequeue, nthread, runasleep, tproc, schedasleep, hand,
                   waiting, woken>>

\* The thread queues itself on a lock, a rendezvous point or a channel.
block(t) ==
    /\ at(t, "run")
    /\ waiting' = waiting \cup {t}
    /\ goto(t, "switch")
    /\ UNCHANGED <<countvars, thread, schedthread, pinthread, runqueue,
                   idlequeue, nthread, runasleep, tproc, exiting, schedasleep,
                   hand, woken>>

\* t takes u off its waiting list, and has yet to ready it.
take(t, u) ==
    /\ at(t, "run")
    /\ u \in waiting
    /\ waiting' = waiting \ {u}
    /\ hand' = [hand EXCEPT ![t] = u]
    /\ goto(t, "readying")
    /\ UNCHANGED <<countvars, thread, schedthread, pinthread, runqueue,
                   idlequeue, nthread, runasleep, tproc, exiting, schedasleep,
                   woken>>

BAD__procwakeup_lost(p) == UNCHANGED <<runasleep, woken>>

\* The pthread asleep in procnext of p, if the flag says there is one.
_procwakeup(p) ==
    /\ runasleep' = [runasleep EXCEPT ![p] = FALSE]
    /\ woken' = woken \cup {v \in Threads : runasleep[p] /\ tproc[v] = p
                                             /\ pc[v] = "procnext"}

_threadready(t) ==
    /\ at(t, "readying")
    /\ LET u == hand[t]
           p == tproc[u]
       IN  /\ runqueue' = [runqueue EXCEPT ![p] = addthread(@, u)]
           /\ IF p # tproc[t] THEN _procwakeup(p)
                             ELSE UNCHANGED <<runasleep, woken>>
    /\ hand' = [hand EXCEPT ![t] = nil]
    /\ goto(t, "run")
    /\ UNCHANGED <<countvars, thread, schedthread, pinthread, idlequeue,
                   nthread, tproc, exiting, schedasleep, waiting>>

threadpin(t) ==
    /\ at(t, "run")
    /\ t \in Pinners
    /\ pinthread[tproc[t]] = nil
    /\ pinthread' = [pinthread EXCEPT ![tproc[t]] = t]
    /\ UNCHANGED <<countvars, thread, schedthread, runqueue, idlequeue, nthread,
                   runasleep, tproc, exiting, schedasleep, pc, hand, waiting,
                   woken>>

threadunpin(t) ==
    /\ at(t, "run")
    /\ pinthread[tproc[t]] = t
    /\ pinthread' = [pinthread EXCEPT ![tproc[t]] = nil]
    /\ UNCHANGED <<countvars, thread, schedthread, runqueue, idlequeue, nthread,
                   runasleep, tproc, exiting, schedasleep, pc, hand, waiting,
                   woken>>

BAD__threadsetsysproc_goes_on(t) ==
    /\ at(t, "run")
    /\ ~sysproc[tproc[t]]
    /\ threadnsysproc' = threadnsysproc + 1
    /\ sysproc' = [sysproc EXCEPT ![tproc[t]] = TRUE]
    /\ UNCHANGED <<procs, halted, threadnproc, thread, schedthread, pinthread,
                   runqueue, idlequeue, nthread, runasleep, tproc, exiting,
                   schedasleep, pc, hand, waiting, woken>>

\* The proc stops counting as a reason to keep the program alive.
_threadsetsysproc(t) ==
    /\ at(t, "run")
    /\ ~sysproc[tproc[t]]
    /\ threadnsysproc' = threadnsysproc + 1
    /\ halted' = (threadnsysproc + 1 = threadnproc)
    /\ sysproc' = [sysproc EXCEPT ![tproc[t]] = TRUE]
    /\ UNCHANGED <<procs, threadnproc, thread, schedthread, pinthread, runqueue,
                   idlequeue, nthread, runasleep, tproc, exiting, schedasleep,
                   pc, hand, waiting, woken>>

----------------------------------------------------------------------------
(* The scheduler: t has given up its proc p and runs procnext for it.      *)

\* The queue procnext takes from, once the idling threads have been moved
\* to an empty run queue.
nextqueue(p) ==
    IF pinthread[p] = nil /\ runqueue[p] = <<>> THEN idlequeue[p] ELSE runqueue[p]

canrun(p) ==
    IF pinthread[p] # nil THEN onlist(runqueue[p], pinthread[p])
                          ELSE nextqueue(p) # <<>>

BAD_nextthread_lifo(p) ==
    IF pinthread[p] # nil THEN pinthread[p] ELSE nextqueue(p)[Len(nextqueue(p))]

nextthread(p) ==
    IF pinthread[p] # nil THEN pinthread[p] ELSE Head(nextqueue(p))

\* t hands p to its successor u, and then sleeps, returns (u is t itself),
\* or is gone (t was exiting; the main pthread of the program stays).
handover(t, p) ==
    LET u == nextthread(p)
        dead == exiting[t]
        free == dead /\ t # MainThread
    IN  /\ runqueue' = [runqueue EXCEPT ![p] = delthread(nextqueue(p), u)]
        /\ idlequeue' = [idlequeue EXCEPT ![p] =
               IF pinthread[p] = nil /\ runqueue[p] = <<>> THEN <<>> ELSE @]
        /\ thread' = [thread EXCEPT ![p] = u]
        /\ schedthread' = [schedthread EXCEPT ![p] = u]
        /\ schedasleep' = [schedasleep EXCEPT ![u] = FALSE, ![t] = ~dead /\ u # t]
        /\ woken' = (woken \ {t}) \cup {v \in {u} : schedasleep[u]}
        /\ goto(t, IF free THEN "none" ELSE IF dead THEN "sleeper"
                   ELSE IF u = t THEN "run" ELSE "schedsleep")
        /\ tproc' = [tproc EXCEPT ![t] = IF dead THEN nil ELSE @]
        /\ exiting' = [exiting EXCEPT ![t] = @ /\ ~free]
        /\ UNCHANGED countvars

\* The last thread of p is exiting.
teardown(t, p) ==
    LET free == t # MainThread
        nsys == threadnsysproc - (IF sysproc[p] THEN 1 ELSE 0)
    IN  /\ procs' = procs \ {p}
        /\ threadnsysproc' = nsys
        /\ threadnproc' = threadnproc - 1
        /\ halted' = (threadnproc - 1 = nsys)
        /\ thread' = [thread EXCEPT ![p] = nil]
        /\ goto(t, IF free THEN "none" ELSE "sleeper")
        /\ tproc' = [tproc EXCEPT ![t] = IF free THEN nil ELSE @]
        /\ exiting' = [exiting EXCEPT ![t] = ~free]
        /\ woken' = woken \ {t}
        /\ UNCHANGED <<sysproc, runqueue, idlequeue, schedthread, schedasleep>>

\* n threads are left in p.
procnext(t, p, n) ==
    \/ /\ canrun(p)
       /\ handover(t, p)
       /\ runasleep' = [runasleep EXCEPT ![p] = FALSE]
    \/ /\ ~canrun(p) /\ (n # 0 \/ pinthread[p] # nil)
       /\ runasleep' = [runasleep EXCEPT ![p] = TRUE]
       /\ thread' = [thread EXCEPT ![p] = nil]
       /\ woken' = woken \ {t}
       /\ goto(t, "procnext")
       /\ UNCHANGED <<countvars, runqueue, idlequeue, schedthread, schedasleep,
                      tproc, exiting>>
    \/ /\ ~canrun(p) /\ n = 0 /\ pinthread[p] = nil
       /\ teardown(t, p)
       /\ runasleep' = [runasleep EXCEPT ![p] = FALSE]

pthreadscheduler(t) ==
    /\ at(t, "switch")
    /\ LET p == tproc[t]
           n == nthread[p] - (IF exiting[t] THEN 1 ELSE 0)
       IN  nthread' = [nthread EXCEPT ![p] = n] /\ procnext(t, p, n)
    /\ UNCHANGED <<pinthread, hand, waiting>>

\* The pthread asleep in procnext returns from _procsleep.
procwake(t) ==
    /\ at(t, "procnext")
    /\ procnext(t, tproc[t], nthread[tproc[t]])
    /\ UNCHANGED <<nthread, pinthread, hand, waiting>>

BAD__threadpthreadmain_impatient(t) ==
    /\ at(t, "newpthread")
    /\ goto(t, "run")
    /\ UNCHANGED <<countvars, thread, schedthread, pinthread, runqueue,
                   idlequeue, nthread, runasleep, tproc, exiting, schedasleep,
                   hand, waiting, woken>>

\* A new pthread finds out whether it is its turn already.
_threadpthreadmain(t) ==
    /\ at(t, "newpthread")
    /\ LET turn == schedthread[tproc[t]] = t
       IN  /\ goto(t, IF turn THEN "run" ELSE "schedsleep")
           /\ schedasleep' = [schedasleep EXCEPT ![t] = ~turn]
    /\ UNCHANGED <<countvars, thread, schedthread, pinthread, runqueue,
                   idlequeue, nthread, runasleep, tproc, exiting, hand, waiting,
                   woken>>

BAD_schedwake_unchecked(t) ==
    /\ at(t, "schedsleep")
    /\ schedasleep' = [schedasleep EXCEPT ![t] = FALSE]
    /\ woken' = woken \ {t}
    /\ goto(t, "run")
    /\ UNCHANGED <<countvars, thread, schedthread, pinthread, runqueue,
                   idlequeue, nthread, runasleep, tproc, exiting, hand, waiting>>

\* The pthread asleep on schedrend returns from _procsleep, to find that it
\* is its turn; otherwise it goes back to sleep.
schedwake(t) ==
    /\ at(t, "schedsleep")
    /\ schedthread[tproc[t]] = t
    /\ schedasleep' = [schedasleep EXCEPT ![t] = FALSE]
    /\ woken' = woken \ {t}
    /\ goto(t, "run")
    /\ UNCHANGED <<countvars, thread, schedthread, pinthread, runqueue,
                   idlequeue, nthread, runasleep, tproc, exiting, hand, waiting>>

Next == \E t \in Threads :
    \/ \E u \in Threads : threadcreate(t, u) \/ take(t, u)
    \/ \E p \in Procs, u \in Threads : proccreate(t, p, u)
    \/ procmain(t)
    \/ threadyield(t) \/ threadidle(t) \/ threadexits(t) \/ block(t)
    \/ _threadready(t)
    \/ threadpin(t) \/ threadunpin(t) \/ _threadsetsysproc(t)
    \/ pthreadscheduler(t) \/ procwake(t)
    \/ _threadpthreadmain(t) \/ schedwake(t)

Spec == Init /\ [][Next]_vars

\* A pthread that can run does, one that was signalled returns from
\* _procsleep, and a thread eventually gives up its proc (thread(3): "a
\* thread must explicitly relinquish control of the processor").
Fairness == \A t \in Threads :
    /\ WF_vars(procmain(t))
    /\ WF_vars(_threadready(t))
    /\ WF_vars(pthreadscheduler(t))
    /\ WF_vars(t \in woken /\ procwake(t))
    /\ WF_vars(_threadpthreadmain(t))
    /\ WF_vars(t \in woken /\ schedwake(t))
    /\ SF_vars(threadyield(t) \/ block(t) \/ threadexits(t))

FairSpec == Spec /\ Fairness

----------------------------------------------------------------------------
(* Properties.                                                             *)

\* Every field has its type.
TypeOK ==
    /\ procs \in SUBSET Procs
    /\ sysproc \in [Procs -> BOOLEAN]
    /\ thread \in [Procs -> Threads \cup {nil}]
    /\ schedthread \in [Procs -> Threads \cup {nil}]
    /\ pinthread \in [Procs -> Threads \cup {nil}]
    /\ runqueue \in [Procs -> Seq(Threads)]
    /\ idlequeue \in [Procs -> Seq(Threads)]
    /\ nthread \in [Procs -> Nat]
    /\ runasleep \in [Procs -> BOOLEAN]
    /\ threadnproc \in Nat /\ threadnsysproc \in Nat
    /\ tproc \in [Threads -> Procs \cup {nil}]
    /\ exiting \in [Threads -> BOOLEAN]
    /\ schedasleep \in [Threads -> BOOLEAN]
    /\ pc \in [Threads -> PC]
    /\ hand \in [Threads -> Threads \cup {nil}]
    /\ waiting \in SUBSET Threads
    /\ woken \in SUBSET Threads
    /\ halted \in BOOLEAN

\* A pthread that executes outside the scheduler.
Active == {t \in Threads : pc[t] \in {"run", "readying", "switch"}}

\* The threads of a proc are coroutines (thread(3): "scheduled
\* nonpreemptively"): only p->thread executes, and while it does, no other
\* pthread of p is in procnext.  So procnext is never run twice at once, and
\* what a thread does to p without p->lock (p->nthread++, procmain's
\* delthread) cannot race with the scheduler.  While a thread is pinned
\* (threadpin), it is the only one that runs.
OneRunner == \A p \in procs :
    /\ pinthread[p] # nil => \A t \in Active : tproc[t] = p => t = pinthread[p]
    /\ \A t \in Active : tproc[t] = p => thread[p] = t
    /\ \A t, u \in Threads : tproc[t] = p /\ pc[t] = "procnext" =>
           /\ thread[p] = nil
           /\ tproc[u] = p /\ pc[u] = "procnext" => u = t

\* A pthread asleep in procnext that nobody signalled has nothing to do, and
\* its asleep flag is up for the next _threadready; a thread that was handed
\* the proc is awake, was signalled, or has yet to look (so neither
\* _procwakeup loses a wakeup).
NoLostWakeup ==
    /\ \A t \in Threads : pc[t] = "procnext" /\ t \notin woken =>
           runasleep[tproc[t]] /\ ~canrun(tproc[t])
    /\ \A t \in Threads : pc[t] = "schedsleep" /\ t \notin woken =>
           schedasleep[t] /\ thread[tproc[t]] # t
    /\ \A p \in procs : thread[p] # nil => pc[thread[p]] # "procnext"

\* Where thread t waits: on a run queue or an idle queue, on some other
\* list, in the hand of a thread that took it off such a list, or chosen by
\* procnext and about to resume.
Places(t) ==
    {w \in {"runqueue", "idlequeue", "waiting", "hand", "chosen"} :
        \/ w = "runqueue" /\ \E p \in Procs : t \in InList(runqueue[p])
        \/ w = "idlequeue" /\ \E p \in Procs : t \in InList(idlequeue[p])
        \/ w = "waiting" /\ t \in waiting
        \/ w = "hand" /\ \E u \in Threads : hand[u] = t
        \/ w = "chosen" /\ pc[t] \in {"schedsleep", "newpthread"}
                        /\ \E p \in Procs : thread[p] = t}

\* No thread is ever on two lists (the links are in the thread), and no
\* thread that stopped is forgotten by all of them: it is in exactly one
\* place that will make it run again.  Lists hold threads of their own proc.
OnePlace ==
    /\ \A t \in Threads :
           IF exiting[t] \/ pc[t] \in {"none", "run", "readying"}
           THEN Places(t) = {}
           ELSE \E w \in Places(t) : Places(t) = {w}
    /\ \A p \in Procs :
           /\ NoDup(runqueue[p]) /\ NoDup(idlequeue[p])
           /\ \A t \in InList(runqueue[p]) \cup InList(idlequeue[p]) : tproc[t] = p
    /\ \A t, u \in Threads : hand[t] # nil /\ hand[t] = hand[u] => t = u

\* The counts that decide when a proc and the program end are exact, a proc
\* is torn down only when nobody is left that could refer to it, and the
\* program ends when, and only when, every proc that is left is a system
\* proc.
Accounting ==
    /\ TypeOK
    /\ \A p \in procs : nthread[p] =
           Cardinality({t \in Threads : tproc[t] = p /\ ~(exiting[t] /\ pc[t] = "procnext")})
    /\ \A t \in Threads : tproc[t] \notin procs => pc[t] \in {"none", "sleeper"}
    /\ threadnproc = Cardinality(procs)
    /\ threadnsysproc = Cardinality({p \in procs : sysproc[p]})
    /\ halted <=> \A p \in procs : sysproc[p]

\* A readied thread eventually runs, as long as the threads ahead of it give
\* up the proc when they get it, unless one of them pins the proc.
ReadyRuns == \A t \in Threads :
    (\E p \in Procs : onlist(runqueue[p], t)) ~>
        (pc[t] = "run" \/ halted \/ \E p \in Procs : tproc[t] = p /\ pinthread[p] # nil)

\* To its users the scheduler is the one of Coroutines: _threadswitch returns
\* exactly once for each _threadready, with the proc to itself, no matter
\* whether the _threadready came before the caller reached the scheduler,
\* while it was in procnext, or while it slept on its schedrend.
Parked == {t \in Threads : ~exiting[t] /\ pc[t] \notin {"none", "run", "readying"}}
Abstract == INSTANCE Coroutines WITH
    home <- [t \in Threads |-> IF exiting[t] THEN nil ELSE tproc[t]],
    parked <- Parked,
    ready <- {t \in Parked : Places(t) \cap {"runqueue", "idlequeue", "chosen"} # {}}
ImplementsCoroutines == Abstract!Spec
=============================================================================
