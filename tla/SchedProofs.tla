----------------------------- MODULE SchedProofs -----------------------------
(***************************************************************************)
(* Proofs about the scheduler of Sched, for any procs and threads.         *)
(*                                                                         *)
(* A proc belongs to one pthread at a time: to p->thread while that runs,  *)
(* to the one in procnext while p->thread is nil, and to the successor     *)
(* that p->schedthread names in between.  A thread that does not run is in *)
(* one of five places, and each of them leads back to its running.  The    *)
(* two halves need each other: the successor that procnext finds on the    *)
(* run queue is asleep on its schedrend because it does not own the proc.  *)
(***************************************************************************)
EXTENDS Sched, ThreadListProofs

Labels == {"run", "readying", "switch"}
Starting == {"schedsleep", "newpthread"}

\* The threads on the lists q of the procs.
On(q) == {t \in Threads : \E p \in Procs : t \in InList(q[p])}

\* The threads in some other's hand, and those that procnext has chosen.
Held == {t \in Threads : \E u \in Threads : hand[u] = t}
Chosen == {t \in Threads : pc[t] \in Starting /\ \E p \in Procs : thread[p] = t}

Homes ==
    \A t \in Threads :
        /\ pc[t] = "none" => tproc[t] = nil /\ ~exiting[t]
        /\ pc[t] = "sleeper" => exiting[t] /\ tproc[t] \notin procs
        /\ pc[t] \notin {"none", "sleeper"} => tproc[t] \in procs
        /\ exiting[t] => pc[t] \in {"switch", "procnext", "sleeper"}
        /\ hand[t] # nil <=> pc[t] = "readying"
        /\ \A u \in Threads : hand[t] # nil /\ hand[t] = hand[u] => t = u

Queues ==
    \A p \in Procs :
        /\ NoDup(runqueue[p]) /\ NoDup(idlequeue[p])
        /\ \A t \in Threads : t \in InList(runqueue[p]) \cup InList(idlequeue[p]) => tproc[t] = p

Turns ==
    /\ \A t \in Active : thread[tproc[t]] = t
    /\ \A t \in Threads : pc[t] \in {"procnext", "procmain"} =>
           /\ thread[tproc[t]] = nil
           /\ \A u \in Threads : tproc[u] = tproc[t] /\ pc[u] \in {"procnext", "procmain"} => u = t
    /\ \A p \in Procs : thread[p] # nil =>
           /\ tproc[thread[p]] = p
           /\ pc[thread[p]] \in Labels \cup Starting
           /\ pc[thread[p]] \in Starting => schedthread[p] = thread[p]
    /\ \A p \in procs : schedthread[p] \notin {nil, thread[p]} =>
           thread[p] = nil /\ pc[schedthread[p]] = "procnext" /\ tproc[schedthread[p]] = p

\* A proc whose first thread has not started, and a proc that is pinned.
Special ==
    /\ \A t \in Threads : pc[t] = "procmain" =>
           /\ runqueue[tproc[t]] = <<t>>
           /\ \A u \in Threads : tproc[u] = tproc[t] => u = t
    /\ \A p \in Procs : pinthread[p] # nil =>
           /\ tproc[pinthread[p]] = p /\ ~exiting[pinthread[p]]
           /\ pc[pinthread[p]] \in Labels \cup {"procnext"}

Wakeups ==
    /\ \A t \in woken : pc[t] \in {"procnext", "schedsleep"}
    /\ \A t \in Threads :
           /\ schedasleep[t] => pc[t] = "schedsleep"
           /\ pc[t] = "procnext" /\ t \notin woken => runasleep[tproc[t]] /\ ~canrun(tproc[t])
           /\ pc[t] = "schedsleep" /\ t \notin woken => schedasleep[t] /\ thread[tproc[t]] # t

\* parked is the disjoint union of the five sets.
Apart(parked, run, idle, wait, held, chosen) ==
    /\ parked = run \cup idle \cup wait \cup held \cup chosen
    /\ run \cap (idle \cup wait \cup held \cup chosen) = {}
    /\ idle \cap (wait \cup held \cup chosen) = {}
    /\ wait \cap (held \cup chosen) = {}
    /\ held \cap chosen = {}

Placed == Apart(Parked, On(runqueue), On(idlequeue), waiting, Held, Chosen)

Counted(p) == {t \in Threads : tproc[t] = p /\ ~(exiting[t] /\ pc[t] = "procnext")}

Counts ==
    /\ \A p \in procs : nthread[p] = Cardinality(Counted(p))
    /\ threadnproc = Cardinality(procs)
    /\ threadnsysproc = Cardinality({p \in procs : sysproc[p]})
    /\ halted <=> \A p \in procs : sysproc[p]

\* What is needed of finite sets, for the subsets of U.  It is part of the
\* invariant so that it is at hand in every step; it is proved once, below,
\* from the theorems of the library.
Counting(U) ==
    \A S \in SUBSET U :
        /\ Cardinality(S) \in Nat
        /\ Cardinality(S) = 0 <=> S = {}
        /\ \A x \in U \ S : Cardinality(S \cup {x}) = Cardinality(S) + 1
        /\ \A x \in S : Cardinality(S \ {x}) = Cardinality(S) - 1
        /\ \A T \in SUBSET S : Cardinality(T) = Cardinality(S) => T = S

IInv == Counting(Procs) /\ Counting(Threads) /\ TypeOK /\ Homes /\ Queues /\ Turns /\ Special /\ Wakeups /\ Placed /\ Counts

----------------------------------------------------------------------------
(* Counting.                                                               *)

\* The prover of a step that names no other.
USE Zenon

\* One element more.
LEMMA CountMore ==
    ASSUME NEW U, Counting(U), NEW S \in SUBSET U, NEW x \in U, x \notin S
    PROVE  Cardinality(S \cup {x}) = Cardinality(S) + 1
  BY SMT DEF Counting

\* One element less.
LEMMA CountLess ==
    ASSUME NEW U, Counting(U), NEW S \in SUBSET U, NEW x \in S
    PROVE  Cardinality(S \ {x}) = Cardinality(S) - 1
  BY DEF Counting

\* Counting tells whether every proc is a system proc.
LEMMA AllSysprocs ==
    ASSUME Counting(Procs), NEW P \in SUBSET Procs, NEW S \in SUBSET P
    PROVE  /\ Cardinality(P) \in Nat /\ Cardinality(S) \in Nat
           /\ Cardinality(P) = Cardinality(S) <=> P = S
  BY DEF Counting

LEMMA CountOne ==
    ASSUME NEW U, Counting(U), NEW x \in U
    PROVE  Cardinality({x}) = 1
  <1>1. {} \in SUBSET U /\ x \notin {} /\ {x} = {} \cup {x}
    OBVIOUS
  <1>2. Cardinality({x}) = Cardinality({}) + 1
    BY <1>1, CountMore
  <1>3. Cardinality({}) = 0
    BY <1>1 DEF Counting
  <1>. QED  BY <1>2, <1>3, SMT

----------------------------------------------------------------------------
(* Lists, and who owns a proc.                                             *)

\* A family of lists, one for each proc, with the threads of that proc.
Lists(q) ==
    /\ q \in [Procs -> Seq(Threads)]
    /\ \A p \in Procs : NoDup(q[p])
    /\ \A p, r \in Procs : \A t \in Threads : t \in InList(q[p]) /\ t \in InList(q[r]) => p = r

\* A thread that is not parked is in none of the places.
LEMMA NotPlaced ==
    ASSUME Placed, NEW x, x \notin Parked
    PROVE  /\ x \notin On(runqueue) /\ x \notin On(idlequeue) /\ x \notin waiting
           /\ x \notin Held /\ x \notin Chosen
  BY DEF Placed, Apart

\* The proc of a thread that runs is not in procnext, nor about to start.
LEMMA Alone ==
    ASSUME TypeOK, Homes, Turns, NEW t \in Threads, pc[t] \in Labels
    PROVE  /\ tproc[t] \in procs /\ tproc[t] \in Procs /\ thread[tproc[t]] = t
           /\ \A v \in Threads : tproc[v] = tproc[t] =>
                  pc[v] \notin {"procnext", "procmain"} /\ (v # t => pc[v] \notin Labels)
  <1>1. tproc[t] \in procs /\ tproc[t] \in Procs /\ t # nil
    BY SchedAssumption DEF TypeOK, Homes, Labels
  <1>2. \A v \in Threads : pc[v] \in Labels => thread[tproc[v]] = v
    BY DEF Turns, Active, Labels
  <1>. QED  BY <1>1, <1>2, SMT DEF Turns

\* What a running thread may do to the others without the scheduler: it, or
\* another that runs, goes on to another point outside the scheduler, a new
\* pthread goes to sleep, or a new thread appears in a proc that somebody runs.
Stays ==
    /\ UNCHANGED <<procs, thread, schedthread>>
    /\ \A v \in Threads :
           \/ pc'[v] = pc[v] /\ tproc'[v] = tproc[v]
           \/ pc[v] \in Labels /\ pc'[v] \in Labels /\ tproc'[v] = tproc[v]
           \/ pc[v] = "newpthread" /\ pc'[v] = "schedsleep" /\ tproc'[v] = tproc[v]
           \/ /\ pc[v] = "none" /\ pc'[v] = "newpthread"
              /\ \A w \in Threads : pc[w] \in {"procnext", "procmain"} => tproc'[v] # tproc[w]

----------------------------------------------------------------------------
(* The actions of a running thread, one by one.                            *)

----------------------------------------------------------------------------
(* A thread gets its proc: the first one of the proc in procmain, and a    *)
(* chosen one when its pthread finds out.                                  *)

\* Homes, for one thread that holds nobody.
HomeOf(t) ==
    /\ pc[t] = "none" => tproc[t] = nil /\ ~exiting[t]
    /\ pc[t] = "sleeper" => exiting[t] /\ tproc[t] \notin procs
    /\ pc[t] \notin {"none", "sleeper"} => tproc[t] \in procs
    /\ exiting[t] => pc[t] \in {"switch", "procnext", "sleeper"}
    /\ pc[t] # "readying"

\* Nobody but t executes in p.
Idle(t, p) ==
    \A v \in Threads : v # t /\ tproc[v] = p => pc[v] \notin Labels \cup {"procnext", "procmain"}

\* Only t and its proc p change.
Moves(t, p) ==
    /\ tproc[t] = p /\ tproc'[t] \in {p, nil} /\ pc'[t] # "procmain"
    /\ \A v \in Threads : v # t =>
           pc'[v] = pc[v] /\ tproc'[v] = tproc[v] /\ exiting'[v] = exiting[v]
    /\ \A x \in Procs : x # p =>
           /\ thread'[x] = thread[x] /\ schedthread'[x] = schedthread[x]
           /\ runqueue'[x] = runqueue[x] /\ idlequeue'[x] = idlequeue[x]
           /\ runasleep'[x] = runasleep[x] /\ nthread'[x] = nthread[x]
    /\ procs' \subseteq procs /\ procs \ {p} \subseteq procs'
    /\ UNCHANGED <<sysproc, pinthread, hand, waiting>>

\* The one that has the proc, or is about to, is the only one.
LEMMA Owner ==
    ASSUME TypeOK, Homes, Turns, NEW t \in Threads,
           \/ pc[t] \in {"switch", "procnext", "procmain"}
           \/ pc[t] \in Starting /\ schedthread[tproc[t]] = t
    PROVE  /\ tproc[t] \in procs /\ tproc[t] \in Procs /\ Idle(t, tproc[t])
           /\ pc[t] = "switch" \/ pc[t] \in Starting => thread[tproc[t]] = t
           /\ pc[t] \in {"procnext", "procmain"} => thread[tproc[t]] = nil
           /\ schedthread[tproc[t]] \in {nil, t}
  <1>. DEFINE p == tproc[t]
  <1>1. p \in procs /\ p \in Procs /\ t # nil
    BY SchedAssumption DEF TypeOK, Homes, Starting
  <1>2. CASE pc[t] \in Starting /\ schedthread[p] = t
    <2>1. thread[p] = t
      BY <1>1, <1>2 DEF Turns, Starting
    <2>. QED  BY <1>1, <2>1, SMT DEF Turns, Idle, Labels, Active
  <1>3. CASE pc[t] = "switch"
    <2>1. thread[p] = t
      BY <1>3 DEF Turns, Active
    <2>. QED  BY <1>1, <2>1, SMT DEF Turns, Idle, Labels, Active
  <1>4. CASE pc[t] \in {"procnext", "procmain"}
    <2>1. thread[p] = nil
      BY <1>4 DEF Turns
    <2>2. schedthread[p] \in {nil, t}
      BY <1>1, <1>4, SMT DEF Turns, TypeOK
    <2>3. Idle(t, p)
      BY <1>4, SchedAssumption, SMT DEF Turns, Idle, Labels, Active
    <2>. QED  BY <1>1, <1>4, <2>1, <2>2, <2>3 DEF Starting
  <1>. QED  BY <1>2, <1>3, <1>4

----------------------------------------------------------------------------
(* procnext: the proc passes to a successor, waits for one, or ends.       *)

\* The threads that are left in the proc of t once t has given it up.
Left(t) == {v \in Threads : tproc[v] = tproc[t] /\ ~(v = t /\ exiting[t])}

\* t runs procnext, and n = |Left(t)| is the count it looks at.
Gives(t) ==
    /\ pc[t] \in {"switch", "procnext"}
    /\ nthread' = [nthread EXCEPT ![tproc[t]] = Cardinality(Left(t))]
    /\ UNCHANGED <<pinthread, hand, waiting>>

LEMMA SchedulerGives ==
    ASSUME IInv, NEW t \in Threads, pthreadscheduler(t) \/ procwake(t)
    PROVE  Gives(t) /\ procnext(t, tproc[t], Cardinality(Left(t)))
  <1>. DEFINE p == tproc[t]
              C == Counted(p)
              L == Left(t)
  <1>1. CASE pthreadscheduler(t)
    <2>1. pc[t] = "switch"
      BY <1>1 DEF pthreadscheduler, at
    <2>2. p \in procs /\ Idle(t, p)
      BY <2>1, Owner DEF IInv
    <2>3. C = {v \in Threads : tproc[v] = p} /\ C \in SUBSET Threads /\ t \in C
      BY <2>1, <2>2 DEF Counted, Idle
    <2>4. Cardinality(L) = nthread[p] - (IF exiting[t] THEN 1 ELSE 0)
      <3>1. CASE exiting[t]
        <4>1. L = C \ {t}
          BY <2>3, <3>1 DEF Left
        <4>2. Cardinality(C \ {t}) = Cardinality(C) - 1
          BY <2>3, CountLess DEF IInv
        <4>. QED  BY <2>2, <3>1, <4>1, <4>2 DEF IInv, Counts
      <3>2. CASE ~exiting[t]
        <4>1. L = C
          BY <2>3, <3>2 DEF Left
        <4>. QED  BY <2>2, <3>2, <4>1, SMT DEF IInv, Counts, TypeOK
      <3>. QED  BY <3>1, <3>2
    <2>. QED  BY <1>1, <2>1, <2>4 DEF Gives, pthreadscheduler
  <1>2. CASE procwake(t)
    <2>1. pc[t] = "procnext"
      BY <1>2 DEF procwake, at
    <2>2. p \in procs /\ p \in Procs /\ Idle(t, p)
      BY <2>1, Owner DEF IInv
    <2>3. L = C
      BY <2>1, <2>2 DEF Left, Counted, Idle
    <2>4. Cardinality(L) = nthread[p]
      BY <2>2, <2>3 DEF IInv, Counts
    <2>5. nthread = [nthread EXCEPT ![p] = nthread[p]]
      BY <2>2 DEF IInv, TypeOK
    <2>. QED  BY <1>2, <2>1, <2>4, <2>5 DEF Gives, procwake
  <1>. QED  BY <1>1, <1>2

\* What t knows of itself and its proc.
LEMMA Giver ==
    ASSUME IInv, NEW t \in Threads, Gives(t)
    PROVE  /\ tproc[t] \in procs /\ tproc[t] \in Procs /\ Idle(t, tproc[t]) /\ t # nil
           /\ thread[tproc[t]] \in {nil, t} /\ schedthread[tproc[t]] \in {nil, t}
           /\ pinthread[tproc[t]] \in {nil, t} /\ (pinthread[tproc[t]] = t => ~exiting[t])
           /\ hand[t] = nil /\ ~schedasleep[t] /\ pc[t] \notin Starting \cup {"none", "run", "readying"}
           /\ nthread'[tproc[t]] = Cardinality(Left(t))
           /\ \A x \in Procs : x # tproc[t] => nthread'[x] = nthread[x]
           /\ nthread' \in [Procs -> Nat]
  <1>. DEFINE p == tproc[t]
  <1>1. /\ p \in procs /\ p \in Procs /\ Idle(t, p) /\ thread[p] \in {nil, t}
        /\ schedthread[p] \in {nil, t}
    BY Owner DEF IInv, Gives
  <1>2. pinthread[p] \in {nil, t} /\ (pinthread[p] = t => ~exiting[t])
    <2>1. pinthread[p] # nil => pinthread[p] \in Threads
      BY <1>1 DEF IInv, TypeOK
    <2>. QED  BY <1>1, <2>1, SchedAssumption, SMT DEF IInv, Special, Idle
  <1>3. t # nil /\ hand[t] = nil /\ ~schedasleep[t] /\ pc[t] \notin Starting \cup {"none", "run", "readying"}
    BY SchedAssumption DEF IInv, Gives, Homes, Wakeups, Starting
  <1>4. Cardinality(Left(t)) \in Nat
    <2>1. Left(t) \in SUBSET Threads
      BY DEF Left
    <2>. QED  BY <2>1 DEF IInv, Counting
  <1>5. /\ nthread'[p] = Cardinality(Left(t)) /\ \A x \in Procs : x # p => nthread'[x] = nthread[x]
        /\ nthread' \in [Procs -> Nat]
    BY <1>1, <1>4 DEF IInv, TypeOK, Gives
  <1>. QED  BY <1>1, <1>2, <1>3, <1>5

\* The successor comes off a list of p, and does not run.
LEMMA Successor ==
    ASSUME IInv, NEW t \in Threads, Gives(t), canrun(tproc[t]), NEW u, u = nextthread(tproc[t])
    PROVE  /\ u \in Threads /\ u \in InList(nextqueue(tproc[t])) /\ tproc[u] = tproc[t]
           /\ u \in On(runqueue) \cup On(idlequeue) /\ u \in Parked /\ ~exiting[u]
           /\ u # t => pc[u] \in Starting
           /\ pinthread[tproc[t]] = t => u = t
  <1>. DEFINE p == tproc[t]
  <1>1. p \in procs /\ p \in Procs /\ Idle(t, p) /\ pinthread[p] \in {nil, t} /\ t # nil
    BY Giver
  <1>2. runqueue[p] \in Seq(Threads) /\ idlequeue[p] \in Seq(Threads) /\ nextqueue(p) \in {runqueue[p], idlequeue[p]}
    BY <1>1 DEF IInv, TypeOK, nextqueue
  <1>3. u \in InList(nextqueue(p)) /\ u \in Threads
    <2>1. CASE pinthread[p] # nil
      BY <1>1, <2>1 DEF canrun, nextthread, nextqueue, onlist, InList
    <2>2. CASE pinthread[p] = nil
      BY <1>2, <2>2, HeadInList DEF canrun, nextthread
    <2>. QED  BY <2>1, <2>2
  <1>4. tproc[u] = p /\ u \in On(runqueue) \cup On(idlequeue)
    BY <1>1, <1>2, <1>3 DEF IInv, Queues, On
  <1>5. u \in Parked
    BY <1>4 DEF IInv, Placed, Apart
  <1>6. ~exiting[u] /\ pc[u] \in PC \ {"none", "run", "readying"}
    BY <1>3, <1>5 DEF Parked, IInv, TypeOK
  <1>7. u # t => pc[u] \in Starting
    BY <1>1, <1>3, <1>4, <1>6 DEF IInv, Homes, Idle, PC, Labels, Starting
  <1>. QED  BY <1>1, <1>3, <1>4, <1>5, <1>6, <1>7 DEF nextthread

\* What a handover leaves, field by field.
Passed(t, p, u) ==
    /\ u = t \/ exiting[t] \/ (pc'[t] = "schedsleep" /\ schedasleep'[t])
    /\ ~exiting[t] => tproc'[t] = p /\ ~exiting'[t]
    /\ u = t => pc'[t] = "run" /\ ~exiting[t]
    /\ exiting[t] => \/ pc'[t] = "none" /\ tproc'[t] = nil /\ ~exiting'[t]
                     \/ pc'[t] = "sleeper" /\ tproc'[t] = nil /\ exiting'[t]
    /\ u = t \/ exiting[t] => ~schedasleep'[t]
    /\ \A v \in Threads : v # t => pc'[v] = pc[v] /\ tproc'[v] = tproc[v] /\ exiting'[v] = exiting[v]
    /\ \A v \in Threads : v \notin {t, u} => schedasleep'[v] = schedasleep[v]
    /\ u # t => ~schedasleep'[u]
    /\ thread'[p] = u /\ schedthread'[p] = u
    /\ \A x \in Procs : x # p => /\ thread'[x] = thread[x] /\ schedthread'[x] = schedthread[x]
                                 /\ runasleep'[x] = runasleep[x]
    /\ \A v \in Threads : v \in woken' <=> (v # t /\ v \in woken) \/ (v = u /\ schedasleep[u])
    /\ UNCHANGED <<countvars, pinthread, hand, waiting>>

LEMMA HandoverPasses ==
    ASSUME IInv, NEW t \in Threads, Gives(t), NEW p, p = tproc[t], canrun(p), handover(t, p),
           runasleep' = [runasleep EXCEPT ![p] = FALSE], NEW u, u = nextthread(p)
    PROVE  Passed(t, p, u)
  <1>1. p \in Procs /\ u \in Threads /\ ~exiting[u]
    BY Giver, Successor
  <1>2. /\ pc' = [pc EXCEPT ![t] = IF exiting[t] /\ t # MainThread THEN "none" ELSE
                       IF exiting[t] THEN "sleeper" ELSE IF u = t THEN "run" ELSE "schedsleep"]
        /\ tproc' = [tproc EXCEPT ![t] = IF exiting[t] THEN nil ELSE @]
        /\ exiting' = [exiting EXCEPT ![t] = @ /\ ~(exiting[t] /\ t # MainThread)]
        /\ schedasleep' = [schedasleep EXCEPT ![u] = FALSE, ![t] = ~exiting[t] /\ u # t]
    BY DEF handover, goto
  <1>3. /\ thread' = [thread EXCEPT ![p] = u] /\ schedthread' = [schedthread EXCEPT ![p] = u]
        /\ woken' = (woken \ {t}) \cup {v \in {u} : schedasleep[u]}
        /\ UNCHANGED <<countvars, pinthread, hand, waiting>>
    BY DEF handover, Gives
  <1>4. /\ pc'[t] = IF exiting[t] /\ t # MainThread THEN "none" ELSE
                       IF exiting[t] THEN "sleeper" ELSE IF u = t THEN "run" ELSE "schedsleep"
        /\ tproc'[t] = IF exiting[t] THEN nil ELSE p
        /\ exiting'[t] = (exiting[t] /\ t = MainThread)
        /\ \A v \in Threads : v # t => pc'[v] = pc[v] /\ tproc'[v] = tproc[v] /\ exiting'[v] = exiting[v]
    BY <1>2 DEF IInv, TypeOK
  <1>5. /\ schedasleep'[t] = (~exiting[t] /\ u # t) /\ (u # t => ~schedasleep'[u])
        /\ \A v \in Threads : v \notin {t, u} => schedasleep'[v] = schedasleep[v]
    BY <1>1, <1>2 DEF IInv, TypeOK
  <1>6. /\ thread'[p] = u /\ schedthread'[p] = u
        /\ \A x \in Procs : x # p => /\ thread'[x] = thread[x] /\ schedthread'[x] = schedthread[x]
                                     /\ runasleep'[x] = runasleep[x]
    BY <1>1, <1>3 DEF IInv, TypeOK
  <1>7. \A v \in Threads : v \in woken' <=> (v # t /\ v \in woken) \/ (v = u /\ schedasleep[u])
    BY <1>3
  <1>. QED  BY <1>1, <1>3, <1>4, <1>5, <1>6, <1>7 DEF Passed

----------------------------------------------------------------------------
(* The invariant.                                                          *)

LEMMA StepPreserves == IInv /\ Next => IInv'
  \* Replacing the list of p changes who is on a list by what it changes on
  \* that one.
  <1>ListReplaced.
    ASSUME NEW q, Lists(q), NEW p \in Procs, NEW r, r[p] \in Seq(Threads),
           \A x \in Procs : x # p => r[x] = q[x]
    PROVE  On(r) = (On(q) \ InList(q[p])) \cup InList(r[p])
    <2>. USE <1>ListReplaced
    <2>1. InList(r[p]) \subseteq Threads
      BY EmptyList
    <2>2. ASSUME NEW t \in On(r) PROVE t \in (On(q) \ InList(q[p])) \cup InList(r[p])
      BY DEF On, Lists
    <2>3. ASSUME NEW t \in On(q), t \notin InList(q[p]) PROVE t \in On(r)
      BY <2>3 DEF On
    <2>4. ASSUME NEW t \in InList(r[p]) PROVE t \in On(r)
      BY <2>1 DEF On
    <2>. QED  BY <2>2, <2>3, <2>4
  \* addthread on the list of p adds one thread to those that are on a list.
  <1>ListAdded.
    ASSUME NEW q, Lists(q), NEW p \in Procs, NEW u \in Threads, u \notin On(q),
           NEW r, r[p] = addthread(q[p], u), \A x \in Procs : x # p => r[x] = q[x]
    PROVE  /\ \A x \in Procs : r[x] \in Seq(Threads) /\ NoDup(r[x])
           /\ InList(r[p]) = InList(q[p]) \cup {u}
           /\ On(r) = On(q) \cup {u}
    <2>. USE <1>ListAdded
    <2>1. q \in [Procs -> Seq(Threads)] /\ q[p] \in Seq(Threads) /\ NoDup(q[p])
      BY DEF Lists
    <2>2. u \notin InList(q[p]) /\ InList(q[p]) \subseteq On(q)
      BY <2>1, EmptyList DEF On
    <2>3. r[p] \in Seq(Threads) /\ NoDup(r[p]) /\ InList(r[p]) = InList(q[p]) \cup {u}
      BY <2>1, <2>2, AddThread, SMT
    <2>4. On(r) = (On(q) \ InList(q[p])) \cup InList(r[p])
      BY <2>3, <1>ListReplaced
    <2>. QED  BY <2>1, <2>2, <2>3, <2>4 DEF Lists
  <1>TheLists.
    ASSUME TypeOK, Queues
    PROVE  Lists(runqueue) /\ Lists(idlequeue)
    BY <1>TheLists DEF TypeOK, Queues, Lists
  \* A thread joins the run queue of its proc.
  <1>RunqueueAdded.
    ASSUME TypeOK, Queues, NEW p \in Procs, NEW u \in Threads, u \notin On(runqueue),
           runqueue'[p] = addthread(runqueue[p], u), \A x \in Procs : x # p => runqueue'[x] = runqueue[x],
           UNCHANGED idlequeue, u \notin On(idlequeue) \/ UNCHANGED tproc,
           tproc'[u] = p, \A v \in Threads : v # u => tproc'[v] = tproc[v]
    PROVE  /\ \A x \in Procs : runqueue'[x] \in Seq(Threads)
           /\ Queues' /\ On(runqueue') = On(runqueue) \cup {u}
    <2>. USE <1>RunqueueAdded
    <2>0. Lists(runqueue)
      BY <1>TheLists
    <2>1. /\ \A x \in Procs : runqueue'[x] \in Seq(Threads) /\ NoDup(runqueue'[x])
          /\ InList(runqueue'[p]) = InList(runqueue[p]) \cup {u}
          /\ On(runqueue') = On(runqueue) \cup {u}
      <3>1. u \notin On(runqueue) /\ runqueue'[p] = addthread(runqueue[p], u)
        OBVIOUS
      <3>2. \A x \in Procs : x # p => runqueue'[x] = runqueue[x]
        OBVIOUS
      <3>. QED  BY ONLY <2>0, <3>1, <3>2, <1>ListAdded, SMT
    <2>2. ASSUME NEW x \in Procs, NEW v \in Threads, v \in InList(runqueue'[x]) PROVE tproc'[v] = x
      BY <2>1, <2>2, SMT DEF Queues, On
    <2>3. ASSUME NEW x \in Procs, NEW v \in Threads, v \in InList(idlequeue'[x]) PROVE tproc'[v] = x
      BY <2>3, SMT DEF Queues, On
    <2>4. Queues'
      BY <2>1, <2>2, <2>3 DEF Queues
    <2>. QED  BY <2>1, <2>4
  \* A thread joins the idle queue of its proc.
  <1>IdlequeueAdded.
    ASSUME TypeOK, Queues, NEW p \in Procs, NEW u \in Threads, u \notin On(idlequeue),
           idlequeue'[p] = addthread(idlequeue[p], u), \A x \in Procs : x # p => idlequeue'[x] = idlequeue[x],
           UNCHANGED <<runqueue, tproc>>, tproc[u] = p
    PROVE  /\ \A x \in Procs : idlequeue'[x] \in Seq(Threads)
           /\ Queues' /\ On(idlequeue') = On(idlequeue) \cup {u}
    <2>. USE <1>IdlequeueAdded
    <2>1. /\ \A x \in Procs : idlequeue'[x] \in Seq(Threads) /\ NoDup(idlequeue'[x])
          /\ InList(idlequeue'[p]) = InList(idlequeue[p]) \cup {u}
          /\ On(idlequeue') = On(idlequeue) \cup {u}
      BY <1>TheLists, <1>ListAdded, SMT
    <2>2. ASSUME NEW x \in Procs, NEW v \in Threads, v \in InList(idlequeue'[x]) PROVE tproc'[v] = x
      BY <2>1, <2>2 DEF Queues
    <2>4. Queues'
      BY <2>1, <2>2 DEF Queues
    <2>. QED  BY <2>1, <2>4
  \* A thread that parks or is made goes to one of three places.
  <1>PlacedJoins.
    ASSUME Placed, NEW x, x \notin Parked,
           Parked' = Parked \cup {x}, Held' = Held, Chosen' = Chosen,
           \/ On(runqueue') = On(runqueue) \cup {x} /\ UNCHANGED <<idlequeue, waiting>>
           \/ On(idlequeue') = On(idlequeue) \cup {x} /\ UNCHANGED <<runqueue, waiting>>
           \/ waiting' = waiting \cup {x} /\ UNCHANGED <<runqueue, idlequeue>>
    PROVE  Placed'
    <2>. USE <1>PlacedJoins
    <2>. DEFINE R == On(runqueue)
                I == On(idlequeue)
    <2>1. Apart(Parked, R, I, waiting, Held, Chosen) /\ (Placed' <=> Apart(Parked', R', I', waiting', Held', Chosen'))
      BY DEF Placed
    <2>2. UNCHANGED runqueue => R' = R
      OBVIOUS
    <2>3. UNCHANGED idlequeue => I' = I
      OBVIOUS
    <2>4. \/ R' = R \cup {x} /\ I' = I /\ waiting' = waiting
          \/ R' = R /\ I' = I \cup {x} /\ waiting' = waiting
          \/ R' = R /\ I' = I /\ waiting' = waiting \cup {x}
      BY <2>2, <2>3
    <2>. HIDE DEF R, I
    <2>. QED  BY <2>1, <2>4, SMT DEF Apart
  \* It passes through a hand and a run queue, and is chosen.
  <1>PlacedMoves.
    ASSUME Placed, NEW x, Parked' = Parked, UNCHANGED idlequeue,
           \/ /\ x \in waiting /\ waiting' = waiting \ {x} /\ Held' = Held \cup {x}
              /\ UNCHANGED runqueue /\ Chosen' = Chosen
           \/ /\ x \in Held /\ Held' = Held \ {x} /\ On(runqueue') = On(runqueue) \cup {x}
              /\ UNCHANGED waiting /\ Chosen' = Chosen
    PROVE  Placed'
    <2>. USE <1>PlacedMoves
    <2>. DEFINE R == On(runqueue)
                I == On(idlequeue)
    <2>1. Apart(Parked, R, I, waiting, Held, Chosen) /\ (Placed' <=> Apart(Parked', R', I', waiting', Held', Chosen'))
      BY DEF Placed
    <2>2. UNCHANGED runqueue => R' = R
      OBVIOUS
    <2>3. I' = I
      OBVIOUS
    <2>4. x \in Held => R' = R \cup {x} \/ UNCHANGED runqueue
      OBVIOUS
    <2>. HIDE DEF R, I
    <2>5. CASE /\ x \in waiting /\ waiting' = waiting \ {x} /\ Held' = Held \cup {x}
               /\ UNCHANGED runqueue /\ Chosen' = Chosen
      BY <2>1, <2>2, <2>3, <2>5, SMT DEF Apart
    <2>6. CASE /\ x \in Held /\ Held' = Held \ {x} /\ R' = R \cup {x}
               /\ UNCHANGED waiting /\ Chosen' = Chosen
      BY <2>1, <2>3, <2>6, SMT DEF Apart
    <2>. QED  BY <2>5, <2>6 DEF R
  <1>TurnsKept.
    ASSUME TypeOK, Homes, Turns, Stays
    PROVE  Turns' /\ Chosen' = Chosen
    <2>. USE <1>TurnsKept
    <2>0. nil \notin Threads /\ nil \notin procs
      BY SchedAssumption DEF TypeOK, Stays, Labels, Starting
    <2>1. \A v \in Threads : pc'[v] \in Labels => thread'[tproc'[v]] = v
      BY DEF Turns, Active, Stays, Labels, Starting
    <2>2. \A v \in Threads : pc'[v] \in {"procnext", "procmain"} =>
             /\ thread'[tproc'[v]] = nil
             /\ \A u \in Threads : tproc'[u] = tproc'[v] /\ pc'[u] \in {"procnext", "procmain"} => u = v
      BY SMT DEF Turns, Stays, Labels
    <2>3. ASSUME NEW p \in Procs, thread'[p] # nil
          PROVE  /\ tproc'[thread'[p]] = p
                 /\ pc'[thread'[p]] \in Labels \cup Starting
                 /\ pc'[thread'[p]] \in Starting => schedthread'[p] = thread'[p]
      <3>1. thread[p] \in Threads /\ thread'[p] = thread[p] /\ schedthread'[p] = schedthread[p]
        BY <2>3 DEF TypeOK, Stays, Labels, Starting
      <3>2. /\ tproc[thread[p]] = p /\ pc[thread[p]] \in Labels \cup Starting
            /\ pc[thread[p]] \in Starting => schedthread[p] = thread[p]
        BY <2>3, <3>1 DEF Turns, Stays, Labels, Starting
      <3>. QED  BY <3>1, <3>2 DEF Stays, Labels, Starting
    <2>4. ASSUME NEW p \in procs', schedthread'[p] \notin {nil, thread'[p]}
          PROVE  thread'[p] = nil /\ pc'[schedthread'[p]] = "procnext" /\ tproc'[schedthread'[p]] = p
      <3>1. /\ schedthread[p] \in Threads /\ thread[p] = nil
            /\ pc[schedthread[p]] = "procnext" /\ tproc[schedthread[p]] = p
        BY <2>4, SMT DEF Turns, TypeOK, Stays
      <3>. QED  BY <3>1 DEF Stays, Labels, Starting
    <2>5. \A v \in Threads : \A p \in Procs : thread[p] = v => pc[v] \in Labels \cup Starting
      BY <2>0, SMT DEF Turns
    <2>6. Chosen' = Chosen
      BY <2>5 DEF Chosen, Stays, Labels, Starting
    <2>. QED  BY <2>1, <2>2, <2>3, <2>4, <2>6 DEF Turns, Active, Stays, Labels, Starting
  \* ... and leaves alone the lists of a proc that nobody runs.
  <1>SpecialKept.
    ASSUME TypeOK, Homes, Special, Stays, UNCHANGED pinthread,
           \A v \in Threads : pc[v] = "procmain" => runqueue'[tproc[v]] = runqueue[tproc[v]],
           \A p \in Procs : pinthread[p] # nil => exiting'[pinthread[p]] = exiting[pinthread[p]]
    PROVE  Special'
    <2>. USE <1>SpecialKept
    <2>1. ASSUME NEW v \in Threads, pc'[v] = "procmain"
          PROVE  /\ runqueue'[tproc'[v]] = <<v>>
                 /\ \A u \in Threads : tproc'[u] = tproc'[v] => u = v
      BY <2>1, SMT DEF Special, Stays, Labels
    <2>2. ASSUME NEW p \in Procs, pinthread'[p] # nil
          PROVE  /\ tproc'[pinthread'[p]] = p /\ ~exiting'[pinthread'[p]]
                 /\ pc'[pinthread'[p]] \in Labels \cup {"procnext"}
      <3>1. pinthread[p] \in Threads /\ tproc[pinthread[p]] = p /\ ~exiting[pinthread[p]]
            /\ pc[pinthread[p]] \in Labels \cup {"procnext"} /\ pinthread'[p] = pinthread[p]
            /\ ~exiting'[pinthread[p]]
        BY <2>2, SMT DEF TypeOK, Special
      <3>. QED  BY <3>1 DEF Stays, Labels
    <2>. QED  BY <2>1, <2>2 DEF Special, Stays, Labels
  <1>WakeupsKept.
    ASSUME TypeOK, Homes, Wakeups, Stays, UNCHANGED <<runasleep, schedasleep, woken>>,
           \A v \in Threads : pc'[v] = "schedsleep" => pc[v] = "schedsleep",
           \A v \in Threads : pc[v] = "procnext" =>
               /\ runqueue'[tproc[v]] = runqueue[tproc[v]]
               /\ idlequeue'[tproc[v]] = idlequeue[tproc[v]]
               /\ pinthread'[tproc[v]] = pinthread[tproc[v]]
    PROVE  Wakeups'
    <2>. USE <1>WakeupsKept
    <2>1. \A v \in Threads : pc'[v] \in {"procnext", "schedsleep"} \/ pc[v] \in {"procnext", "schedsleep"}
                             => pc'[v] = pc[v] /\ tproc'[v] = tproc[v]
      BY DEF Stays, Labels
    <2>2. ASSUME NEW v \in Threads, pc'[v] = "procnext", v \notin woken'
          PROVE  runasleep'[tproc'[v]] /\ ~canrun(tproc[v])'
      BY <2>1, <2>2, SMT DEF Wakeups, canrun, nextqueue
    <2>3. \A v \in woken' : pc'[v] \in {"procnext", "schedsleep"}
      BY <2>1 DEF Wakeups, TypeOK, Stays, Labels
    <2>4. \A v \in Threads : schedasleep'[v] => pc'[v] = "schedsleep"
      BY <2>1 DEF Wakeups, Stays, Labels
    <2>5. \A v \in Threads : pc'[v] = "schedsleep" /\ v \notin woken' => schedasleep'[v] /\ thread'[tproc'[v]] # v
      BY SMT DEF Wakeups, Stays
    <2>. QED  BY <2>2, <2>3, <2>4, <2>5 DEF Wakeups, Stays, Labels
  <1>CountsKept.
    ASSUME Counts, UNCHANGED <<countvars, nthread>>,
           \A v \in Threads : tproc'[v] = tproc[v] /\ (pc[v] = "procnext" <=> pc'[v] = "procnext"),
           \A v \in Threads : pc[v] = "procnext" => exiting'[v] = exiting[v]
    PROVE  Counts'
    <2>. USE <1>CountsKept
    <2>1. \A p \in procs : Counted(p)' = Counted(p)
      BY DEF Counted
    <2>. QED  BY <2>1 DEF Counts, countvars
  <1>CreatePreserves.
    ASSUME IInv, NEW t \in Threads, NEW u \in Threads, threadcreate(t, u)
    PROVE  IInv'
    <2>. USE <1>CreatePreserves
    <2>. DEFINE p == tproc[t]
    <2>1. /\ p \in procs /\ p \in Procs /\ thread[p] = t /\ t # u
          /\ \A v \in Threads : tproc[v] = p => pc[v] \notin {"procnext", "procmain"}
      BY Alone DEF IInv, Labels, threadcreate, at, goto, countvars
    <2>2. u \notin Parked /\ tproc[u] = nil /\ ~exiting[u] /\ nil \notin Procs
      BY SchedAssumption DEF IInv, Parked, Homes, threadcreate, at, goto, countvars
    <2>3. u \notin On(runqueue) /\ u \notin On(idlequeue)
      BY <2>2, NotPlaced DEF IInv, threadcreate, at, goto, countvars
    <2>4. \A v \in Threads : /\ pc'[v] = IF v = u THEN "newpthread" ELSE pc[v]
                             /\ tproc'[v] = IF v = u THEN p ELSE tproc[v]
      BY DEF IInv, TypeOK, threadcreate, at, goto, countvars
    <2>8. runqueue'[p] = addthread(runqueue[p], u) /\ \A x \in Procs : x # p => runqueue'[x] = runqueue[x]
      BY <2>1 DEF IInv, TypeOK, threadcreate, at, goto, countvars
    <2>5. /\ \A x \in Procs : runqueue'[x] \in Seq(Threads)
          /\ Queues' /\ On(runqueue') = On(runqueue) \cup {u}
      <3>1. tproc'[u] = p /\ \A v \in Threads : v # u => tproc'[v] = tproc[v]
        BY <2>4 DEF threadcreate, at, goto, countvars
      <3>. QED  BY <2>1, <2>3, <2>8, <3>1, <1>RunqueueAdded DEF IInv, threadcreate, at, goto,
                   countvars
    <2>6. TypeOK'
      BY <2>1, <2>5, SMT DEF IInv, TypeOK, PC, threadcreate, goto, countvars
    <2>7. Homes'
      BY <2>4, SMT DEF IInv, Homes, threadcreate, at, countvars
    <2>9. Stays
      BY <2>1, <2>4 DEF Stays, threadcreate, at, countvars
    <2>10. Turns' /\ Chosen' = Chosen
      BY <2>9, <1>TurnsKept DEF IInv, threadcreate, at, goto, countvars
    <2>11. \A v \in Threads : pc[v] \in {"procnext", "procmain"} => runqueue'[tproc[v]] = runqueue[tproc[v]]
      BY <2>1, <2>8 DEF IInv, Homes, TypeOK, threadcreate, at, goto, countvars
    <2>12. Special' /\ Wakeups'
      BY <2>4, <2>9, <2>11, <1>SpecialKept, <1>WakeupsKept DEF IInv, threadcreate
    <2>13. Parked' = Parked \cup {u} /\ Held' = Held
      BY <2>2, <2>4 DEF Parked, Held, threadcreate
    <2>14. Placed'
      BY <2>2, <2>5, <2>10, <2>13, <1>PlacedJoins DEF IInv, threadcreate, at, goto, countvars
    <2>15. Counts'
      <3>1. \A q \in procs : q # p => Counted(q)' = Counted(q)
        BY <2>2, <2>4, SMT DEF IInv, Counted, TypeOK, threadcreate
      <3>2. Counted(p)' = Counted(p) \cup {u} /\ u \notin Counted(p)
        BY <2>1, <2>2, <2>4, SMT DEF Counted
      <3>3. Counted(p) \in SUBSET Threads
        BY DEF Counted, threadcreate, at, goto, countvars
      <3>4. Cardinality(Counted(p)') = Cardinality(Counted(p)) + 1
        <4>1. Counting(Threads)
          BY DEF IInv
        <4>2. Cardinality(Counted(p) \cup {u}) = Cardinality(Counted(p)) + 1
          BY <3>2, <3>3, <4>1, CountMore
        <4>. QED  BY <3>2, <4>2
      <3>5. \A q \in procs : nthread'[q] = Cardinality(Counted(q)')
        BY <2>1, <3>1, <3>4 DEF IInv, Counts, TypeOK, threadcreate, at, goto, countvars
      <3>. QED  BY <3>5 DEF IInv, Counts, threadcreate, at, goto, countvars
    <2>. QED  BY <2>5, <2>6, <2>7, <2>10, <2>12, <2>14, <2>15 DEF IInv, threadcreate, at,
                 goto, countvars
  \* threadyield, threadidle and block.
  <1>ParkPreserves.
    ASSUME IInv, NEW t \in Threads, threadyield(t) \/ threadidle(t) \/ block(t)
    PROVE  IInv'
    <2>. USE <1>ParkPreserves
    <2>. DEFINE p == tproc[t]
    <2>0. /\ pc[t] = "run" /\ pc' = [pc EXCEPT ![t] = "switch"]
          /\ UNCHANGED <<countvars, thread, schedthread, pinthread, nthread, runasleep, tproc,
                         exiting, schedasleep, hand, woken>>
      BY DEF threadyield, threadidle, block, at, goto, countvars
    <2>1. /\ p \in procs /\ p \in Procs /\ thread[p] = t
          /\ \A v \in Threads : tproc[v] = p => pc[v] \notin {"procnext", "procmain"}
      BY <2>0, Alone DEF IInv, Labels, at, goto, countvars
    <2>2. t \notin Parked /\ ~exiting[t]
      BY <2>0 DEF IInv, Parked, Homes, at, goto, countvars
    <2>3. t \notin On(runqueue) /\ t \notin On(idlequeue)
      BY <2>2, NotPlaced DEF IInv, at, goto, countvars
    <2>4. \/ /\ UNCHANGED <<idlequeue, waiting>>
             /\ runqueue' = [runqueue EXCEPT ![p] = addthread(runqueue[p], t)]
          \/ /\ UNCHANGED <<runqueue, waiting>>
             /\ idlequeue' = [idlequeue EXCEPT ![p] = addthread(idlequeue[p], t)]
          \/ UNCHANGED <<runqueue, idlequeue>> /\ waiting' = waiting \cup {t}
      BY DEF threadyield, threadidle, block, at, goto, countvars
    <2>5. \A v \in Threads : pc'[v] = IF v = t THEN "switch" ELSE pc[v]
      BY <2>0 DEF IInv, TypeOK, at, goto, countvars
    <2>6. Stays
      BY <2>0, <2>5 DEF Stays, Labels, at, goto, countvars
    <2>7. Turns' /\ Chosen' = Chosen
      BY <2>6, <1>TurnsKept DEF IInv, at, goto, countvars
    <2>8. Homes'
      BY <2>0, SMT DEF IInv, Homes, countvars
    <2>9. \A x \in Procs : x # p => runqueue'[x] = runqueue[x] /\ idlequeue'[x] = idlequeue[x]
      BY <2>4 DEF IInv, TypeOK, at, goto, countvars
    <2>10. \A v \in Threads : pc[v] \in {"procnext", "procmain"} =>
               runqueue'[tproc[v]] = runqueue[tproc[v]] /\ idlequeue'[tproc[v]] = idlequeue[tproc[v]]
      BY <2>1, <2>9 DEF IInv, Homes, TypeOK, at, goto, countvars
    <2>11. Special' /\ Wakeups'
      BY <2>0, <2>6, <2>10, <1>SpecialKept, <1>WakeupsKept, SMT DEF IInv
    <2>12. Counts'
      BY <2>0, <1>CountsKept, SMT DEF IInv
    <2>13. Held' = Held /\ Parked' = Parked \cup {t}
      BY <2>0, <2>2, <2>5, SMT DEF Held, Parked
    <2>14. CASE /\ UNCHANGED <<idlequeue, waiting>>
                /\ runqueue' = [runqueue EXCEPT ![p] = addthread(runqueue[p], t)]
      <3>3. runqueue'[p] = addthread(runqueue[p], t)
        BY <2>1, <2>14 DEF IInv, TypeOK, at, goto, countvars
      <3>1. /\ \A x \in Procs : runqueue'[x] \in Seq(Threads)
            /\ Queues' /\ On(runqueue') = On(runqueue) \cup {t}
        BY <2>0, <2>1, <2>3, <2>9, <2>14, <3>3, <1>RunqueueAdded DEF IInv, at, goto, countvars
      <3>2. TypeOK'
        BY <2>0, <2>14, <3>1 DEF IInv, TypeOK, PC, at, goto, countvars
      <3>4. Placed'
        BY <2>2, <2>7, <2>13, <2>14, <3>1, <1>PlacedJoins DEF IInv, at, goto, countvars
      <3>. QED  BY <3>1, <3>2, <3>4, <2>7, <2>8, <2>11, <2>12 DEF IInv, at, goto, countvars
    <2>15. CASE /\ UNCHANGED <<runqueue, waiting>>
                /\ idlequeue' = [idlequeue EXCEPT ![p] = addthread(idlequeue[p], t)]
      <3>3. idlequeue'[p] = addthread(idlequeue[p], t)
        BY <2>1, <2>15 DEF IInv, TypeOK, at, goto, countvars
      <3>1. /\ \A x \in Procs : idlequeue'[x] \in Seq(Threads)
            /\ Queues' /\ On(idlequeue') = On(idlequeue) \cup {t}
        BY <2>0, <2>1, <2>3, <2>9, <2>15, <3>3, <1>IdlequeueAdded DEF IInv, at, goto, countvars
      <3>2. TypeOK'
        BY <2>0, <2>15, <3>1 DEF IInv, TypeOK, PC, at, goto, countvars
      <3>4. Placed'
        BY <2>2, <2>7, <2>13, <2>15, <3>1, <1>PlacedJoins DEF IInv, at, goto, countvars
      <3>. QED  BY <3>1, <3>2, <3>4, <2>7, <2>8, <2>11, <2>12 DEF IInv, at, goto, countvars
    <2>16. CASE UNCHANGED <<runqueue, idlequeue>> /\ waiting' = waiting \cup {t}
      <3>1. TypeOK'
        BY <2>0, <2>16 DEF IInv, TypeOK, PC, at, goto, countvars
      <3>2. Queues'
        BY <2>0, <2>16 DEF IInv, Queues, at, goto, countvars
      <3>3. Placed'
        BY <2>2, <2>7, <2>13, <2>16, <1>PlacedJoins DEF IInv, at, goto, countvars
      <3>. QED  BY <3>1, <3>2, <3>3, <2>7, <2>8, <2>11, <2>12 DEF IInv, at, goto, countvars
    <2>. QED  BY <2>4, <2>14, <2>15, <2>16 DEF at, goto, countvars
  <1>ExitsPreserves.
    ASSUME IInv, NEW t \in Threads, threadexits(t)
    PROVE  IInv'
    <2>. USE <1>ExitsPreserves
    <2>1. \A v \in Threads : pc'[v] = IF v = t THEN "switch" ELSE pc[v]
      BY DEF IInv, TypeOK, threadexits, at, goto, countvars
    <2>2. \A v \in Threads : v # t => exiting'[v] = exiting[v]
      BY DEF IInv, TypeOK, threadexits, at, goto, countvars
    <2>3. exiting'[t] /\ ~exiting[t] /\ tproc[t] \in procs /\ tproc[t] \in Procs
      BY DEF IInv, TypeOK, Homes, threadexits, at, goto, countvars
    <2>4. TypeOK'
      BY DEF IInv, TypeOK, PC, threadexits, at, goto, countvars
    <2>5. Homes'
      BY <2>1, SMT DEF IInv, Homes, threadexits, at, countvars
    <2>6. Stays
      BY <2>1 DEF Stays, Labels, threadexits, at, goto, countvars
    <2>7. Turns' /\ Chosen' = Chosen
      BY <2>6, <1>TurnsKept DEF IInv, threadexits, at, goto, countvars
    <2>8. ASSUME NEW x \in Procs, pinthread[x] # nil
          PROVE  exiting'[pinthread[x]] = exiting[pinthread[x]]
      <3>1. pinthread[x] \in Threads /\ pinthread[x] # t
        BY <2>8, SMT DEF IInv, TypeOK, Special, threadexits
      <3>. QED  BY <2>2, <3>1 DEF threadexits, at, goto, countvars
    <2>9. Special' /\ Wakeups'
      <3>1. Special'
        BY <2>6, <2>8, <1>SpecialKept DEF IInv, threadexits, at, goto, countvars
      <3>. QED  BY <2>1, <2>6, <3>1, <1>WakeupsKept DEF IInv, threadexits
    <2>10. \A v \in Threads : pc[v] = "procnext" => exiting'[v] = exiting[v]
      BY <2>2 DEF threadexits, at, goto, countvars
    <2>15. \A v \in Threads : tproc'[v] = tproc[v] /\ (pc[v] = "procnext" <=> pc'[v] = "procnext")
      BY <2>1 DEF threadexits, at
    <2>14. Counts'
      BY <2>10, <2>15, <1>CountsKept DEF IInv, threadexits, at, goto, countvars
    <2>11. Queues'
      BY DEF IInv, Queues, threadexits, at, goto, countvars
    <2>12. Held' = Held /\ Parked' = Parked
      BY <2>1, <2>3, SMT DEF Held, Parked, threadexits, at
    <2>13. Placed'
      BY <2>7, <2>12 DEF IInv, Placed, threadexits, at, goto, countvars
    <2>. QED  BY <2>4, <2>5, <2>7, <2>9, <2>14, <2>11, <2>13 DEF IInv, threadexits, at, goto,
                 countvars
  <1>TakePreserves.
    ASSUME IInv, NEW t \in Threads, NEW u \in Threads, take(t, u)
    PROVE  IInv'
    <2>. USE <1>TakePreserves
    <2>1. \A v \in Threads : /\ pc'[v] = IF v = t THEN "readying" ELSE pc[v]
                             /\ hand'[v] = IF v = t THEN u ELSE hand[v]
      BY DEF IInv, TypeOK, take, at, goto, countvars
    <2>2. /\ ~exiting[t] /\ hand[t] = nil /\ nil \notin Threads
          /\ tproc[t] \in procs
      BY SchedAssumption DEF IInv, TypeOK, Homes, take, at, goto, countvars
    <2>4. u \notin Held
      BY DEF IInv, Placed, Apart, take, at, goto, countvars
    <2>5. TypeOK'
      BY DEF IInv, TypeOK, PC, take, at, goto, countvars
    <2>6. Homes'
      BY <2>1, <2>2, <2>4, SMT DEF IInv, Homes, Held, take, countvars
    <2>7. Stays
      BY <2>1 DEF Stays, Labels, take, at, goto, countvars
    <2>8. Turns' /\ Chosen' = Chosen
      BY <2>7, <1>TurnsKept DEF IInv, take, at, goto, countvars
    <2>9. Special' /\ Wakeups'
      BY <2>1, <2>7, <1>SpecialKept, <1>WakeupsKept DEF IInv, take
    <2>10. Counts'
      BY <2>1, <1>CountsKept DEF IInv, take, at
    <2>11. Queues'
      BY DEF IInv, Queues, take, at, goto, countvars
    <2>12. Held' = Held \cup {u}
      BY <2>1, <2>2 DEF Held, take, at, goto, countvars
    <2>13. Parked' = Parked
      BY <2>1 DEF Parked, take, at, goto, countvars
    <2>14. Placed'
      BY <2>8, <2>12, <2>13, <1>PlacedMoves DEF IInv, take, at, goto, countvars
    <2>. QED  BY <2>5, <2>6, <2>8, <2>9, <2>10, <2>11, <2>14 DEF IInv, take, at, goto,
                 countvars
  <1>ReadyPreserves.
    ASSUME IInv, NEW t \in Threads, _threadready(t)
    PROVE  IInv'
    <2>. USE <1>ReadyPreserves
    <2>. DEFINE u == hand[t]
                p == tproc[u]
    <2>0. /\ pc[t] = "readying" /\ pc' = [pc EXCEPT ![t] = "run"] /\ hand' = [hand EXCEPT ![t] = nil]
          /\ runqueue' = [runqueue EXCEPT ![p] = addthread(runqueue[p], u)]
          /\ UNCHANGED <<countvars, thread, schedthread, pinthread, idlequeue,
                         nthread, tproc, exiting, schedasleep, waiting>>
          /\ \/ /\ p # tproc[t] /\ runasleep' = [runasleep EXCEPT ![p] = FALSE]
                /\ woken' = woken \cup {v \in Threads : runasleep[p] /\ tproc[v] = p /\ pc[v] = "procnext"}
             \/ p = tproc[t] /\ UNCHANGED <<runasleep, woken>>
      BY DEF _threadready, _procwakeup, at, goto, countvars
    <2>1. u \in Threads /\ u \in Held /\ ~exiting[t]
      BY <2>0 DEF IInv, Homes, TypeOK, Held, at, goto, countvars
    <2>2. u \notin On(runqueue)
      BY <2>1 DEF IInv, Placed, Apart, at, goto, countvars
    <2>3. ~exiting[u] /\ pc[u] \notin {"none", "sleeper"}
      <3>1. u \in Parked
        BY <2>1 DEF IInv, Placed, Apart, at, goto, countvars
      <3>. QED  BY <3>1 DEF IInv, Parked, Homes, at, goto, countvars
    <2>4. p \in procs /\ p \in Procs
      BY <2>1, <2>3 DEF IInv, Homes, TypeOK, at, goto, countvars
    <2>5. \A v \in Threads : /\ pc'[v] = IF v = t THEN "run" ELSE pc[v]
                             /\ hand'[v] = IF v = t THEN nil ELSE hand[v]
      BY <2>0 DEF IInv, TypeOK, at, goto, countvars
    <2>6. runqueue'[p] = addthread(runqueue[p], u) /\ \A x \in Procs : x # p => runqueue'[x] = runqueue[x]
      BY <2>0, <2>4 DEF IInv, TypeOK, at, goto, countvars
    <2>7. /\ \A x \in Procs : runqueue'[x] \in Seq(Threads)
          /\ Queues' /\ On(runqueue') = On(runqueue) \cup {u}
      BY <2>0, <2>1, <2>2, <2>4, <2>6, <1>RunqueueAdded DEF IInv, at, goto, countvars
    <2>8. TypeOK'
      BY <2>0, <2>7 DEF IInv, TypeOK, PC, at, goto, countvars
    <2>9. Homes'
      BY <2>0, <2>5, SMT DEF IInv, Homes, countvars
    <2>10. Stays
      BY <2>0, <2>5 DEF Stays, Labels, at, goto, countvars
    <2>11. Turns' /\ Chosen' = Chosen
      BY <2>10, <1>TurnsKept DEF IInv, at, goto, countvars
    <2>12. ASSUME NEW v \in Threads, pc[v] = "procmain" PROVE runqueue'[tproc[v]] = runqueue[tproc[v]]
      <3>1. v \in On(runqueue)
        <4>1. tproc[v] \in Procs /\ runqueue[tproc[v]] = <<v>>
          BY <2>12 DEF IInv, Homes, TypeOK, Special, at, goto, countvars
        <4>2. v \in InList(<<v>>)
          BY SMT DEF InList
        <4>. QED  BY <4>1, <4>2 DEF On, at, goto, countvars
      <3>2. v # u
        BY <2>2, <3>1 DEF at, goto, countvars
      <3>3. tproc[v] # p /\ tproc[v] \in Procs
        <4>1. \A x \in Threads : tproc[x] = tproc[v] => x = v
          BY <2>12 DEF IInv, Special, at, goto, countvars
        <4>2. tproc[v] \in Procs
          BY <2>12 DEF IInv, Homes, TypeOK, at, goto, countvars
        <4>. QED  BY <2>1, <3>2, <4>1, <4>2 DEF at, goto, countvars
      <3>. QED  BY <2>6, <3>3 DEF at, goto, countvars
    <2>13. Special'
      BY <2>0, <2>10, <2>12, <1>SpecialKept DEF IInv, at, goto, countvars
    <2>14. Wakeups'
      <3>1. woken \subseteq woken' /\ \A v \in woken' : v \in woken \/ pc[v] = "procnext"
        BY <2>0 DEF at, goto, countvars
      <3>2. ASSUME NEW v \in Threads, pc[v] = "procnext", v \notin woken'
            PROVE  tproc[v] # p /\ tproc[v] \in Procs
        <4>1. CASE p # tproc[t]
          BY <2>0, <3>2, <4>1 DEF IInv, Wakeups, TypeOK, Homes, at, goto, countvars
        <4>2. CASE p = tproc[t]
          <5>1. pc[t] \in Labels
            BY <2>0 DEF Labels
          <5>2. tproc[v] # tproc[t]
            BY <3>2, <5>1, Alone DEF IInv
          <5>3. tproc[v] \in Procs
            BY <3>2 DEF IInv, Homes, TypeOK
          <5>. QED  BY <4>2, <5>2, <5>3
        <4>. QED  BY <4>1, <4>2 DEF at, goto, countvars
      <3>3. \A x \in Procs : x # p => runasleep'[x] = runasleep[x]
        BY <2>0 DEF IInv, TypeOK, at, goto, countvars
      <3>4. ASSUME NEW v \in Threads, pc'[v] = "procnext", v \notin woken'
            PROVE  runasleep'[tproc'[v]] /\ ~canrun(tproc[v])'
        <4>1. pc[v] = "procnext" /\ v \notin woken
          BY <2>5, <3>1, <3>4 DEF at, goto, countvars
        <4>2. tproc[v] # p /\ tproc[v] \in Procs
          BY <3>2, <3>4, <4>1 DEF at, goto, countvars
        <4>3. runasleep[tproc[v]] /\ ~canrun(tproc[v])
          BY <4>1 DEF IInv, Wakeups, at, goto, countvars
        <4>. QED  BY <2>0, <2>6, <3>3, <4>2, <4>3 DEF canrun, nextqueue, at, goto, countvars
      <3>5. \A v \in woken' : pc'[v] \in {"procnext", "schedsleep"}
        BY <2>0, SMT DEF IInv, Wakeups
      <3>6. \A v \in Threads : /\ schedasleep'[v] => pc'[v] = "schedsleep"
                               /\ pc'[v] = "schedsleep" /\ v \notin woken' => schedasleep'[v] /\ thread'[tproc'[v]] # v
        BY <2>0, SMT DEF IInv, Wakeups
      <3>. QED  BY <3>4, <3>5, <3>6 DEF Wakeups, at, goto, countvars
    <2>15. Counts'
      BY <2>0, <1>CountsKept, SMT DEF IInv
    <2>16. Parked' = Parked
      BY <2>0, <2>5 DEF Parked, at, goto, countvars
    <2>17. Held' = Held \ {u}
      BY <2>5, SchedAssumption, SMT DEF IInv, Held, Homes
    <2>18. Placed'
      BY <2>0, <2>1, <2>7, <2>11, <2>16, <2>17, <1>PlacedMoves DEF IInv, at, goto, countvars
    <2>. QED  BY <2>7, <2>8, <2>9, <2>11, <2>13, <2>14, <2>15, <2>18 DEF IInv, at, goto,
                 countvars
  \* threadpin and threadunpin.
  <1>PinPreserves.
    ASSUME IInv, NEW t \in Threads, threadpin(t) \/ threadunpin(t)
    PROVE  IInv'
    <2>. USE <1>PinPreserves
    <2>. DEFINE p == tproc[t]
    <2>0. /\ pc[t] = "run" /\ \E n \in {t, nil} : pinthread' = [pinthread EXCEPT ![p] = n]
          /\ UNCHANGED <<countvars, thread, schedthread, runqueue, idlequeue, nthread,
                         runasleep, tproc, exiting, schedasleep, pc, hand, waiting, woken>>
      BY DEF threadpin, threadunpin, at
    <2>1. /\ p \in procs /\ p \in Procs
          /\ \A v \in Threads : tproc[v] = p => pc[v] \notin {"procnext", "procmain"}
      BY <2>0, Alone DEF IInv, Labels, at
    <2>2. pinthread'[p] \in {t, nil} /\ \A x \in Procs : x # p => pinthread'[x] = pinthread[x]
      BY <2>0, <2>1 DEF IInv, TypeOK, at
    <2>3. TypeOK'
      <3>0. PICK n \in {t, nil} : pinthread' = [pinthread EXCEPT ![p] = n]
        BY <2>0 DEF at
      <3>1. pinthread' \in [Procs -> Threads \cup {nil}]
        BY <3>0 DEF IInv, TypeOK, at
      <3>. QED  BY <2>0, <3>1 DEF IInv, TypeOK, countvars, at
    <2>4. Homes' /\ Queues' /\ Counts'
      <3>1. Homes' /\ Queues'
        BY <2>0, SMT DEF IInv, Homes, Queues, countvars
      <3>2. Counts'
        BY <2>0 DEF IInv, Counts, Counted, countvars
      <3>. QED  BY <3>1, <3>2
    <2>5. Stays
      BY <2>0 DEF Stays, countvars, at
    <2>6. Turns' /\ Chosen' = Chosen
      BY <2>5, <1>TurnsKept DEF IInv, at
    <2>7. Special'
      <3>1. ~exiting[t]
        BY <2>0 DEF IInv, Homes, at
      <3>. QED  BY <2>0, <3>1, SMT DEF IInv, Special, Labels
    <2>8. Wakeups'
      <3>1. \A v \in Threads : pc[v] = "procnext" => tproc[v] # p /\ tproc[v] \in Procs
        BY <2>1 DEF IInv, Homes, TypeOK, at
      <3>. QED  BY <2>0, <2>2, <2>5, <3>1, <1>WakeupsKept DEF IInv, at
    <2>9. Placed'
      BY <2>0, <2>6 DEF IInv, Placed, Parked, Held, at
    <2>. QED  BY <2>3, <2>4, <2>6, <2>7, <2>8, <2>9 DEF IInv, at
  <1>SysprocPreserves.
    ASSUME IInv, NEW t \in Threads, _threadsetsysproc(t)
    PROVE  IInv'
    <2>. USE <1>SysprocPreserves
    <2>. DEFINE p == tproc[t]
                S == {q \in procs : sysproc[q]}
                T == {q \in procs : sysproc'[q]}
    <2>1. p \in procs /\ p \in Procs /\ procs \in SUBSET Procs
      BY DEF IInv, Homes, TypeOK, _threadsetsysproc, at
    <2>2. TypeOK'
      <3>1. threadnsysproc' \in Nat
        BY SMT DEF IInv, TypeOK, _threadsetsysproc
      <3>2. halted' \in BOOLEAN
        BY DEF _threadsetsysproc, at
      <3>3. sysproc' \in [Procs -> BOOLEAN]
        BY DEF IInv, TypeOK, _threadsetsysproc, at
      <3>. QED  BY <3>1, <3>2, <3>3 DEF IInv, TypeOK, _threadsetsysproc, at
    <2>3. Homes' /\ Queues' /\ Special'
      BY SMT DEF IInv, Homes, Queues, Special, _threadsetsysproc
    <2>4. Stays
      BY DEF Stays, _threadsetsysproc, at
    <2>5. Turns' /\ Chosen' = Chosen
      BY <2>4, <1>TurnsKept DEF IInv, _threadsetsysproc, at
    <2>6. Wakeups'
      BY <2>4, <1>WakeupsKept DEF IInv, _threadsetsysproc, at
    <2>7. Placed'
      BY <2>5 DEF IInv, Placed, Parked, Held, _threadsetsysproc, at
    <2>8. Counts'
      <3>1. T = S \cup {p} /\ p \notin S
        BY <2>1 DEF IInv, TypeOK, _threadsetsysproc, at
      <3>2. S \in SUBSET procs /\ T \in SUBSET procs
        BY DEF _threadsetsysproc, at
      <3>3. threadnsysproc = Cardinality(S) /\ threadnproc = Cardinality(procs)
        BY DEF IInv, Counts, _threadsetsysproc, at
      <3>4. T = procs <=> \A q \in procs : sysproc'[q]
        BY DEF _threadsetsysproc, at
      <3>. HIDE DEF S, T
      <3>6. Cardinality(T) = Cardinality(S) + 1
        <4>1. procs \in SUBSET Procs
          BY DEF IInv, TypeOK
        <4>2. S \in SUBSET Procs /\ p \in Procs /\ Counting(Procs)
          BY <2>1, <3>2, <4>1 DEF IInv
        <4>. QED  BY <3>1, <4>2, CountMore
      <3>7. Cardinality(procs) = Cardinality(T) <=> procs = T
        BY <2>1, <3>2, AllSysprocs DEF IInv, _threadsetsysproc, at
      <3>8. halted' <=> \A q \in procs : sysproc'[q]
        BY <3>3, <3>4, <3>6, <3>7 DEF _threadsetsysproc, at
      <3>9. \A q \in procs : Counted(q)' = Counted(q)
        BY DEF Counted, _threadsetsysproc, at
      <3>10. threadnsysproc' = Cardinality(T)
        BY <3>3, <3>6 DEF _threadsetsysproc, at
      <3>. QED  BY <3>3, <3>8, <3>9, <3>10 DEF IInv, Counts, T, _threadsetsysproc, at
    <2>. QED  BY <2>2, <2>3, <2>5, <2>6, <2>7, <2>8 DEF IInv, _threadsetsysproc, at
  <1>ProcCreatePreserves.
    ASSUME IInv, NEW t \in Threads, NEW p \in Procs, NEW u \in Threads, proccreate(t, p, u)
    PROVE  IInv'
    <2>. USE <1>ProcCreatePreserves
    <2>0. /\ pc[u] = "none" /\ p \notin procs /\ procs' = procs \cup {p} /\ ~halted
          /\ UNCHANGED <<threadnsysproc, halted, thread, pinthread, idlequeue,
                         runasleep, exiting, schedasleep, hand, waiting, woken>>
      BY DEF proccreate, at
    <2>1. u \notin Parked /\ tproc[u] = nil /\ ~exiting[u] /\ nil \notin Procs /\ hand[u] = nil
      BY <2>0, SchedAssumption DEF IInv, Parked, Homes
    <2>2. u \notin On(runqueue) /\ u \notin On(idlequeue)
      BY <2>1, NotPlaced DEF IInv
    <2>3. \A v \in Threads : /\ pc'[v] = IF v = u THEN "procmain" ELSE pc[v]
                             /\ tproc'[v] = IF v = u THEN p ELSE tproc[v]
                             /\ tproc[v] # p
      BY DEF IInv, TypeOK, proccreate, goto
    <2>4. runqueue'[p] = <<u>> /\ \A x \in Procs : x # p => runqueue'[x] = runqueue[x]
      BY DEF IInv, TypeOK, proccreate
    <2>5. /\ \A x \in Procs : runqueue'[x] \in Seq(Threads)
          /\ Queues' /\ On(runqueue') = On(runqueue) \cup {u}
      <3>1. InList(runqueue[p]) = {}
        BY <2>3, EmptyList DEF IInv, Queues, TypeOK
      <3>2. runqueue[p] = <<>>
        BY <3>1, EmptyList, SMT DEF IInv, TypeOK
      <3>3. runqueue'[p] = addthread(runqueue[p], u)
        BY <2>4, <3>2, SMT DEF addthread
      <3>4. tproc'[u] = p /\ \A v \in Threads : v # u => tproc'[v] = tproc[v]
        BY <2>3
      <3>. QED  BY <2>0, <2>2, <2>4, <3>3, <3>4, <1>RunqueueAdded DEF IInv
    <2>6. TypeOK'
      BY SMT DEF IInv, TypeOK, PC, proccreate, goto
    <2>7. Homes'
      BY <2>0, <2>1, <2>3 DEF IInv, Homes
    <2>8. thread[p] = nil /\ pinthread[p] = nil
      BY <2>3, SMT DEF IInv, Turns, Special, TypeOK
    <2>9. \A v \in Threads : pc[v] # "none" => v # u /\ pc'[v] = pc[v] /\ tproc'[v] = tproc[v]
      BY <2>0, <2>3
    <2>10. Turns' /\ Chosen' = Chosen
      <3>1. \A v \in Threads : pc'[v] \in Labels => thread'[tproc'[v]] = v
        BY <2>0, <2>3 DEF IInv, Turns, Active, Labels
      <3>2. \A v \in Threads : pc'[v] \in {"procnext", "procmain"} =>
               /\ thread'[tproc'[v]] = nil
               /\ \A x \in Threads : tproc'[x] = tproc'[v] /\ pc'[x] \in {"procnext", "procmain"} => x = v
        BY <2>0, <2>3, <2>8, SMT DEF IInv, Turns
      <3>3. ASSUME NEW x \in Procs, thread[x] # nil
            PROVE  /\ tproc'[thread[x]] = x
                   /\ pc'[thread[x]] \in Labels \cup Starting
                   /\ pc'[thread[x]] \in Starting => schedthread'[x] = thread[x]
        <4>1. /\ thread[x] \in Threads /\ tproc[thread[x]] = x /\ pc[thread[x]] \in Labels \cup Starting
              /\ pc[thread[x]] \in Starting => schedthread[x] = thread[x]
              /\ x # p
          BY <2>8, <3>3, SMT DEF IInv, Turns, TypeOK
        <4>2. schedthread'[x] = schedthread[x]
          BY <4>1 DEF IInv, TypeOK, proccreate
        <4>. QED  BY <2>9, <4>1, <4>2 DEF Labels, Starting
      <3>4. ASSUME NEW x \in procs', schedthread'[x] \notin {nil, thread[x]}
            PROVE  thread[x] = nil /\ pc'[schedthread'[x]] = "procnext" /\ tproc'[schedthread'[x]] = x
        <4>1. x # p /\ x \in procs /\ schedthread'[x] = schedthread[x]
          BY <3>4 DEF IInv, TypeOK, proccreate
        <4>2. schedthread[x] \in Threads
          BY <3>4, <4>1 DEF IInv, TypeOK
        <4>. QED  BY <2>9, <3>4, <4>1, <4>2, SMT DEF IInv, Turns
      <3>5. Chosen' = Chosen
        BY <2>0, <2>3 DEF Chosen, Starting
      <3>. QED  BY <2>0, <3>1, <3>2, <3>3, <3>4, <3>5 DEF Turns, Active, Labels
    <2>11. Special'
      <3>1. ASSUME NEW v \in Threads, pc'[v] = "procmain"
            PROVE  /\ runqueue'[tproc'[v]] = <<v>>
                   /\ \A x \in Threads : tproc'[x] = tproc'[v] => x = v
        <4>1. CASE v = u
          BY <2>3, <2>4, <4>1
        <4>2. CASE v # u
          <5>1. pc[v] = "procmain" /\ tproc'[v] = tproc[v] /\ tproc[v] # p /\ tproc[v] \in Procs
            BY <2>3, <3>1, <4>2 DEF IInv, Homes, TypeOK
          <5>2. runqueue[tproc[v]] = <<v>> /\ \A x \in Threads : tproc[x] = tproc[v] => x = v
            BY <5>1 DEF IInv, Special
          <5>. QED  BY <2>3, <2>4, <5>1, <5>2
        <4>. QED  BY <4>1, <4>2
      <3>2. ASSUME NEW x \in Procs, pinthread[x] # nil
            PROVE  /\ tproc'[pinthread[x]] = x /\ ~exiting'[pinthread[x]]
                   /\ pc'[pinthread[x]] \in Labels \cup {"procnext"}
        <4>1. /\ pinthread[x] \in Threads /\ tproc[pinthread[x]] = x /\ ~exiting[pinthread[x]]
              /\ pc[pinthread[x]] \in Labels \cup {"procnext"}
          BY <3>2, SMT DEF IInv, Special, TypeOK
        <4>. QED  BY <2>0, <2>9, <4>1 DEF Labels
      <3>. QED  BY <2>0, <3>1, <3>2 DEF Special
    <2>12. Wakeups'
      <3>1. \A v \in woken' : pc'[v] \in {"procnext", "schedsleep"}
        BY <2>0, <2>9 DEF IInv, Wakeups, TypeOK
      <3>2. \A v \in Threads : /\ schedasleep'[v] => pc'[v] = "schedsleep"
                               /\ pc'[v] = "schedsleep" /\ v \notin woken' => schedasleep'[v] /\ thread'[tproc'[v]] # v
        BY <2>0, <2>3, SMTT(30) DEF IInv, Wakeups
      <3>3. ASSUME NEW v \in Threads, pc'[v] = "procnext", v \notin woken'
            PROVE  runasleep'[tproc'[v]] /\ ~canrun(tproc[v])'
        <4>1. pc[v] = "procnext" /\ tproc'[v] = tproc[v] /\ tproc[v] # p /\ tproc[v] \in Procs
          BY <2>3, <3>3 DEF IInv, Homes, TypeOK
        <4>. QED  BY <2>0, <2>4, <3>3, <4>1, SMT DEF IInv, Wakeups, canrun, nextqueue
      <3>4. \A v \in Threads : pc'[v] = "procnext" => tproc'[v] = tproc[v]
        BY <2>3
      <3>. QED  BY <3>1, <3>2, <3>3, <3>4 DEF Wakeups
    <2>13. Parked' = Parked \cup {u} /\ Held' = Held
      BY <2>0, <2>1, <2>3 DEF Parked, Held
    <2>14. Placed'
      BY <2>0, <2>1, <2>5, <2>10, <2>13, <1>PlacedJoins DEF IInv
    <2>15. Counts'
      <3>0. ASSUME NEW q \in procs PROVE Counted(q)' = Counted(q)
        BY <2>0, <2>1, <2>3 DEF IInv, Counted, TypeOK
      <3>1. \A q \in procs : nthread'[q] = nthread[q] /\ sysproc'[q] = sysproc[q]
        BY <2>0 DEF IInv, TypeOK, proccreate
      <3>2. Counted(p)' = {u} /\ nthread'[p] = 1 /\ sysproc'[p] = FALSE
        BY <2>3 DEF IInv, Counted, TypeOK, proccreate
      <3>3. Cardinality(Counted(p)') = 1
        BY <3>2, CountOne DEF IInv
      <3>4. Cardinality(procs') = Cardinality(procs) + 1
        <4>1. procs \in SUBSET Procs /\ p \in Procs \ procs /\ Counting(Procs)
          BY <2>0 DEF IInv, TypeOK
        <4>. QED  BY <2>0, <4>1, CountMore
      <3>5. threadnproc' = Cardinality(procs')
        BY <3>4 DEF IInv, Counts, proccreate
      <3>6. {q \in procs' : sysproc'[q]} = {q \in procs : sysproc[q]}
        BY <2>0, <3>1, <3>2
      <3>7. threadnsysproc' = Cardinality({q \in procs' : sysproc'[q]})
        BY <2>0, <3>6 DEF IInv, Counts
      <3>. QED  BY <2>0, <3>0, <3>1, <3>2, <3>3, <3>5, <3>7 DEF IInv, Counts
    <2>. QED  BY <2>5, <2>6, <2>7, <2>10, <2>11, <2>12, <2>14, <2>15 DEF IInv
  \* A thread leaves its place and runs.
  <1>PlacedLeaves.
    ASSUME Placed, NEW x, Parked' = Parked \ {x}, Held' = Held, UNCHANGED <<idlequeue, waiting>>,
           \/ x \in On(runqueue) /\ On(runqueue') = On(runqueue) \ {x} /\ Chosen' = Chosen
           \/ x \in Chosen /\ UNCHANGED runqueue /\ Chosen' = Chosen \ {x}
    PROVE  Placed'
    <2>. USE <1>PlacedLeaves
    <2>. DEFINE R == On(runqueue)
                I == On(idlequeue)
    <2>1. Apart(Parked, R, I, waiting, Held, Chosen) /\ (Placed' <=> Apart(Parked', R', I', waiting', Held', Chosen'))
      BY DEF Placed
    <2>2. UNCHANGED runqueue => R' = R
      OBVIOUS
    <2>3. I' = I
      OBVIOUS
    <2>4. \/ x \in R /\ R' = R \ {x} /\ Chosen' = Chosen
          \/ x \in Chosen /\ R' = R /\ Chosen' = Chosen \ {x}
      BY <2>2
    <2>. HIDE DEF R, I
    <2>. QED  BY <2>1, <2>3, <2>4 DEF Apart
  \* The list of p loses a thread.
  <1>ListRemoved.
    ASSUME NEW q, Lists(q), NEW p \in Procs, NEW u \in Threads, u \in InList(q[p]),
           NEW r, r[p] = delthread(q[p], u), \A x \in Procs : x # p => r[x] = q[x]
    PROVE  /\ \A x \in Procs : r[x] \in Seq(Threads) /\ NoDup(r[x])
           /\ InList(r[p]) = InList(q[p]) \ {u}
           /\ u \in On(q) /\ On(r) = On(q) \ {u}
    <2>. USE <1>ListRemoved
    <2>1. q \in [Procs -> Seq(Threads)] /\ q[p] \in Seq(Threads) /\ NoDup(q[p])
      BY DEF Lists
    <2>2. InList(q[p]) \subseteq On(q)
      BY <2>1, EmptyList DEF On
    <2>3. r[p] \in Seq(Threads) /\ NoDup(r[p]) /\ InList(r[p]) = InList(q[p]) \ {u}
      BY <2>1, DelThread, SMT
    <2>4. On(r) = (On(q) \ InList(q[p])) \cup InList(r[p])
      BY <2>3, <1>ListReplaced
    <2>. QED  BY <2>1, <2>2, <2>3, <2>4 DEF Lists
  <1>RunqueueRemoved.
    ASSUME Lists(runqueue), NEW p \in Procs, NEW u \in Threads, u \in InList(runqueue[p]),
           runqueue'[p] = delthread(runqueue[p], u), \A x \in Procs : x # p => runqueue'[x] = runqueue[x]
    PROVE  /\ \A x \in Procs : runqueue'[x] \in Seq(Threads) /\ NoDup(runqueue'[x])
           /\ InList(runqueue'[p]) = InList(runqueue[p]) \ {u}
           /\ u \in On(runqueue) /\ On(runqueue') = On(runqueue) \ {u}
    BY <1>RunqueueRemoved, <1>ListRemoved, SMT
  <1>HomesMoved.
    ASSUME Homes, NEW t \in Threads, HomeOf(t)', hand' = hand, hand[t] = nil,
           \A v \in Threads : v # t => pc'[v] = pc[v] /\ tproc'[v] = tproc[v] /\ exiting'[v] = exiting[v],
           \A v \in Threads : v # t => (tproc[v] \in procs' <=> tproc[v] \in procs)
    PROVE  Homes'
    <2>. USE <1>HomesMoved
    <2>1. ASSUME NEW v \in Threads, v # t
          PROVE  /\ pc'[v] = "none" => tproc'[v] = nil /\ ~exiting'[v]
                 /\ pc'[v] = "sleeper" => exiting'[v] /\ tproc'[v] \notin procs'
                 /\ pc'[v] \notin {"none", "sleeper"} => tproc'[v] \in procs'
                 /\ exiting'[v] => pc'[v] \in {"switch", "procnext", "sleeper"}
                 /\ hand[v] # nil <=> pc'[v] = "readying"
      BY <2>1 DEF Homes
    <2>2. /\ pc'[t] = "none" => tproc'[t] = nil /\ ~exiting'[t]
          /\ pc'[t] = "sleeper" => exiting'[t] /\ tproc'[t] \notin procs'
          /\ pc'[t] \notin {"none", "sleeper"} => tproc'[t] \in procs'
          /\ exiting'[t] => pc'[t] \in {"switch", "procnext", "sleeper"}
          /\ hand[t] # nil <=> pc'[t] = "readying"
      BY DEF HomeOf
    <2>3. \A v, w \in Threads : hand[v] # nil /\ hand[v] = hand[w] => v = w
      BY DEF Homes
    <2>. QED  BY <2>1, <2>2, <2>3, SMT DEF Homes
  <1>TurnsMoved.
    ASSUME TypeOK, Homes, Turns, NEW t \in Threads, NEW p \in Procs, Idle(t, p), Moves(t, p),
           pc'[t] \in Labels => tproc'[t] = p /\ thread'[p] = t,
           pc'[t] = "procnext" => tproc'[t] = p /\ thread'[p] = nil,
           thread'[p] # nil =>
               /\ tproc'[thread'[p]] = p /\ pc'[thread'[p]] \in Labels \cup Starting
               /\ pc'[thread'[p]] \in Starting => schedthread'[p] = thread'[p],
           p \in procs' /\ schedthread'[p] \notin {nil, thread'[p]} =>
               thread'[p] = nil /\ pc'[schedthread'[p]] = "procnext" /\ tproc'[schedthread'[p]] = p
    PROVE  Turns'
    <2>. USE <1>TurnsMoved
    <2>0. \A v \in Threads : pc[v] \in Labels \cup {"procnext", "procmain"} => tproc[v] \in Procs
      BY ZenonT(30) DEF TypeOK, Homes, Labels
    <2>1. \A v \in Threads : pc'[v] \in Labels => thread'[tproc'[v]] = v
      BY <2>0, SMTT(30) DEF Turns, Active, Labels, Idle, Moves
    <2>2. \A v \in Threads : pc'[v] \in {"procnext", "procmain"} =>
             /\ thread'[tproc'[v]] = nil
             /\ \A u \in Threads : tproc'[u] = tproc'[v] /\ pc'[u] \in {"procnext", "procmain"} => u = v
      BY <2>0, SMT DEF Turns, Idle, Moves
    <2>3. ASSUME NEW x \in Procs, thread'[x] # nil, x # p
          PROVE  /\ tproc'[thread'[x]] = x
                 /\ pc'[thread'[x]] \in Labels \cup Starting
                 /\ pc'[thread'[x]] \in Starting => schedthread'[x] = thread'[x]
      <3>1. thread'[x] = thread[x] /\ schedthread'[x] = schedthread[x] /\ tproc[t] = p
        BY <2>3 DEF Moves
      <3>2. /\ thread[x] \in Threads /\ tproc[thread[x]] = x /\ pc[thread[x]] \in Labels \cup Starting
            /\ pc[thread[x]] \in Starting => schedthread[x] = thread[x]
        BY <2>3, <3>1, SMT DEF Turns, TypeOK
      <3>3. pc'[thread[x]] = pc[thread[x]] /\ tproc'[thread[x]] = x
        BY <2>3, <3>1, <3>2 DEF Moves
      <3>. QED  BY <3>1, <3>2, <3>3
    <2>4. ASSUME NEW x \in procs', schedthread'[x] \notin {nil, thread'[x]}, x # p
          PROVE  thread'[x] = nil /\ pc'[schedthread'[x]] = "procnext" /\ tproc'[schedthread'[x]] = x
      <3>1. x \in procs /\ x \in Procs
        BY DEF Moves, TypeOK
      <3>2. thread'[x] = thread[x] /\ schedthread'[x] = schedthread[x] /\ tproc[t] = p
        BY <2>4, <3>1 DEF Moves
      <3>3. /\ schedthread[x] \in Threads /\ thread[x] = nil
            /\ pc[schedthread[x]] = "procnext" /\ tproc[schedthread[x]] = x
        BY <2>4, <3>1, <3>2, SMT DEF Turns, TypeOK
      <3>. QED  BY <2>4, <3>2, <3>3, ZenonT(30) DEF Moves
    <2>. QED  BY <2>1, <2>2, <2>3, <2>4, SMT DEF Turns, Active, Labels
  <1>SpecialMoved.
    ASSUME TypeOK, Homes, Special, NEW t \in Threads, NEW p \in Procs, Idle(t, p), Moves(t, p),
           pinthread[p] = t => tproc'[t] = p /\ ~exiting'[t] /\ pc'[t] \in Labels \cup {"procnext"}
    PROVE  Special'
    <2>. USE <1>SpecialMoved
    <2>1. ASSUME NEW v \in Threads, pc'[v] = "procmain"
          PROVE  /\ runqueue'[tproc'[v]] = <<v>>
                 /\ \A u \in Threads : tproc'[u] = tproc'[v] => u = v
      <3>1. v # t /\ pc[v] = "procmain" /\ tproc'[v] = tproc[v] /\ tproc[v] # p
        BY <2>1 DEF Moves, Idle
      <3>2. tproc[v] \in Procs /\ tproc[v] # nil
        BY <3>1, SchedAssumption DEF Homes, TypeOK
      <3>3. runqueue[tproc[v]] = <<v>> /\ \A u \in Threads : tproc[u] = tproc[v] => u = v
        BY <3>1 DEF Special
      <3>. QED  BY <3>1, <3>2, <3>3 DEF Moves
    <2>2. ASSUME NEW x \in Procs, pinthread[x] # nil
          PROVE  /\ tproc'[pinthread[x]] = x /\ ~exiting'[pinthread[x]]
                 /\ pc'[pinthread[x]] \in Labels \cup {"procnext"}
      <3>1. /\ pinthread[x] \in Threads /\ tproc[pinthread[x]] = x /\ ~exiting[pinthread[x]]
            /\ pc[pinthread[x]] \in Labels \cup {"procnext"}
        BY <2>2, SMT DEF Special, TypeOK
      <3>2. CASE x = p
        BY <3>1, <3>2 DEF Idle
      <3>3. CASE x # p
        BY <3>1, <3>3 DEF Moves
      <3>. QED  BY <3>2, <3>3
    <2>3. pinthread' = pinthread
      BY DEF Moves
    <2>. QED  BY <2>1, <2>2, <2>3 DEF Special
  \* Nothing changes for those asleep in the procnext of another proc.
  <1>SleepersMoved.
    ASSUME TypeOK, Homes, Wakeups, NEW t \in Threads, NEW p \in Procs, Idle(t, p), Moves(t, p),
           \A v \in Threads : v # t /\ v \in woken => v \in woken',
           NEW v \in Threads, v # t, pc'[v] = "procnext", v \notin woken'
    PROVE  runasleep'[tproc'[v]] /\ ~canrun(tproc[v])'
    <2>. USE <1>SleepersMoved
    <2>1. pc[v] = "procnext" /\ v \notin woken /\ tproc'[v] = tproc[v] /\ tproc[v] # p
      BY DEF Moves, Idle
    <2>2. tproc[v] \in Procs /\ runasleep[tproc[v]] /\ ~canrun(tproc[v])
      BY <2>1 DEF TypeOK, Homes, Wakeups
    <2>3. /\ runasleep'[tproc[v]] = runasleep[tproc[v]] /\ pinthread' = pinthread
          /\ runqueue'[tproc[v]] = runqueue[tproc[v]] /\ idlequeue'[tproc[v]] = idlequeue[tproc[v]]
      BY <2>1, <2>2 DEF Moves
    <2>. QED  BY <2>1, <2>2, <2>3 DEF canrun, nextqueue
  \* Only the counts of p change.
  <1>CountsMoved.
    ASSUME TypeOK, Counts, NEW t \in Threads, NEW p \in Procs, Idle(t, p), Moves(t, p),
           NEW x \in procs', x # p
    PROVE  nthread'[x] = Cardinality(Counted(x)')
    <2>. USE <1>CountsMoved
    <2>1. x \in procs /\ x \in Procs /\ x # nil /\ nthread'[x] = nthread[x]
      BY SchedAssumption DEF Moves, TypeOK
    <2>2. \A v \in Threads : v # t => pc'[v] = pc[v] /\ tproc'[v] = tproc[v] /\ exiting'[v] = exiting[v]
      BY DEF Moves
    <2>3. tproc[t] # x /\ tproc'[t] # x
      BY <2>1 DEF Moves
    <2>4. Counted(x)' = Counted(x)
      BY <2>2, <2>3 DEF Counted
    <2>. QED  BY <2>1, <2>4 DEF Counts
  \* A thread that gets p is no longer chosen; the one named next is.
  <1>ChosenMoved.
    ASSUME TypeOK, Turns, NEW t \in Threads, NEW p \in Procs, Moves(t, p)
    PROVE  Chosen' = (Chosen \ {thread[p]}) \cup {v \in Threads : thread'[p] = v /\ pc'[v] \in Starting}
    <2>. USE <1>ChosenMoved
    <2>1. \A x \in Procs : thread[x] \in Threads => tproc[thread[x]] = x
      BY SchedAssumption DEF Turns
    <2>2. ASSUME NEW v \in Threads, NEW x \in Procs, x # p, thread[x] = v \/ thread'[x] = v
          PROVE  thread'[x] = v /\ thread[x] = v /\ v # thread[p] /\ pc'[v] = pc[v]
      <3>1. thread'[x] = v /\ thread[x] = v
        BY <2>2 DEF Moves
      <3>2. tproc[v] = x
        BY <2>1, <3>1
      <3>. QED  BY <2>1, <2>2, <3>1, <3>2 DEF Moves
    <2>. QED  BY <2>2, SMT DEF Chosen
  <1>ProcmainPreserves.
    ASSUME IInv, NEW t \in Threads, procmain(t)
    PROVE  IInv'
    <2>. USE <1>ProcmainPreserves
    <2>. DEFINE p == tproc[t]
    <2>0. /\ pc[t] = "procmain" /\ pc' = [pc EXCEPT ![t] = "run"]
          /\ UNCHANGED <<procs, sysproc, threadnproc, threadnsysproc, halted, schedthread, pinthread, idlequeue, nthread,
                         runasleep, tproc, exiting, schedasleep, hand, waiting, woken>>
      BY DEF procmain, at, goto, countvars
    <2>1. /\ p \in procs /\ p \in Procs /\ thread[p] = nil /\ t # nil
          /\ \A v \in Threads : tproc[v] = p => v = t
          /\ runqueue[p] = <<t>> /\ ~exiting[t]
      <3>1. p \in procs /\ ~exiting[t]
        BY <2>0 DEF IInv, Homes
      <3>2. p \in Procs
        BY <3>1 DEF IInv, TypeOK
      <3>3. thread[p] = nil
        BY <2>0 DEF IInv, Turns
      <3>4. runqueue[p] = <<t>> /\ \A v \in Threads : tproc[v] = p => v = t
        BY <2>0 DEF IInv, Special
      <3>. QED  BY <3>1, <3>2, <3>3, <3>4, SchedAssumption
    <2>2. Head(<<t>>) = t /\ t \in InList(<<t>>)
      BY SMT DEF InList
    <2>3. /\ runqueue'[p] = delthread(runqueue[p], t) /\ \A x \in Procs : x # p => runqueue'[x] = runqueue[x]
          /\ thread'[p] = t /\ \A x \in Procs : x # p => thread'[x] = thread[x]
          /\ runqueue' = [runqueue EXCEPT ![p] = delthread(@, t)] /\ thread' = [thread EXCEPT ![p] = t]
      BY <2>1, <2>2 DEF IInv, TypeOK, procmain
    <2>4. \A v \in Threads : pc'[v] = IF v = t THEN "run" ELSE pc[v]
      BY <2>0 DEF IInv, TypeOK
    <2>5. /\ \A x \in Procs : runqueue'[x] \in Seq(Threads) /\ NoDup(runqueue'[x])
          /\ InList(runqueue'[p]) = InList(runqueue[p]) \ {t}
          /\ t \in On(runqueue) /\ On(runqueue') = On(runqueue) \ {t}
      <3>1. Lists(runqueue) /\ t \in InList(runqueue[p])
        BY <2>1, <2>2, <1>TheLists DEF IInv
      <3>2. p \in Procs
        BY <2>1
      <3>3. runqueue'[p] = delthread(runqueue[p], t) /\ \A x \in Procs : x # p => runqueue'[x] = runqueue[x]
        BY <2>3
      <3>. QED  BY <3>1, <3>2, <3>3, <1>RunqueueRemoved
    <2>6. TypeOK'
      BY <2>0, <2>3, <2>5 DEF IInv, TypeOK, PC
    <2>7. Homes'
      BY <2>0, SMT DEF IInv, Homes
    <2>8. Queues'
      <3>1. ASSUME NEW x \in Procs, NEW v \in Threads, v \in InList(runqueue'[x]) PROVE tproc[v] = x
        BY <2>3, <2>5, <3>1 DEF IInv, Queues
      <3>. QED  BY <2>0, <2>5, <3>1 DEF IInv, Queues
    <2>9. Idle(t, p) /\ schedthread[p] \in {nil, t}
      BY <2>0, Owner DEF IInv
    <2>10. Moves(t, p)
      BY <2>0, <2>3, <2>4, SMTT(30) DEF Moves
    <2>11. Turns' /\ Chosen' = Chosen
      <3>0. pc'[t] \in Labels /\ pc'[t] \notin Starting /\ pc'[t] # "procnext"
        BY <2>4 DEF Labels, Starting
      <3>1. Turns'
        BY <2>0, <2>1, <2>3, <2>9, <2>10, <3>0, <1>TurnsMoved DEF IInv
      <3>2. nil \notin Chosen
        BY SchedAssumption DEF Chosen
      <3>. QED  BY <2>1, <2>3, <2>4, <2>10, <3>1, <3>2, <1>ChosenMoved, SMTT(30) DEF IInv, Starting
    <2>15. Special'
      BY <2>0, <2>1, <2>4, <2>9, <2>10, <1>SpecialMoved DEF IInv, Labels
    <2>16. Wakeups'
      <3>1. \A v \in Threads : pc'[v] = "procnext" /\ v \notin woken => runasleep'[tproc'[v]] /\ ~canrun(tproc[v])'
        BY <2>0, <2>1, <2>9, <2>10, <1>SleepersMoved, SMT DEF IInv
      <3>2. ASSUME NEW v \in Threads, pc'[v] = "schedsleep", v \notin woken
            PROVE  schedasleep[v] /\ thread'[tproc[v]] # v
        <4>1. pc[v] = "schedsleep" /\ tproc[v] # p /\ tproc[v] \in Procs
          BY <2>0, <2>1, <2>4, <3>2 DEF IInv, Homes, TypeOK
        <4>. QED  BY <2>3, <3>2, <4>1, ZenonT(30) DEF IInv, Wakeups
      <3>3. \A v \in woken : pc'[v] \in {"procnext", "schedsleep"}
        BY <2>0, <2>4 DEF IInv, Wakeups, TypeOK
      <3>4. \A v \in Threads : schedasleep[v] => pc'[v] = "schedsleep"
        BY <2>0, <2>4 DEF IInv, Wakeups
      <3>. QED  BY <2>0, <3>1, <3>2, <3>3, <3>4, ZenonT(30) DEF Wakeups
    <2>12. Parked' = Parked \ {t} /\ Held' = Held
      BY <2>0, <2>4 DEF Parked, Held
    <2>13. Placed'
      BY <2>0, <2>5, <2>11, <2>12, <1>PlacedLeaves DEF IInv
    <2>14. Counts'
      BY <2>0, <1>CountsKept, SMT DEF IInv, countvars
    <2>. QED  BY <2>6, <2>7, <2>8, <2>11, <2>13, <2>14, <2>15, <2>16 DEF IInv
  \* schedwake, and _threadpthreadmain when it is its turn.
  <1>ResumePreserves.
    ASSUME IInv, NEW t \in Threads, schedthread[tproc[t]] = t, schedwake(t) \/ _threadpthreadmain(t)
    PROVE  IInv'
    <2>. USE <1>ResumePreserves
    <2>. DEFINE p == tproc[t]
    <2>0. /\ pc[t] \in Starting /\ pc' = [pc EXCEPT ![t] = "run"]
          /\ schedasleep' = [schedasleep EXCEPT ![t] = FALSE] /\ woken' = woken \ {t}
          /\ UNCHANGED <<countvars, thread, schedthread, pinthread, runqueue, idlequeue, nthread,
                         runasleep, tproc, exiting, hand, waiting>>
      <3>1. CASE schedwake(t)
        BY <3>1 DEF schedwake, at, goto, Starting
      <3>2. CASE _threadpthreadmain(t)
        <4>1. t \notin woken
          BY <3>2 DEF IInv, Wakeups, _threadpthreadmain, at
        <4>. QED  BY <3>2, <4>1 DEF _threadpthreadmain, at, goto, Starting
      <3>. QED  BY <3>1, <3>2
    <2>1. p \in procs /\ p \in Procs /\ Idle(t, p) /\ thread[p] = t
      BY <2>0, Owner DEF IInv
    <2>2. ~exiting[t] /\ t # nil /\ pc[t] \in {"schedsleep", "newpthread"}
      BY <2>0, SchedAssumption DEF IInv, Homes, Starting
    <2>3. /\ pc'[t] = "run" /\ ~schedasleep'[t]
          /\ \A v \in Threads : v # t => pc'[v] = pc[v] /\ schedasleep'[v] = schedasleep[v]
      BY <2>0 DEF IInv, TypeOK
    <2>4. TypeOK'
      BY <2>0 DEF IInv, TypeOK, PC, countvars
    <2>5. Homes'
      BY <2>0, <2>1, <2>2, <2>3 DEF IInv, Homes, countvars
    <2>6. Queues'
      BY <2>0 DEF IInv, Queues
    <2>7. Moves(t, p)
      BY <2>0, <2>3 DEF Moves, countvars
    <2>8. Turns'
      BY <2>0, <2>1, <2>2, <2>3, <2>7, <1>TurnsMoved DEF IInv, Labels
    <2>9. Special'
      BY <2>0, <2>1, <2>2, <2>3, <2>7, <1>SpecialMoved DEF IInv, Labels
    <2>10. Wakeups'
      <3>1. \A v \in woken' : v # t /\ v \in woken /\ pc'[v] \in {"procnext", "schedsleep"}
        BY <2>0, <2>3 DEF IInv, Wakeups, TypeOK
      <3>2. \A v \in Threads : v # t =>
               /\ schedasleep'[v] => pc'[v] = "schedsleep"
               /\ pc'[v] = "schedsleep" /\ v \notin woken' => schedasleep'[v] /\ thread[tproc[v]] # v
        BY <2>0, SMT DEF IInv, Wakeups
      <3>3. ASSUME NEW v \in Threads, pc'[v] = "procnext", v \notin woken'
            PROVE  runasleep'[tproc'[v]] /\ ~canrun(tproc[v])'
        BY <2>0, <2>1, <2>3, <2>7, <3>3, <1>SleepersMoved DEF IInv
      <3>. QED  BY <2>0, <2>3, <3>1, <3>2, <3>3 DEF Wakeups
    <2>11. Parked' = Parked \ {t} /\ Held' = Held
      BY <2>0, <2>2, <2>3 DEF Parked, Held
    <2>12. t \in Chosen /\ Chosen' = Chosen \ {t}
      <3>1. Chosen' = (Chosen \ {t}) \cup {v \in Threads : thread'[p] = v /\ pc'[v] \in Starting}
        BY <2>1, <2>7, <1>ChosenMoved DEF IInv
      <3>2. {v \in Threads : thread'[p] = v /\ pc'[v] \in Starting} = {}
        BY <2>0, <2>1, <2>3 DEF Starting
      <3>3. t \in Chosen
        BY <2>0, <2>1 DEF Chosen
      <3>. QED  BY <3>1, <3>2, <3>3
    <2>13. Placed'
      BY <2>0, <2>11, <2>12, <1>PlacedLeaves DEF IInv
    <2>14. Counts'
      BY <2>0, <2>2, <2>3, <1>CountsKept DEF IInv
    <2>. QED  BY <2>4, <2>5, <2>6, <2>8, <2>9, <2>10, <2>13, <2>14 DEF IInv
  \* _threadpthreadmain when it is not its turn.
  <1>SettlePreserves.
    ASSUME IInv, NEW t \in Threads, schedthread[tproc[t]] # t, _threadpthreadmain(t)
    PROVE  IInv'
    <2>. USE <1>SettlePreserves
    <2>0. /\ pc[t] = "newpthread" /\ pc' = [pc EXCEPT ![t] = "schedsleep"]
          /\ schedasleep' = [schedasleep EXCEPT ![t] = TRUE]
          /\ UNCHANGED <<countvars, thread, schedthread, pinthread, runqueue, idlequeue, nthread,
                         runasleep, tproc, exiting, hand, waiting, woken>>
      BY DEF _threadpthreadmain, at, goto
    <2>1. tproc[t] \in procs /\ ~exiting[t] /\ t # nil
      BY <2>0, SchedAssumption DEF IInv, Homes
    <2>2. thread[tproc[t]] # t
      <3>1. tproc[t] \in Procs
        BY <2>1 DEF IInv, TypeOK
      <3>. QED  BY <2>0, <2>1, <3>1, SMT DEF IInv, Turns, Starting
    <2>3. /\ pc'[t] = "schedsleep" /\ schedasleep'[t]
          /\ \A v \in Threads : v # t => pc'[v] = pc[v] /\ schedasleep'[v] = schedasleep[v]
      BY <2>0 DEF IInv, TypeOK
    <2>4. TypeOK'
      BY <2>0 DEF IInv, TypeOK, PC, countvars
    <2>5. Homes'
      BY <2>0, SMT DEF IInv, Homes, countvars
    <2>6. Queues'
      BY <2>0 DEF IInv, Queues
    <2>7. Turns' /\ Chosen' = Chosen
      BY <2>0, <2>3, <1>TurnsKept DEF IInv, Stays, countvars
    <2>8. Special'
      <3>1. Stays
        BY <2>0, <2>3 DEF Stays, countvars
      <3>. QED  BY <2>0, <3>1, <1>SpecialKept DEF IInv
    <2>9. Wakeups'
      <3>1. \A v \in woken' : pc'[v] \in {"procnext", "schedsleep"}
        BY <2>0, <2>3 DEF IInv, Wakeups, TypeOK
      <3>2. \A v \in Threads :
               /\ schedasleep'[v] => pc'[v] = "schedsleep"
               /\ pc'[v] = "schedsleep" /\ v \notin woken' => schedasleep'[v] /\ thread[tproc[v]] # v
        BY <2>0, <2>2, <2>3, SMT DEF IInv, Wakeups
      <3>3. ASSUME NEW v \in Threads, pc'[v] = "procnext", v \notin woken'
            PROVE  runasleep'[tproc'[v]] /\ ~canrun(tproc[v])'
        <4>1. pc[v] = "procnext" /\ v \notin woken
          BY <2>0, <2>3, <3>3
        <4>. QED  BY <2>0, <4>1 DEF IInv, Wakeups, canrun, nextqueue
      <3>. QED  BY <2>0, <3>1, <3>2, <3>3 DEF Wakeups
    <2>10. Placed'
      <3>1. Parked' = Parked /\ Held' = Held
        BY <2>0, <2>3 DEF Parked, Held
      <3>. QED  BY <2>0, <2>7, <3>1 DEF IInv, Placed
    <2>11. Counts'
      BY <2>0, <2>3, <1>CountsKept DEF IInv
    <2>. QED  BY <2>4, <2>5, <2>6, <2>7, <2>8, <2>9, <2>10, <2>11 DEF IInv
  \* The lists lose the successor; the idle ones may become ready.
  <1>QueuesGiven.
    ASSUME IInv, NEW p \in Procs, NEW u \in Threads, u \in InList(nextqueue(p)),
           runqueue'[p] = delthread(nextqueue(p), u),
           pinthread[p] = nil /\ runqueue[p] = <<>> => idlequeue'[p] = <<>>,
           ~(pinthread[p] = nil /\ runqueue[p] = <<>>) => idlequeue'[p] = idlequeue[p],
           \A x \in Procs : x # p => runqueue'[x] = runqueue[x] /\ idlequeue'[x] = idlequeue[x]
    PROVE  /\ \A x \in Procs : runqueue'[x] \in Seq(Threads) /\ idlequeue'[x] \in Seq(Threads)
           /\ \A x \in Procs : NoDup(runqueue'[x]) /\ NoDup(idlequeue'[x])
           /\ \A x \in Procs : \A v \in Threads :
                  v \in InList(runqueue'[x]) \cup InList(idlequeue'[x]) => tproc[v] = x /\ v # u
           /\ On(runqueue') \cap On(idlequeue') = {}
           /\ On(runqueue') \cup On(idlequeue') = (On(runqueue) \cup On(idlequeue)) \ {u}
    <2>. USE <1>QueuesGiven
    <2>1. /\ Lists(runqueue) /\ Lists(idlequeue) /\ On(runqueue) \cap On(idlequeue) = {}
          /\ runqueue \in [Procs -> Seq(Threads)] /\ idlequeue \in [Procs -> Seq(Threads)]
      BY <1>TheLists DEF IInv, Placed, Apart, TypeOK
    <2>2. \A x \in Procs : \A v \in Threads : v \in InList(runqueue[x]) \cup InList(idlequeue[x]) => tproc[v] = x
      BY DEF IInv, Queues
    <2>4. nextqueue(p) \in Seq(Threads) /\ NoDup(nextqueue(p))
      BY <2>1 DEF nextqueue, Lists
    <2>5. runqueue'[p] \in Seq(Threads)
      BY <2>4, DelThread, SMT
    <2>3. \A x \in Procs : x # p => runqueue'[x] = runqueue[x]
      OBVIOUS
    <2>0. Lists(runqueue)
      BY <2>1
    <2>6. CASE pinthread[p] = nil /\ runqueue[p] = <<>>
      <3>1. nextqueue(p) = idlequeue[p] /\ idlequeue'[p] = <<>>
        BY <2>1, <2>6 DEF nextqueue
      <3>2. /\ InList(runqueue'[p]) = InList(idlequeue[p]) \ {u} /\ NoDup(runqueue'[p])
            /\ InList(idlequeue'[p]) = {} /\ NoDup(idlequeue'[p]) /\ InList(runqueue[p]) = {}
            /\ InList(idlequeue[p]) \subseteq Threads /\ InList(idlequeue[p]) \subseteq On(idlequeue)
            /\ idlequeue'[p] \in Seq(Threads)
        BY <2>4, <3>1, DelThread, EmptyList, SMT DEF On
      <3>3. On(runqueue') = On(runqueue) \cup (InList(idlequeue[p]) \ {u})
        <4>1. On(runqueue') = (On(runqueue) \ InList(runqueue[p])) \cup InList(runqueue'[p])
          BY <2>0, <2>5, <1>ListReplaced, SMTT(30)
        <4>. QED  BY <3>2, <4>1
      <3>4. On(idlequeue') = On(idlequeue) \ InList(idlequeue[p])
        BY <2>1, <3>2, <1>ListReplaced, SMT
      <3>5. \A x \in Procs : \A v \in Threads :
                v \in InList(runqueue'[x]) \cup InList(idlequeue'[x]) => tproc[v] = x /\ v # u
        BY <2>2, <3>1, <3>2, ZenonT(30)
      <3>6. \A x \in Procs : NoDup(runqueue'[x]) /\ NoDup(idlequeue'[x])
        BY <2>1, <3>2 DEF Lists
      <3>7. \A x \in Procs : runqueue'[x] \in Seq(Threads) /\ idlequeue'[x] \in Seq(Threads)
        BY <2>1, <2>5, <3>2
      <3>8. u \in InList(idlequeue[p])
        BY <3>1
      <3>9. /\ On(runqueue') \cap On(idlequeue') = {}
            /\ On(runqueue') \cup On(idlequeue') = (On(runqueue) \cup On(idlequeue)) \ {u}
        BY <2>1, <3>2, <3>3, <3>4, <3>8, ZenonT(30)
      <3>. QED  BY <3>5, <3>6, <3>7, <3>9
    <2>7. CASE ~(pinthread[p] = nil /\ runqueue[p] = <<>>)
      <3>0. runqueue'[p] = delthread(runqueue[p], u) /\ u \in InList(runqueue[p])
        BY <2>7 DEF nextqueue
      <3>1. \A x \in Procs : idlequeue'[x] = idlequeue[x]
        BY <2>7
      <3>2. /\ \A x \in Procs : runqueue'[x] \in Seq(Threads) /\ NoDup(runqueue'[x])
            /\ InList(runqueue'[p]) = InList(runqueue[p]) \ {u}
            /\ u \in On(runqueue) /\ On(runqueue') = On(runqueue) \ {u}
        BY <2>0, <2>3, <3>0, <1>RunqueueRemoved
      <3>3. u \notin On(idlequeue) /\ On(idlequeue') = On(idlequeue)
        BY <2>1, <3>1, <3>2, ZenonT(30) DEF On
      <3>4. \A x \in Procs : \A v \in Threads :
                v \in InList(runqueue'[x]) \cup InList(idlequeue'[x]) => tproc[v] = x /\ v # u
        BY <2>2, <3>2, <3>3, SMT DEF On
      <3>6. /\ On(runqueue') \cap On(idlequeue') = {}
            /\ On(runqueue') \cup On(idlequeue') = (On(runqueue) \cup On(idlequeue)) \ {u}
        BY <2>1, <3>2, <3>3
      <3>. QED  BY <2>1, <3>1, <3>2, <3>4, <3>6, SMT DEF Lists
    <2>. QED  BY <2>6, <2>7
  \* The successor leaves its list, to run or to be chosen.
  <1>PlacedGiven.
    ASSUME Placed, NEW x, x \in On(runqueue) \cup On(idlequeue), Held' = Held, waiting' = waiting,
           On(runqueue') \cap On(idlequeue') = {},
           On(runqueue') \cup On(idlequeue') = (On(runqueue) \cup On(idlequeue)) \ {x},
           \/ Parked' = Parked \ {x} /\ Chosen' = Chosen
           \/ Parked' = Parked /\ Chosen' = Chosen \cup {x}
    PROVE  Placed'
    <2>. USE <1>PlacedGiven
    <2>. DEFINE R == On(runqueue)
                I == On(idlequeue)
    <2>1. Apart(Parked, R, I, waiting, Held, Chosen) /\ (Placed' <=> Apart(Parked', R', I', waiting', Held', Chosen'))
      BY DEF Placed
    <2>2. x \in R \cup I /\ R' \cap I' = {} /\ R' \cup I' = (R \cup I) \ {x}
      OBVIOUS
    <2>. HIDE DEF R, I
    <2>3. CASE Parked' = Parked \ {x} /\ Chosen' = Chosen
      BY <2>1, <2>2, SMTT(30) DEF Apart
    <2>4. CASE Parked' = Parked /\ Chosen' = Chosen \cup {x}
      BY <2>1, <2>2, SMT DEF Apart
    <2>. QED  BY <2>3, <2>4
  <1>HandoverTypes.
    ASSUME IInv, NEW t \in Threads, Gives(t), NEW p, p = tproc[t], canrun(p), handover(t, p),
           runasleep' = [runasleep EXCEPT ![p] = FALSE],
           \A x \in Procs : runqueue'[x] \in Seq(Threads) /\ idlequeue'[x] \in Seq(Threads)
    PROVE  TypeOK'
    <2>. USE <1>HandoverTypes
    <2>. DEFINE u == nextthread(p)
    <2>1. p \in Procs /\ u \in Threads /\ nthread' \in [Procs -> Nat]
      BY Giver, Successor
    <2>. HIDE DEF u
    <2>2. /\ pc' = [pc EXCEPT ![t] = IF exiting[t] /\ t # MainThread THEN "none" ELSE
                         IF exiting[t] THEN "sleeper" ELSE IF u = t THEN "run" ELSE "schedsleep"]
          /\ tproc' = [tproc EXCEPT ![t] = IF exiting[t] THEN nil ELSE @]
          /\ exiting' = [exiting EXCEPT ![t] = @ /\ ~(exiting[t] /\ t # MainThread)]
          /\ schedasleep' = [schedasleep EXCEPT ![u] = FALSE, ![t] = ~exiting[t] /\ u # t]
      BY DEF handover, goto, u
    <2>3. /\ thread' = [thread EXCEPT ![p] = u] /\ schedthread' = [schedthread EXCEPT ![p] = u]
          /\ woken' = (woken \ {t}) \cup {v \in {u} : schedasleep[u]}
          /\ UNCHANGED <<countvars, pinthread, hand, waiting>>
      BY DEF handover, Gives, u
    <2>4. /\ pc' \in [Threads -> PC] /\ tproc' \in [Threads -> Procs \cup {nil}]
          /\ exiting' \in [Threads -> BOOLEAN] /\ schedasleep' \in [Threads -> BOOLEAN]
      BY <2>2 DEF IInv, TypeOK, PC
    <2>5. /\ thread' \in [Procs -> Threads \cup {nil}] /\ schedthread' \in [Procs -> Threads \cup {nil}]
          /\ runasleep' \in [Procs -> BOOLEAN] /\ woken' \in SUBSET Threads
      BY <2>1, <2>3 DEF IInv, TypeOK
    <2>6. runqueue' \in [Procs -> Seq(Threads)] /\ idlequeue' \in [Procs -> Seq(Threads)]
      <3>1. \E a, b : runqueue' = [runqueue EXCEPT ![p] = a] /\ idlequeue' = [idlequeue EXCEPT ![p] = b]
        BY DEF handover
      <3>. QED  BY <3>1 DEF IInv, TypeOK
    <2>. QED  BY <2>1, <2>3, <2>4, <2>5, <2>6 DEF IInv, TypeOK, countvars
  \* procnext finds a successor.
  <1>HandoverPreserves.
    ASSUME IInv, NEW t \in Threads, Gives(t), NEW p \in Procs, p = tproc[t], canrun(p),
           handover(t, p), runasleep' = [runasleep EXCEPT ![p] = FALSE]
    PROVE  IInv'
    <2>. USE <1>HandoverPreserves
    <2>. DEFINE u == nextthread(p)
    <2>1. /\ p \in procs /\ p \in Procs /\ Idle(t, p) /\ t # nil /\ hand[t] = nil /\ ~schedasleep[t]
          /\ thread[p] \in {nil, t} /\ pc[t] \notin Starting \cup {"none", "run", "readying"}
          /\ nthread'[p] = Cardinality(Left(t)) /\ \A x \in Procs : x # p => nthread'[x] = nthread[x]
      BY Giver
    <2>2. /\ u \in Threads /\ u \in InList(nextqueue(p)) /\ tproc[u] = p
          /\ u \in On(runqueue) \cup On(idlequeue) /\ u \in Parked
          /\ u # t => pc[u] \in Starting
          /\ pinthread[p] = t => u = t
      BY Successor
    <2>0. Passed(t, p, u)
      BY HandoverPasses
    <2>3. /\ u = t \/ exiting[t] \/ (pc'[t] = "schedsleep" /\ schedasleep'[t])
          /\ ~exiting[t] => tproc'[t] = p /\ ~exiting'[t]
          /\ u = t => pc'[t] = "run" /\ ~exiting[t]
          /\ exiting[t] => \/ pc'[t] = "none" /\ tproc'[t] = nil /\ ~exiting'[t]
                           \/ pc'[t] = "sleeper" /\ tproc'[t] = nil /\ exiting'[t]
      BY <2>0 DEF Passed
    <2>4. \A v \in Threads : v # t => pc'[v] = pc[v] /\ tproc'[v] = tproc[v] /\ exiting'[v] = exiting[v]
      BY <2>0 DEF Passed
    <2>5. /\ u = t \/ exiting[t] => ~schedasleep'[t]
          /\ \A v \in Threads : v \notin {t, u} => schedasleep'[v] = schedasleep[v]
          /\ u # t => ~schedasleep'[u]
          /\ \A v \in Threads : v \in woken' <=> (v # t /\ v \in woken) \/ (v = u /\ schedasleep[u])
      BY <2>0 DEF Passed
    <2>6. /\ thread'[p] = u /\ schedthread'[p] = u
          /\ \A x \in Procs : x # p => /\ thread'[x] = thread[x] /\ schedthread'[x] = schedthread[x]
                                       /\ runasleep'[x] = runasleep[x]
          /\ UNCHANGED <<countvars, pinthread, hand, waiting>>
      BY <2>0 DEF Passed
    <2>7. /\ runqueue'[p] = delthread(nextqueue(p), u)
          /\ pinthread[p] = nil /\ runqueue[p] = <<>> => idlequeue'[p] = <<>>
          /\ ~(pinthread[p] = nil /\ runqueue[p] = <<>>) => idlequeue'[p] = idlequeue[p]
          /\ \A x \in Procs : x # p => runqueue'[x] = runqueue[x] /\ idlequeue'[x] = idlequeue[x]
      BY <2>1 DEF IInv, TypeOK, handover
    <2>. HIDE DEF u
    <2>8. /\ \A x \in Procs : runqueue'[x] \in Seq(Threads) /\ idlequeue'[x] \in Seq(Threads)
          /\ \A x \in Procs : NoDup(runqueue'[x]) /\ NoDup(idlequeue'[x])
          /\ \A x \in Procs : \A v \in Threads :
                 v \in InList(runqueue'[x]) \cup InList(idlequeue'[x]) => tproc[v] = x /\ v # u
          /\ On(runqueue') \cap On(idlequeue') = {}
          /\ On(runqueue') \cup On(idlequeue') = (On(runqueue) \cup On(idlequeue)) \ {u}
      BY <2>1, <2>2, <2>7, <1>QueuesGiven
    <2>9. TypeOK'
      BY <2>8, <1>HandoverTypes
    <2>10. Moves(t, p)
      BY <2>1, <2>3, <2>4, <2>6, <2>7 DEF Moves, countvars
    <2>11. Homes'
      <3>1. procs' = procs /\ hand' = hand /\ nil \notin procs
        BY <2>6, SchedAssumption DEF IInv, TypeOK, countvars
      <3>2. HomeOf(t)'
        BY <2>1, <2>3, <3>1 DEF HomeOf
      <3>. QED  BY <2>1, <2>4, <3>1, <3>2, <1>HomesMoved DEF IInv
    <2>12. Queues'
      <3>1. ASSUME NEW x \in Procs, NEW v \in Threads, v \in InList(runqueue'[x]) \cup InList(idlequeue'[x])
            PROVE  tproc'[v] = x
        <4>1. v \in On(runqueue) \cup On(idlequeue) /\ tproc[v] = x
          BY <2>8, <3>1 DEF On
        <4>2. ~exiting[v]
          BY <4>1 DEF IInv, Placed, Apart, Parked
        <4>. QED  BY <2>3, <2>4, <4>1, <4>2
      <3>. QED  BY <2>8, <3>1 DEF Queues
    <2>13. Turns'
      <3>1. /\ tproc'[u] = p /\ pc'[u] \in Labels \cup Starting
            /\ pc'[t] \in Labels => u = t /\ tproc'[t] = p
            /\ pc'[t] # "procnext"
        BY <2>2, <2>3, <2>4 DEF Labels
      <3>. QED  BY <2>1, <2>6, <2>10, <3>1, <1>TurnsMoved DEF IInv
    <2>14. Special'
      <3>1. pinthread[p] = t => tproc'[t] = p /\ ~exiting'[t] /\ pc'[t] \in Labels \cup {"procnext"}
        BY <2>2, <2>3 DEF Labels
      <3>. QED  BY <2>1, <2>10, <3>1, <1>SpecialMoved DEF IInv
    <2>15. Wakeups'
      <3>1. ASSUME NEW v \in Threads, v \in woken' PROVE pc'[v] \in {"procnext", "schedsleep"}
        <4>1. v # t /\ (v \in woken \/ schedasleep[v])
          BY <2>1, <2>5, <3>1
        <4>. QED  BY <2>4, <4>1 DEF IInv, Wakeups
      <3>2. ASSUME NEW v \in Threads, schedasleep'[v] PROVE pc'[v] = "schedsleep"
        <4>1. CASE v = t
          BY <2>3, <2>5, <3>2, <4>1
        <4>2. CASE v # t
          BY <2>4, <2>5, <3>2, <4>2 DEF IInv, Wakeups
        <4>. QED  BY <4>1, <4>2
      <3>3. ASSUME NEW v \in Threads, pc'[v] = "procnext", v \notin woken'
            PROVE  runasleep'[tproc'[v]] /\ ~canrun(tproc[v])'
        <4>1. v # t
          BY <2>3, <3>3
        <4>2. \A w \in Threads : w # t /\ w \in woken => w \in woken'
          BY <2>5
        <4>. QED  BY <2>1, <2>10, <3>3, <4>1, <4>2, <1>SleepersMoved DEF IInv
      <3>4. ASSUME NEW v \in Threads, pc'[v] = "schedsleep", v \notin woken'
            PROVE  schedasleep'[v] /\ thread'[tproc'[v]] # v
        <4>1. CASE v = t
          BY <2>3, <2>6, <3>4, <4>1
        <4>2. CASE v # t
          <5>1. pc[v] = "schedsleep" /\ v \notin woken /\ ~(v = u /\ schedasleep[u]) /\ tproc'[v] = tproc[v]
            BY <2>4, <2>5, <3>4, <4>2
          <5>2. schedasleep[v] /\ thread[tproc[v]] # v /\ v # u
            BY <5>1 DEF IInv, Wakeups
          <5>3. tproc[v] \in Procs
            BY <5>1 DEF IInv, Homes, TypeOK
          <5>4. schedasleep'[v]
            BY <2>5, <4>2, <5>2
          <5>5. thread'[tproc[v]] # v
            BY <2>6, <5>2, <5>3
          <5>. QED  BY <5>1, <5>4, <5>5
        <4>. QED  BY <4>1, <4>2
      <3>5. woken' \subseteq Threads
        BY <2>9 DEF TypeOK
      <3>. QED  BY <3>1, <3>2, <3>3, <3>4, <3>5 DEF Wakeups
    <2>16. Placed'
      <3>1. Held' = Held /\ waiting' = waiting
        BY <2>6 DEF Held
      <3>2. Chosen' = Chosen \cup {v \in Threads : u = v /\ pc'[v] \in Starting}
        <4>1. nil \notin Chosen /\ t \notin Chosen
          BY <2>1, SchedAssumption DEF Chosen
        <4>2. Chosen' = (Chosen \ {thread[p]}) \cup {v \in Threads : thread'[p] = v /\ pc'[v] \in Starting}
          BY <2>1, <2>10, <1>ChosenMoved DEF IInv
        <4>3. Chosen \ {thread[p]} = Chosen
          BY <2>1, <4>1
        <4>. QED  BY <2>6, <4>2, <4>3
      <3>3. CASE u = t
        <4>1. Parked' = Parked \ {u}
          BY <2>3, <2>4, <3>3 DEF Parked
        <4>2. Chosen' = Chosen
          BY <2>3, <3>2, <3>3 DEF Starting
        <4>. QED  BY <2>2, <2>8, <3>1, <4>1, <4>2, <1>PlacedGiven DEF IInv
      <3>4. CASE u # t
        <4>1. Parked' = Parked
          BY <2>1, <2>3, <2>4, <3>4 DEF Parked
        <4>2. Chosen' = Chosen \cup {u}
          BY <2>2, <2>4, <3>2, <3>4
        <4>. QED  BY <2>2, <2>8, <3>1, <4>1, <4>2, <1>PlacedGiven DEF IInv
      <3>. QED  BY <3>3, <3>4
    <2>17. Counts'
      <3>1. ASSUME NEW v \in Threads PROVE v \in Counted(p)' <=> v \in Left(t)
        <4>1. CASE v = t
          BY <2>1, <2>3, <4>1, SchedAssumption DEF Counted, Left
        <4>2. CASE v # t
          BY <2>1, <2>4, <4>2 DEF Counted, Left, Idle
        <4>. QED  BY <4>1, <4>2
      <3>3. Counted(p)' = Left(t)
        BY <3>1 DEF Counted, Left
      <3>2. ASSUME NEW x \in procs PROVE nthread'[x] = Cardinality(Counted(x)')
        BY <2>1, <2>6, <2>10, <3>3, <1>CountsMoved DEF IInv, countvars
      <3>. QED  BY <2>6, <3>2 DEF IInv, Counts, countvars
    <2>. QED  BY <2>9, <2>11, <2>12, <2>13, <2>14, <2>15, <2>16, <2>17 DEF IInv
  \* procnext finds nobody, and sleeps.
  <1>ProcsleepPreserves.
    ASSUME IInv, NEW t \in Threads, Gives(t), NEW p \in Procs, p = tproc[t], ~canrun(p),
           runasleep' = [runasleep EXCEPT ![p] = TRUE], thread' = [thread EXCEPT ![p] = nil],
           woken' = woken \ {t}, goto(t, "procnext"),
           UNCHANGED <<countvars, runqueue, idlequeue, schedthread, schedasleep, tproc, exiting>>
    PROVE  IInv'
    <2>. USE <1>ProcsleepPreserves
    <2>1. /\ p \in procs /\ Idle(t, p) /\ t # nil /\ hand[t] = nil /\ ~schedasleep[t]
          /\ thread[p] \in {nil, t} /\ pc[t] \notin Starting \cup {"none", "run", "readying"}
          /\ schedthread[p] \in {nil, t} /\ (pinthread[p] = t => ~exiting[t])
          /\ nthread'[p] = Cardinality(Left(t)) /\ \A x \in Procs : x # p => nthread'[x] = nthread[x]
          /\ nthread' \in [Procs -> Nat]
      BY Giver
    <2>2. /\ pc'[t] = "procnext" /\ (\A v \in Threads : v # t => pc'[v] = pc[v])
          /\ thread'[p] = nil /\ runasleep'[p]
          /\ \A x \in Procs : x # p => thread'[x] = thread[x] /\ runasleep'[x] = runasleep[x]
      BY DEF IInv, TypeOK, goto
    <2>3. UNCHANGED <<pinthread, hand, waiting>>
      BY DEF Gives
    <2>4. TypeOK'
      BY <2>1, <2>3 DEF IInv, TypeOK, PC, goto, countvars
    <2>5. Homes'
      <3>1. procs' = procs
        BY DEF countvars
      <3>2. HomeOf(t)'
        BY <2>1, <2>2, <2>3, <3>1 DEF HomeOf
      <3>. QED  BY <2>1, <2>2, <2>3, <3>1, <3>2, <1>HomesMoved DEF IInv
    <2>6. Queues'
      BY DEF IInv, Queues
    <2>7. Moves(t, p)
      BY <2>1, <2>2, <2>3 DEF Moves, countvars
    <2>8. Turns'
      <3>1. pc'[t] \notin Labels
        BY <2>2 DEF Labels
      <3>. QED  BY <2>1, <2>2, <2>7, <3>1, <1>TurnsMoved DEF IInv
    <2>9. Special'
      BY <2>1, <2>2, <2>7, <1>SpecialMoved DEF IInv
    <2>10. Wakeups'
      <3>1. \A v \in woken' : pc'[v] \in {"procnext", "schedsleep"}
        BY <2>2 DEF IInv, Wakeups, TypeOK
      <3>2. ASSUME NEW v \in Threads
            PROVE  /\ schedasleep'[v] => pc'[v] = "schedsleep"
                   /\ pc'[v] = "schedsleep" /\ v \notin woken' => schedasleep'[v] /\ thread'[tproc[v]] # v
        <4>1. CASE v = t
          BY <2>1, <2>2, <4>1
        <4>2. CASE v # t
          <5>1. pc'[v] = pc[v] /\ (v \in woken' <=> v \in woken) /\ schedasleep'[v] = schedasleep[v] /\ v # nil
            BY <2>2, <4>2, SchedAssumption
          <5>2. pc[v] = "schedsleep" => tproc[v] \in Procs
            BY DEF IInv, Homes, TypeOK
          <5>3. schedasleep[v] => pc[v] = "schedsleep"
            BY DEF IInv, Wakeups
          <5>4. pc[v] = "schedsleep" /\ v \notin woken => schedasleep[v] /\ thread[tproc[v]] # v
            BY DEF IInv, Wakeups
          <5>5. tproc[v] \in Procs /\ thread[tproc[v]] # v => thread'[tproc[v]] # v
            BY <2>2, <5>1
          <5>. QED  BY <5>1, <5>2, <5>3, <5>4, <5>5
        <4>. QED  BY <4>1, <4>2
      <3>3. ASSUME NEW v \in Threads, pc'[v] = "procnext", v \notin woken'
            PROVE  runasleep'[tproc'[v]] /\ ~canrun(tproc[v])'
        <4>1. CASE v = t
          BY <2>2, <2>3, <4>1 DEF canrun, nextqueue
        <4>2. CASE v # t
          BY <2>1, <2>7, <3>3, <4>2, <1>SleepersMoved DEF IInv
        <4>. QED  BY <4>1, <4>2
      <3>. QED  BY <3>1, <3>2, <3>3 DEF Wakeups
    <2>11. Placed'
      <3>1. Held' = Held /\ waiting' = waiting
        BY <2>3 DEF Held
      <3>2. Parked' = Parked
        BY <2>1, <2>2 DEF Parked
      <3>3. Chosen' = Chosen
        <4>1. nil \notin Chosen /\ t \notin Chosen
          BY <2>1, SchedAssumption DEF Chosen
        <4>2. Chosen' = (Chosen \ {thread[p]}) \cup {v \in Threads : thread'[p] = v /\ pc'[v] \in Starting}
          BY <2>7, <1>ChosenMoved DEF IInv
        <4>. QED  BY <2>1, <2>2, <4>1, <4>2, SchedAssumption, SMT
      <3>. QED  BY <3>1, <3>2, <3>3 DEF IInv, Placed
    <2>12. Counts'
      <3>1. ASSUME NEW v \in Threads PROVE v \in Counted(p)' <=> v \in Left(t)
        <4>1. CASE v = t
          BY <2>2, <4>1 DEF Counted, Left
        <4>2. CASE v # t
          BY <2>1, <2>2, <4>2 DEF Counted, Left, Idle
        <4>. QED  BY <4>1, <4>2
      <3>2. Counted(p)' = Left(t)
        BY <3>1 DEF Counted, Left
      <3>3. ASSUME NEW x \in procs PROVE nthread'[x] = Cardinality(Counted(x)')
        BY <2>1, <2>7, <3>2, <1>CountsMoved DEF IInv, countvars
      <3>. QED  BY <3>3 DEF IInv, Counts, countvars
    <2>. QED  BY <2>4, <2>5, <2>6, <2>8, <2>9, <2>10, <2>11, <2>12 DEF IInv
  \* The last thread of p exits.
  <1>TeardownPreserves.
    ASSUME IInv, NEW t \in Threads, Gives(t), NEW p \in Procs, p = tproc[t],
           Cardinality(Left(t)) = 0, pinthread[p] = nil, teardown(t, p),
           runasleep' = [runasleep EXCEPT ![p] = FALSE]
    PROVE  IInv'
    <2>. USE <1>TeardownPreserves
    <2>. DEFINE S == {q \in procs : sysproc[q]}
    <2>1. /\ p \in procs /\ Idle(t, p) /\ t # nil /\ p # nil /\ hand[t] = nil /\ ~schedasleep[t]
          /\ thread[p] \in {nil, t} /\ pc[t] \notin Starting \cup {"none", "run", "readying"}
          /\ \A x \in Procs : x # p => nthread'[x] = nthread[x]
          /\ nthread' \in [Procs -> Nat]
      BY Giver, SchedAssumption, SMT
    <2>2. exiting[t] /\ \A v \in Threads : tproc[v] = p => v = t
      <3>1. Left(t) \in SUBSET Threads
        BY DEF Left
      <3>2. Left(t) = {}
        BY <3>1 DEF IInv, Counting
      <3>. QED  BY <3>2 DEF Left
    <2>3. /\ \/ pc'[t] = "none" /\ tproc'[t] = nil /\ ~exiting'[t]
             \/ pc'[t] = "sleeper" /\ tproc'[t] = p /\ exiting'[t]
          /\ \A v \in Threads : v # t => pc'[v] = pc[v] /\ tproc'[v] = tproc[v] /\ exiting'[v] = exiting[v]
      BY DEF IInv, TypeOK, teardown, goto
    <2>4. /\ thread'[p] = nil
          /\ \A x \in Procs : x # p => thread'[x] = thread[x] /\ runasleep'[x] = runasleep[x]
      BY DEF IInv, TypeOK, teardown
    <2>5. /\ procs' = procs \ {p} /\ woken' = woken \ {t}
          /\ UNCHANGED <<sysproc, runqueue, idlequeue, schedthread, schedasleep, pinthread, hand, waiting>>
      BY DEF teardown, Gives
    <2>6. /\ threadnproc' = Cardinality(procs') /\ threadnproc' \in Nat
          /\ threadnsysproc' = Cardinality({q \in procs' : sysproc'[q]}) /\ threadnsysproc' \in Nat
          /\ halted' <=> \A q \in procs' : sysproc'[q]
      <3>1. procs \in SUBSET Procs /\ S \in SUBSET Procs
        BY DEF IInv, TypeOK
      <3>2. Cardinality(procs \ {p}) = threadnproc - 1
        BY <2>1, <3>1, CountLess DEF IInv, Counts
      <3>3. {q \in procs' : sysproc'[q]} = S \ {p}
        BY <2>5
      <3>4. Cardinality(S \ {p}) = threadnsysproc - (IF sysproc[p] THEN 1 ELSE 0)
        <4>1. threadnsysproc = Cardinality(S) /\ threadnsysproc \in Nat
          BY DEF IInv, Counts, TypeOK
        <4>2. CASE sysproc[p]
          <5>1. p \in S
            BY <2>1, <4>2
          <5>2. Cardinality(S \ {p}) = Cardinality(S) - 1
            BY <3>1, <5>1, CountLess DEF IInv
          <5>. QED  BY <4>1, <4>2, <5>2
        <4>3. CASE ~sysproc[p]
          <5>1. S \ {p} = S
            BY <4>3
          <5>. QED  BY <4>1, <4>3, <5>1, SMT
        <4>. QED  BY <4>2, <4>3
      <3>5. /\ Cardinality(procs \ {p}) \in Nat /\ Cardinality(S \ {p}) \in Nat
            /\ Cardinality(procs \ {p}) = Cardinality(S \ {p}) <=> procs \ {p} = S \ {p}
        <4>1. procs \ {p} \in SUBSET Procs /\ S \ {p} \in SUBSET (procs \ {p})
          BY <3>1
        <4>. QED  BY <4>1, AllSysprocs DEF IInv
      <3>6. /\ threadnproc' = threadnproc - 1
            /\ threadnsysproc' = threadnsysproc - (IF sysproc[p] THEN 1 ELSE 0)
            /\ halted' = (threadnproc' = threadnsysproc')
        BY DEF teardown
      <3>7. (\A q \in procs \ {p} : sysproc[q]) <=> procs \ {p} = S \ {p}
        OBVIOUS
      <3>. HIDE DEF S
      <3>. QED  BY <2>5, <3>2, <3>3, <3>4, <3>5, <3>6, <3>7
    <2>7. TypeOK'
      <3>1. /\ pc' \in [Threads -> PC] /\ tproc' \in [Threads -> Procs \cup {nil}]
            /\ exiting' \in [Threads -> BOOLEAN] /\ thread' \in [Procs -> Threads \cup {nil}]
            /\ runasleep' \in [Procs -> BOOLEAN] /\ halted' \in BOOLEAN
        BY DEF IInv, TypeOK, PC, teardown, goto
      <3>. QED  BY <2>1, <2>5, <2>6, <3>1 DEF IInv, TypeOK
    <2>8. Homes'
      <3>1. HomeOf(t)'
        BY <2>1, <2>3, <2>5 DEF HomeOf
      <3>2. \A v \in Threads : v # t => (tproc[v] \in procs' <=> tproc[v] \in procs)
        BY <2>2, <2>5
      <3>. QED  BY <2>1, <2>3, <2>5, <3>1, <3>2, <1>HomesMoved DEF IInv
    <2>9. Queues'
      <3>1. t \notin On(runqueue) \cup On(idlequeue)
        BY <2>2 DEF IInv, Placed, Apart, Parked
      <3>2. ASSUME NEW x \in Procs, NEW v \in Threads, v \in InList(runqueue[x]) \cup InList(idlequeue[x])
            PROVE  tproc'[v] = x
        <4>1. v # t /\ tproc[v] = x
          BY <3>1, <3>2 DEF IInv, Queues, On
        <4>. QED  BY <2>3, <4>1
      <3>. QED  BY <2>5, <3>2 DEF IInv, Queues
    <2>10. Moves(t, p)
      BY <2>1, <2>3, <2>4, <2>5 DEF Moves
    <2>11. Turns'
      <3>1. pc'[t] \notin Labels /\ pc'[t] # "procnext" /\ p \notin procs'
        BY <2>3, <2>5 DEF Labels
      <3>. QED  BY <2>1, <2>4, <2>10, <3>1, <1>TurnsMoved DEF IInv
    <2>12. Special'
      BY <2>1, <2>10, <1>SpecialMoved DEF IInv
    <2>13. Wakeups'
      <3>1. \A v \in woken' : pc'[v] \in {"procnext", "schedsleep"}
        BY <2>3, <2>5 DEF IInv, Wakeups, TypeOK
      <3>2. ASSUME NEW v \in Threads
            PROVE  /\ schedasleep'[v] => pc'[v] = "schedsleep"
                   /\ pc'[v] = "schedsleep" /\ v \notin woken' => schedasleep'[v] /\ thread'[tproc'[v]] # v
        <4>1. CASE v = t
          BY <2>1, <2>3, <2>5, <4>1
        <4>2. CASE v # t
          <5>1. /\ pc'[v] = pc[v] /\ (v \in woken' <=> v \in woken) /\ schedasleep'[v] = schedasleep[v]
                /\ tproc'[v] = tproc[v] /\ tproc[v] # p
            BY <2>2, <2>3, <2>5, <4>2
          <5>2. pc[v] = "schedsleep" => tproc[v] \in Procs
            BY DEF IInv, Homes, TypeOK
          <5>3. schedasleep[v] => pc[v] = "schedsleep"
            BY DEF IInv, Wakeups
          <5>4. pc[v] = "schedsleep" /\ v \notin woken => schedasleep[v] /\ thread[tproc[v]] # v
            BY DEF IInv, Wakeups
          <5>5. tproc[v] \in Procs /\ thread[tproc[v]] # v => thread'[tproc[v]] # v
            BY <2>4, <5>1
          <5>. QED  BY <5>1, <5>2, <5>3, <5>4, <5>5
        <4>. QED  BY <4>1, <4>2
      <3>3. ASSUME NEW v \in Threads, pc'[v] = "procnext", v \notin woken'
            PROVE  runasleep'[tproc'[v]] /\ ~canrun(tproc[v])'
        <4>1. v # t /\ \A w \in Threads : w # t /\ w \in woken => w \in woken'
          BY <2>3, <2>5, <3>3
        <4>. QED  BY <2>1, <2>10, <3>3, <4>1, <1>SleepersMoved DEF IInv
      <3>. QED  BY <3>1, <3>2, <3>3 DEF Wakeups
    <2>14. Placed'
      <3>1. Held' = Held /\ waiting' = waiting /\ UNCHANGED <<runqueue, idlequeue>>
        BY <2>5 DEF Held
      <3>2. Parked' = Parked
        BY <2>2, <2>3 DEF Parked
      <3>3. Chosen' = Chosen
        <4>1. nil \notin Chosen /\ t \notin Chosen
          BY <2>1, SchedAssumption DEF Chosen
        <4>2. Chosen' = (Chosen \ {thread[p]}) \cup {v \in Threads : thread'[p] = v /\ pc'[v] \in Starting}
          BY <2>10, <1>ChosenMoved DEF IInv
        <4>3. thread[p] \notin Chosen /\ \A v \in Threads : thread'[p] # v
          BY <2>1, <2>4, <4>1, SchedAssumption
        <4>. QED  BY ONLY <4>2, <4>3, Zenon
      <3>. QED  BY <3>1, <3>2, <3>3 DEF IInv, Placed
    <2>15. Counts'
      <3>1. ASSUME NEW x \in procs' PROVE nthread'[x] = Cardinality(Counted(x)')
        BY <2>1, <2>5, <2>10, <1>CountsMoved DEF IInv
      <3>. QED  BY <2>6, <3>1 DEF Counts
    <2>. QED  BY <2>7, <2>8, <2>9, <2>11, <2>12, <2>13, <2>14, <2>15, ZenonT(30) DEF IInv
  <1>. SUFFICES ASSUME IInv, NEW t \in Threads,
                       \/ \E u \in Threads : threadcreate(t, u) \/ take(t, u)
                       \/ \E p \in Procs, u \in Threads : proccreate(t, p, u)
                       \/ procmain(t)
                       \/ threadyield(t) \/ threadidle(t) \/ threadexits(t) \/ block(t)
                       \/ _threadready(t)
                       \/ threadpin(t) \/ threadunpin(t) \/ _threadsetsysproc(t)
                       \/ pthreadscheduler(t) \/ procwake(t)
                       \/ _threadpthreadmain(t) \/ schedwake(t)
                PROVE  IInv'
    BY DEF Next
  <1>1. CASE \E u \in Threads : threadcreate(t, u) \/ take(t, u)
    BY <1>1, <1>CreatePreserves, <1>TakePreserves
  <1>2. CASE \E p \in Procs, u \in Threads : proccreate(t, p, u)
    BY <1>2, <1>ProcCreatePreserves
  <1>3. CASE procmain(t)
    BY <1>3, <1>ProcmainPreserves
  <1>4. CASE threadyield(t) \/ threadidle(t) \/ block(t)
    BY <1>4, <1>ParkPreserves
  <1>5. CASE threadexits(t)
    BY <1>5, <1>ExitsPreserves
  <1>6. CASE _threadready(t)
    BY <1>6, <1>ReadyPreserves
  <1>7. CASE threadpin(t) \/ threadunpin(t)
    BY <1>7, <1>PinPreserves
  <1>8. CASE _threadsetsysproc(t)
    BY <1>8, <1>SysprocPreserves
  <1>9. CASE pthreadscheduler(t) \/ procwake(t)
    <2>0. PICK p \in Procs : p = tproc[t]
      BY <1>9, SchedulerGives, Giver
    <2>1. Gives(t) /\ procnext(t, p, Cardinality(Left(t)))
      BY <1>9, <2>0, SchedulerGives
    <2>2. CASE canrun(p) /\ handover(t, p) /\ runasleep' = [runasleep EXCEPT ![p] = FALSE]
      BY <2>0, <2>1, <2>2, <1>HandoverPreserves
    <2>3. CASE /\ ~canrun(p) /\ runasleep' = [runasleep EXCEPT ![p] = TRUE]
               /\ thread' = [thread EXCEPT ![p] = nil] /\ woken' = woken \ {t} /\ goto(t, "procnext")
               /\ UNCHANGED <<countvars, runqueue, idlequeue, schedthread, schedasleep, tproc, exiting>>
      BY <2>0, <2>1, <2>3, <1>ProcsleepPreserves
    <2>4. CASE /\ Cardinality(Left(t)) = 0 /\ pinthread[p] = nil /\ teardown(t, p)
               /\ runasleep' = [runasleep EXCEPT ![p] = FALSE]
      BY <2>0, <2>1, <2>4, <1>TeardownPreserves
    <2>. QED  BY <2>1, <2>2, <2>3, <2>4 DEF procnext
  <1>10. CASE schedwake(t) \/ (_threadpthreadmain(t) /\ schedthread[tproc[t]] = t)
    <2>1. schedthread[tproc[t]] = t
      BY <1>10 DEF schedwake
    <2>. QED  BY <1>10, <2>1, <1>ResumePreserves
  <1>11. CASE _threadpthreadmain(t) /\ schedthread[tproc[t]] # t
    BY <1>11, <1>SettlePreserves
  <1>. QED  BY <1>1, <1>2, <1>3, <1>4, <1>5, <1>6, <1>7, <1>8, <1>9, <1>10, <1>11

LEMMA StutterPreserves ==
    ASSUME IInv, UNCHANGED vars
    PROVE  IInv'
  <1>1. TypeOK' /\ Homes' /\ Queues' /\ Special'
    BY SMT DEF IInv, vars, countvars, TypeOK, Homes, Queues, Special
  <1>2. Turns' /\ Wakeups'
    BY DEF IInv, vars, countvars, Turns, Active, Wakeups, canrun, nextqueue
  <1>3. Placed' /\ Counts'
    BY DEF IInv, vars, countvars, Placed, Parked, Held, Chosen, Counts, Counted
  <1>. QED  BY <1>1, <1>2, <1>3 DEF IInv

LEMMA InitIInv ==
    ASSUME Init, Counting(Procs), Counting(Threads)
    PROVE  IInv
  <1>1. /\ \A p \in Procs : /\ thread[p] = IF p = MainProc THEN MainThread ELSE nil
                            /\ schedthread[p] = nil /\ pinthread[p] = nil
                            /\ runqueue[p] = <<>> /\ idlequeue[p] = <<>>
                            /\ nthread[p] = IF p = MainProc THEN 1 ELSE 0
        /\ \A t \in Threads : /\ tproc[t] = IF t = MainThread THEN MainProc ELSE nil
                              /\ pc[t] = IF t = MainThread THEN "run" ELSE "none"
                              /\ ~exiting[t] /\ ~schedasleep[t] /\ hand[t] = nil
        /\ procs = {MainProc} /\ waiting = {} /\ woken = {}
        /\ MainProc \in Procs /\ MainThread \in Threads /\ nil \notin Procs /\ nil \notin Threads
    BY SchedAssumption DEF Init
  <1>2. TypeOK
    <2>1. <<>> \in Seq(Threads)
      BY SMT
    <2>. QED  BY <1>1, <2>1 DEF Init, TypeOK, PC
  <1>3. Homes
    BY <1>1 DEF Homes
  <1>4. Queues
    BY <1>1, EmptyList DEF Queues
  <1>5. Turns
    BY <1>1 DEF Turns, Active, Labels, Starting
  <1>6. Special /\ Wakeups
    BY <1>1 DEF Special, Wakeups
  <1>7. Placed
    <2>1. On(runqueue) = {} /\ On(idlequeue) = {}
      BY <1>1, EmptyList DEF On
    <2>2. Held = {} /\ Chosen = {} /\ Parked = {}
      BY <1>1 DEF Held, Chosen, Starting, Parked
    <2>. QED  BY <1>1, <2>1, <2>2 DEF Placed, Apart
  <1>8. Counts
    <2>1. Counted(MainProc) = {MainThread}
      BY <1>1 DEF Counted
    <2>2. {p \in procs : sysproc[p]} = {}
      BY <1>1 DEF Init
    <2>3. Cardinality({MainThread}) = 1 /\ Cardinality({MainProc}) = 1 /\ Cardinality({}) = 0
      BY <1>1, CountOne DEF Counting
    <2>. QED  BY <1>1, <2>1, <2>2, <2>3 DEF Init, Counts
  <1>. QED  BY <1>2, <1>3, <1>4, <1>5, <1>6, <1>7, <1>8 DEF IInv

----------------------------------------------------------------------------
(* The steps as those of Coroutines.  Its home, parked and ready change    *)
(* only as Begins, Stops, Wakes and Nothing say.                           *)

Home(t) == IF exiting[t] THEN nil ELSE tproc[t]
Readied == Parked \ (waiting \cup Held)
Returnable == {t \in Parked : Places(t) \cap {"runqueue", "idlequeue", "chosen"} # {}}

\* The homes of all threads but t stay.
Stay(t) == \A v \in Threads : v # t => Home(v)' = Home(v)

Begins(t, p) ==
    /\ Home(t) = nil /\ Home(t)' = p /\ Stay(t)
    /\ Parked' = Parked \cup {t} /\ Readied' = Readied \cup {t}

Stops(t) ==
    /\ Home(t) # nil /\ t \notin Parked /\ Stay(t)
    /\ \/ Home(t)' = nil /\ Parked' = Parked /\ Readied' = Readied
       \/ /\ Home(t)' = Home(t) /\ Parked' = Parked \cup {t}
          /\ Readied' = Readied \/ Readied' = Readied \cup {t}

Wakes(t) ==
    /\ Home(t)' = Home(t) /\ Stay(t)
    /\ \/ /\ t \in Parked \ Readied
          /\ Parked' = Parked /\ Readied' = Readied \cup {t}
       \/ /\ t \in Readied /\ \A v \in Threads : Home(v) = Home(t) => v \in Parked
          /\ Parked' = Parked \ {t} /\ Readied' = Readied \ {t}

Nothing(t) == Home(t)' = Home(t) /\ Stay(t) /\ Parked' = Parked /\ Readied' = Readied

Seen(t) == (\E p \in Procs : Begins(t, p)) \/ Stops(t) \/ Wakes(t) \/ Nothing(t)

LEMMA PlacesAre ==
    ASSUME NEW t \in Threads
    PROVE  \A w : w \in Places(t) <=>
               \/ w = "runqueue" /\ t \in On(runqueue)
               \/ w = "idlequeue" /\ t \in On(idlequeue)
               \/ w = "waiting" /\ t \in waiting
               \/ w = "hand" /\ t \in Held
               \/ w = "chosen" /\ t \in Chosen
  BY DEF Places, On, Held, Chosen, Starting

LEMMA OnePlaceHolds == IInv => OnePlace
  <1>. SUFFICES ASSUME IInv PROVE OnePlace
    OBVIOUS
  <1>1. ASSUME NEW t \in Threads
        PROVE  IF exiting[t] \/ pc[t] \in {"none", "run", "readying"}
               THEN Places(t) = {}
               ELSE \E w \in Places(t) : Places(t) = {w}
    <2>1. \A w : w \in Places(t) <=>
              \/ w = "runqueue" /\ t \in On(runqueue)
              \/ w = "idlequeue" /\ t \in On(idlequeue)
              \/ w = "waiting" /\ t \in waiting
              \/ w = "hand" /\ t \in Held
              \/ w = "chosen" /\ t \in Chosen
      BY PlacesAre
    <2>2. t \in Parked <=> ~(exiting[t] \/ pc[t] \in {"none", "run", "readying"})
      BY DEF Parked
    <2>3. CASE t \notin Parked
      BY <2>1, <2>2, <2>3, NotPlaced DEF IInv
    <2>4. CASE t \in Parked
      <3>1. /\ t \in On(runqueue) \cup On(idlequeue) \cup waiting \cup Held \cup Chosen
            /\ Apart(Parked, On(runqueue), On(idlequeue), waiting, Held, Chosen)
        BY <2>4 DEF IInv, Placed, Apart
      <3>2. \E w : Places(t) = {w}
        <4>1. t \in On(runqueue) => Places(t) = {"runqueue"}
          BY <2>1, <3>1 DEF Apart
        <4>2. t \in On(idlequeue) => Places(t) = {"idlequeue"}
          BY <2>1, <3>1 DEF Apart
        <4>3. t \in waiting => Places(t) = {"waiting"}
          BY <2>1, <3>1 DEF Apart
        <4>4. t \in Held => Places(t) = {"hand"}
          BY <2>1, <3>1 DEF Apart
        <4>5. t \in Chosen => Places(t) = {"chosen"}
          BY <2>1, <3>1 DEF Apart
        <4>. QED  BY <3>1, <4>1, <4>2, <4>3, <4>4, <4>5
      <3>. QED  BY <2>2, <2>4, <3>2
    <2>. QED  BY <2>3, <2>4
  <1>2. ASSUME NEW p \in Procs, NEW t \in InList(runqueue[p]) \cup InList(idlequeue[p]) PROVE tproc[t] = p
    BY <1>2, EmptyList DEF IInv, TypeOK, Queues
  <1>3. \A t, u \in Threads : hand[t] # nil /\ hand[t] = hand[u] => t = u
    BY DEF IInv, Homes
  <1>. QED  BY <1>1, <1>2, <1>3 DEF IInv, Queues, OnePlace

LEMMA StepSeen == IInv /\ Next => \E t \in Threads : Seen(t)
  <1>Beginning.
    ASSUME IInv, NEW u \in Threads, NEW p \in Procs, pc[u] = "none", pc'[u] \in {"newpthread", "procmain"},
           tproc'[u] = p, \A v \in Threads : v # u => pc'[v] = pc[v] /\ tproc'[v] = tproc[v],
           UNCHANGED <<exiting, waiting, hand>>
    PROVE  Begins(u, p)
    <2>. USE <1>Beginning
    <2>1. tproc[u] = nil /\ ~exiting[u] /\ u \notin Parked
      BY DEF IInv, Homes, Parked
    <2>2. u \notin waiting \cup Held
      BY <2>1, NotPlaced DEF IInv
    <2>3. Held' = Held /\ Parked' = Parked \cup {u}
      BY <2>1 DEF Held, Parked
    <2>4. Readied' = Readied \cup {u}
      BY <2>2, <2>3 DEF Readied
    <2>. QED  BY <2>1, <2>3, <2>4 DEF Begins, Stay, Home
  <1>Stopping.
    ASSUME IInv, NEW t \in Threads, pc[t] = "run", pc'[t] = "switch",
           \A v \in Threads : v # t => pc'[v] = pc[v] /\ exiting'[v] = exiting[v],
           UNCHANGED <<tproc, hand>>,
           \/ exiting'[t] /\ waiting' = waiting
           \/ ~exiting'[t] /\ (waiting' = waiting \/ waiting' = waiting \cup {t})
    PROVE  Stops(t)
    <2>. USE <1>Stopping
    <2>1. ~exiting[t] /\ t \notin Parked /\ tproc[t] # nil
      BY SchedAssumption DEF IInv, TypeOK, Homes, Parked
    <2>2. t \notin waiting \cup Held /\ Held' = Held
      BY <2>1, NotPlaced DEF IInv, Held
    <2>3. CASE exiting'[t] /\ waiting' = waiting
      <3>1. Parked' = Parked
        BY <2>1, <2>3 DEF Parked
      <3>. QED  BY <2>1, <2>2, <2>3, <3>1 DEF Stops, Stay, Home, Readied
    <2>4. CASE ~exiting'[t] /\ (waiting' = waiting \/ waiting' = waiting \cup {t})
      <3>1. Parked' = Parked \cup {t}
        BY <2>1, <2>4 DEF Parked
      <3>2. Readied' = Readied \/ Readied' = Readied \cup {t}
        <4>1. CASE waiting' = waiting
          BY <2>2, <3>1, <4>1 DEF Readied
        <4>2. CASE waiting' = waiting \cup {t}
          BY <2>1, <2>2, <3>1, <4>2 DEF Readied
        <4>. QED  BY <2>4, <4>1, <4>2
      <3>. QED  BY <2>1, <2>4, <3>1, <3>2 DEF Stops, Stay, Home
    <2>. QED  BY <2>3, <2>4
  <1>Returning.
    ASSUME IInv, NEW t \in Threads, t \in Readied, pc'[t] = "run", \A v \in Threads : v # t => pc'[v] = pc[v],
           \A v \in Threads : v # t => exiting'[v] = exiting[v] /\ tproc'[v] = tproc[v],
           ~exiting'[t], tproc'[t] = tproc[t], UNCHANGED <<waiting, hand>>,
           \A v \in Threads : tproc[v] = tproc[t] => pc[v] \notin {"run", "readying"}
    PROVE  Wakes(t)
    <2>. USE <1>Returning
    <2>1. t \in Parked /\ ~exiting[t] /\ pc[t] \notin {"none", "run", "readying"}
      BY DEF Readied, Parked
    <2>2. Parked' = Parked \ {t}
      BY <2>1 DEF Parked
    <2>3. Readied' = Readied \ {t}
      BY <2>2 DEF Readied, Held
    <2>4. ASSUME NEW v \in Threads, Home(v) = Home(t) PROVE v \in Parked
      <3>1. tproc[t] # nil
        BY <2>1, SchedAssumption DEF IInv, TypeOK, Homes
      <3>2. ~exiting[v] /\ tproc[v] = tproc[t]
        BY <2>1, <2>4, <3>1 DEF Home
      <3>3. pc[v] # "none"
        BY <3>1, <3>2 DEF IInv, Homes
      <3>. QED  BY <3>2, <3>3 DEF Parked
    <2>5. Home(t)' = Home(t) /\ Stay(t)
      BY <2>1 DEF Home, Stay
    <2>. QED  BY <2>2, <2>3, <2>4, <2>5 DEF Wakes
  <1>NothingSeen.
    ASSUME NEW t \in Threads, Home(t)' = Home(t), t \in Parked' <=> t \in Parked,
           \A v \in Threads : v # t => pc'[v] = pc[v] /\ exiting'[v] = exiting[v] /\ tproc'[v] = tproc[v],
           (waiting \cup Held)' = waiting \cup Held
    PROVE  Nothing(t)
    <2>. USE <1>NothingSeen
    <2>1. Stay(t)
      BY DEF Stay, Home
    <2>2. \A v \in Threads : v \in Parked' <=> v \in Parked
      BY DEF Parked
    <2>3. Parked' = Parked
      BY <2>2 DEF Parked
    <2>. QED  BY <2>1, <2>3 DEF Nothing, Readied
  <1>CreateSeen.
    ASSUME IInv, NEW t \in Threads, NEW u \in Threads, NEW p \in Procs,
           (threadcreate(t, u) /\ p = tproc[t]) \/ proccreate(t, p, u)
    PROVE  Begins(u, p)
    <2>. USE <1>CreateSeen
    <2>1. /\ pc[u] = "none" /\ tproc' = [tproc EXCEPT ![u] = p]
          /\ pc' = [pc EXCEPT ![u] = "newpthread"] \/ pc' = [pc EXCEPT ![u] = "procmain"]
          /\ UNCHANGED <<exiting, waiting, hand>>
      BY DEF threadcreate, proccreate, at, goto
    <2>2. /\ pc'[u] \in {"newpthread", "procmain"} /\ tproc'[u] = p
          /\ \A v \in Threads : v # u => pc'[v] = pc[v] /\ tproc'[v] = tproc[v]
      BY <2>1 DEF IInv, TypeOK
    <2>. QED  BY <2>1, <2>2, <1>Beginning
  <1>StopSeen.
    ASSUME IInv, NEW t \in Threads,
           threadyield(t) \/ threadidle(t) \/ threadexits(t) \/ block(t)
    PROVE  Stops(t)
    <2>. USE <1>StopSeen
    <2>1. /\ pc[t] = "run" /\ pc' = [pc EXCEPT ![t] = "switch"] /\ UNCHANGED <<tproc, hand>>
          /\ \/ exiting' = [exiting EXCEPT ![t] = TRUE] /\ waiting' = waiting
             \/ exiting' = exiting /\ (waiting' = waiting \/ waiting' = waiting \cup {t})
      BY DEF threadyield, threadidle, threadexits, block, at, goto
    <2>2. ~exiting[t]
      BY <2>1 DEF IInv, Homes
    <2>3. /\ pc'[t] = "switch"
          /\ \A v \in Threads : v # t => pc'[v] = pc[v] /\ exiting'[v] = exiting[v]
      BY <2>1 DEF IInv, TypeOK
    <2>4. \/ exiting'[t] /\ waiting' = waiting
          \/ ~exiting'[t] /\ (waiting' = waiting \/ waiting' = waiting \cup {t})
      BY <2>1, <2>2 DEF IInv, TypeOK
    <2>. QED  BY <2>1, <2>3, <2>4, <1>Stopping
  <1>TakeSeen.
    ASSUME IInv, NEW t \in Threads, NEW u \in Threads, take(t, u)
    PROVE  Nothing(t)
    <2>. USE <1>TakeSeen
    <2>1. /\ pc[t] = "run" /\ u \in waiting /\ waiting' = waiting \ {u}
          /\ hand' = [hand EXCEPT ![t] = u] /\ pc' = [pc EXCEPT ![t] = "readying"]
          /\ UNCHANGED <<tproc, exiting>>
      BY DEF take, at, goto
    <2>2. /\ pc'[t] = "readying" /\ hand'[t] = u
          /\ \A v \in Threads : v # t => pc'[v] = pc[v] /\ hand'[v] = hand[v]
      BY <2>1 DEF IInv, TypeOK
    <2>3. hand[t] = nil
      BY <2>1 DEF IInv, Homes
    <2>4. Held' = Held \cup {u}
      <3>1. ASSUME NEW v \in Held PROVE v \in Held'
        <4>1. PICK x \in Threads : hand[x] = v
          BY DEF Held
        <4>2. x # t /\ v \in Threads
          BY <2>3, <4>1, SchedAssumption DEF Held
        <4>. QED  BY <2>2, <4>1, <4>2 DEF Held
      <3>2. u \in Held'
        BY <2>2 DEF Held
      <3>3. ASSUME NEW v \in Held', v # u PROVE v \in Held
        BY <2>2, <3>3 DEF Held
      <3>. QED  BY <3>1, <3>2, <3>3
    <2>5. (waiting \cup Held)' = waiting \cup Held
      BY <2>1, <2>4
    <2>6. Home(t)' = Home(t) /\ (t \in Parked' <=> t \in Parked)
      BY <2>1, <2>2 DEF Home, Parked
    <2>. QED  BY <2>1, <2>2, <2>5, <2>6, <1>NothingSeen
  <1>ReadySeen.
    ASSUME IInv, NEW t \in Threads, _threadready(t)
    PROVE  \E u \in Threads : Wakes(u)
    <2>. USE <1>ReadySeen
    <2>1. /\ pc[t] = "readying" /\ pc' = [pc EXCEPT ![t] = "run"] /\ hand' = [hand EXCEPT ![t] = nil]
          /\ UNCHANGED <<tproc, exiting, waiting>>
      BY DEF _threadready, at, goto
    <2>2. PICK u \in Threads : u = hand[t]
      BY <2>1 DEF IInv, Homes, TypeOK
    <2>3. /\ pc'[t] = "run" /\ hand'[t] = nil
          /\ \A v \in Threads : v # t => pc'[v] = pc[v] /\ hand'[v] = hand[v]
      BY <2>1 DEF IInv, TypeOK
    <2>4. u \in Held /\ u \in Parked /\ u \notin waiting
      <3>1. u \in Held
        BY <2>2 DEF Held
      <3>. QED  BY <3>1 DEF IInv, Placed, Apart
    <2>5. Held' = Held \ {u}
      <3>1. ASSUME NEW v \in Held, v # u PROVE v \in Held'
        BY <2>2, <2>3, <3>1 DEF Held
      <3>2. ASSUME NEW v \in Held' PROVE v \in Held /\ v # u
        <4>1. PICK x \in Threads : hand'[x] = v
          BY DEF Held
        <4>2. v \in Threads /\ v # nil /\ u # nil
          BY SchedAssumption DEF Held
        <4>3. x # t /\ hand[x] = v
          BY <2>3, <4>1, <4>2
        <4>4. hand[t] # hand[x]
          BY <2>2, <4>2, <4>3 DEF IInv, Homes
        <4>. QED  BY <2>2, <4>2, <4>3, <4>4 DEF Held
      <3>. QED  BY <3>1, <3>2
    <2>6. Parked' = Parked
      <3>1. \A v \in Threads : v \in Parked' <=> v \in Parked
        BY <2>1, <2>3 DEF Parked
      <3>. QED  BY <3>1 DEF Parked
    <2>7. Readied' = Readied \cup {u} /\ u \notin Readied
      BY <2>1, <2>4, <2>5, <2>6 DEF Readied
    <2>8. Home(u)' = Home(u) /\ Stay(u)
      BY <2>1 DEF Home, Stay
    <2>. QED  BY <2>2, <2>4, <2>6, <2>7, <2>8 DEF Wakes
  <1>ResumeSeen.
    ASSUME IInv, NEW t \in Threads,
           procmain(t) \/ ((schedwake(t) \/ _threadpthreadmain(t)) /\ schedthread[tproc[t]] = t)
    PROVE  Wakes(t)
    <2>. USE <1>ResumeSeen
    <2>1. /\ pc[t] = "procmain" \/ (pc[t] \in Starting /\ schedthread[tproc[t]] = t)
          /\ pc' = [pc EXCEPT ![t] = "run"] /\ UNCHANGED <<tproc, exiting, hand, waiting>>
      BY DEF procmain, schedwake, _threadpthreadmain, at, goto, Starting
    <2>2. Idle(t, tproc[t]) /\ tproc[t] \in Procs /\ (pc[t] \in Starting => thread[tproc[t]] = t)
      BY <2>1, Owner DEF IInv
    <2>3. t \in Readied
      <3>1. t \in Parked
        BY <2>1 DEF IInv, Homes, Parked, Starting
      <3>2. CASE pc[t] = "procmain"
        <4>1. runqueue[tproc[t]] = <<t>>
          BY <3>2 DEF IInv, Special
        <4>2. t \in InList(<<t>>)
          BY SMT DEF InList
        <4>3. t \in On(runqueue)
          BY <2>2, <4>1, <4>2 DEF On
        <4>. QED  BY <3>1, <4>3 DEF IInv, Placed, Apart, Readied
      <3>3. CASE pc[t] \in Starting
        <4>1. t \in Chosen
          BY <2>2, <3>3 DEF Chosen
        <4>. QED  BY <3>1, <4>1 DEF IInv, Placed, Apart, Readied
      <3>. QED  BY <2>1, <3>2, <3>3
    <2>4. pc'[t] = "run" /\ ~exiting'[t] /\ \A v \in Threads : v # t => pc'[v] = pc[v]
      BY <2>1, <2>3 DEF IInv, TypeOK, Readied, Parked
    <2>5. \A v \in Threads : tproc[v] = tproc[t] => pc[v] \notin {"run", "readying"}
      BY <2>1, <2>2 DEF Idle, Labels, Starting
    <2>. QED  BY <2>1, <2>3, <2>4, <2>5, <1>Returning
  \* Pinning, and a pthread that starts before its turn, change nothing that a
  \* user of the scheduler sees.
  <1>QuietSeen.
    ASSUME IInv, NEW t \in Threads,
           \/ threadpin(t) \/ threadunpin(t) \/ _threadsetsysproc(t)
           \/ _threadpthreadmain(t) /\ schedthread[tproc[t]] # t
    PROVE  Nothing(t)
    <2>. USE <1>QuietSeen
    <2>1. /\ pc' = pc \/ (pc[t] = "newpthread" /\ pc' = [pc EXCEPT ![t] = "schedsleep"])
          /\ UNCHANGED <<tproc, exiting, hand, waiting>>
      BY DEF threadpin, threadunpin, _threadsetsysproc, _threadpthreadmain, at, goto
    <2>2. \A v \in Threads : v # t => pc'[v] = pc[v]
      BY <2>1 DEF IInv, TypeOK
    <2>3. Home(t)' = Home(t) /\ (waiting \cup Held)' = waiting \cup Held
      BY <2>1 DEF Home, Held
    <2>4. t \in Parked' <=> t \in Parked
      BY <2>1 DEF Parked, IInv, TypeOK
    <2>. QED  BY <2>1, <2>2, <2>3, <2>4, <1>NothingSeen
  <1>HandoverSeen.
    ASSUME IInv, NEW t \in Threads, Gives(t), NEW p, p = tproc[t], canrun(p), handover(t, p),
           runasleep' = [runasleep EXCEPT ![p] = FALSE]
    PROVE  Wakes(t) \/ Nothing(t)
    <2>. USE <1>HandoverSeen
    <2>1. PICK u \in Threads : u = nextthread(p)
      BY Successor
    <2>2. /\ u \in On(runqueue) \cup On(idlequeue) /\ u \in Parked
      BY <2>1, Successor
    <2>3. Passed(t, p, u) /\ UNCHANGED <<hand, waiting>>
      BY <2>1, HandoverPasses DEF Gives
    <2>4. Idle(t, p) /\ pc[t] \notin {"none", "run", "readying"}
      BY Giver
    <2>5. \A v \in Threads : v # t => pc'[v] = pc[v] /\ tproc'[v] = tproc[v] /\ exiting'[v] = exiting[v]
      BY <2>3 DEF Passed
    <2>6. CASE u = t
      <3>1. t \in Readied
        BY <2>2, <2>6 DEF IInv, Placed, Apart, Readied
      <3>2. pc'[t] = "run" /\ tproc'[t] = tproc[t] /\ ~exiting'[t]
        BY <2>3, <2>6 DEF Passed
      <3>3. \A v \in Threads : tproc[v] = tproc[t] => pc[v] \notin {"run", "readying"}
        BY <2>4 DEF Idle, Labels
      <3>. QED  BY <2>3, <2>5, <3>1, <3>2, <3>3, <1>Returning
    <2>7. CASE u # t
      <3>1. Home(t)' = Home(t) /\ (t \in Parked' <=> t \in Parked)
        <4>1. CASE exiting[t]
          <5>1. exiting'[t] \/ (pc'[t] = "none" /\ tproc'[t] = nil)
            BY <2>3, <4>1 DEF Passed
          <5>. QED  BY <4>1, <5>1 DEF Home, Parked
        <4>2. CASE ~exiting[t]
          <5>1. pc'[t] = "schedsleep" /\ tproc'[t] = tproc[t] /\ ~exiting'[t]
            BY <2>3, <2>7, <4>2 DEF Passed
          <5>. QED  BY <2>4, <4>2, <5>1 DEF Home, Parked
        <4>. QED  BY <4>1, <4>2
      <3>2. (waiting \cup Held)' = waiting \cup Held
        BY <2>3 DEF Held
      <3>. QED  BY <2>5, <3>1, <3>2, <1>NothingSeen
    <2>. QED  BY <2>6, <2>7
  \* A proc that goes to sleep or ends with its last thread is not seen.
  <1>ProcnextSeen.
    ASSUME IInv, NEW t \in Threads, pthreadscheduler(t) \/ procwake(t)
    PROVE  Wakes(t) \/ Nothing(t)
    <2>. USE <1>ProcnextSeen
    <2>0. PICK p \in Procs : p = tproc[t]
      BY SchedulerGives, Giver
    <2>1. Gives(t) /\ procnext(t, p, Cardinality(Left(t)))
      BY <2>0, SchedulerGives
    <2>2. pc[t] \notin {"none", "run", "readying"} /\ (waiting \cup Held)' = waiting \cup Held
      <3>1. pc[t] \notin {"none", "run", "readying"}
        BY <2>1 DEF Gives
      <3>. QED  BY <2>1, <3>1 DEF Gives, Held
    <2>3. CASE canrun(p) /\ handover(t, p) /\ runasleep' = [runasleep EXCEPT ![p] = FALSE]
      BY <2>0, <2>1, <2>3, <1>HandoverSeen
    <2>4. CASE goto(t, "procnext") /\ UNCHANGED <<tproc, exiting>>
      <3>1. pc'[t] = "procnext" /\ \A v \in Threads : v # t => pc'[v] = pc[v]
        BY <2>4 DEF IInv, TypeOK, goto
      <3>2. Home(t)' = Home(t) /\ (t \in Parked' <=> t \in Parked)
        BY <2>2, <2>4, <3>1 DEF Home, Parked
      <3>. QED  BY <2>2, <2>4, <3>1, <3>2, <1>NothingSeen
    <2>5. CASE Cardinality(Left(t)) = 0 /\ teardown(t, p)
      <3>1. exiting[t]
        <4>1. Left(t) \in SUBSET Threads
          BY DEF Left
        <4>2. Left(t) = {}
          BY <2>5, <4>1 DEF IInv, Counting
        <4>. QED  BY <4>2 DEF Left
      <3>2. /\ exiting'[t] \/ (pc'[t] = "none" /\ tproc'[t] = nil)
            /\ \A v \in Threads : v # t => pc'[v] = pc[v] /\ tproc'[v] = tproc[v] /\ exiting'[v] = exiting[v]
        BY <2>5 DEF IInv, TypeOK, teardown, goto
      <3>3. Home(t)' = Home(t) /\ (t \in Parked' <=> t \in Parked)
        BY <3>1, <3>2 DEF Home, Parked
      <3>. QED  BY <2>2, <3>2, <3>3, <1>NothingSeen
    <2>. QED  BY <2>1, <2>3, <2>4, <2>5 DEF procnext
  <1>. SUFFICES ASSUME IInv, Next PROVE \E t \in Threads : Seen(t)
    OBVIOUS
  <1>0. PICK t \in Threads :
           \/ \E u \in Threads : threadcreate(t, u) \/ take(t, u)
           \/ \E p \in Procs, u \in Threads : proccreate(t, p, u)
           \/ procmain(t)
           \/ threadyield(t) \/ threadidle(t) \/ threadexits(t) \/ block(t)
           \/ _threadready(t)
           \/ threadpin(t) \/ threadunpin(t) \/ _threadsetsysproc(t)
           \/ pthreadscheduler(t) \/ procwake(t)
           \/ _threadpthreadmain(t) \/ schedwake(t)
    BY DEF Next
  <1>1. CASE \E u \in Threads : threadcreate(t, u)
    <2>1. PICK u \in Threads : threadcreate(t, u)
      BY <1>1
    <2>2. PICK p \in Procs : p = tproc[t]
      BY <2>1 DEF threadcreate, at, IInv, Homes, TypeOK
    <2>3. Begins(u, p)
      BY <2>1, <2>2, <1>CreateSeen
    <2>. QED  BY <2>3 DEF Seen
  <1>2. CASE \E p \in Procs, u \in Threads : proccreate(t, p, u)
    BY <1>2, <1>CreateSeen DEF Seen
  <1>3. CASE \E u \in Threads : take(t, u)
    BY <1>3, <1>TakeSeen DEF Seen
  <1>4. CASE threadyield(t) \/ threadidle(t) \/ threadexits(t) \/ block(t)
    BY <1>4, <1>StopSeen DEF Seen
  <1>5. CASE _threadready(t)
    BY <1>5, <1>ReadySeen DEF Seen
  <1>6. CASE procmain(t) \/ ((schedwake(t) \/ _threadpthreadmain(t)) /\ schedthread[tproc[t]] = t)
    BY <1>6, <1>ResumeSeen DEF Seen
  <1>7. CASE \/ threadpin(t) \/ threadunpin(t) \/ _threadsetsysproc(t)
             \/ _threadpthreadmain(t) /\ schedthread[tproc[t]] # t
    BY <1>7, <1>QuietSeen DEF Seen
  <1>8. CASE pthreadscheduler(t) \/ procwake(t)
    BY <1>8, <1>ProcnextSeen DEF Seen
  <1>9. schedwake(t) => schedthread[tproc[t]] = t
    BY DEF schedwake
  <1>. QED  BY <1>0, <1>1, <1>2, <1>3, <1>4, <1>5, <1>6, <1>7, <1>8, <1>9

\* A step of the scheduler is one of Coroutines, or none.
LEMMA StepRefines == IInv /\ IInv' /\ [Next]_vars => [Abstract!Next]_Abstract!vars
  \* The places of a readied thread are the ones that are left if it neither
  \* waits nor is in a hand.
  <1>MappedReady.
    Placed => Returnable = Readied
    <2>. HAVE Placed
    <2>1. ASSUME NEW t \in Parked
          PROVE  Places(t) \cap {"runqueue", "idlequeue", "chosen"} # {} <=> t \notin waiting \cup Held
      <3>1. t \in Threads
        BY DEF Parked
      <3>2. Places(t) \cap {"runqueue", "idlequeue", "chosen"} # {} <=>
                t \in On(runqueue) \/ t \in On(idlequeue) \/ t \in Chosen
        BY <3>1, PlacesAre
      <3>. QED  BY <3>2 DEF Placed, Apart
    <2>. QED  BY <2>1 DEF Readied, Returnable
  \* Functions on the threads that differ in at most one of them.
  <1>Updated.
    ASSUME NEW f, NEW g, NEW t \in Threads, f = [v \in Threads |-> f[v]], g = [v \in Threads |-> g[v]],
           \A v \in Threads : v # t => g[v] = f[v]
    PROVE  g = [f EXCEPT ![t] = g[t]]
    BY <1>Updated, SMT
  <1>MappedStep.
    ASSUME Placed, Placed', NEW t \in Threads, Seen(t)
    PROVE  Abstract!Next \/ UNCHANGED Abstract!vars
    <2>. USE <1>MappedStep
    <2>. DEFINE H == [v \in Threads |-> IF exiting[v] THEN nil ELSE tproc[v]]
                R == Returnable
    <2>0. (Placed => Returnable = Readied)'
      BY <1>MappedReady, PTL
    <2>1. R = Readied /\ R' = Readied'
      BY <2>0, <1>MappedReady
    <2>2. /\ \A v \in Threads : H[v] = Home(v) /\ H'[v] = Home(v)'
          /\ H = [v \in Threads |-> H[v]] /\ H' = [v \in Threads |-> H'[v]]
      BY DEF Home
    <2>. HIDE DEF H
    <2>3. ASSUME Stay(t) PROVE H' = [H EXCEPT ![t] = Home(t)']
      <3>1. \A v \in Threads : v # t => H'[v] = H[v]
        BY <2>2, <2>3 DEF Stay
      <3>2. H' = [H EXCEPT ![t] = H'[t]]
        BY <2>2, <3>1, <1>Updated
      <3>. QED  BY <2>2, <3>2
    <2>4. ASSUME Stay(t), Home(t)' = Home(t) PROVE H' = H
      <3>1. \A v \in Threads : H'[v] = H[v]
        BY <2>2, <2>4 DEF Stay
      <3>2. [v \in Threads |-> H'[v]] = [v \in Threads |-> H[v]]
        BY <3>1
      <3>. QED  BY <2>2, <3>2
    <2>5. CASE \E p \in Procs : Begins(t, p)
      <3>1. PICK p \in Procs : Begins(t, p)
        BY <2>5
      <3>2. H' = [H EXCEPT ![t] = p]
        BY <2>3, <3>1 DEF Begins
      <3>3. H[t] = nil /\ Parked' = Parked \cup {t} /\ R' = R \cup {t}
        BY <2>1, <2>2, <3>1 DEF Begins
      <3>4. Abstract!Create(t, p)
        BY <3>2, <3>3 DEF Abstract!Create, H, Returnable
      <3>. QED  BY <3>4 DEF Abstract!Next
    <2>6. CASE Stops(t)
      <3>1. H[t] # nil /\ t \notin Parked /\ Stay(t)
        BY <2>2, <2>6 DEF Stops
      <3>2. Abstract!Running(t)
        BY <3>1 DEF Abstract!Running, H, Returnable
      <3>3. CASE Home(t)' = nil /\ Parked' = Parked /\ Readied' = Readied
        <4>1. H' = [H EXCEPT ![t] = nil] /\ R' = R
          BY <2>1, <2>3, <3>1, <3>3
        <4>2. Abstract!Exit(t)
          BY <3>2, <3>3, <4>1 DEF Abstract!Exit, H, Returnable
        <4>. QED  BY <4>2 DEF Abstract!Next
      <3>4. CASE Home(t)' = Home(t) /\ Parked' = Parked \cup {t} /\ Readied' = Readied
        <4>1. H' = H /\ R' = R
          BY <2>1, <2>4, <3>1, <3>4
        <4>2. Abstract!Park(t)
          BY <3>2, <3>4, <4>1 DEF Abstract!Park, H, Returnable
        <4>. QED  BY <4>2 DEF Abstract!Next
      <3>5. CASE Home(t)' = Home(t) /\ Parked' = Parked \cup {t} /\ Readied' = Readied \cup {t}
        <4>1. H' = H /\ R' = R \cup {t}
          BY <2>1, <2>4, <3>1, <3>5
        <4>2. Abstract!Yield(t)
          BY <3>2, <3>5, <4>1 DEF Abstract!Yield, H, Returnable
        <4>. QED  BY <4>2 DEF Abstract!Next
      <3>. QED  BY <2>6, <3>3, <3>4, <3>5 DEF Stops
    <2>7. CASE Wakes(t)
      <3>1. H' = H
        BY <2>4, <2>7 DEF Wakes
      <3>2. CASE t \in Parked \ Readied /\ Parked' = Parked /\ Readied' = Readied \cup {t}
        <4>1. t \in Parked \ R /\ R' = R \cup {t}
          BY <2>1, <3>2
        <4>2. Abstract!Ready(t)
          BY <3>1, <3>2, <4>1 DEF Abstract!Ready, H, Returnable
        <4>. QED  BY <4>2 DEF Abstract!Next
      <3>3. CASE /\ t \in Readied /\ \A v \in Threads : Home(v) = Home(t) => v \in Parked
                 /\ Parked' = Parked \ {t} /\ Readied' = Readied \ {t}
        <4>1. t \in R /\ R' = R \ {t} /\ \A v \in Threads : H[v] = H[t] => v \in Parked
          BY <2>1, <2>2, <3>3
        <4>2. Abstract!Return(t)
          BY <3>1, <3>3, <4>1 DEF Abstract!Return, H, Returnable
        <4>. QED  BY <4>2 DEF Abstract!Next
      <3>. QED  BY <2>7, <3>2, <3>3 DEF Wakes
    <2>8. CASE Nothing(t)
      <3>1. H' = H /\ R' = R /\ Parked' = Parked
        BY <2>1, <2>4, <2>8 DEF Nothing
      <3>. QED  BY <3>1 DEF Abstract!vars, H, Returnable
    <2>. QED  BY <2>5, <2>6, <2>7, <2>8 DEF Seen
  <1>. SUFFICES ASSUME IInv, IInv', [Next]_vars PROVE Abstract!Next \/ UNCHANGED Abstract!vars
    BY DEF Abstract!vars
  <1>1. CASE Next
    <2>1. PICK t \in Threads : Seen(t)
      BY <1>1, StepSeen
    <2>. QED  BY <2>1, <1>MappedStep DEF IInv
  <1>2. CASE UNCHANGED vars
    <2>1. Parked' = Parked /\ Returnable' = Returnable /\ UNCHANGED <<exiting, tproc>>
      BY <1>2 DEF vars, countvars, Parked, Returnable, Places
    <2>. QED  BY <2>1 DEF Abstract!vars, Returnable
  <1>. QED  BY <1>1, <1>2

----------------------------------------------------------------------------
(* The theorems.                                                           *)

INSTANCE FiniteSetTheorems

LEMMA Library ==
    ASSUME NEW U, IsFiniteSet(U)
    PROVE  Counting(U)
  <1>. SUFFICES ASSUME NEW S \in SUBSET U
                PROVE  /\ Cardinality(S) \in Nat
                       /\ Cardinality(S) = 0 <=> S = {}
                       /\ \A x \in U \ S : Cardinality(S \cup {x}) = Cardinality(S) + 1
                       /\ \A x \in S : Cardinality(S \ {x}) = Cardinality(S) - 1
                       /\ \A T \in SUBSET S : Cardinality(T) = Cardinality(S) => T = S
    BY DEF Counting
  <1>1. IsFiniteSet(S)
    BY FS_Subset
  <1>2. \A T \in SUBSET S : Cardinality(T) = Cardinality(S) => T = S
    BY <1>1, FS_Subset
  <1>. QED  BY <1>1, <1>2, FS_EmptySet, FS_CardinalityType, FS_AddElement, FS_RemoveElement

LEMMA Inductive == Spec => []IInv
  <1>1. IInv /\ [Next]_vars => IInv'
    BY StepPreserves, StutterPreserves
  <1>2. Init => IInv
    BY InitIInv, Library, SchedAssumption
  <1>. QED  BY <1>1, <1>2, PTL DEF Spec

\* The threads of a proc are coroutines: only p->thread executes in proc p,
\* nobody is in procnext for p meanwhile, never two pthreads are, and a
\* pinned thread is the only one of its proc to run.
THEOREM SchedOneRunner == Spec => []OneRunner
  <1>1. IInv => OneRunner
    <2>. SUFFICES ASSUME IInv PROVE OneRunner
      OBVIOUS
    <2>1. \A t \in Active : thread[tproc[t]] = t /\ t \in Threads /\ pc[t] \in Labels
      BY DEF IInv, Turns, Active, Labels
    <2>2. ASSUME NEW p \in procs, pinthread[p] # nil, NEW t \in Active, tproc[t] = p
          PROVE  t = pinthread[p]
      <3>1. p \in Procs /\ pinthread[p] \in Threads
        BY <2>2 DEF IInv, TypeOK
      <3>2. tproc[pinthread[p]] = p /\ pc[pinthread[p]] \in Labels \cup {"procnext"}
        BY <2>2, <3>1 DEF IInv, Special
      <3>. QED  BY <2>1, <2>2, <3>1, <3>2, Alone DEF IInv
    <2>. QED  BY <2>2, SMT DEF OneRunner, IInv, Turns
  <1>. QED  BY <1>1, Inductive, PTL

\* Neither _procwakeup of _threadready nor that of procnext is lost: a
\* pthread that sleeps unsignalled in procnext has nothing to run and its
\* flag is up for the next _threadready, and one that sleeps unsignalled on
\* its schedrend has not been handed the proc.
THEOREM SchedNoLostWakeup == Spec => []NoLostWakeup
  <1>1. IInv => NoLostWakeup
    <2>. SUFFICES ASSUME IInv PROVE NoLostWakeup
      OBVIOUS
    <2>1. \A p \in procs : thread[p] # nil => pc[thread[p]] # "procnext"
      BY DEF IInv, Turns, TypeOK, Labels, Starting
    <2>. QED  BY <2>1 DEF IInv, Wakeups, NoLostWakeup
  <1>. QED  BY <1>1, Inductive, PTL

\* Every thread that has stopped is in exactly one of the places that lead
\* back to its running, and one that runs or is gone is in none.
THEOREM SchedOnePlace == Spec => []OnePlace
  <1>1. IInv => OnePlace
    BY OnePlaceHolds
  <1>. QED  BY <1>1, Inductive, PTL

\* The counts by which procnext and _threadsetsysproc decide that a proc, or
\* the program, is over are exact in every reachable state.
THEOREM SchedAccounting == Spec => []Accounting
  <1>1. IInv => Accounting
    BY DEF IInv, Accounting, Counts, Counted, Homes
  <1>. QED  BY <1>1, Inductive, PTL

\* To its users the scheduler is the one of Coroutines, for any procs and
\* threads: _threadswitch returns once for each _threadready, with the proc
\* to itself, whenever the _threadready comes.
THEOREM SchedRefines == Spec => ImplementsCoroutines
  <1>1. Init => Abstract!Init
    <2>. SUFFICES ASSUME Init PROVE Abstract!Init
      OBVIOUS
    <2>1. Parked = {}
      BY DEF Init, Parked
    <2>2. \A t \in Threads : ~exiting[t] /\ tproc[t] = IF t = MainThread THEN MainProc ELSE nil
      BY DEF Init
    <2>3. [t \in Threads |-> IF exiting[t] THEN nil ELSE tproc[t]] =
              [u \in Threads |-> IF u = MainThread THEN MainProc ELSE nil]
      BY <2>2
    <2>. QED  BY <2>1, <2>3, SchedAssumption DEF Abstract!Init
  <1>2. IInv /\ IInv' /\ [Next]_vars => [Abstract!Next]_Abstract!vars
    BY StepRefines
  <1>. QED  BY <1>1, <1>2, Inductive, PTL DEF Spec, ImplementsCoroutines, Abstract!Spec
=============================================================================
