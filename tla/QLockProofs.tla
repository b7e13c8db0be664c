----------------------------- MODULE QLockProofs -----------------------------
(***************************************************************************)
(* Proofs about a QLock and its Rendez (QLock), for any set of threads.    *)
(*                                                                         *)
(* The inductive invariant says who l->owner is: the thread inside, or the *)
(* one that was taken off l->waiting and has not come back from its        *)
(* _threadswitch; where each blocked thread is; and that nobody waits for  *)
(* a lock that is free.                                                    *)
(***************************************************************************)
EXTENDS QLock, ThreadListProofs

Owns(t) == pc[t] = "inside" \/ (pc[t] = "qblocked" /\ t \notin InList(waiting))

\* OneList and the second half of NoStrandedWaiter, said of one thread.
Placed(t) ==
    /\ t \in InList(waiting) => pc[t] = "qblocked"
    /\ t \in InList(rwaiting) => pc[t] \in {"rblocked", "runlock"}
    /\ t \in runnable =>
           /\ pc[t] \in {"qblocked", "rblocked", "runlock"}
           /\ t \notin InList(waiting) /\ t \notin InList(rwaiting)
    /\ \A u \in Threads : ready[u] = t =>
           /\ pc[t] = "qblocked"
           /\ t \notin InList(waiting) /\ t \notin InList(rwaiting) /\ t \notin runnable
    /\ pc[t] \in {"qblocked", "rblocked", "runlock"} =>
           \/ t \in InList(waiting) \/ t \in InList(rwaiting) \/ t \in runnable
           \/ \E u \in Threads : ready[u] = t

\* u is the one that passes the lock on, to the owner.
Passing(u) ==
    ready[u] # nil =>
        /\ owner = ready[u]
        /\ pc[u] \in {"unlock", "runlock"}
        /\ \A v \in Threads : ready[v] = ready[u] => v = u

IInv ==
    /\ TypeOK
    /\ abort \in {"no", "rsleep deadlock"}
    /\ NoDup(waiting) /\ NoDup(rwaiting)
    /\ waiting # <<>> => owner # nil
    /\ \A t \in Threads : owner = t <=> Owns(t)
    /\ \A t \in Threads : Placed(t)
    /\ \A t \in Threads : Passing(t)

----------------------------------------------------------------------------
(* IInv is an invariant.                                                   *)

LEMMA InitIInv == Init => IInv
  <1>. SUFFICES ASSUME Init PROVE IInv
    OBVIOUS
  <1>. USE NilAssumption DEF Init
  <1>1. TypeOK
    BY DEF TypeOK, PC
  <1>2. InList(waiting) = {} /\ InList(rwaiting) = {} /\ NoDup(waiting) /\ NoDup(rwaiting)
    BY EmptyList
  <1>3. \A t \in Threads : Placed(t)
    BY <1>2 DEF Placed
  <1>. QED  BY <1>1, <1>2, <1>3 DEF IInv, Owns, Passing

\* A thread that is neither waiting nor passed the lock is on no list.
LEMMA Elsewhere ==
    ASSUME IInv, NEW t \in Threads, pc[t] \in {"idle", "relock", "inside", "unlock", "gone"}
    PROVE  /\ t \notin InList(waiting) /\ t \notin InList(rwaiting) /\ t \notin runnable
           /\ \A u \in Threads : ready[u] # t
  BY DEF IInv, Placed

\* threadqlock: the lock is taken, or t is queued; a second thread is there
\* then, the owner, so the "qlock deadlock" is not reached.
LEMMA QlockIInv ==
    ASSUME IInv, NEW t \in Threads, threadqlock(t) PROVE IInv'
  <1>. USE NilAssumption
  <1>0. /\ pc \in [Threads -> PC] /\ pc[t] \in {"idle", "relock"}
        /\ UNCHANGED <<rwaiting, ready, runnable>>
    BY DEF IInv, TypeOK, threadqlock, at
  <1>1. /\ t \notin InList(waiting) /\ t \notin InList(rwaiting) /\ t \notin runnable
        /\ \A u \in Threads : ready[u] # t
    BY <1>0, Elsewhere
  <1>2. CASE owner = nil
    <2>1. /\ owner' = t /\ pc' = [pc EXCEPT ![t] = "inside"]
          /\ UNCHANGED <<waiting, abort>>
      BY <1>2 DEF threadqlock, goto
    <2>2. TypeOK'
      BY <1>0, <2>1 DEF IInv, TypeOK, PC
    <2>3. ASSUME NEW u \in Threads PROVE Placed(u)'
      BY <1>0, <1>1, <2>1 DEF IInv, Placed
    <2>4. ASSUME NEW u \in Threads PROVE owner' = u <=> Owns(u)'
      BY <1>0, <1>2, <2>1 DEF IInv, Owns
    <2>5. ASSUME NEW u \in Threads PROVE Passing(u)'
      <3>1. ready[u] = nil
        BY <1>2 DEF IInv, Passing
      <3>. QED  BY <1>0, <3>1 DEF Passing
    <2>. QED  BY <1>0, <2>1, <2>2, <2>3, <2>4, <2>5 DEF IInv
  <1>3. CASE owner # nil
    <2>1. /\ abort' = IF singlethreaded THEN "qlock deadlock" ELSE "no"
          /\ waiting' = addthread(waiting, t)
          /\ pc' = [pc EXCEPT ![t] = "qblocked"]
          /\ owner' = owner
      BY <1>3 DEF threadqlock, goto
    <2>2. owner \in Threads /\ Owns(owner)
      BY <1>3 DEF IInv, TypeOK
    <2>3. ~singlethreaded
      BY <1>0, <2>2 DEF singlethreaded, Owns
    <2>4. abort' = "no"
      BY <2>1, <2>3 DEF singlethreaded
    <2>5. /\ waiting' \in Seq(Threads) /\ NoDup(waiting')
          /\ InList(waiting') = InList(waiting) \cup {t}
      <3>1. waiting \in Seq(Threads) /\ NoDup(waiting)
        BY DEF IInv, TypeOK
      <3>2. waiting' = addthread(waiting, t)
        BY <2>1
      <3>. QED  BY <1>1, <3>1, <3>2, AddThread, ZenonT(60)
    <2>6. TypeOK'
      BY <1>0, <2>1, <2>4, <2>5 DEF IInv, TypeOK, PC
    <2>7. ASSUME NEW u \in Threads PROVE Placed(u)'
      <3>1. Placed(u)
        BY DEF IInv
      <3>2. CASE u = t
        BY <1>0, <1>1, <2>1, <2>5, <3>2 DEF Placed
      <3>3. CASE u # t
        BY <1>0, <2>1, <2>5, <3>1, <3>3 DEF Placed
      <3>. QED  BY <3>2, <3>3
    <2>8. ASSUME NEW u \in Threads PROVE owner' = u <=> Owns(u)'
      BY <1>0, <2>1, <2>2, <2>5 DEF IInv, Owns
    <2>9. ASSUME NEW u \in Threads PROVE Passing(u)'
      BY <1>0, <2>1 DEF IInv, Passing
    <2>. QED  BY <1>0, <1>3, <2>1, <2>4, <2>5, <2>6, <2>7, <2>8, <2>9 DEF IInv
  <1>. QED  BY <1>2, <1>3

\* A thread that is runnable in qlock owns the lock: no "qlock owner oops".
LEMMA QlockreturnIInv ==
    ASSUME IInv, NEW t \in Threads, qlockreturn(t) PROVE IInv' /\ owner = t
  <1>. USE NilAssumption
  <1>0. /\ pc \in [Threads -> PC] /\ pc[t] = "qblocked" /\ t \in runnable
        /\ t \notin InList(waiting) /\ t \notin InList(rwaiting)
        /\ \A u \in Threads : ready[u] # t
    BY DEF IInv, TypeOK, Placed, qlockreturn, at
  <1>1. owner = t
    BY <1>0 DEF IInv, Owns
  <1>2. /\ runnable' = runnable \ {t} /\ abort' = "no"
        /\ pc' = [pc EXCEPT ![t] = "inside"]
        /\ UNCHANGED <<owner, waiting, rwaiting, ready>>
    BY <1>1 DEF qlockreturn, goto
  <1>3. TypeOK'
    BY <1>0, <1>2 DEF IInv, TypeOK, PC
  <1>4. ASSUME NEW u \in Threads PROVE Placed(u)'
    BY <1>0, <1>2 DEF IInv, Placed
  <1>5. ASSUME NEW u \in Threads PROVE owner' = u <=> Owns(u)'
    BY <1>0, <1>1, <1>2 DEF IInv, Owns
  <1>6. ASSUME NEW u \in Threads PROVE Passing(u)'
    BY <1>0, <1>2 DEF IInv, Passing
  <1>. QED  BY <1>1, <1>2, <1>3, <1>4, <1>5, <1>6 DEF IInv

\* What the locked section of threadqunlock finds and leaves: nobody else is
\* passing the lock on, and it is free, or the first waiter w has it.
LEMMA Release ==
    ASSUME IInv, NEW t \in Threads, at(t, "inside"), release(t)
    PROVE  /\ owner = t /\ abort' = "no"
           /\ \A u \in Threads : ready[u] = nil
           /\ waiting' \in Seq(Threads) /\ NoDup(waiting')
           /\ \/ /\ waiting = <<>> /\ waiting' = <<>> /\ ready' = ready /\ owner' = nil
              \/ \E w \in Threads :
                     /\ w \in InList(waiting) /\ w # t /\ pc[w] = "qblocked"
                     /\ w \notin InList(rwaiting) /\ w \notin runnable
                     /\ owner' = w /\ ready' = [ready EXCEPT ![t] = w]
                     /\ InList(waiting') = InList(waiting) \ {w}
  <1>. USE NilAssumption
  <1>1. pc[t] = "inside" /\ owner = t
    BY DEF at, IInv, Owns
  <1>2. \A u \in Threads : ready[u] = nil
    <2>. SUFFICES ASSUME NEW u \in Threads, ready[u] # nil PROVE FALSE
      OBVIOUS
    <2>1. ready[u] = t
      BY <1>1 DEF IInv, Passing
    <2>. QED  BY <1>1, <2>1 DEF IInv, Placed
  <1>3. abort' = "no"
    BY <1>1 DEF release
  <1>4. waiting \in Seq(Threads) /\ NoDup(waiting)
    BY DEF IInv, TypeOK
  <1>5. CASE waiting = <<>>
    <2>1. waiting' = <<>> /\ ready' = ready /\ owner' = nil
      BY <1>5 DEF release
    <2>. QED  BY <1>1, <1>2, <1>3, <1>4, <1>5, <2>1
  <1>6. CASE waiting # <<>>
    <2>. DEFINE w == Head(waiting)
    <2>1. /\ owner' = w /\ waiting' = delthread(waiting, w)
          /\ ready' = [ready EXCEPT ![t] = w]
      BY <1>6 DEF release
    <2>2. w \in InList(waiting) /\ w \in Threads
      BY <1>4, <1>6, HeadInList, ZenonT(60)
    <2>3. /\ waiting' \in Seq(Threads) /\ NoDup(waiting')
          /\ InList(waiting') = InList(waiting) \ {w}
      BY <1>4, <2>1, <2>2, DelThread, ZenonT(60)
    <2>. HIDE DEF w
    <2>4. pc[w] = "qblocked" /\ w \notin InList(rwaiting) /\ w \notin runnable
      BY <2>2 DEF IInv, Placed
    <2>. QED  BY <1>1, <1>2, <1>3, <2>1, <2>2, <2>3, <2>4
  <1>. QED  BY <1>5, <1>6

LEMMA QunlockIInv ==
    ASSUME IInv, NEW t \in Threads, threadqunlock(t) PROVE IInv'
  <1>. USE NilAssumption
  <1>0. /\ pc \in [Threads -> PC] /\ pc[t] = "inside"
        /\ ready \in [Threads -> Threads \cup {nil}]
        /\ at(t, "inside") /\ release(t)
        /\ pc' = [pc EXCEPT ![t] = "unlock"] /\ UNCHANGED <<rwaiting, runnable>>
    BY DEF IInv, TypeOK, threadqunlock, at, goto
  <1>1. /\ owner = t /\ abort' = "no"
        /\ \A u \in Threads : ready[u] = nil
        /\ waiting' \in Seq(Threads) /\ NoDup(waiting')
    BY <1>0, Release
  <1>2. t \notin InList(waiting) /\ t \notin InList(rwaiting) /\ t \notin runnable
    BY <1>0, Elsewhere
  <1>3. CASE /\ waiting = <<>> /\ waiting' = <<>> /\ ready' = ready /\ owner' = nil
    <2>1. TypeOK'
      BY <1>0, <1>1, <1>3 DEF IInv, TypeOK, PC
    <2>2. ASSUME NEW u \in Threads PROVE Placed(u)'
      <3>1. Placed(u)
        BY DEF IInv
      <3>2. CASE u = t
        BY <1>0, <1>1, <1>2, <1>3, <3>2 DEF Placed
      <3>3. CASE u # t
        BY <1>0, <1>1, <1>3, <3>1, <3>3 DEF Placed
      <3>. QED  BY <3>2, <3>3
    <2>3. ASSUME NEW u \in Threads PROVE owner' = u <=> Owns(u)'
      BY <1>0, <1>1, <1>3 DEF IInv, Owns
    <2>4. ASSUME NEW u \in Threads PROVE Passing(u)'
      BY <1>1, <1>3 DEF Passing
    <2>. QED  BY <1>0, <1>1, <1>3, <2>1, <2>2, <2>3, <2>4 DEF IInv
  <1>4. ASSUME NEW w \in Threads,
               w \in InList(waiting), w # t, pc[w] = "qblocked",
               w \notin InList(rwaiting), w \notin runnable,
               owner' = w, ready' = [ready EXCEPT ![t] = w],
               InList(waiting') = InList(waiting) \ {w}
        PROVE  IInv'
    <2>1. TypeOK'
      BY <1>0, <1>1, <1>4 DEF IInv, TypeOK, PC
    <2>2. ASSUME NEW u \in Threads PROVE Placed(u)'
      <3>1. Placed(u)
        BY DEF IInv
      <3>2. CASE u = t
        BY <1>0, <1>1, <1>2, <1>4, <3>2 DEF Placed
      <3>3. CASE u # t
        BY <1>0, <1>1, <1>4, <3>1, <3>3 DEF Placed
      <3>. QED  BY <3>2, <3>3
    <2>3. ASSUME NEW u \in Threads PROVE owner' = u <=> Owns(u)'
      BY <1>0, <1>1, <1>4 DEF IInv, Owns
    <2>4. ASSUME NEW u \in Threads PROVE Passing(u)'
      BY <1>0, <1>1, <1>4 DEF Passing
    <2>. QED  BY <1>0, <1>1, <1>4, <2>1, <2>2, <2>3, <2>4 DEF IInv
  <1>. QED  BY <1>0, <1>3, <1>4, Release

\* The owner that is read after unlock(&l->l) is the thread that was taken off
\* the list.
LEMMA QunlockreadyIInv ==
    ASSUME IInv, NEW t \in Threads, qunlockready(t) PROVE IInv'
  <1>. USE NilAssumption
  <1>0. /\ pc \in [Threads -> PC] /\ pc[t] \in {"unlock", "runlock"}
        /\ ready \in [Threads -> Threads \cup {nil}]
        /\ runnable' = IF ready[t] = nil THEN runnable ELSE runnable \cup {ready[t]}
        /\ ready' = [ready EXCEPT ![t] = nil]
        /\ pc' = [pc EXCEPT ![t] = IF pc[t] = "unlock" THEN "idle" ELSE "rblocked"]
        /\ UNCHANGED <<owner, waiting, rwaiting, abort>>
    BY DEF IInv, TypeOK, Passing, qunlockready, at, goto
  <1>1. TypeOK'
    BY <1>0 DEF IInv, TypeOK, PC
  <1>2. ASSUME NEW u \in Threads PROVE Placed(u)'
    <2>1. Placed(u) /\ Passing(t)
      BY DEF IInv
    <2>2. CASE u = t
      BY <1>0, <2>1, <2>2 DEF Placed
    <2>3. CASE u # t /\ u = ready[t]
      BY <1>0, <2>1, <2>3 DEF Placed, Passing
    <2>4. CASE u # t /\ u # ready[t]
      BY <1>0, <2>1, <2>4 DEF Placed
    <2>. QED  BY <2>2, <2>3, <2>4
  <1>3. ASSUME NEW u \in Threads PROVE owner' = u <=> Owns(u)'
    BY <1>0 DEF IInv, Owns
  <1>4. ASSUME NEW u \in Threads PROVE Passing(u)'
    BY <1>0 DEF IInv, Passing
  <1>. QED  BY <1>0, <1>1, <1>2, <1>3, <1>4 DEF IInv

LEMMA RsleepIInv ==
    ASSUME IInv, NEW t \in Threads, threadrsleep(t) PROVE IInv'
  <1>. USE NilAssumption
  <1>1. CASE singlethreaded
    <2>1. abort' = "rsleep deadlock" /\ UNCHANGED <<owner, waiting, ready, rwaiting, pc, runnable>>
      BY <1>1 DEF threadrsleep
    <2>. QED  BY <2>1 DEF IInv, TypeOK, Owns, Placed, Passing
  <1>2. CASE ~singlethreaded
    <2>0. /\ pc \in [Threads -> PC] /\ pc[t] = "inside"
          /\ ready \in [Threads -> Threads \cup {nil}]
          /\ at(t, "inside") /\ release(t)
          /\ rwaiting' = addthread(rwaiting, t)
          /\ pc' = [pc EXCEPT ![t] = "runlock"] /\ runnable' = runnable
      BY <1>2 DEF IInv, TypeOK, threadrsleep, at, goto
    <2>1. /\ owner = t /\ abort' = "no"
          /\ \A u \in Threads : ready[u] = nil
          /\ waiting' \in Seq(Threads) /\ NoDup(waiting')
      BY <2>0, Release
    <2>2. t \notin InList(waiting) /\ t \notin InList(rwaiting) /\ t \notin runnable
      BY <2>0, Elsewhere
    <2>3. /\ rwaiting' \in Seq(Threads) /\ NoDup(rwaiting')
          /\ InList(rwaiting') = InList(rwaiting) \cup {t}
      <3>1. rwaiting \in Seq(Threads) /\ NoDup(rwaiting)
        BY DEF IInv, TypeOK
      <3>2. rwaiting' = addthread(rwaiting, t)
        BY <2>0
      <3>. QED  BY <2>2, <3>1, <3>2, AddThread, ZenonT(60)
    <2>4. CASE waiting = <<>> /\ waiting' = <<>> /\ ready' = ready /\ owner' = nil
      <3>1. TypeOK'
        BY <2>0, <2>1, <2>3, <2>4 DEF IInv, TypeOK, PC
      <3>2. ASSUME NEW u \in Threads PROVE Placed(u)'
        <4>1. Placed(u)
          BY DEF IInv
        <4>2. CASE u = t
          BY <2>0, <2>1, <2>2, <2>3, <2>4, <4>2 DEF Placed
        <4>3. CASE u # t
          BY <2>0, <2>1, <2>3, <2>4, <4>1, <4>3 DEF Placed
        <4>. QED  BY <4>2, <4>3
      <3>3. ASSUME NEW u \in Threads PROVE owner' = u <=> Owns(u)'
        BY <2>0, <2>1, <2>4 DEF IInv, Owns
      <3>4. ASSUME NEW u \in Threads PROVE Passing(u)'
        BY <2>1, <2>4 DEF Passing
      <3>. QED  BY <2>0, <2>1, <2>3, <2>4, <3>1, <3>2, <3>3, <3>4 DEF IInv
    <2>5. ASSUME NEW w \in Threads,
                 w \in InList(waiting), w # t, pc[w] = "qblocked",
                 w \notin InList(rwaiting), w \notin runnable,
                 owner' = w, ready' = [ready EXCEPT ![t] = w],
                 InList(waiting') = InList(waiting) \ {w}
          PROVE  IInv'
      <3>1. TypeOK'
        BY <2>0, <2>1, <2>3, <2>5 DEF IInv, TypeOK, PC
      <3>2. ASSUME NEW u \in Threads PROVE Placed(u)'
        <4>1. Placed(u)
          BY DEF IInv
        <4>2. CASE u = t
          BY <2>0, <2>1, <2>2, <2>3, <2>5, <4>2 DEF Placed
        <4>3. CASE u # t
          BY <2>0, <2>1, <2>3, <2>5, <4>1, <4>3 DEF Placed
        <4>. QED  BY <4>2, <4>3
      <3>3. ASSUME NEW u \in Threads PROVE owner' = u <=> Owns(u)'
        BY <2>0, <2>1, <2>5 DEF IInv, Owns
      <3>4. ASSUME NEW u \in Threads PROVE Passing(u)'
        BY <2>0, <2>1, <2>5 DEF Passing
      <3>. QED  BY <2>0, <2>1, <2>3, <2>5, <3>1, <3>2, <3>3, <3>4 DEF IInv
    <2>. QED  BY <2>0, <2>4, <2>5, Release
  <1>. QED  BY <1>1, <1>2

LEMMA RsleepreturnIInv ==
    ASSUME IInv, NEW t \in Threads, rsleepreturn(t) PROVE IInv'
  <1>. USE NilAssumption
  <1>0. /\ pc \in [Threads -> PC] /\ pc[t] = "rblocked" /\ t \in runnable
        /\ t \notin InList(waiting) /\ t \notin InList(rwaiting)
        /\ \A u \in Threads : ready[u] # t
        /\ runnable' = runnable \ {t} /\ pc' = [pc EXCEPT ![t] = "relock"]
        /\ UNCHANGED <<owner, waiting, rwaiting, ready, abort>>
    BY DEF IInv, TypeOK, Placed, rsleepreturn, at, goto
  <1>1. TypeOK'
    BY <1>0 DEF IInv, TypeOK, PC
  <1>2. ASSUME NEW u \in Threads PROVE Placed(u)'
    BY <1>0 DEF IInv, Placed
  <1>3. ASSUME NEW u \in Threads PROVE owner' = u <=> Owns(u)'
    BY <1>0 DEF IInv, Owns
  <1>4. ASSUME NEW u \in Threads PROVE Passing(u)'
    BY <1>0 DEF IInv, Passing
  <1>. QED  BY <1>0, <1>1, <1>2, <1>3, <1>4 DEF IInv

\* The sleepers W that threadrwakeup takes off the list are the ones it readies.
LEMMA Woken ==
    ASSUME IInv, NEW t \in Threads, NEW all \in BOOLEAN, threadrwakeup(t, all)
    PROVE  /\ pc[t] = "inside" /\ UNCHANGED <<owner, waiting, pc, ready, abort>>
           /\ rwaiting' \in Seq(Threads) /\ NoDup(rwaiting')
           /\ \E W \in SUBSET InList(rwaiting) :
                  /\ W \subseteq Threads
                  /\ all => W = InList(rwaiting)
                  /\ ~all => \E w \in InList(rwaiting) : W = {w}
                  /\ InList(rwaiting') = InList(rwaiting) \ W
                  /\ runnable' = runnable \cup W
  <1>1. /\ pc[t] = "inside" /\ rwaiting # <<>>
        /\ rwaiting \in Seq(Threads) /\ NoDup(rwaiting)
        /\ UNCHANGED <<owner, waiting, pc, ready, abort>>
    BY DEF IInv, TypeOK, threadrwakeup, at
  <1>2. InList(rwaiting) \subseteq Threads
    BY <1>1, EmptyList
  <1>3. CASE all
    <2>1. rwaiting' = <<>> /\ runnable' = runnable \cup InList(rwaiting)
      BY <1>3 DEF threadrwakeup
    <2>2. rwaiting' \in Seq(Threads) /\ NoDup(rwaiting') /\ InList(rwaiting') = {}
      BY <2>1, EmptyList
    <2>. QED  BY <1>1, <1>2, <1>3, <2>1, <2>2
  <1>4. CASE ~all
    <2>. DEFINE w == Head(rwaiting)
    <2>1. rwaiting' = delthread(rwaiting, w) /\ runnable' = runnable \cup {w}
      BY <1>4 DEF threadrwakeup
    <2>2. w \in InList(rwaiting)
      BY <1>1, HeadInList, ZenonT(60)
    <2>3. /\ rwaiting' \in Seq(Threads) /\ NoDup(rwaiting')
          /\ InList(rwaiting') = InList(rwaiting) \ {w}
      BY <1>1, <2>1, <2>2, DelThread, ZenonT(60)
    <2>. HIDE DEF w
    <2>. QED  BY <1>1, <1>2, <1>4, <2>1, <2>2, <2>3
  <1>. QED  BY <1>3, <1>4

LEMMA RwakeupIInv ==
    ASSUME IInv, NEW t \in Threads, NEW all \in BOOLEAN, threadrwakeup(t, all)
    PROVE  IInv'
  <1>. USE NilAssumption
  <1>0. /\ UNCHANGED <<owner, waiting, pc, ready, abort>>
        /\ rwaiting' \in Seq(Threads) /\ NoDup(rwaiting')
    BY Woken
  <1>1. PICK W \in SUBSET InList(rwaiting) :
            /\ W \subseteq Threads
            /\ InList(rwaiting') = InList(rwaiting) \ W
            /\ runnable' = runnable \cup W
    BY Woken, SMTT(30)
  <1>2. TypeOK'
    BY <1>0, <1>1 DEF IInv, TypeOK
  <1>3. ASSUME NEW u \in Threads PROVE Placed(u)'
    <2>1. Placed(u)
      BY DEF IInv
    <2>2. CASE u \in W
      BY <1>0, <1>1, <2>1, <2>2 DEF Placed
    <2>3. CASE u \notin W
      BY <1>0, <1>1, <2>1, <2>3 DEF Placed
    <2>. QED  BY <2>2, <2>3
  <1>. QED  BY <1>0, <1>2, <1>3 DEF IInv, Owns, Passing

LEMMA ThreadexitsIInv ==
    ASSUME IInv, NEW t \in Threads, threadexits(t) PROVE IInv'
  <1>. USE NilAssumption
  <1>0. /\ pc \in [Threads -> PC] /\ pc[t] = "idle" /\ pc' = [pc EXCEPT ![t] = "gone"]
        /\ UNCHANGED <<owner, waiting, rwaiting, ready, runnable, abort>>
    BY DEF IInv, TypeOK, threadexits, at, goto
  <1>1. TypeOK'
    BY <1>0 DEF IInv, TypeOK, PC
  <1>2. ASSUME NEW u \in Threads PROVE Placed(u)'
    BY <1>0 DEF IInv, Placed
  <1>. QED  BY <1>0, <1>1, <1>2 DEF IInv, Owns, Passing

LEMMA NextIInv == IInv /\ [Next]_vars => IInv'
  <1>. SUFFICES ASSUME IInv, [Next]_vars PROVE IInv'
    OBVIOUS
  <1>1. ASSUME NEW t \in Threads,
               \/ qlock(t) \/ qlockreturn(t) \/ qunlock(t) \/ qunlockready(t)
               \/ rsleep(t) \/ rsleepreturn(t) \/ rwakeup(t) \/ rwakeupall(t)
               \/ threadexits(t)
        PROVE  IInv'
    BY <1>1, QlockIInv, QlockreturnIInv, QunlockIInv, QunlockreadyIInv, RsleepIInv,
       RsleepreturnIInv, RwakeupIInv, ThreadexitsIInv
       DEF qlock, qunlock, rsleep, rwakeup, rwakeupall
  <1>2. CASE UNCHANGED vars
    BY <1>2 DEF vars, IInv, TypeOK, Owns, Placed, Passing
  <1>. QED  BY <1>1, <1>2 DEF Next

LEMMA Inductive == Spec => []IInv
  BY InitIInv, NextIInv, PTL DEF Spec

----------------------------------------------------------------------------
(* What follows.                                                           *)

\* qunlock reads l->owner again after unlock(&l->l), and readies the thread it
\* took off the list, with any number of threads; the "oops" aborts and the
\* "qlock deadlock" of thread.c are never reached.
THEOREM QLockOwnerStable == Spec => []OwnerStable
  <1>1. IInv => OwnerStable
    BY DEF IInv, Passing, OwnerStable
  <1>. QED  BY <1>1, Inductive, PTL

\* Nobody waits for a free lock, and a blocked thread is on a list, readied, or
\* about to be readied by the thread that took it off: qunlock and rwakeup lose
\* no wakeup, with any number of threads.
THEOREM QLockNoStrandedWaiter == Spec => []NoStrandedWaiter
  <1>1. IInv => NoStrandedWaiter
    BY DEF IInv, Placed, NoStrandedWaiter, Blocked, Waiting
  <1>. QED  BY <1>1, Inductive, PTL

\* A thread is on at most one of l->waiting and r->waiting, once, only while it is
\* blocked, and l->owner is exactly the thread inside or passed the lock: qlock,
\* qunlock, rsleep and rwakeup share the links in the thread without a clash.
THEOREM QLockExact == Spec => [](OneList /\ OwnerExact)
  <1>1. IInv => OneList
    <2>. SUFFICES ASSUME IInv PROVE OneList
      OBVIOUS
    <2>1. InList(waiting) \subseteq Threads /\ InList(rwaiting) \subseteq Threads
      BY EmptyList DEF IInv, TypeOK
    <2>2. /\ \A t \in InList(waiting) : pc[t] = "qblocked"
          /\ \A t \in InList(rwaiting) : pc[t] \in {"rblocked", "runlock"}
      BY <2>1 DEF IInv, Placed
    <2>3. runnable \subseteq Blocked \ Waiting
      BY DEF IInv, TypeOK, Placed, Blocked, Waiting
    <2>4. ASSUME NEW t \in Threads, ready[t] # nil
          PROVE  /\ pc[ready[t]] = "qblocked"
                 /\ ready[t] \notin Waiting \cup runnable
                 /\ \A u \in Threads \ {t} : ready[u] # ready[t]
      <3>1. ready[t] \in Threads
        BY <2>4 DEF IInv, TypeOK
      <3>2. pc[ready[t]] = "qblocked" /\ ready[t] \notin Waiting \cup runnable
        BY <3>1 DEF IInv, Placed, Waiting
      <3>. QED  BY <2>4, <3>2 DEF IInv, Passing
    <2>. QED  BY <2>2, <2>3, <2>4 DEF IInv, OneList
  <1>2. IInv => OwnerExact
    BY NilAssumption DEF IInv, TypeOK, Owns, OwnerExact
  <1>. QED  BY <1>1, <1>2, Inductive, PTL

\* A QLock with its Rendez is a monitor (Monitor, lock(3)), with any number of
\* threads: rsleep releases the lock and goes to sleep in one step, though the
\* code does it in two.
THEOREM QLockRefines == Spec => ImplementsMonitor
  <1>. DEFINE I == {t \in Threads : pc[t] = "inside"}
              S == InList(rwaiting)
  <1>1. Init => Abstract!Init
    BY EmptyList DEF Init, Abstract!Init
  <1>2. IInv /\ [Next]_vars => [Abstract!Next]_Abstract!vars
    <2>. SUFFICES ASSUME IInv, [Next]_vars PROVE [Abstract!Next]_Abstract!vars
      OBVIOUS
    <2>. USE NilAssumption
    <2>0. /\ pc \in [Threads -> PC] /\ rwaiting \in Seq(Threads)
          /\ \A t \in Threads : pc[t] = "inside" => owner = t
      BY DEF IInv, TypeOK, Owns
    <2>1. ASSUME NEW t \in Threads, threadqlock(t) PROVE [Abstract!Next]_Abstract!vars
      <3>1. CASE owner = nil
        <4>1. I = {} /\ I' = {t} /\ S' = S
          BY <2>0, <2>1, <3>1 DEF threadqlock, goto
        <4>2. t \notin S
          BY <2>1, Elsewhere DEF threadqlock, at
        <4>. QED  BY <4>1, <4>2 DEF Abstract!Next, Abstract!Enter
      <3>2. CASE owner # nil
        <4>1. I' = I /\ S' = S
          BY <2>0, <2>1, <3>2 DEF threadqlock, at, goto
        <4>. QED  BY <4>1 DEF Abstract!vars
      <3>. QED  BY <3>1, <3>2
    <2>2. ASSUME NEW t \in Threads, qlockreturn(t) PROVE [Abstract!Next]_Abstract!vars
      <3>1. I = {} /\ I' = {t} /\ S' = S
        BY <2>0, <2>2, QlockreturnIInv DEF qlockreturn, at, goto
      <3>2. t \notin S
        BY <2>2 DEF IInv, Placed, qlockreturn
      <3>. QED  BY <3>1, <3>2 DEF Abstract!Next, Abstract!Enter
    <2>3. ASSUME NEW t \in Threads, threadqunlock(t) PROVE [Abstract!Next]_Abstract!vars
      <3>1. t \in I /\ I' = I \ {t} /\ S' = S
        BY <2>0, <2>3 DEF threadqunlock, at, goto
      <3>. QED  BY <3>1 DEF Abstract!Next, Abstract!Leave
    <2>4. ASSUME NEW t \in Threads, threadrsleep(t) PROVE [Abstract!Next]_Abstract!vars
      <3>1. CASE singlethreaded
        <4>1. I' = I /\ S' = S
          BY <2>4, <3>1 DEF threadrsleep
        <4>. QED  BY <4>1 DEF Abstract!vars
      <3>2. CASE ~singlethreaded
        <4>1. t \in I /\ I' = I \ {t}
          BY <2>0, <2>4, <3>2 DEF threadrsleep, at, goto
        <4>2. S' = S \cup {t}
          <5>1. rwaiting' = addthread(rwaiting, t)
            BY <2>4, <3>2 DEF threadrsleep
          <5>2. rwaiting \in Seq(Threads)
            BY <2>0
          <5>. QED  BY <5>1, <5>2, AddThread, ZenonT(60)
        <4>. QED  BY <4>1, <4>2 DEF Abstract!Next, Abstract!Sleep
      <3>. QED  BY <3>1, <3>2
    <2>5. ASSUME NEW t \in Threads, threadrwakeup(t, FALSE)
          PROVE  [Abstract!Next]_Abstract!vars
      <3>1. t \in I /\ I' = I /\ \E w \in S : S' = S \ {w}
        BY <2>5, Woken
      <3>. QED  BY <3>1 DEF Abstract!Next, Abstract!WakeOne
    <2>6. ASSUME NEW t \in Threads, threadrwakeup(t, TRUE)
          PROVE  [Abstract!Next]_Abstract!vars
      <3>1. t \in I /\ I' = I /\ S' = {}
        BY <2>6, Woken
      <3>. QED  BY <3>1 DEF Abstract!Next, Abstract!WakeAll
    <2>7. ASSUME NEW t \in Threads, qunlockready(t) \/ rsleepreturn(t) \/ threadexits(t)
          PROVE  [Abstract!Next]_Abstract!vars
      <3>1. I' = I /\ S' = S
        BY <2>0, <2>7 DEF qunlockready, rsleepreturn, threadexits, at, goto
      <3>. QED  BY <3>1 DEF Abstract!vars
    <2>8. CASE UNCHANGED vars
      BY <2>8 DEF vars, Abstract!vars
    <2>. QED  BY <2>1, <2>2, <2>3, <2>4, <2>5, <2>6, <2>7, <2>8 DEF Next, qlock,
          qunlock, rsleep, rwakeup, rwakeupall
  <1>. QED  BY <1>1, <1>2, Inductive, PTL DEF Spec, ImplementsMonitor, Abstract!Spec
=============================================================================
