---------------------------- MODULE RWLockProofs ----------------------------
(***************************************************************************)
(* Proofs about RWLock, for any set of threads.                            *)
(***************************************************************************)
EXTENDS RWLock, ThreadListProofs, FiniteSetTheorems

\* A list without duplicates holds as many threads as it is long.
LEMMA ListCardinality ==
    ASSUME NEW S, NEW l \in Seq(S), NoDup(l)
    PROVE  IsFiniteSet(InList(l)) /\ Cardinality(InList(l)) = Len(l)
  <1>1. Len(l) \in Nat /\ l \in [1..Len(l) -> InList(l)]
    BY DEF InList
  <1>2. l \in Injection(1..Len(l), InList(l))
    BY <1>1 DEF Injection, IsInjective, NoDup
  <1>3. l \in Surjection(1..Len(l), InList(l))
    BY <1>1 DEF Surjection, InList
  <1>4. ExistsBijection(1..Len(l), InList(l))
    BY <1>2, <1>3 DEF ExistsBijection, Bijection
  <1>5. IsFiniteSet(1..Len(l))
    BY <1>1, FS_Interval
  <1>. QED  BY <1>1, <1>4, <1>5, FS_Bijection, FS_CountingElements

LEMMA InitIInv == Init => IInv
  <1>. SUFFICES ASSUME Init PROVE IInv
    OBVIOUS
  <1>. USE NoThreadAssumption DEF Init
  <1>0. <<>> \in Seq(Threads)
    OBVIOUS
  <1>1. TypeOK
    BY <1>0 DEF TypeOK, PC
  <1>2. OneList
    BY EmptyList DEF OneList, Waiting
  <1>3. ReadOwners = {} /\ WriteOwners = {}
    BY DEF ReadOwners, WriteOwners
  <1>4. Accounting /\ IsFiniteSet(ReadOwners)
    BY <1>3, FS_EmptySet DEF Accounting
  <1>5. NoStrandedWaiter /\ NoAbort
    BY DEF NoStrandedWaiter, NoAbort
  <1>. QED  BY <1>1, <1>2, <1>4, <1>5 DEF IInv

\* Whoever cannot be granted the lock at once is not the only thread left.
LEMMA NotAlone ==
    ASSUME IInv, NEW t \in Threads, pc[t] = "idle",
           writer # NoThread \/ readers # 0 \/ wwaiting # <<>>
    PROVE  ~singlethreaded
  <1>1. \E u \in Threads : u # t /\ pc[u] # "gone"
    <2>1. CASE writer # NoThread
      BY <2>1 DEF IInv, Accounting, WriteOwners
    <2>2. CASE readers # 0
      <3>1. ReadOwners # {}
        BY <2>2, FS_EmptySet DEF IInv, Accounting
      <3>. QED  BY <3>1 DEF ReadOwners
    <2>3. CASE wwaiting # <<>>
      <3>1. Head(wwaiting) \in InList(wwaiting) /\ Head(wwaiting) \in Threads
        BY <2>3, HeadInList DEF IInv, TypeOK
      <3>. QED  BY <3>1 DEF IInv, OneList
    <2>. QED  BY <2>1, <2>2, <2>3
  <1>. QED  BY <1>1 DEF singlethreaded

LEMMA RlockIInv ==
    ASSUME IInv, NEW t \in Threads, threadrlock(t) PROVE IInv'
  <1>. USE NoThreadAssumption
  <1>0. pc \in [Threads -> PC] /\ pc[t] = "idle" /\ handoff[t] = NoThread
    BY DEF IInv, TypeOK, threadrlock, at
  <1>1. CASE canread
    <2>1. /\ readers' = readers + 1
          /\ pc' = [pc EXCEPT ![t] = "reading"]
          /\ UNCHANGED <<rwaiting, aborted, writer, wwaiting, handoff, runnable>>
      BY <1>1 DEF threadrlock, at
    <2>2. TypeOK'
      BY <2>1 DEF IInv, TypeOK, PC
    <2>3. t \notin Waiting /\ t \notin runnable /\ \A u \in Threads : handoff[u] # t
      BY <1>0 DEF IInv, OneList, Waiting
    <2>4. OneList'
      BY <2>1, <2>3, <1>0 DEF IInv, TypeOK, OneList, Waiting
    <2>5. ReadOwners' = ReadOwners \cup {t} /\ t \notin ReadOwners
      BY <2>1, <1>0 DEF ReadOwners
    <2>6. WriteOwners' = WriteOwners /\ WriteOwners = {}
      BY <2>1, <1>0, <1>1 DEF WriteOwners, IInv, Accounting, canread
    <2>7. Accounting' /\ IsFiniteSet(ReadOwners')
      BY <2>1, <2>5, <2>6, FS_AddElement, FS_CardinalityType DEF IInv, Accounting
    <2>8. NoStrandedWaiter'
      BY <2>1, <1>0, <1>1 DEF IInv, TypeOK, NoStrandedWaiter, Waiting, canread
    <2>. QED  BY <2>1, <2>2, <2>4, <2>7, <2>8, <1>0 DEF IInv, NoAbort
  <1>2. CASE ~canread
    <2>1. /\ aborted' = singlethreaded
          /\ rwaiting' = addthread(rwaiting, t)
          /\ pc' = [pc EXCEPT ![t] = "rblocked"]
          /\ UNCHANGED <<readers, writer, wwaiting, handoff, runnable>>
      BY <1>2 DEF threadrlock, at
    <2>2. t \notin Waiting /\ t \notin runnable /\ \A u \in Threads : handoff[u] # t
      BY <1>0 DEF IInv, OneList, Waiting
    <2>3. /\ rwaiting' \in Seq(Threads) /\ NoDup(rwaiting') /\ rwaiting' # <<>>
          /\ InList(rwaiting') = InList(rwaiting) \cup {t}
      <3>1. rwaiting \in Seq(Threads) /\ NoDup(rwaiting) /\ t \notin InList(rwaiting)
        BY <2>2 DEF IInv, TypeOK, OneList, Waiting
      <3>2. rwaiting' = addthread(rwaiting, t)
        BY <2>1
      <3>. QED  BY <3>1, <3>2, AddThread, ZenonT(60)
    <2>4. aborted' = FALSE
      <3>1. ~singlethreaded
        BY <1>0, <1>2, NotAlone DEF canread
      <3>. QED  BY <2>1, <3>1 DEF singlethreaded
    <2>5. TypeOK' /\ NoAbort'
      BY <2>1, <2>3, <2>4 DEF IInv, TypeOK, PC, NoAbort
    <2>6. OneList'
      BY <2>1, <2>2, <2>3, <1>0 DEF IInv, TypeOK, OneList, Waiting
    <2>7. ReadOwners' = ReadOwners /\ WriteOwners' = WriteOwners
      BY <2>1, <2>3, <1>0 DEF ReadOwners, WriteOwners
    <2>8. Accounting' /\ IsFiniteSet(ReadOwners')
      BY <2>1, <2>7 DEF IInv, Accounting
    <2>9. NoStrandedWaiter'
      BY <2>1, <2>3, <1>0, <1>2 DEF IInv, TypeOK, NoStrandedWaiter, Waiting, canread
    <2>. QED  BY <2>1, <2>5, <2>6, <2>8, <2>9, <1>0 DEF IInv
  <1>. QED  BY <1>1, <1>2

LEMMA WlockIInv ==
    ASSUME IInv, NEW t \in Threads, threadwlock(t) PROVE IInv'
  <1>. USE NoThreadAssumption
  <1>0. pc \in [Threads -> PC] /\ pc[t] = "idle" /\ handoff[t] = NoThread
    BY DEF IInv, TypeOK, threadwlock, at
  <1>1. CASE canwrite
    <2>1. /\ writer' = t
          /\ pc' = [pc EXCEPT ![t] = "writing"]
          /\ UNCHANGED <<rwaiting, aborted, readers, wwaiting, handoff, runnable>>
      BY <1>1 DEF threadwlock, at
    <2>2. TypeOK'
      BY <2>1 DEF IInv, TypeOK, PC
    <2>3. t \notin Waiting /\ t \notin runnable /\ \A u \in Threads : handoff[u] # t
      BY <1>0 DEF IInv, OneList, Waiting
    <2>4. OneList'
      BY <2>1, <2>3, <1>0 DEF IInv, TypeOK, OneList, Waiting
    <2>5. ReadOwners' = ReadOwners /\ ReadOwners = {}
      BY <2>1, <1>0, <1>1, FS_EmptySet DEF ReadOwners, IInv, Accounting, canwrite
    <2>6. WriteOwners' = WriteOwners \cup {t} /\ WriteOwners = {}
      BY <2>1, <1>0, <1>1 DEF WriteOwners, IInv, Accounting, canwrite
    <2>7. Accounting' /\ IsFiniteSet(ReadOwners')
      BY <2>1, <2>5, <2>6 DEF IInv, Accounting
    <2>8. NoStrandedWaiter'
      BY <2>1, <1>0, <1>1 DEF IInv, TypeOK, NoStrandedWaiter, Waiting, canwrite
    <2>. QED  BY <2>1, <2>2, <2>4, <2>7, <2>8, <1>0 DEF IInv, NoAbort
  <1>2. CASE ~canwrite
    <2>1. /\ aborted' = singlethreaded
          /\ wwaiting' = addthread(wwaiting, t)
          /\ pc' = [pc EXCEPT ![t] = "wblocked"]
          /\ UNCHANGED <<readers, writer, rwaiting, handoff, runnable>>
      BY <1>2 DEF threadwlock, at
    <2>2. t \notin Waiting /\ t \notin runnable /\ \A u \in Threads : handoff[u] # t
      BY <1>0 DEF IInv, OneList, Waiting
    <2>3. /\ wwaiting' \in Seq(Threads) /\ NoDup(wwaiting') /\ wwaiting' # <<>>
          /\ InList(wwaiting') = InList(wwaiting) \cup {t}
      <3>1. wwaiting \in Seq(Threads) /\ NoDup(wwaiting) /\ t \notin InList(wwaiting)
        BY <2>2 DEF IInv, TypeOK, OneList, Waiting
      <3>2. wwaiting' = addthread(wwaiting, t)
        BY <2>1
      <3>. QED  BY <3>1, <3>2, AddThread, ZenonT(60)
    <2>4. aborted' = FALSE
      <3>1. ~singlethreaded
        BY <1>0, <1>2, NotAlone DEF canwrite
      <3>. QED  BY <2>1, <3>1 DEF singlethreaded
    <2>5. TypeOK' /\ NoAbort'
      BY <2>1, <2>3, <2>4 DEF IInv, TypeOK, PC, NoAbort
    <2>6. OneList'
      BY <2>1, <2>2, <2>3, <1>0 DEF IInv, TypeOK, OneList, Waiting
    <2>7. ReadOwners' = ReadOwners /\ WriteOwners' = WriteOwners
      BY <2>1, <2>3, <1>0 DEF ReadOwners, WriteOwners
    <2>8. Accounting' /\ IsFiniteSet(ReadOwners')
      BY <2>1, <2>7 DEF IInv, Accounting
    <2>9. NoStrandedWaiter'
      BY <2>1, <2>3, <1>0, <1>2 DEF IInv, TypeOK, NoStrandedWaiter, Waiting, canwrite
    <2>. QED  BY <2>1, <2>5, <2>6, <2>8, <2>9, <1>0 DEF IInv
  <1>. QED  BY <1>1, <1>2

\* Taking the head off the waiting writers.
LEMMA DelWriter ==
    ASSUME IInv, wwaiting # <<>>
    PROVE  LET w == Head(wwaiting)
               q == delthread(wwaiting, w)
           IN  /\ w \in Threads /\ w \in InList(wwaiting) /\ pc[w] = "wblocked"
               /\ w \notin runnable /\ \A u \in Threads : handoff[u] # w
               /\ w \notin InList(rwaiting)
               /\ q \in Seq(Threads) /\ NoDup(q)
               /\ InList(q) = InList(wwaiting) \ {w}
  <1>. DEFINE w == Head(wwaiting)
              q == delthread(wwaiting, w)
  <1>1. wwaiting \in Seq(Threads) /\ NoDup(wwaiting)
    BY DEF IInv, TypeOK, OneList
  <1>2. w \in InList(wwaiting) /\ w \in Threads
    BY <1>1, HeadInList, ZenonT(60)
  <1>3. q \in Seq(Threads) /\ NoDup(q) /\ InList(q) = InList(wwaiting) \ {w}
    BY <1>1, <1>2, DelThread, ZenonT(60)
  <1>4. pc[w] = "wblocked" /\ w \notin InList(rwaiting)
    BY <1>2 DEF IInv, OneList
  <1>5. w \notin runnable /\ \A u \in Threads : handoff[u] # w
    BY <1>2, NoThreadAssumption DEF IInv, OneList, Waiting
  <1>. QED  BY <1>2, <1>3, <1>4, <1>5

LEMMA RunlockIInv ==
    ASSUME IInv, NEW t \in Threads, threadrunlock(t) PROVE IInv'
  <1>. USE NoThreadAssumption
  <1>0. /\ pc \in [Threads -> PC] /\ pc[t] = "reading" /\ handoff[t] = NoThread
        /\ handoff \in [Threads -> Threads \cup {NoThread}]
    BY DEF IInv, TypeOK, threadrunlock, at
  <1>1. /\ readers' = readers - 1
        /\ passtowriter(t, readers - 1, writer)
        /\ UNCHANGED <<rwaiting, runnable, aborted>>
    BY DEF threadrunlock, at
  <1>2. t \in ReadOwners /\ WriteOwners = {} /\ writer = NoThread
    BY <1>0 DEF ReadOwners, IInv, Accounting, TypeOK
  <1>3. /\ IsFiniteSet(ReadOwners \ {t})
        /\ readers - 1 = Cardinality(ReadOwners \ {t})
        /\ readers - 1 \in Nat
    <2>. DEFINE S == ReadOwners
    <2>1. IsFiniteSet(S) /\ readers = Cardinality(S) /\ t \in S
      BY <1>2 DEF IInv, Accounting
    <2>. HIDE DEF S
    <2>2. IsFiniteSet(S \ {t}) /\ Cardinality(S \ {t}) = Cardinality(S) - 1
      BY <2>1, FS_RemoveElement
    <2>3. Cardinality(S \ {t}) \in Nat
      BY <2>2, FS_CardinalityType
    <2>4. /\ IsFiniteSet(S \ {t}) /\ readers - 1 = Cardinality(S \ {t})
          /\ readers - 1 \in Nat
      BY <2>1, <2>2, <2>3
    <2>. QED  BY <2>4 DEF S
  <1>4. t \notin Waiting /\ t \notin runnable /\ \A u \in Threads : handoff[u] # t
    BY <1>0 DEF IInv, OneList, Waiting
  <1>5. CASE readers - 1 = 0 /\ wwaiting # <<>>
    <2>. DEFINE w == Head(wwaiting)
    <2>1. /\ wwaiting' = delthread(wwaiting, w)
          /\ writer' = w
          /\ handoff' = [handoff EXCEPT ![t] = w]
          /\ pc' = [pc EXCEPT ![t] = "readying"]
      BY <1>1, <1>5 DEF passtowriter
    <2>2. /\ w \in Threads /\ w \in InList(wwaiting) /\ pc[w] = "wblocked"
          /\ w \notin runnable /\ \A u \in Threads : handoff[u] # w
          /\ w \notin InList(rwaiting)
          /\ wwaiting' \in Seq(Threads) /\ NoDup(wwaiting')
          /\ InList(wwaiting') = InList(wwaiting) \ {w}
      BY <1>5, <2>1, DelWriter
    <2>. HIDE DEF w
    <2>3. TypeOK' /\ NoAbort'
      BY <1>1, <1>3, <2>1, <2>2 DEF IInv, TypeOK, PC, NoAbort
    <2>4. t # w
      BY <1>0, <2>2
    <2>5. OneList'
      BY <1>0, <1>1, <1>4, <2>1, <2>2, <2>4, SMTT(30) DEF IInv, TypeOK, OneList, Waiting
    <2>6. ReadOwners' = ReadOwners \ {t}
      BY <1>0, <1>1, <2>1, <2>2 DEF ReadOwners
    <2>7. WriteOwners' = {w}
      BY <1>0, <1>2, <2>1, <2>2, <2>4 DEF WriteOwners
    <2>8. ReadOwners' = {}
      BY <1>3, <1>5, <2>6, FS_EmptySet
    <2>9. Accounting' /\ IsFiniteSet(ReadOwners')
      BY <1>1, <1>3, <2>1, <2>2, <2>6, <2>7, <2>8 DEF Accounting
    <2>10. NoStrandedWaiter'
      BY <1>0, <1>1, <2>1, <2>2, <2>4 DEF IInv, TypeOK, NoStrandedWaiter, Waiting
    <2>. QED  BY <1>0, <2>1, <2>2, <2>3, <2>5, <2>9, <2>10 DEF IInv
  <1>6. CASE ~(readers - 1 = 0 /\ wwaiting # <<>>)
    <2>1. /\ pc' = [pc EXCEPT ![t] = "idle"]
          /\ UNCHANGED <<wwaiting, handoff, writer>>
      BY <1>1, <1>3, <1>6 DEF passtowriter
    <2>3. TypeOK' /\ NoAbort'
      BY <1>1, <1>3, <2>1 DEF IInv, TypeOK, PC, NoAbort
    <2>5. OneList'
      BY <1>0, <1>1, <1>4, <2>1 DEF IInv, TypeOK, OneList, Waiting
    <2>6. ReadOwners' = ReadOwners \ {t} /\ WriteOwners' = WriteOwners
      BY <1>0, <1>1, <2>1 DEF ReadOwners, WriteOwners
    <2>9. Accounting' /\ IsFiniteSet(ReadOwners')
      BY <1>1, <1>2, <1>3, <2>1, <2>6 DEF Accounting
    <2>10. NoStrandedWaiter'
      BY <1>0, <1>1, <1>3, <1>6, <2>1 DEF IInv, TypeOK, NoStrandedWaiter, Waiting
    <2>. QED  BY <1>0, <2>1, <2>3, <2>5, <2>9, <2>10 DEF IInv
  <1>. QED  BY <1>5, <1>6

LEMMA WunlockIInv ==
    ASSUME IInv, NEW t \in Threads, threadwunlock(t) PROVE IInv'
  <1>. USE NoThreadAssumption
  <1>. DEFINE n == readers + Len(rwaiting)
  <1>0. /\ pc \in [Threads -> PC] /\ pc[t] = "writing" /\ handoff[t] = NoThread
        /\ handoff \in [Threads -> Threads \cup {NoThread}]
    BY DEF IInv, TypeOK, threadwunlock, at
  <1>1. /\ aborted' = (readers # 0)
        /\ readers' = n
        /\ rwaiting' = <<>>
        /\ runnable' = runnable \cup InList(rwaiting)
        /\ passtowriter(t, n, NoThread)
    BY DEF threadwunlock, at
  <1>2. t \in WriteOwners /\ WriteOwners = {t} /\ writer = t /\ ReadOwners = {}
    BY <1>0 DEF WriteOwners, IInv, Accounting, TypeOK
  <1>3. readers = 0
    BY <1>2, FS_EmptySet DEF IInv, Accounting
  <1>4. /\ IsFiniteSet(InList(rwaiting)) /\ Cardinality(InList(rwaiting)) = n
        /\ n \in Nat /\ InList(rwaiting) \subseteq Threads
    <2>1. rwaiting \in Seq(Threads) /\ NoDup(rwaiting)
      BY DEF IInv, TypeOK, OneList
    <2>2. Len(rwaiting) \in Nat
      BY <2>1
    <2>3. n = Len(rwaiting)
      BY <1>3, <2>2
    <2>. QED  BY <2>1, <2>2, <2>3, ListCardinality, EmptyList
  <1>5. t \notin Waiting /\ t \notin runnable /\ \A u \in Threads : handoff[u] # t
    BY <1>0 DEF IInv, OneList, Waiting
  <1>6. aborted' = FALSE
    BY <1>1, <1>3
  <1>7. rwaiting' \in Seq(Threads) /\ NoDup(rwaiting') /\ InList(rwaiting') = {}
    BY <1>1, EmptyList
  <1>. HIDE DEF n
  <1>8. CASE n = 0 /\ wwaiting # <<>>
    <2>. DEFINE w == Head(wwaiting)
    <2>1. /\ wwaiting' = delthread(wwaiting, w)
          /\ writer' = w
          /\ handoff' = [handoff EXCEPT ![t] = w]
          /\ pc' = [pc EXCEPT ![t] = "readying"]
      BY <1>1, <1>8 DEF passtowriter
    <2>2. /\ w \in Threads /\ w \in InList(wwaiting) /\ pc[w] = "wblocked"
          /\ w \notin runnable /\ \A u \in Threads : handoff[u] # w
          /\ w \notin InList(rwaiting)
          /\ wwaiting' \in Seq(Threads) /\ NoDup(wwaiting')
          /\ InList(wwaiting') = InList(wwaiting) \ {w}
      BY <1>8, <2>1, DelWriter
    <2>. HIDE DEF w
    <2>3. InList(rwaiting) = {}
      BY <1>4, <1>8, FS_EmptySet
    <2>4. t # w
      BY <1>0, <2>2
    <2>5. TypeOK' /\ NoAbort'
      BY <1>1, <1>4, <1>6, <1>7, <2>1, <2>2 DEF IInv, TypeOK, PC, NoAbort
    <2>6. OneList'
      BY <1>0, <1>1, <1>5, <1>7, <2>1, <2>2, <2>3, <2>4, SMTT(30) DEF IInv, TypeOK, OneList, Waiting
    <2>7. ReadOwners' = ReadOwners
      BY <1>0, <1>7, <2>1, <2>3 DEF ReadOwners
    <2>8. WriteOwners' = {w}
      BY <1>0, <1>2, <2>1, <2>2, <2>4 DEF WriteOwners
    <2>9. Accounting' /\ IsFiniteSet(ReadOwners')
      BY <1>1, <1>2, <1>8, <2>1, <2>2, <2>7, <2>8, FS_EmptySet, SMTT(30) DEF Accounting
    <2>10. NoStrandedWaiter'
      BY <1>0, <1>1, <1>7, <2>1, <2>2, <2>3, <2>4 DEF IInv, TypeOK, NoStrandedWaiter, Waiting
    <2>. QED  BY <1>0, <2>1, <2>2, <2>5, <2>6, <2>9, <2>10 DEF IInv
  <1>9. CASE ~(n = 0 /\ wwaiting # <<>>)
    <2>1. /\ pc' = [pc EXCEPT ![t] = "idle"]
          /\ writer' = NoThread
          /\ UNCHANGED <<wwaiting, handoff>>
      BY <1>1, <1>4, <1>9 DEF passtowriter
    <2>3. TypeOK' /\ NoAbort'
      BY <1>1, <1>4, <1>6, <1>7, <2>1 DEF IInv, TypeOK, PC, NoAbort
    <2>4. \A u \in InList(rwaiting) : pc[u] = "rblocked" /\ u \notin InList(wwaiting)
                                      /\ \A v \in Threads : handoff[v] # u
      BY <1>4 DEF IInv, OneList, Waiting
    <2>5. OneList'
      BY <1>0, <1>1, <1>5, <1>7, <2>1, <2>4, SMTT(30) DEF IInv, TypeOK, OneList, Waiting
    <2>6. ReadOwners' = InList(rwaiting) /\ WriteOwners' = {}
      BY <1>0, <1>2, <1>4, <1>7, <2>1, <2>4 DEF ReadOwners, WriteOwners
    <2>9. Accounting' /\ IsFiniteSet(ReadOwners')
      BY <1>1, <1>4, <2>1, <2>6 DEF Accounting
    <2>10. NoStrandedWaiter'
      BY <1>0, <1>1, <1>4, <1>7, <1>9, <2>1 DEF IInv, TypeOK, NoStrandedWaiter, Waiting
    <2>. QED  BY <1>0, <2>1, <2>3, <2>5, <2>9, <2>10 DEF IInv
  <1>. QED  BY <1>8, <1>9

LEMMA ReadyIInv ==
    ASSUME IInv, NEW t \in Threads, readyafterunlock(t) PROVE IInv'
  <1>. USE NoThreadAssumption
  <1>0. /\ pc \in [Threads -> PC] /\ pc[t] = "readying" /\ handoff[t] # NoThread
        /\ handoff \in [Threads -> Threads \cup {NoThread}]
    BY DEF IInv, TypeOK, readyafterunlock, at
  <1>. DEFINE w == handoff[t]
  <1>1. /\ runnable' = runnable \cup {w}
        /\ handoff' = [handoff EXCEPT ![t] = NoThread]
        /\ pc' = [pc EXCEPT ![t] = "idle"]
        /\ UNCHANGED <<writer, readers, rwaiting, wwaiting, aborted>>
    BY DEF readyafterunlock, at, lockvars
  <1>2. /\ w \in Threads /\ pc[w] = "wblocked" /\ w \notin Waiting
        /\ \A u \in Threads : handoff[u] = w => u = t
    BY <1>0 DEF IInv, OneList
  <1>3. t \notin Waiting /\ t \notin runnable /\ \A u \in Threads : handoff[u] # t
    BY <1>0 DEF IInv, OneList, Waiting
  <1>. HIDE DEF w
  <1>4. TypeOK' /\ NoAbort'
    BY <1>1, <1>2 DEF IInv, TypeOK, PC, NoAbort
  <1>5. OneList'
    BY <1>0, <1>1, <1>2, <1>3 DEF IInv, TypeOK, OneList, Waiting
  <1>6. ReadOwners' = ReadOwners /\ WriteOwners' = WriteOwners
    BY <1>0, <1>1 DEF ReadOwners, WriteOwners
  <1>7. Accounting' /\ IsFiniteSet(ReadOwners')
    BY <1>1, <1>6 DEF IInv, Accounting
  <1>8. NoStrandedWaiter'
    BY <1>0, <1>1, <1>2 DEF IInv, TypeOK, NoStrandedWaiter, Waiting, w
  <1>. QED  BY <1>0, <1>1, <1>4, <1>5, <1>7, <1>8 DEF IInv

LEMMA ReturnIInv ==
    ASSUME IInv, NEW t \in Threads, threadswitchreturn(t) PROVE IInv'
  <1>. USE NoThreadAssumption
  <1>0. /\ pc \in [Threads -> PC] /\ pc[t] \in {"rblocked", "wblocked"}
        /\ t \in runnable /\ t \notin Waiting /\ handoff[t] = NoThread
        /\ \A u \in Threads : handoff[u] # t
    BY DEF IInv, TypeOK, OneList, threadswitchreturn, at
  <1>1. /\ runnable' = runnable \ {t}
        /\ pc' = [pc EXCEPT ![t] = IF pc[t] = "rblocked" THEN "reading" ELSE "writing"]
        /\ UNCHANGED <<writer, readers, rwaiting, wwaiting, handoff, aborted>>
    BY DEF threadswitchreturn, at, lockvars
  <1>2. TypeOK' /\ NoAbort'
    BY <1>0, <1>1 DEF IInv, TypeOK, PC, NoAbort
  <1>3. OneList'
    BY <1>0, <1>1 DEF IInv, TypeOK, OneList, Waiting
  <1>4. ReadOwners' = ReadOwners /\ WriteOwners' = WriteOwners
    BY <1>0, <1>1 DEF ReadOwners, WriteOwners, Waiting
  <1>5. Accounting' /\ IsFiniteSet(ReadOwners')
    BY <1>1, <1>4 DEF IInv, Accounting
  <1>6. NoStrandedWaiter'
    BY <1>0, <1>1 DEF IInv, TypeOK, NoStrandedWaiter, Waiting
  <1>. QED  BY <1>0, <1>1, <1>2, <1>3, <1>5, <1>6 DEF IInv

LEMMA ExitIInv ==
    ASSUME IInv, NEW t \in Threads, threadexits(t) PROVE IInv'
  <1>. USE NoThreadAssumption
  <1>1. /\ pc \in [Threads -> PC] /\ pc[t] = "idle"
        /\ pc' = [pc EXCEPT ![t] = "gone"]
        /\ UNCHANGED <<writer, readers, rwaiting, wwaiting, handoff, runnable, aborted>>
    BY DEF IInv, TypeOK, threadexits, at, lockvars
  <1>2. TypeOK' /\ NoAbort'
    BY <1>1 DEF IInv, TypeOK, PC, NoAbort
  <1>3. OneList'
    BY <1>1 DEF IInv, TypeOK, OneList, Waiting
  <1>4. ReadOwners' = ReadOwners /\ WriteOwners' = WriteOwners
    BY <1>1 DEF ReadOwners, WriteOwners
  <1>5. Accounting' /\ IsFiniteSet(ReadOwners')
    BY <1>1, <1>4 DEF IInv, Accounting
  <1>6. NoStrandedWaiter'
    BY <1>1 DEF IInv, TypeOK, NoStrandedWaiter, Waiting
  <1>. QED  BY <1>1, <1>2, <1>3, <1>5, <1>6 DEF IInv

\* Every step of every thread keeps the inductive invariant.
LEMMA NextIInv == IInv /\ [Next]_vars => IInv'
  <1>. SUFFICES ASSUME IInv, [Next]_vars PROVE IInv'
    OBVIOUS
  <1>1. ASSUME NEW t \in Threads, Step(t) PROVE IInv'
    BY <1>1, RlockIInv, WlockIInv, RunlockIInv, WunlockIInv, ReadyIInv,
       ReturnIInv, ExitIInv, SMTT(30) DEF Step, rlock, wlock, runlock, wunlock
  <1>2. CASE UNCHANGED vars
    BY <1>2 DEF vars, lockvars, IInv, TypeOK, OneList, Accounting, NoAbort,
       NoStrandedWaiter, Waiting, ReadOwners, WriteOwners
  <1>. QED  BY <1>1, <1>2 DEF Next

LEMMA Inductive == Spec => []IInv
  BY InitIInv, NextIInv, PTL DEF Spec

\* For any set of threads the fields of the lock, its lists and the places of
\* the threads keep their types; in particular runlock and wunlock never take
\* the reader count below zero.
THEOREM RWLockTypeOK == Spec => []TypeOK
  <1>1. IInv => TypeOK
    BY DEF IInv
  <1>. QED  BY <1>1, Inductive, PTL

\* For any set of threads the lock's fields agree with who was granted
\* access, and a writer is granted it alone.
THEOREM RWLockAccounting == Spec => []Accounting
  <1>1. IInv => Accounting
    BY DEF IInv
  <1>. QED  BY <1>1, Inductive, PTL

\* For any set of threads no waiting reader or writer is left behind by an
\* unlock.
THEOREM RWLockNoStrandedWaiter == Spec => []NoStrandedWaiter
  <1>1. IInv => NoStrandedWaiter
    BY DEF IInv
  <1>. QED  BY <1>1, Inductive, PTL

\* For any set of threads a thread is never on two lists at once.
THEOREM RWLockOneList == Spec => []OneList
  <1>1. IInv => OneList
    BY DEF IInv
  <1>. QED  BY <1>1, Inductive, PTL

\* For any set of threads no assert of the lock fails and no thread blocks
\* alone.
THEOREM RWLockNoAbort == Spec => []NoAbort
  <1>1. IInv => NoAbort
    BY DEF IInv
  <1>. QED  BY <1>1, Inductive, PTL

\* For any set of threads the lock implements the shared/exclusive lock of
\* lock(3).
THEOREM RWLockRefines == Spec => ImplementsSharedExclusive
  <1>. DEFINE R == {t \in Threads : pc[t] = "reading"}
              W == {t \in Threads : pc[t] = "writing"}
  <1>1. Init => Abstract!Init
    BY DEF Init, Abstract!Init
  <1>2. IInv /\ [Next]_vars => [Abstract!Next]_Abstract!vars
    <2>. SUFFICES ASSUME IInv, [Next]_vars PROVE [Abstract!Next]_Abstract!vars
      OBVIOUS
    <2>0. pc \in [Threads -> PC] /\ \A t \in W : R = {} /\ W = {t}
      BY DEF IInv, TypeOK, Accounting, ReadOwners, WriteOwners
    <2>1. ASSUME NEW t \in Threads, threadrlock(t) PROVE [Abstract!Next]_Abstract!vars
      <3>1. CASE canread
        <4>1. W = {}
          BY <3>1 DEF IInv, Accounting, WriteOwners, canread
        <4>2. R' = R \cup {t} /\ W' = W /\ t \notin R
          BY <2>0, <2>1, <3>1 DEF threadrlock, at
        <4>. QED  BY <4>1, <4>2 DEF Abstract!Next, Abstract!EnterRead
      <3>2. CASE ~canread
        <4>1. R' = R /\ W' = W
          BY <2>0, <2>1, <3>2 DEF threadrlock, at
        <4>. QED  BY <4>1 DEF Abstract!vars
      <3>. QED  BY <3>1, <3>2
    <2>2. ASSUME NEW t \in Threads, threadwlock(t) PROVE [Abstract!Next]_Abstract!vars
      <3>1. CASE canwrite
        <4>1. W = {} /\ R = {}
          BY <3>1, FS_EmptySet DEF IInv, Accounting, WriteOwners, ReadOwners, canwrite
        <4>2. W' = {t} /\ R' = R
          BY <2>0, <2>2, <3>1, <4>1 DEF threadwlock, at
        <4>. QED  BY <4>1, <4>2 DEF Abstract!Next, Abstract!EnterWrite
      <3>2. CASE ~canwrite
        <4>1. R' = R /\ W' = W
          BY <2>0, <2>2, <3>2 DEF threadwlock, at
        <4>. QED  BY <4>1 DEF Abstract!vars
      <3>. QED  BY <3>1, <3>2
    <2>3. ASSUME NEW t \in Threads, threadrunlock(t) PROVE [Abstract!Next]_Abstract!vars
      <3>1. R' = R \ {t} /\ W' = W /\ t \in R
        BY <2>0, <2>3 DEF threadrunlock, at, passtowriter
      <3>. QED  BY <3>1 DEF Abstract!Next, Abstract!LeaveRead
    <2>4. ASSUME NEW t \in Threads, threadwunlock(t) PROVE [Abstract!Next]_Abstract!vars
      <3>1. W' = W \ {t} /\ R' = R /\ t \in W
        BY <2>0, <2>4 DEF threadwunlock, at, passtowriter
      <3>. QED  BY <3>1 DEF Abstract!Next, Abstract!LeaveWrite
    <2>5. ASSUME NEW t \in Threads, threadswitchreturn(t) PROVE [Abstract!Next]_Abstract!vars
      <3>0. t \notin Waiting
        BY <2>5 DEF IInv, OneList, threadswitchreturn, at
      <3>1. CASE pc[t] = "rblocked"
        <4>1. t \in ReadOwners
          BY <3>0, <3>1 DEF ReadOwners, Waiting
        <4>2. W = {}
          BY <4>1 DEF IInv, Accounting, WriteOwners
        <4>3. R' = R \cup {t} /\ W' = W /\ t \notin R
          BY <2>0, <2>5, <3>1 DEF threadswitchreturn, at
        <4>. QED  BY <4>2, <4>3 DEF Abstract!Next, Abstract!EnterRead
      <3>2. CASE pc[t] = "wblocked"
        <4>1. t \in WriteOwners
          BY <3>0, <3>2 DEF WriteOwners, Waiting
        <4>2. R = {} /\ W = {}
          BY <3>2, <4>1 DEF IInv, Accounting, WriteOwners, ReadOwners
        <4>3. W' = {t} /\ R' = R
          BY <2>0, <2>5, <3>2, <4>2 DEF threadswitchreturn, at
        <4>. QED  BY <4>2, <4>3 DEF Abstract!Next, Abstract!EnterWrite
      <3>. QED  BY <2>5, <3>1, <3>2 DEF threadswitchreturn, at
    <2>6. ASSUME NEW t \in Threads, readyafterunlock(t) \/ threadexits(t)
          PROVE [Abstract!Next]_Abstract!vars
      <3>1. R' = R /\ W' = W
        BY <2>0, <2>6 DEF readyafterunlock, at, threadexits, at
      <3>. QED  BY <3>1 DEF Abstract!vars
    <2>7. CASE UNCHANGED vars
      BY <2>7 DEF vars, Abstract!vars
    <2>. QED  BY <2>1, <2>2, <2>3, <2>4, <2>5, <2>6, <2>7 DEF Next, Step, rlock,
          wlock, runlock, wunlock
  <1>. QED  BY <1>1, <1>2, Inductive, PTL DEF Spec, ImplementsSharedExclusive, Abstract!Spec
=============================================================================
