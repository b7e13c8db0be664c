---------------------------- MODULE IoprocProofs ----------------------------
(***************************************************************************)
(* Proofs about the I/O proc of Ioproc, for any set of threads and of      *)
(* results of system calls.                                                *)
(*                                                                         *)
(* OneCaller says who may touch the unlocked fields of io.  It is not      *)
(* inductive: that the assert on io->inuse holds, and that the result a    *)
(* thread takes is its own, depends on how far the caller is at each place *)
(* of xioproc, and on what io->inuse and io->op are then.  IInv says it.   *)
(***************************************************************************)
EXTENDS Ioproc, TLAPS

\* What io is for the thread t that has acquired it, by the place of xioproc.
Turn(t) ==
    /\ xpc = "recvop" => \/ pc[t] = "setup" /\ ~inuse
                         \/ pc[t] = "committed" /\ inuse /\ op = t
    /\ xpc \in {"call", "reply"} => pc[t] = "replied" /\ inuse /\ op = t
    /\ xpc = "recvdone" => pc[t] = "release" /\ ~inuse

IInv ==
    /\ TypeOK /\ ~aborted
    /\ \A t, u \in Caller : t = u
    /\ Caller = {} <=> xpc \in {"recvc", "gone"}
    /\ Caller = {} => ~inuse
    /\ \A t \in Caller : Turn(t)
    /\ xpc = "reply" => result[1] = op
    /\ OwnResult

----------------------------------------------------------------------------
(* IInv is an invariant.                                                   *)

LEMMA InitIInv == Init => IInv
<1> SUFFICES ASSUME Init PROVE IInv
  OBVIOUS
<1>1. Caller = {}
  BY DEF Init, Caller
<1>2. TypeOK
  BY DEF Init, TypeOK, XPC, PC
<1>3. OwnResult
  BY DEF Init, OwnResult
<1> QED
  BY <1>1, <1>2, <1>3 DEF Init, IInv

\* Each step of a thread in iocall, of closeioproc and of xioproc keeps IInv.
LEMMA NextIInv == IInv /\ [Next]_vars => IInv'
<1> SUFFICES ASSUME IInv, [Next]_vars PROVE IInv'
  OBVIOUS
<1> USE DEF at, xat, goto
<1>1. CASE call
  <2>1. PICK r \in Results : result' = <<op, r>>
    BY <1>1 DEF call
  <2>2. \A t \in Threads : pc'[t] = pc[t] /\ got'[t] = got[t]
    BY <1>1 DEF call
  <2>3. Caller' = Caller
    BY <2>2 DEF Caller
  <2>4. TypeOK'
    BY <1>1, <2>1 DEF call, IInv, TypeOK, XPC, PC
  <2>5. OwnResult'
    BY <2>2 DEF IInv, OwnResult
  <2> QED
    BY <1>1, <2>1, <2>3, <2>4, <2>5 DEF call, IInv, Turn
<1>2. ASSUME NEW t \in Threads, iocall(t) PROVE IInv'
  <2>1. Caller' = Caller
    BY <1>2 DEF iocall, Caller, IInv, TypeOK
  <2>2. TypeOK'
    BY <1>2 DEF iocall, IInv, TypeOK, PC
  <2>3. \A u \in Caller : Turn(u)'
    BY <1>2 DEF iocall, Caller, IInv, TypeOK, Turn
  <2> QED
    BY <1>2, <2>1, <2>2, <2>3 DEF iocall, IInv, OwnResult
<1>3. ASSUME NEW t \in Threads, acquire(t) PROVE IInv'
  <2>1. Caller = {} /\ Caller' = {t} /\ ~inuse
    BY <1>3 DEF acquire, Caller, IInv, TypeOK
  <2>2. TypeOK'
    BY <1>3 DEF acquire, IInv, TypeOK, XPC, PC
  <2>3. Turn(t)'
    BY <1>3, <2>1 DEF acquire, IInv, TypeOK, Turn
  <2> QED
    BY <1>3, <2>1, <2>2, <2>3 DEF acquire, IInv, OwnResult
<1>4. ASSUME NEW t \in Threads, setup(t) PROVE IInv'
  <2>1. Caller = {t} /\ Caller' = {t}
    BY <1>4 DEF setup, Caller, IInv, TypeOK
  <2>2. xpc = "recvop" /\ ~inuse
    BY <1>4, <2>1 DEF setup, IInv, TypeOK, Turn, XPC
  <2>3. TypeOK'
    BY <1>4, <2>2 DEF setup, IInv, TypeOK, PC
  <2>4. Turn(t)'
    BY <1>4, <2>2 DEF setup, IInv, TypeOK, Turn
  <2> QED
    BY <1>4, <2>1, <2>2, <2>3, <2>4 DEF setup, IInv, OwnResult
<1>5. ASSUME NEW t \in Threads, commit(t) PROVE IInv'
  <2>1. Caller = {t} /\ Caller' = {t}
    BY <1>5 DEF commit, Caller, IInv, TypeOK
  <2>2. inuse /\ op = t
    BY <1>5, <2>1 DEF commit, IInv, Turn
  <2>3. TypeOK'
    BY <1>5 DEF commit, IInv, TypeOK, XPC, PC
  <2>4. Turn(t)'
    BY <1>5, <2>2 DEF commit, IInv, TypeOK, Turn
  <2> QED
    BY <1>5, <2>1, <2>3, <2>4 DEF commit, IInv, OwnResult
<1>6. ASSUME NEW t \in Threads, reply(t) PROVE IInv'
  <2>1. Caller = {t} /\ Caller' = {t}
    BY <1>6 DEF reply, Caller, IInv, TypeOK
  <2>2. result[1] = t
    BY <1>6, <2>1 DEF reply, IInv, Turn
  <2>3. TypeOK'
    BY <1>6 DEF reply, IInv, TypeOK, XPC, PC
  <2>4. Turn(t)'
    BY <1>6 DEF reply, IInv, TypeOK, Turn
  <2>5. OwnResult'
    BY <1>6, <2>2 DEF reply, IInv, TypeOK, OwnResult
  <2> QED
    BY <1>6, <2>1, <2>3, <2>4, <2>5 DEF reply, IInv
<1>7. ASSUME NEW t \in Threads, release(t) PROVE IInv'
  <2>1. Caller = {t} /\ Caller' = {}
    BY <1>7 DEF release, Caller, IInv, TypeOK
  <2>2. ~inuse
    BY <1>7, <2>1 DEF release, IInv, Turn
  <2>3. TypeOK'
    BY <1>7 DEF release, IInv, TypeOK, XPC, PC
  <2> QED
    BY <1>7, <2>1, <2>2, <2>3 DEF release, IInv, OwnResult
<1>8. ASSUME NEW t \in Threads, closeioproc(t) PROVE IInv'
  <2>1. Caller = {} /\ Caller' = {}
    BY <1>8 DEF closeioproc, Caller, IInv, TypeOK
  <2>2. TypeOK'
    BY <1>8 DEF closeioproc, IInv, TypeOK, XPC, PC
  <2> QED
    BY <1>8, <2>1, <2>2 DEF closeioproc, IInv, OwnResult
<1>9. CASE UNCHANGED vars
  BY <1>9 DEF vars, IInv, TypeOK, Caller, Turn, OwnResult
<1> QED
  BY <1>1, <1>2, <1>3, <1>4, <1>5, <1>6, <1>7, <1>8, <1>9 DEF Next

LEMMA Inductive == Spec => []IInv
  BY InitIInv, NextIInv, PTL DEF Spec

----------------------------------------------------------------------------
(* What follows from it.                                                   *)

\* The fields of io, which iocall and xioproc use without a lock, belong to
\* one call at a time, and assert(!io->inuse) holds.
THEOREM IoOneCaller == Spec => []OneCaller
<1>1. IInv => OneCaller
  BY DEF IInv, OneCaller, Turn
<1> QED
  BY <1>1, Inductive, PTL

\* iocall returns what its own system call returned, whoever else uses io.
THEOREM IoOwnResult == Spec => []OwnResult
<1>1. IInv => OwnResult
  BY DEF IInv
<1> QED
  BY <1>1, Inductive, PTL
=============================================================================
