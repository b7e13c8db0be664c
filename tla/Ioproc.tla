------------------------------- MODULE Ioproc -------------------------------
(***************************************************************************)
(* An I/O proc (src/src/libthread/ioproc.c): a proc that makes system      *)
(* calls for threads that must not block their own proc.                   *)
(*                                                                         *)
(* io->c and io->creply are unbuffered channels, so a send and a receive   *)
(* are one step of both parties (Alternation).  Everything goes through    *)
(* the two: the fields of io have no lock.  The first send acquires the    *)
(* proc, the second says that io->op and io->arg are set, the third that   *)
(* io->ret is, and the fourth gives the proc back.  A blocking channel     *)
(* operation of this libthread is never interrupted, so the code for a     *)
(* send or receive that returns -1 is not reached.                         *)
(***************************************************************************)
EXTENDS Naturals

CONSTANTS
    Threads,        \* the threads that share io
    Results,        \* what a system call may return
    nil

ASSUME IoAssumption == nil \notin Threads \cup Results

VARIABLES
    inuse,          \* io->inuse
    op,             \* io->op and io->arg, named by the thread that set them
    result,         \* io->ret and io->err, with the call they belong to
    xpc,            \* where xioproc is
    pc,             \* where each thread is
    got,            \* what iocall returned
    aborted         \* an assert failed

vars == <<inuse, op, result, xpc, pc, got, aborted>>

XPC == {"recvc", "recvop", "call", "reply", "recvdone", "gone"}
PC == {"idle", "acquire", "setup", "committed", "replied", "release", "closing"}

Init ==
    /\ inuse = FALSE
    /\ op = nil
    /\ result = <<nil, nil>>
    /\ xpc = "recvc"
    /\ pc = [t \in Threads |-> "idle"]
    /\ got = [t \in Threads |-> <<nil, nil>>]
    /\ aborted = FALSE

at(t, label) == ~aborted /\ pc[t] = label
xat(label) == ~aborted /\ xpc = label
goto(t, label) == pc' = [pc EXCEPT ![t] = label]

----------------------------------------------------------------------------
(* Definitions named BAD_... are the mistakes the properties are tried     *)
(* against; the specification does not use them.                           *)

\* A thread calls iocall, or the one that owns io calls closeioproc, which
\* it may do only when nobody uses io.
iocall(t) ==
    /\ at(t, "idle")
    /\ \A u \in Threads : pc[u] # "closing"
    /\ goto(t, "acquire")
    /\ UNCHANGED <<inuse, op, result, xpc, got, aborted>>

\* send(io->c, &io)
acquire(t) ==
    /\ at(t, "acquire") /\ xat("recvc")
    /\ xpc' = "recvop"
    /\ goto(t, "setup")
    /\ UNCHANGED <<inuse, op, result, got, aborted>>

BAD_setup_early(t) ==
    /\ at(t, "acquire") \/ at(t, "setup")
    /\ op' = t
    /\ inuse' = TRUE
    /\ goto(t, IF pc[t] = "setup" THEN "committed" ELSE "acquire")
    /\ UNCHANGED <<result, xpc, got, aborted>>

setup(t) ==
    /\ at(t, "setup")
    /\ aborted' = inuse
    /\ inuse' = TRUE
    /\ op' = t
    /\ goto(t, "committed")
    /\ UNCHANGED <<result, xpc, got>>

\* send(io->creply, &msg)
commit(t) ==
    /\ at(t, "committed") /\ xat("recvop")
    /\ xpc' = "call"
    /\ goto(t, "replied")
    /\ UNCHANGED <<inuse, op, result, got, aborted>>

\* io->ret = io->op(&io->arg)
call ==
    /\ xat("call")
    /\ \E r \in Results : result' = <<op, r>>
    /\ xpc' = "reply"
    /\ UNCHANGED <<inuse, op, pc, got, aborted>>

\* recv(io->creply, nil), after which iocall takes the result.
reply(t) ==
    /\ at(t, "replied") /\ xat("reply")
    /\ xpc' = "recvdone"
    /\ got' = [got EXCEPT ![t] = result]
    /\ inuse' = FALSE
    /\ goto(t, "release")
    /\ UNCHANGED <<op, result, aborted>>

BAD_release_not_awaited(t) ==
    /\ at(t, "release")
    /\ goto(t, "idle")
    /\ UNCHANGED <<xpc, inuse, op, result, got, aborted>>

\* send(io->creply, &io)
release(t) ==
    /\ at(t, "release") /\ xat("recvdone")
    /\ xpc' = "recvc"
    /\ goto(t, "idle")
    /\ UNCHANGED <<inuse, op, result, got, aborted>>

\* closeioproc: send(io->c, 0), and io is freed.
closeioproc(t) ==
    /\ at(t, "idle") /\ xat("recvc")
    /\ \A u \in Threads : pc[u] = "idle"
    /\ xpc' = "gone"
    /\ goto(t, "closing")
    /\ UNCHANGED <<inuse, op, result, got, aborted>>

Next ==
    \/ call
    \/ \E t \in Threads :
           \/ iocall(t) \/ acquire(t) \/ setup(t) \/ commit(t) \/ reply(t)
           \/ release(t) \/ closeioproc(t)

Spec == Init /\ [][Next]_vars

\* System calls return, threads that can run do, and a channel serves every
\* thread that keeps waiting for it (rand() chooses among them).
Fairness ==
    /\ WF_vars(call)
    /\ \A t \in Threads : /\ SF_vars(acquire(t))
                          /\ WF_vars(setup(t) \/ commit(t) \/ reply(t) \/ release(t))

FairSpec == Spec /\ Fairness

----------------------------------------------------------------------------
(* Properties.                                                             *)

\* Every variable has its type.
TypeOK ==
    /\ inuse \in BOOLEAN
    /\ op \in Threads \cup {nil}
    /\ result \in (Threads \cup {nil}) \X (Results \cup {nil})
    /\ xpc \in XPC
    /\ pc \in [Threads -> PC]
    /\ got \in [Threads -> (Threads \cup {nil}) \X (Results \cup {nil})]
    /\ aborted \in BOOLEAN

Caller == {t \in Threads : pc[t] \in {"setup", "committed", "replied", "release"}}

\* The unlocked fields of io belong to one party at a time: at most one
\* thread is between the first and the last send of iocall, and between its
\* second send and the reply only xioproc touches them, on its behalf; and
\* assert(!io->inuse) holds.
OneCaller ==
    /\ TypeOK /\ ~aborted
    /\ \A t, u \in Caller : t = u
    /\ Caller = {} <=> xpc \in {"recvc", "gone"}
    /\ xpc \in {"call", "reply"} => \A t \in Caller : op = t /\ pc[t] = "replied"

\* iocall returns the result of its own system call.
OwnResult == \A t \in Threads : got[t] # <<nil, nil>> => got[t][1] = t

\* Every iocall returns.
Returns == \A t \in Threads : pc[t] = "acquire" ~> pc[t] = "idle"
=============================================================================
