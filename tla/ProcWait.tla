------------------------------ MODULE ProcWait ------------------------------
(***************************************************************************)
(* Waiting for child processes in libthread (src/src/libthread/exec.c and  *)
(* wait.c).                                                                *)
(*                                                                         *)
(* Each child has a proc of its own (execproc) that waits for it and sends *)
(* its Waitmsg to threadwaitchan, if somebody has made that channel; else  *)
(* the message is dropped.  procwait(pid) returns the message of one       *)
(* child: the callers elect a muxer, which receives all the messages and   *)
(* hands each to the thread that waits for it, or keeps it for later.      *)
(*                                                                         *)
(* A Waitmsg is named by its pid.  A section between qlock(&waiting.lk)    *)
(* and the qunlock or rsleep that ends it is one action.  A child is       *)
(* waited for at most once.  A Waiter is a local variable of procwait, so  *)
(* once procwait has returned with its Waiter still on the list anything   *)
(* may happen; the model stops there.                                      *)
(***************************************************************************)
EXTENDS Naturals, FiniteSets, SequencesExt

CONSTANTS
    Threads,        \* the threads that call procwait
    Pids,           \* child processes
    WaitchanSize,   \* the buffer of threadwaitchan
    nil

VARIABLES
    child,          \* how far execproc has got with each child
    thewaitchan,    \* the messages in the channel, nil before it is made
    msg,            \* waiting.msg, the messages nobody waited for yet
    muxer,          \* waiting.muxer
    list,           \* waiting.head and so on: Waiters, named by their threads
    pid,            \* me.pid
    memsg,          \* me.msg
    inhand,         \* the local variable msg of the muxer
    woken,          \* threads that rwakeup has woken
    pc,             \* where each thread is
    got             \* what procwait returned, by the pid it was asked for

chanvars == <<child, thewaitchan>>
vars == <<chanvars, msg, muxer, list, pid, memsg, inhand, woken, pc, got>>

Child == {"none", "running", "exited", "sent", "dropped"}
PC == {"idle", "asleep", "recv", "received"}

Init ==
    /\ child = [p \in Pids |-> "none"]
    /\ thewaitchan = nil
    /\ msg = {}
    /\ muxer = FALSE
    /\ list = <<>>
    /\ pid = [t \in Threads |-> nil]
    /\ memsg = [t \in Threads |-> nil]
    /\ inhand = [t \in Threads |-> nil]
    /\ woken = {}
    /\ pc = [t \in Threads |-> "idle"]
    /\ got = [p \in Pids |-> nil]

\* A Waiter on the list has gone out of scope.
dangling == \E t \in ToSet(list) : pc[t] = "idle"

at(t, label) == ~dangling /\ pc[t] = label

----------------------------------------------------------------------------
(* exec.c.                                                                 *)

_runthreadspawn(p) ==
    /\ child[p] = "none" /\ ~dangling
    /\ child' = [child EXCEPT ![p] = "running"]
    /\ UNCHANGED <<thewaitchan, msg, muxer, list, pid, memsg, inhand, woken, pc, got>>

waitfor(p) ==
    /\ child[p] = "running" /\ ~dangling
    /\ child' = [child EXCEPT ![p] = "exited"]
    /\ UNCHANGED <<thewaitchan, msg, muxer, list, pid, memsg, inhand, woken, pc, got>>

\* After waitfor: sendp blocks while the channel is full.
execproc(p) ==
    /\ child[p] = "exited" /\ ~dangling
    /\ \/ /\ thewaitchan = nil
          /\ child' = [child EXCEPT ![p] = "dropped"]
          /\ UNCHANGED thewaitchan
       \/ /\ thewaitchan # nil /\ Len(thewaitchan) < WaitchanSize
          /\ thewaitchan' = Append(thewaitchan, p)
          /\ child' = [child EXCEPT ![p] = "sent"]
    /\ UNCHANGED <<msg, muxer, list, pid, memsg, inhand, woken, pc, got>>

threadwaitchan ==
    /\ thewaitchan = nil /\ ~dangling
    /\ thewaitchan' = <<>>
    /\ UNCHANGED <<child, msg, muxer, list, pid, memsg, inhand, woken, pc, got>>

----------------------------------------------------------------------------
(* wait.c.                                                                 *)

goto(t, label) == pc' = [pc EXCEPT ![t] = label]

\* procwait(p) from its start to its first rsleep, recvp or return.
procwait(t, p) ==
    /\ at(t, "idle")
    /\ child[p] # "none" /\ got[p] = nil
    /\ \A u \in Threads : pc[u] # "idle" => pid[u] # p
    /\ \/ /\ p \in msg
          /\ msg' = msg \ {p}
          /\ got' = [got EXCEPT ![p] = p]
          /\ UNCHANGED <<muxer, list, pid, memsg, pc>>
       \/ /\ p \notin msg
          /\ list' = <<t>> \o list
          /\ pid' = [pid EXCEPT ![t] = p]
          /\ memsg' = [memsg EXCEPT ![t] = nil]
          /\ muxer' = TRUE
          /\ goto(t, IF muxer THEN "asleep" ELSE "recv")
          /\ UNCHANGED <<msg, got>>
    /\ UNCHANGED <<chanvars, inhand, woken>>

recvp(t) ==
    /\ at(t, "recv")
    /\ thewaitchan \notin {nil, <<>>}
    /\ inhand' = [inhand EXCEPT ![t] = Head(thewaitchan)]
    /\ thewaitchan' = Tail(thewaitchan)
    /\ goto(t, "received")
    /\ UNCHANGED <<child, msg, muxer, list, pid, memsg, woken, got>>

rwakeup(S) == woken' = woken \cup {t \in S : pc[t] = "asleep"}

\* procwait returns m to t.
return(t, m) ==
    /\ got' = [got EXCEPT ![pid[t]] = m]
    /\ goto(t, "idle")

\* The muxer locks waiting.lk again; nobody waits for what it received.
keep(t) ==
    /\ at(t, "received")
    /\ \A u \in ToSet(list) : pid[u] # inhand[t]
    /\ msg' = msg \cup {inhand[t]}
    /\ inhand' = [inhand EXCEPT ![t] = nil]
    /\ goto(t, "recv")
    /\ UNCHANGED <<chanvars, muxer, list, pid, memsg, woken, got>>

\* Waiter w waits for it.  "me.msg = msg" also ends the muxer's loop, so it
\* passes the muxer's job on and returns.
deliver(t) ==
    /\ at(t, "received")
    /\ \E w \in ToSet(list) :
           /\ pid[w] = inhand[t]
           /\ list' = SelectSeq(list, LAMBDA u : u # w)
           /\ rwakeup({w} \cup (IF list' = <<>> THEN {} ELSE {Head(list')}))
    /\ memsg' = [memsg EXCEPT ![t] = inhand[t]]
    /\ inhand' = [inhand EXCEPT ![t] = nil]
    /\ muxer' = FALSE
    /\ return(t, inhand[t])
    /\ UNCHANGED <<chanvars, msg, pid>>

\* rsleep returns: the while loop around it, and then the rest.
rsleepreturn(t) ==
    /\ at(t, "asleep")
    /\ t \in woken
    /\ woken' = woken \ {t}
    /\ muxer' = (muxer \/ memsg[t] = nil)
    /\ IF memsg[t] # nil THEN return(t, memsg[t])
       ELSE goto(t, IF muxer THEN "asleep" ELSE "recv") /\ UNCHANGED got
    /\ UNCHANGED <<chanvars, msg, list, pid, memsg, inhand>>

Next ==
    \/ threadwaitchan
    \/ \E p \in Pids : _runthreadspawn(p) \/ waitfor(p) \/ execproc(p)
    \/ \E t \in Threads :
           \/ \E p \in Pids : procwait(t, p)
           \/ recvp(t) \/ keep(t) \/ deliver(t) \/ rsleepreturn(t)

Spec == Init /\ [][Next]_vars

----------------------------------------------------------------------------
(* Properties.                                                             *)

\* procwait returns the message of the child it was asked for.
OwnMessage == \A p \in Pids : got[p] \in {p, nil}
=============================================================================
