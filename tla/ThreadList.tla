----------------------------- MODULE ThreadList -----------------------------
(***************************************************************************)
(* The _Threadlist of libthread (src/src/libthread/thread.c): the doubly   *)
(* linked list used for run queues, idle queues and the waiting lists of   *)
(* locks.  A list is the sequence of its threads from head to tail.  The   *)
(* links live in the thread itself, so the operations below describe the   *)
(* code only for threads that are on one list, once (NoDup here, and an    *)
(* invariant of each module that uses the lists).                          *)
(***************************************************************************)
EXTENDS Naturals, Sequences

InList(l) == {l[i] : i \in 1..Len(l)}

NoDup(l) == \A i, j \in 1..Len(l) : l[i] = l[j] => i = j

addthread(l, t) == Append(l, t)

position(l, t) == CHOOSE i \in 1..Len(l) : l[i] = t

\* A mistake that properties are tried against.
BAD_delthread_keeps_head(l, t) ==
    IF Head(l) = t THEN l ELSE SelectSeq(l, LAMBDA u : u # t)

delthread(l, t) ==
    [i \in 1..(Len(l) - 1) |-> IF i < position(l, t) THEN l[i] ELSE l[i + 1]]

onlist(l, t) == \E i \in 1..Len(l) : l[i] = t
=============================================================================
