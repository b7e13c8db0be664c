----------------------------- MODULE Alternation -----------------------------
(***************************************************************************)
(* What channels promise (alt in thread(3)).  A thread offers some sends   *)
(* and receives.  Exactly one is carried out, with the buffer of the       *)
(* channel, which is first in first out, or with one waiting thread that   *)
(* offers the opposite operation, of whose offers it is then the only one. *)
(* A thread waits, or a nonblocking offer is turned down, only if none of  *)
(* its operations can proceed.  There are no lists of waiting threads      *)
(* here, and no steps between an operation and its effect on both sides.   *)
(***************************************************************************)
EXTENDS Integers, Sequences

CONSTANTS Threads, Channels, bufsize, Alts, nil

VARIABLES
    queue,      \* the values in the buffer of each channel
    offer,      \* what each thread offers, nil if nothing
    waiting,    \* the threads that wait for a partner
    index,      \* which operation of its last offer was carried out
    value       \* the value its last offer received

vars == <<queue, offer, waiting, index, value>>

Init ==
    /\ queue = [c \in Channels |-> <<>>]
    /\ offer = [t \in Threads |-> nil]
    /\ waiting = {}
    /\ index = [t \in Threads |-> 0]
    /\ value = [t \in Threads |-> nil]

Op(t, i) == offer[t].alts[i]
Ops(t) == DOMAIN offer[t].alts

Opposite(t, i, u, j) ==
    /\ Op(t, i).c = Op(u, j).c
    /\ {Op(t, i).op, Op(u, j).op} = {"CHANSND", "CHANRCV"}

HasRoom(c) == Len(queue[c]) < bufsize[c]
HasValue(c) == queue[c] # <<>>

NoPartner(t, i) == \A u \in waiting : \A j \in Ops(u) : ~Opposite(t, i, u, j)

CanProceed(t, i) ==
    \/ Op(t, i).op = "CHANSND" /\ HasRoom(Op(t, i).c)
    \/ Op(t, i).op = "CHANRCV" /\ HasValue(Op(t, i).c)
    \/ ~NoPartner(t, i)

Offer(t, a) ==
    /\ offer[t] = nil
    /\ offer' = [offer EXCEPT ![t] = a]
    /\ index' = [index EXCEPT ![t] = 0]
    /\ value' = [value EXCEPT ![t] = nil]
    /\ UNCHANGED <<queue, waiting>>

\* t's i-th operation is done and t receives v (nil if it was a send).
Done(t, i, v) ==
    /\ offer' = [offer EXCEPT ![t] = nil]
    /\ index' = [index EXCEPT ![t] = i - 1]
    /\ value' = [value EXCEPT ![t] = v]

\* The same for two threads at once.
BothDone(t, i, v, u, j, w) ==
    /\ offer' = [offer EXCEPT ![t] = nil, ![u] = nil]
    /\ index' = [index EXCEPT ![t] = i - 1, ![u] = j - 1]
    /\ value' = [value EXCEPT ![t] = v, ![u] = w]
    /\ waiting' = waiting \ {t, u}

Put(t, i) ==
    /\ t \notin waiting /\ NoPartner(t, i)
    /\ Op(t, i).op = "CHANSND" /\ HasRoom(Op(t, i).c)
    /\ queue' = [queue EXCEPT ![Op(t, i).c] = Append(@, Op(t, i).v)]
    /\ Done(t, i, nil)
    /\ UNCHANGED waiting

Take(t, i) ==
    /\ t \notin waiting /\ NoPartner(t, i)
    /\ Op(t, i).op = "CHANRCV" /\ HasValue(Op(t, i).c)
    /\ queue' = [queue EXCEPT ![Op(t, i).c] = Tail(@)]
    /\ Done(t, i, Head(queue[Op(t, i).c]))
    /\ UNCHANGED waiting

\* Sender t and receiver u, one of which was waiting: the value goes through
\* the buffer, behind what is there already.
Transfer(t, i, u, j) ==
    LET c == Op(t, i).c
        q == Append(queue[c], Op(t, i).v)
    IN  /\ Opposite(t, i, u, j) /\ Op(t, i).op = "CHANSND"
        /\ {t, u} \cap waiting # {} /\ ~({t, u} \subseteq waiting)
        /\ BothDone(t, i, nil, u, j, Head(q))
        /\ queue' = [queue EXCEPT ![c] = Tail(q)]

Wait(t) ==
    /\ offer[t].canblock
    /\ t \notin waiting
    /\ \A i \in Ops(t) : ~CanProceed(t, i)
    /\ waiting' = waiting \cup {t}
    /\ UNCHANGED <<queue, offer, index, value>>

\* The index is of none of the operations.  Which one it is, thread(3) and the
\* code disagree about: the page says that of the terminating CHANNOBLK entry, one
\* more than the last operation's, and alt returns -1.
TurnDown(t) ==
    /\ ~offer[t].canblock
    /\ \A i \in Ops(t) : ~CanProceed(t, i)
    /\ \E n \in {-1, Len(offer[t].alts)} : Done(t, n + 1, nil)
    /\ UNCHANGED <<queue, waiting>>

Offering == {t \in Threads : offer[t] # nil}

Next ==
    \/ \E t \in Threads, a \in Alts : Offer(t, a)
    \/ \E t \in Offering :
           \/ \E i \in Ops(t) : Put(t, i) \/ Take(t, i)
           \/ \E u \in Offering \ {t} :
                  \E i \in Ops(t), j \in Ops(u) : Transfer(t, i, u, j)
           \/ Wait(t) \/ TurnDown(t)

Spec == Init /\ [][Next]_vars
=============================================================================
