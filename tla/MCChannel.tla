------------------------------ MODULE MCChannel ------------------------------
(* Channel for TLC: three threads, an unbuffered channel and one with a      *)
(* buffer of NBuf, on which two values are sent so that order shows.         *)
EXTENDS Channel, TLC
CONSTANTS t1, t2, t3, c0, c1, v1, v2, NBuf
ThreeThreads == {t1, t2, t3}
BothChannels == {c0, c1}
BufSizes == [c \in Channels |-> IF c = c0 THEN 0 ELSE NBuf]

Snd(c, v) == [c |-> c, op |-> "CHANSND", v |-> v]
Rcv(c) == [c |-> c, op |-> "CHANRCV", v |-> nil]
Nop(c) == [c |-> c, op |-> "CHANNOP", v |-> nil]

\* chansend, the nonblocking chanrecv, and alts: between the channels, on both
\* sides of one, a receive beside a CHANNOP, one with a repeated operation.
SomeAlts ==
    {_chanop(x.c, x.op, x.v, TRUE) : x \in {Snd(c0, v1), Snd(c1, v1)}} \cup
    {_chanop(c1, "CHANRCV", nil, FALSE)} \cup
    {[alts |-> a, canblock |-> TRUE] :
        a \in {<<Snd(c0, v1), Rcv(c1)>>, <<Rcv(c0), Snd(c1, v2)>>,
               <<Snd(c0, v1), Rcv(c0)>>, <<Nop(c0), Rcv(c1)>>}} \cup
    {[alts |-> <<Rcv(c0), Rcv(c0), Snd(c1, v1)>>, canblock |-> FALSE]}

Symmetry == Permutations(Threads)
=============================================================================
