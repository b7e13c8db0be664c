------------------------------- MODULE Channel -------------------------------
(***************************************************************************)
(* The channels of libthread (src/src/libthread/channel.c).                *)
(*                                                                         *)
(* An alt is offered by chanalt, which fills in t->alt, and then works     *)
(* between qlock(&chanlock) and qunlock(&chanlock): that section, with     *)
(* everything it calls, is one action.  The return from _threadswitch of a *)
(* thread that had to wait is another.  QLock and Coroutines say why this  *)
(* is sound.                                                               *)
(*                                                                         *)
(* An array of Alts is a record: the entries before the terminating one,   *)
(* and whether that one is CHANEND.  Alt i of thread t's array is named by *)
(* <<t, i>>.  c->asend and c->arecv are sets: their order only matters to  *)
(* rand(), which may choose any element.  Elements are opaque values.      *)
(* No caller in the repository queues an Alt whose channel is nil.         *)
(***************************************************************************)
EXTENDS Integers, Sequences, FiniteSets

CONSTANTS
    Threads, Channels, Values,
    bufsize,        \* c->bufsize
    Alts,           \* the arrays that threads pass to chanalt
    nil

ASSUME ChannelAssumption ==
    /\ bufsize \in [Channels -> Nat]
    /\ \A a \in Alts :
           /\ a.canblock \in BOOLEAN
           /\ a.alts \in Seq([c : Channels, op : {"CHANSND", "CHANRCV", "CHANNOP"},
                             v : Values \cup {nil}])
           /\ \A i \in DOMAIN a.alts : a.alts[i].op = "CHANSND" => a.alts[i].v \in Values
    /\ nil \notin Alts \cup Values

VARIABLES
    buf, off, nbuf,     \* c->buf, c->off, c->nbuf
    asend, arecv,       \* c->asend, c->arecv
    alt,                \* the argument of t's chanalt, nil outside it
    talt,               \* t->alt - a, counted from 1
    got,                \* *a[i].v after a receive
    ret,                \* what chanalt returned
    pc,                 \* "idle", at "chanlock", or in _threadswitch
    runnable,           \* threads readied and not yet back
    aborted             \* abort() or sysfatal() was called

chanvars == <<buf, off, nbuf, asend, arecv>>
vars == <<chanvars, alt, talt, got, ret, pc, runnable, aborted>>

\* chancreate
Init ==
    /\ buf = [c \in Channels |-> [i \in 0..(bufsize[c] - 1) |-> nil]]
    /\ off = [c \in Channels |-> 0]
    /\ nbuf = [c \in Channels |-> 0]
    /\ asend = [c \in Channels |-> {}]
    /\ arecv = [c \in Channels |-> {}]
    /\ alt = [t \in Threads |-> nil]
    /\ talt = [t \in Threads |-> 1]
    /\ got = [t \in Threads |-> nil]
    /\ ret = [t \in Threads |-> 0]
    /\ pc = [t \in Threads |-> "idle"]
    /\ runnable = {}
    /\ aborted = FALSE

at(t, label) == ~aborted /\ pc[t] = label

\* Entry <<t, i>>, and the entries of t that get queued.
entry(x) == alt[x[1]].alts[x[2]]
entries(t) == {<<t, i>> : i \in DOMAIN alt[t].alts}
ops(t) == {x \in entries(t) : entry(x).op # "CHANNOP"}

chanarray(c, op) == IF op = "CHANSND" THEN asend[c] ELSE arecv[c]
otherop(op) == IF op = "CHANSND" THEN "CHANRCV" ELSE "CHANSND"

----------------------------------------------------------------------------
(* The operations.  Definitions named BAD_... are the mistakes the         *)
(* properties are tried against; the specification does not use them.      *)

BAD_altcanexec_off_by_one(x) ==
    LET a == entry(x)
    IN  /\ a.op # "CHANNOP"
        /\ \/ bufsize[a.c] = 0 /\ chanarray(a.c, otherop(a.op)) # {}
           \/ bufsize[a.c] > 0 /\ a.op = "CHANSND" /\ nbuf[a.c] + 1 < bufsize[a.c]
           \/ bufsize[a.c] > 0 /\ a.op = "CHANRCV" /\ nbuf[a.c] > 0

altcanexec(x) ==
    LET a == entry(x)
    IN  /\ a.op # "CHANNOP"
        /\ \/ bufsize[a.c] = 0 /\ chanarray(a.c, otherop(a.op)) # {}
           \/ bufsize[a.c] > 0 /\ a.op = "CHANSND" /\ nbuf[a.c] < bufsize[a.c]
           \/ bufsize[a.c] > 0 /\ a.op = "CHANRCV" /\ nbuf[a.c] > 0

altqueue(t) ==
    /\ asend' = [c \in Channels |-> asend[c] \cup
           {x \in ops(t) : entry(x).op = "CHANSND" /\ entry(x).c = c}]
    /\ arecv' = [c \in Channels |-> arecv[c] \cup
           {x \in ops(t) : entry(x).op = "CHANRCV" /\ entry(x).c = c}]

BAD_altalldequeue_first_only(t) ==
    /\ asend' = [c \in Channels |-> asend[c] \ {<<t, 1>>}]
    /\ arecv' = [c \in Channels |-> arecv[c] \ {<<t, 1>>}]
    /\ UNCHANGED aborted

\* altdequeue aborts if it does not find the entry.
altalldequeue(t) ==
    /\ asend' = [c \in Channels |-> asend[c] \ entries(t)]
    /\ arecv' = [c \in Channels |-> arecv[c] \ entries(t)]
    /\ aborted' = \E x \in ops(t) : x \notin chanarray(entry(x).c, entry(x).op)

\* Sender and receiver are in s and r, sets of at most one entry.
altcopy(c, s, r) ==
    LET direct == s # {} /\ r # {} /\ nbuf[c] = 0
        v == {entry(x).v : x \in s}
        nbuf1 == IF r = {} THEN nbuf[c] ELSE nbuf[c] - 1
        off1 == IF r = {} THEN off[c] ELSE IF off[c] + 1 = bufsize[c] THEN 0 ELSE off[c] + 1
    IN  /\ got' = [t \in Threads |->
                      IF \A x \in r : x[1] # t THEN got[t]
                      ELSE IF direct THEN CHOOSE w \in v : TRUE ELSE buf[c][off[c]]]
        /\ IF direct
           THEN UNCHANGED <<buf, off, nbuf>>
           ELSE /\ off' = [off EXCEPT ![c] = off1]
                /\ nbuf' = [nbuf EXCEPT ![c] = nbuf1 + Cardinality(s)]
                /\ buf' = IF s = {} THEN buf
                          ELSE [buf EXCEPT ![c][(off1 + nbuf1) % bufsize[c]] =
                                               CHOOSE w \in v : TRUE]

BAD_altexec_forgets_which(x) ==
    LET a == entry(x)
        ar == chanarray(a.c, otherop(a.op))
        copy(y) == IF a.op = "CHANSND" THEN altcopy(a.c, {x}, y)
                                       ELSE altcopy(a.c, y, {x})
    IN  /\ \/ \E other \in ar :
                  /\ copy({other})
                  /\ altalldequeue(other[1])
                  /\ runnable' = runnable \cup {other[1]}
           \/ ar = {} /\ copy({}) /\ UNCHANGED <<asend, arecv, runnable, aborted>>
        /\ UNCHANGED talt

altexec(x) ==
    LET a == entry(x)
        ar == chanarray(a.c, otherop(a.op))
        copy(y) == IF a.op = "CHANSND" THEN altcopy(a.c, {x}, y)
                                       ELSE altcopy(a.c, y, {x})
    IN  \/ \E other \in ar :
               /\ copy({other})
               /\ altalldequeue(other[1])
               /\ talt' = [talt EXCEPT ![other[1]] = other[2]]
               /\ runnable' = runnable \cup {other[1]}
        \/ /\ ar = {}
           /\ copy({})
           /\ UNCHANGED <<asend, arecv, talt, runnable, aborted>>

\* chanalt up to its qlock(&chanlock).
chanalt(t, a) ==
    /\ at(t, "idle")
    /\ alt' = [alt EXCEPT ![t] = a]
    /\ talt' = [talt EXCEPT ![t] = 1]
    /\ ret' = [ret EXCEPT ![t] = 0]
    /\ got' = [got EXCEPT ![t] = nil]
    /\ pc' = [pc EXCEPT ![t] = "chanlock"]
    /\ UNCHANGED <<chanvars, runnable, aborted>>

return(t, i) ==
    /\ ret' = [ret EXCEPT ![t] = i]
    /\ alt' = [alt EXCEPT ![t] = nil]
    /\ pc' = [pc EXCEPT ![t] = "idle"]

can(t) == {x \in entries(t) : altcanexec(x)}

chanaltexec(t) ==
    /\ at(t, "chanlock")
    /\ \E x \in can(t) : altexec(x) /\ return(t, x[2] - 1)

chanaltnoblk(t) ==
    /\ at(t, "chanlock")
    /\ can(t) = {} /\ ~alt[t].canblock
    /\ return(t, -1)
    /\ UNCHANGED <<chanvars, talt, got, runnable, aborted>>

chanaltblock(t) ==
    /\ at(t, "chanlock")
    /\ can(t) = {} /\ alt[t].canblock
    /\ altqueue(t)
    /\ pc' = [pc EXCEPT ![t] = "switch"]
    /\ UNCHANGED <<buf, off, nbuf, alt, talt, got, ret, runnable, aborted>>

\* _threadswitch returns: t->alt is the entry that was executed.
chanaltreturn(t) ==
    /\ at(t, "switch")
    /\ t \in runnable
    /\ runnable' = runnable \ {t}
    /\ return(t, talt[t] - 1)
    /\ aborted' = (talt[t] \notin DOMAIN alt[t].alts)
    /\ UNCHANGED <<chanvars, talt, got>>

\* The array that chansend, chanrecv and their variants make.
_chanop(c, op, v, canblock) ==
    [alts |-> <<[c |-> c, op |-> op, v |-> v]>>, canblock |-> canblock]

Next == \E t \in Threads :
    \/ \E a \in Alts : chanalt(t, a)
    \/ chanaltexec(t) \/ chanaltnoblk(t) \/ chanaltblock(t) \/ chanaltreturn(t)

Spec == Init /\ [][Next]_vars

----------------------------------------------------------------------------
(* Properties.                                                             *)

Waiting == {t \in Threads : pc[t] = "switch" /\ t \notin runnable}

\* Every field has its type; off and nbuf stay within the buffer.
TypeOK ==
    /\ \A c \in Channels :
           /\ buf[c] \in [0..(bufsize[c] - 1) -> Values \cup {nil}]
           /\ off[c] = 0 \/ off[c] \in 1..(bufsize[c] - 1)
           /\ nbuf[c] \in 0..bufsize[c]
    /\ alt \in [Threads -> Alts \cup {nil}]
    /\ talt \in [Threads -> Nat]
    /\ got \in [Threads -> Values \cup {nil}]
    /\ ret \in [Threads -> Int]
    /\ pc \in [Threads -> {"idle", "chanlock", "switch"}]
    /\ runnable \subseteq {t \in Threads : pc[t] = "switch"}
    /\ aborted \in BOOLEAN

\* The arrays of the channels hold every operation of the threads that wait,
\* and nothing else: altexec can never pick the entry of a thread that was
\* already served (its Alts are on a stack that may be gone), and
\* altdequeue's "cannot find self" is unreachable.
ArraysExact ==
    /\ TypeOK /\ ~aborted
    /\ \A c \in Channels, op \in {"CHANSND", "CHANRCV"} :
        chanarray(c, op) = {x \in UNION {ops(t) : t \in Waiting} :
                               entry(x).c = c /\ entry(x).op = op}

\* No thread waits while its operation could proceed: receivers wait only on
\* an empty channel, senders on a full one, and on an unbuffered channel two
\* different threads never wait for each other.
NoMissedMatch == \A c \in Channels :
    /\ arecv[c] # {} => nbuf[c] = 0
    /\ asend[c] # {} => nbuf[c] = bufsize[c]
    /\ \A x \in asend[c], y \in arecv[c] : x[1] = y[1]

\* To their users channels are the ones of Alternation: each chanalt carries
\* out exactly one of its operations, a value sent is received once and in
\* order (the ring buffer and the "receive and then send" of altcopy
\* included), and chanalt returns the index of the operation that was
\* carried out, even if another thread did it.
Abstract == INSTANCE Alternation WITH
    queue <- [c \in Channels |->
                 [i \in 1..nbuf[c] |-> buf[c][(off[c] + i - 1) % bufsize[c]]]],
    offer <- [t \in Threads |-> IF t \in runnable THEN nil ELSE alt[t]],
    waiting <- Waiting,
    index <- [t \in Threads |-> IF t \in runnable THEN talt[t] - 1 ELSE ret[t]],
    value <- got
ImplementsAlternation == Abstract!Spec
=============================================================================
