--------------------------------- MODULE Mux ---------------------------------
(***************************************************************************)
(* The RPC multiplexor (src/src/libmux/mux.c, with _muxrecv and _muxsend   *)
(* of io.c, without the optional procs of muxprocs).                       *)
(*                                                                         *)
(* Many threads share one connection.  Each call takes a tag and joins the *)
(* list mux->sleep, sends its request, and waits.  One of the waiting      *)
(* calls is the muxer: it receives for everybody, and when its own reply   *)
(* has come it elects another.  A call started with muxrpcstart (async)    *)
(* does not wait, it polls.                                                *)
(*                                                                         *)
(* A member of Rpcs is the address of a Muxrpc, and so a call: at "idle"   *)
(* it is free, and a new call may be given any free one.  A section with   *)
(* mux->lk held, up to the qunlock or rsleep that ends it, is one action,  *)
(* except that _muxsend and _muxrecv wait for outlk and inlk with lk held: *)
(* then lk names the call.  The connection and the server are external:    *)
(* they answer every request once, in any order, may send stray tags, and  *)
(* may close the connection.  Failing allocations are left out.            *)
(***************************************************************************)
EXTENDS Integers, Sequences, FiniteSets, FiniteSetsExt, Functions

CONSTANTS
    Rpcs,
    NTags,          \* mux->maxtag - mux->mintag
    MayAsync,       \* the calls that may be made with muxrpcstart
    SendMayFail,    \* the kinds of call (async or not) for which mux->send may return -1
    MaxStray,       \* bound: replies with a bad tag on their way at a time
    Watched,        \* the calls Returns is about: one of each kind is enough
    nil

ASSUME MuxAssumption ==
    /\ NTags \in Nat \ {0}
    /\ MayAsync \subseteq Rpcs /\ Watched \subseteq Rpcs
    /\ SendMayFail \subseteq BOOLEAN
    /\ MaxStray \in Nat
    /\ IsFiniteSet(Rpcs)
    /\ nil \notin {"eof", "none"} /\ Rpcs \cap {nil, "eof", "none"} = {}

VARIABLES
    wait, nwait, freetag,   \* mux->wait (mwait is its length), nwait, freetag
    muxer,                  \* mux->muxer
    sleep,                  \* mux->sleep.next, ...
    tagrend,                \* the waiting list of mux->tagrend
    lk, inlk, outlk,        \* owners of the QLocks (see above for lk)
    tag, async, p,          \* fields of the Muxrpc
    woken,                  \* calls that rwakeup has woken
    pc,                     \* where each call is
    hand,                   \* what the muxer received and has yet to hand on
    got,                    \* what the call returned
    reqs, replies, eof,     \* the connection
    aborted

tagvars == <<wait, nwait, freetag, tagrend>>
connvars == <<reqs, replies, eof>>
vars == <<tagvars, muxer, sleep, lk, inlk, outlk, tag, async, p, woken, pc,
          hand, got, connvars, aborted>>

PC == {"idle", "tagwait", "send", "outlk", "sending", "sendfailed", "wait",
       "asleep", "started", "recv", "inlk", "recving", "received"}

mwait == Len(wait)

\* A reply names its tag and the call whose request it answers.
Reply(r) == [tag |-> tag[r], of |-> r]
stray == [tag |-> -1, of |-> nil]
eofmsg == [tag |-> -1, of |-> "eof"]
nopacket == [tag |-> -1, of |-> "none"]

Init ==
    /\ wait = <<>> /\ nwait = 0 /\ freetag = 0
    /\ muxer = nil
    /\ sleep = <<>>
    /\ tagrend = <<>>
    /\ lk = nil /\ inlk = nil /\ outlk = nil
    /\ tag = [r \in Rpcs |-> 0]
    /\ async = [r \in Rpcs |-> FALSE]
    /\ p = [r \in Rpcs |-> nil]
    /\ woken = {}
    /\ pc = [r \in Rpcs |-> "idle"]
    /\ hand = [r \in Rpcs |-> nopacket]
    /\ got = [r \in Rpcs |-> nil]
    /\ reqs = {} /\ replies = <<>> /\ eof = FALSE
    /\ aborted = FALSE

at(r, label) == ~aborted /\ pc[r] = label
goto(r, label) == pc' = [pc EXCEPT ![r] = label]

\* r is at label and enters a section with mux->lk held.
locked(r, label) == at(r, label) /\ lk = nil

----------------------------------------------------------------------------
(* Tags.  Definitions named BAD_... are the mistakes the properties are    *)
(* tried against; the specification does not use them.                     *)

enqueue(r) == sleep' = <<r>> \o sleep
dequeued(r) ==
    LET i == CHOOSE i \in DOMAIN sleep : sleep[i] = r
    IN  SubSeq(sleep, 1, i - 1) \o SubSeq(sleep, i + 1, Len(sleep))

\* The first free tag at or above f, or else the first one below.
freeslot(w, f) ==
    LET free == {i \in 0..(Len(w) - 1) : w[i + 1] = nil}
        up == {i \in free : i >= f}
    IN  IF up # {} THEN Min(up) ELSE Min(free)

BAD_taketag_unchecked(r, w, f) ==
    /\ wait' = [w EXCEPT ![f + 1] = r]
    /\ nwait' = nwait + 1
    /\ freetag' = f
    /\ tag' = [tag EXCEPT ![r] = f]
    /\ enqueue(r)
    /\ goto(r, "send")

taketag(r, w, f) ==
    LET i == freeslot(w, f)
    IN  /\ wait' = [w EXCEPT ![i + 1] = r]
        /\ nwait' = nwait + 1
        /\ freetag' = f
        /\ tag' = [tag EXCEPT ![r] = i]
        /\ enqueue(r)
        /\ goto(r, "send")

doubled == wait \o [i \in 1..(IF mwait = 0 THEN 1 ELSE mwait) |-> nil]

\* gettag, and the enqueue that follows it.
gettag(r) ==
    \/ /\ nwait < mwait
       /\ taketag(r, wait, freetag)
       /\ UNCHANGED tagrend
    \/ /\ nwait = mwait /\ mwait < NTags
       /\ taketag(r, doubled, mwait)
       /\ UNCHANGED tagrend
    \/ /\ nwait = mwait /\ mwait >= NTags
       /\ tagrend' = Append(tagrend, r)
       /\ goto(r, "tagwait")
       /\ UNCHANGED <<wait, nwait, freetag, tag, sleep>>

BAD_puttag_no_wakeup(r, S) ==
    /\ aborted' = (wait[tag[r] + 1] # r)
    /\ wait' = [wait EXCEPT ![tag[r] + 1] = nil]
    /\ nwait' = nwait - 1
    /\ freetag' = tag[r]
    /\ tag' = [tag EXCEPT ![r] = 0]
    /\ async' = [async EXCEPT ![r] = FALSE]
    /\ p' = [p EXCEPT ![r] = nil]
    /\ woken' = (woken \ {r}) \cup S
    /\ UNCHANGED tagrend

\* puttag, with the wakeups S that the rest of the section makes.  The
\* fields of a freed Muxrpc are reset, for nobody reads them.
puttag(r, S) ==
    /\ aborted' = (wait[tag[r] + 1] # r)
    /\ wait' = [wait EXCEPT ![tag[r] + 1] = nil]
    /\ nwait' = nwait - 1
    /\ freetag' = tag[r]
    /\ tag' = [tag EXCEPT ![r] = 0]
    /\ async' = [async EXCEPT ![r] = FALSE]
    /\ p' = [p EXCEPT ![r] = nil]
    /\ IF tagrend = <<>>
       THEN tagrend' = <<>> /\ woken' = (woken \ {r}) \cup S
       ELSE /\ tagrend' = Tail(tagrend)
            /\ woken' = (woken \ {r}) \cup S \cup {Head(tagrend)}

----------------------------------------------------------------------------
(* Making a call.                                                          *)

\* allocmuxrpc and the first section of tagmuxrpc.
muxrpcstart(r, a) ==
    /\ locked(r, "idle")
    /\ a => r \in MayAsync
    /\ async' = [async EXCEPT ![r] = a]
    /\ got' = [got EXCEPT ![r] = nil]
    /\ gettag(r)
    /\ UNCHANGED <<muxer, lk, inlk, outlk, p, woken, hand, connvars, aborted>>

tagwake(r) ==
    /\ locked(r, "tagwait")
    /\ r \in woken
    /\ woken' = woken \ {r}
    /\ gettag(r)
    /\ UNCHANGED <<muxer, lk, inlk, outlk, async, p, hand, got, connvars, aborted>>

\* _muxsend: qlock(&mux->outlk) with lk held.
_muxsend(r) ==
    /\ at(r, "send") \/ at(r, "outlk")
    /\ lk \in {nil, r}
    /\ pc[r] = "outlk" => outlk = nil
    /\ IF outlk = nil
       THEN outlk' = r /\ lk' = nil /\ goto(r, "sending")
       ELSE lk' = r /\ goto(r, "outlk") /\ UNCHANGED outlk
    /\ UNCHANGED <<tagvars, muxer, sleep, inlk, tag, async, p, woken, hand, got,
                   connvars, aborted>>

\* mux->send
send(r) ==
    /\ at(r, "sending")
    /\ outlk' = nil
    /\ \/ /\ reqs' = IF eof THEN reqs ELSE reqs \cup {Reply(r)}
          /\ goto(r, IF async[r] THEN "started" ELSE "wait")
       \/ /\ async[r] \in SendMayFail
          /\ goto(r, "sendfailed")
          /\ UNCHANGED reqs
    /\ UNCHANGED <<tagvars, muxer, sleep, lk, inlk, tag, async, p, woken, hand,
                   got, replies, eof, aborted>>

sendfailed(r) ==
    /\ locked(r, "sendfailed")
    /\ sleep' = dequeued(r)
    /\ puttag(r, {})
    /\ goto(r, "idle")
    /\ UNCHANGED <<muxer, lk, inlk, outlk, hand, got, connvars>>

----------------------------------------------------------------------------
(* Waiting for the reply.                                                  *)

\* puttag and return, as the last things in the section.
finish(r, v, S) ==
    /\ puttag(r, S)
    /\ got' = [got EXCEPT ![r] = v]
    /\ goto(r, "idle")

\* muxrpc from its qlock, or from the rsleep in its loop.
muxrpc(r) ==
    /\ locked(r, "wait") \/ (locked(r, "asleep") /\ r \in woken)
    /\ \/ /\ p[r] = nil /\ muxer \notin {nil, r}
          /\ goto(r, "asleep")
          /\ woken' = woken \ {r}
          /\ UNCHANGED <<tagvars, muxer, tag, async, p, got, aborted>>
       \/ /\ p[r] = nil /\ muxer \in {nil, r}
          /\ muxer' = r
          /\ goto(r, "recv")
          /\ woken' = woken \ {r}
          /\ UNCHANGED <<tagvars, tag, async, p, got, aborted>>
       \/ p[r] # nil /\ finish(r, p[r], {}) /\ UNCHANGED muxer
    /\ UNCHANGED <<sleep, lk, inlk, outlk, hand, connvars>>

\* _muxrecv: qlock(&mux->inlk) with lk held.
_muxrecv(r) ==
    /\ at(r, "recv") \/ at(r, "inlk")
    /\ lk \in {nil, r}
    /\ pc[r] = "inlk" => inlk = nil
    /\ IF inlk = nil
       THEN inlk' = r /\ lk' = nil /\ goto(r, "recving")
       ELSE lk' = r /\ goto(r, "inlk") /\ UNCHANGED inlk
    /\ UNCHANGED <<tagvars, muxer, sleep, outlk, tag, async, p, woken, hand, got,
                   connvars, aborted>>

\* mux->recv for muxrpc, mux->nbrecv for muxrpccanfinish.
recv(r) ==
    /\ at(r, "recving")
    /\ inlk' = nil
    /\ \/ /\ replies # <<>>
          /\ hand' = [hand EXCEPT ![r] = Head(replies)]
          /\ replies' = Tail(replies)
       \/ /\ replies = <<>> /\ eof
          /\ hand' = [hand EXCEPT ![r] = eofmsg]
          /\ UNCHANGED replies
       \/ /\ replies = <<>> /\ ~eof /\ async[r]
          /\ hand' = [hand EXCEPT ![r] = nopacket]
          /\ UNCHANGED replies
    /\ goto(r, "received")
    /\ UNCHANGED <<tagvars, muxer, sleep, lk, outlk, tag, async, p, woken, got,
                   reqs, eof, aborted>>

\* rwakeup(&r->r): wakes r if it is in the rsleep of muxrpc.
rwakeup(r) == {r} \cap {s \in Rpcs : pc[s] = "asleep"}

BAD_candidate_async(list) == IF list = <<>> THEN 0 ELSE 1

\* The place of the first call on the list that is not async, 0 if all are.
candidate(list) ==
    LET calls == {i \in DOMAIN list : ~async[list[i]]}
    IN  IF calls = {} THEN 0 ELSE Min(calls)

\* electmuxer, on the list it finds, and whom it wakes.
electmuxer(list) ==
    muxer' = IF candidate(list) = 0 THEN nil ELSE list[candidate(list)]

BAD_elected_not_woken(list) == {}

elected(list) ==
    IF candidate(list) = 0 THEN {} ELSE rwakeup(list[candidate(list)])

BAD_addressee_first(m) ==
    IF m.tag \in 0..(mwait - 1) /\ sleep # <<>> THEN Head(sleep) ELSE nil

\* The call muxmsgandqlock hands m to, or nil for a bad tag.
addressee(m) ==
    IF m.tag \in 0..(mwait - 1) /\ wait[m.tag + 1] \in Range(sleep)
    THEN wait[m.tag + 1] ELSE nil

\* muxmsgandqlock with a message for another call, or for nobody, after
\* which the loop of muxrpc or muxrpccanfinish goes round.
muxmsgandqlock(r) ==
    LET r2 == addressee(hand[r])
    IN  /\ locked(r, "received")
        /\ hand[r] \notin {eofmsg, nopacket}
        /\ r2 # r
        /\ IF r2 = nil
           THEN UNCHANGED <<p, sleep, woken>>
           ELSE /\ p' = [p EXCEPT ![r2] = hand[r].of]
                /\ sleep' = dequeued(r2)
                /\ woken' = woken \cup rwakeup(r2)
        /\ hand' = [hand EXCEPT ![r] = nopacket]
        /\ goto(r, "recv")
        /\ UNCHANGED <<tagvars, muxer, lk, inlk, outlk, tag, async, got, connvars,
                       aborted>>

\* muxmsgandqlock with the muxer's own reply: it elects another and is done.
\* muxrpc and muxrpccanfinish do the same here.
muxed(r) ==
    /\ locked(r, "received")
    /\ addressee(hand[r]) = r
    /\ sleep' = dequeued(r)
    /\ electmuxer(sleep')
    /\ finish(r, hand[r].of, elected(sleep'))
    /\ hand' = [hand EXCEPT ![r] = nopacket]
    /\ UNCHANGED <<lk, inlk, outlk, connvars>>

\* muxrpc: "eof -- just give up and pass the buck"
muxeof(r) ==
    /\ locked(r, "received") /\ ~async[r]
    /\ hand[r] = eofmsg
    /\ sleep' = dequeued(r)
    /\ electmuxer(sleep')
    /\ finish(r, "eof", elected(sleep'))
    /\ hand' = [hand EXCEPT ![r] = nopacket]
    /\ UNCHANGED <<lk, inlk, outlk, connvars>>

\* muxrpccanfinish up to its first _muxrecv, or to the end.  A return of 1
\* with a nil packet is recorded in got as "eof", a return of 0 as "none".
muxrpccanfinish(r) ==
    /\ locked(r, "started")
    /\ \/ /\ p[r] # nil
          /\ finish(r, p[r], {})
          /\ UNCHANGED muxer
       \/ /\ p[r] = nil /\ muxer = nil
          /\ muxer' = r
          /\ goto(r, "recv")
          /\ UNCHANGED <<tagvars, tag, async, p, woken, got, aborted>>
       \/ /\ p[r] = nil /\ muxer # nil
          /\ got' = [got EXCEPT ![r] = "eof"]
          /\ UNCHANGED <<tagvars, tag, async, p, woken, pc, muxer, aborted>>
    /\ UNCHANGED <<sleep, lk, inlk, outlk, hand, connvars>>

\* muxrpccanfinish when _muxrecv gave it no packet: r stays on the list.
cannotfinish(r) ==
    /\ locked(r, "received") /\ async[r]
    /\ hand[r] \in {eofmsg, nopacket}
    /\ electmuxer(sleep)
    /\ woken' = woken \cup elected(sleep)
    /\ got' = [got EXCEPT ![r] = hand[r].of]
    /\ hand' = [hand EXCEPT ![r] = nopacket]
    /\ goto(r, "started")
    /\ UNCHANGED <<tagvars, sleep, lk, inlk, outlk, tag, async, p, connvars, aborted>>

----------------------------------------------------------------------------
(* The server.                                                             *)

answer(m) ==
    /\ ~eof /\ m \in reqs
    /\ reqs' = reqs \ {m}
    /\ replies' = Append(replies, m)
    /\ UNCHANGED <<tagvars, muxer, sleep, lk, inlk, outlk, tag, async, p, woken, pc,
                   hand, got, eof, aborted>>

misanswer ==
    /\ ~eof /\ Len(SelectSeq(replies, LAMBDA m : m = stray)) < MaxStray
    /\ replies' = Append(replies, stray)
    /\ UNCHANGED <<tagvars, muxer, sleep, lk, inlk, outlk, tag, async, p, woken, pc,
                   hand, got, reqs, eof, aborted>>

close ==
    /\ ~eof
    /\ eof' = TRUE
    /\ UNCHANGED <<tagvars, muxer, sleep, lk, inlk, outlk, tag, async, p, woken, pc,
                   hand, got, reqs, replies, aborted>>

----------------------------------------------------------------------------
Section(r) ==
    \/ tagwake(r)
    \/ _muxsend(r)
    \/ sendfailed(r)
    \/ muxrpc(r)
    \/ _muxrecv(r)
    \/ muxmsgandqlock(r)
    \/ muxed(r)
    \/ muxeof(r)
    \/ cannotfinish(r)

Next ==
    \/ \E r \in Rpcs :
          \/ \E a \in BOOLEAN : muxrpcstart(r, a)
          \/ Section(r)
          \/ send(r)
          \/ recv(r)
          \/ muxrpccanfinish(r)
    \/ \E m \in reqs : answer(m)
    \/ misanswer
    \/ close

Spec == Init /\ [][Next]_vars

\* qlock serves its waiters in order, so a thread that wants lk gets it; a
\* send does not block for ever; the server answers or closes.  Nobody need
\* poll, or make another call.
Fairness ==
    \A r \in Rpcs :
        /\ SF_vars(Section(r)) /\ WF_vars(send(r)) /\ WF_vars(recv(r))
        /\ WF_vars(\E m \in reqs : m.of = r /\ answer(m))

FairSpec == Spec /\ Fairness

----------------------------------------------------------------------------
(* Properties.                                                             *)

holders == {r \in Rpcs : pc[r] \notin {"idle", "tagwait"}}
muxing == {r \in Rpcs : pc[r] \in {"recv", "inlk", "recving", "received"}}

\* The shape of the Mux and of the Muxrpcs; mwait stays below twice the
\* number of tags it was given.
TypeOK ==
    /\ wait \in Seq(Rpcs \cup {nil}) /\ mwait < 2 * NTags
    /\ nwait \in 0..mwait /\ freetag \in Nat
    /\ muxer \in Rpcs \cup {nil}
    /\ sleep \in Seq(Rpcs) /\ tagrend \in Seq(Rpcs)
    /\ {lk, inlk, outlk} \subseteq Rpcs \cup {nil}
    /\ tag \in [Rpcs -> Nat]
    /\ async \in [Rpcs -> BOOLEAN]
    /\ p \in [Rpcs -> Rpcs \cup {nil}]
    /\ woken \subseteq Rpcs
    /\ pc \in [Rpcs -> PC]
    /\ got \in [Rpcs -> Rpcs \cup {nil, "eof", "none"}]
    /\ \A m \in reqs : m.of \in Rpcs
    /\ {eof, aborted} \subseteq BOOLEAN

\* The table mux->wait holds exactly the calls in progress, each under its
\* own tag, and nwait counts them: gettag always finds the free tag nwait
\* promises ("nwait botch" is unreachable), no tag is lost or shared, and
\* the assertion of puttag holds.  The list mux->sleep holds exactly the
\* calls whose reply has not come, once each: muxmsgandqlock never takes a
\* live call for a bad tag, and electmuxer never walks over a freed Muxrpc.
TagsExact ==
    /\ TypeOK /\ ~aborted
    /\ \A r \in holders : tag[r] < mwait /\ wait[tag[r] + 1] = r
    /\ \A i \in 1..mwait : wait[i] # nil => wait[i] \in holders /\ tag[wait[i]] = i - 1
    /\ nwait = Cardinality(holders)
    /\ Range(sleep) = {r \in holders : p[r] = nil}
    /\ IsInjective(sleep)

\* A call is only ever given the reply to its own request, whichever call
\* received it (muxmsgandqlock).  mux(3): "Libmux will arrange that only one
\* call to recv or nbrecv is active at a time".  More: only the muxer
\* receives, so nobody ever waits for inlk holding lk.
OwnReply ==
    /\ \A r \in muxing : muxer = r
    /\ \A r \in Rpcs :
          /\ pc[r] # "inlk"
          /\ r \in holders => p[r] \in {nil, r}
          /\ got[r] \in {nil, r, "eof", "none"}

\* Calls wait for a tag (gettag, puttag's rwakeup) only while every tag is
\* in use or enough of the waiters to use the free ones have been woken.
NoLostTag ==
    tagrend # <<>> =>
        mwait - nwait <= Cardinality({r \in woken : pc[r] = "tagwait"})

\* The muxer is a call that will receive: it is receiving, or it is awake
\* and on its way there, never a call that has returned; and with no muxer
\* nobody sleeps (electmuxer: "if there is anyone else sleeping, wake them
\* to mux").
MuxerAlive ==
    IF muxer = nil
    THEN \A r \in Rpcs : pc[r] = "asleep" => r \in woken
    ELSE \/ muxer \in muxing
         \/ /\ ~async[muxer]
            /\ \/ pc[muxer] \in {"send", "outlk", "sending", "sendfailed", "wait"}
               \/ pc[muxer] = "asleep" /\ muxer \in woken

\* Every muxrpc that has its tag returns with its reply, unless the
\* connection is closed: the role of muxer never rests with a call that
\* does not receive (muxrpc, electmuxer).  Calls of one kind are alike, so
\* what holds of one holds of all.
Returns ==
    \A r \in Watched :
        (pc[r] \in {"send", "wait"} /\ ~async[r]) ~> (pc[r] = "idle" \/ eof)

=============================================================================
