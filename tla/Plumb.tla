-------------------------------- MODULE Plumb --------------------------------
(***************************************************************************)
(* One port of the plumber (src/src/cmd/plumb/fsys.c).                     *)
(*                                                                         *)
(* Programs send messages to the port and read them from fids open on it:  *)
(* each message goes to every fid open at the time, in as many reads as    *)
(* it takes, and a message for a port nobody has open may be held for the  *)
(* first fid that is opened.  Each proc of fsysproc takes the next request *)
(* off the pipe, with readlock held, and then works on it together with    *)
(* the others; what it does with the queue lock held is one action, and so *)
(* is writing its reply after the lock is released.                        *)
(*                                                                         *)
(* The fids are walked to the port already, and each has a Fid of its own  *)
(* (newfid).  A message is sent in one write and matched by a rule or not  *)
(* (external).  The client is external and keeps to 9P: it reads a fid it  *)
(* has open, with as many reads at a time as it has tags, flushes a read   *)
(* whenever it likes, waits for the Rflush before it uses the tag again,   *)
(* and clunks a fid when it has no read on it.                             *)
(***************************************************************************)
EXTENDS Integers, SequencesExt, FiniteSetsExt

CONSTANTS
    Fids, Senders, Msgs,
    Tags,           \* bound: the tags the client has for its reads
    Size,           \* npack of each message, in units
    Counts,         \* what a read may ask for, in units
    Procs,          \* bound: the procs fsysproc has started
    MaxPipe,        \* bound: the requests in the pipe
    MaxReads,       \* bound: the reads sent and not answered, flushed ones too
    nil

ASSUME PlumbAssumption ==
    /\ Size \in [Msgs -> Nat \ {0}]
    /\ Counts \subseteq Nat \ {0}
    /\ MaxPipe \in Nat \ {0} /\ MaxReads \in Nat
    /\ nil \notin Fids \cup Msgs

VARIABLES
    inq,                    \* requests in the pipe
    work, reply,            \* the request each proc has taken, or has to answer
    fopen, nopen,           \* d->fopen and d->nopen
    sendq, readq, holdq,    \* d->sendq, d->readq and d->holdq
    open, offset,           \* fields of the Fid
    cfid, snd,              \* client: its fids and its sends
    rd, flushing,           \* client: the fid it reads with each tag; tags it flushes
    owed,                   \* what each open fid has still to be given
    mixed                   \* fids that had two reads in readq since they were opened

queuevars == <<fopen, nopen, sendq, readq, holdq, open, offset>>
clientvars == <<cfid, snd, rd, flushing>>
vars == <<inq, work, reply, queuevars, clientvars, owed, mixed>>

\* The units of message m.
Units(m) == [i \in 1 .. Size[m] |-> <<m, i>>]

Init ==
    /\ inq = <<>>
    /\ work = [p \in Procs |-> nil] /\ reply = [p \in Procs |-> nil]
    /\ fopen = <<>> /\ nopen = 0
    /\ sendq = <<>> /\ readq = <<>> /\ holdq = <<>>
    /\ open = [f \in Fids |-> FALSE] /\ offset = [f \in Fids |-> 0]
    /\ cfid = [f \in Fids |-> "closed"]
    /\ snd = [s \in Senders |-> nil]
    /\ rd = [t \in Tags |-> nil] /\ flushing = {}
    /\ owed = [f \in Fids |-> <<>>] /\ mixed = {}

-----------------------------------------------------------------------------
(* The client.                                                             *)

Request(type, f, t, n, m) ==
    [type |-> type, fid |-> f, tag |-> t, count |-> n, msg |-> m]
Send(r) ==
    /\ Len(inq) < MaxPipe
    /\ inq' = Append(inq, r)
    /\ UNCHANGED <<work, reply, queuevars, owed, mixed>>

SendOpen(f) ==
    /\ cfid[f] = "closed"
    /\ cfid' = [cfid EXCEPT ![f] = "opening"]
    /\ Send(Request("open", f, nil, 0, nil)) /\ UNCHANGED <<snd, rd, flushing>>

\* The reads with tag t that a proc has still to work on.
Unqueued(t) ==
    {i \in DOMAIN inq : inq[i].type = "read" /\ inq[i].tag = t}
    \cup {p \in Procs : work[p] # nil /\ work[p].type = "read" /\ work[p].tag = t}
Reads == Len(readq) + FoldSet(LAMBDA t, n : n + Cardinality(Unqueued(t)), 0, Tags)

SendRead(f, t, n) ==
    /\ cfid[f] = "open" /\ rd[t] = nil /\ Reads < MaxReads
    /\ rd' = [rd EXCEPT ![t] = f]
    /\ Send(Request("read", f, t, n, nil)) /\ UNCHANGED <<cfid, snd, flushing>>

SendFlush(t) ==
    /\ rd[t] # nil /\ t \notin flushing
    /\ flushing' = flushing \cup {t}
    /\ Send(Request("flush", nil, t, 0, nil)) /\ UNCHANGED <<cfid, snd, rd>>

SendClunk(f) ==
    /\ cfid[f] = "open" /\ \A t \in Tags : rd[t] # f
    /\ cfid' = [cfid EXCEPT ![f] = "closing"]
    /\ Send(Request("clunk", f, nil, 0, nil)) /\ UNCHANGED <<snd, rd, flushing>>

\* Messages with the same contents are told apart while one is in the system.
InUse(m) ==
    \/ \E s \in Senders : snd[s] = m
    \/ \E i \in 1 .. Len(sendq) : sendq[i].msg = m
    \/ \E i \in 1 .. Len(holdq) : holdq[i] = m
SendMsg(s, m) ==
    /\ snd[s] = nil /\ ~InUse(m)
    /\ snd' = [snd EXCEPT ![s] = m]
    /\ Send(Request("write", s, nil, 0, m)) /\ UNCHANGED <<cfid, rd, flushing>>

-----------------------------------------------------------------------------
(* The queues of the port.                                                 *)

\* Mutant: the send is put first.
BAD_queuesend(q, m) ==
    <<[msg |-> m, fid |-> fopen, nleft |-> nopen]>> \o q

queuesend(q, m) ==
    Append(q, [msg |-> m, fid |-> fopen, nleft |-> nopen])

\* One send s of drainqueue: each of its fids with a read waiting is given the
\* next part of the message.  d is the state of the loop.
drain1(d, s) ==
    LET first(f) == CHOOSE i \in 1 .. Len(d.readq) :
                        /\ d.readq[i].fid = f
                        /\ \A j \in 1 .. i - 1 : d.readq[j].fid # f
        F == {f \in ToSet(s.fid) \ {nil} : \E i \in 1 .. Len(d.readq) : d.readq[i].fid = f}
        n(f) == Min({Size[s.msg] - d.offset[f], d.readq[first(f)].count})
        done == {f \in F : d.offset[f] + n(f) >= Size[s.msg]}
        rest == [s EXCEPT !.fid = [i \in DOMAIN @ |-> IF @[i] \in done THEN nil ELSE @[i]],
                          !.nleft = @ - Cardinality(done)]
    IN  [readq |-> LET gone == {first(f) : f \in F}
                       keep(i) == i \notin gone
                   IN  [k \in 1 .. Len(d.readq) - Cardinality(gone) |->
                          d.readq[CHOOSE i \in 1 .. Len(d.readq) :
                                    keep(i) /\ Cardinality({j \in 1 .. i : keep(j)}) = k]],
         offset |-> [f \in Fids |-> IF f \in done THEN 0
                                    ELSE IF f \in F THEN d.offset[f] + n(f) ELSE d.offset[f]],
         sendq |-> IF rest.nleft = 0 THEN d.sendq ELSE Append(d.sendq, rest),
         given |-> [f \in Fids |-> IF f \in F
                                   THEN d.given[f] \o SubSeq(Units(s.msg), d.offset[f] + 1, d.offset[f] + n(f))
                                   ELSE d.given[f]],
         answered |-> d.answered \cup {d.readq[first(f)].tag : f \in F}]

\* drainqueue with sendq S and readq R.
drainqueue(S, R) ==
    FoldLeft(drain1, [readq |-> R, offset |-> offset, sendq |-> <<>>,
                      given |-> [f \in Fids |-> <<>>], answered |-> {}], S)

\* The replies drainqueue writes, as the client sees them: a read is over, unless
\* it is being flushed.  What is owed is what is not given yet; it is not followed
\* any more once two reads of the fid are in the queue.
Drained(S, R, o) ==
    LET d == drainqueue(S, R)
        crowded(f) == Cardinality({i \in DOMAIN R : R[i].fid = f}) > 1
    IN  /\ sendq' = d.sendq /\ readq' = d.readq /\ offset' = d.offset
        /\ rd' = [t \in Tags |-> IF t \in d.answered \ flushing THEN nil ELSE rd[t]]
        /\ mixed' = mixed \cup {f \in Fids : open[f] /\ crowded(f)}
        /\ owed' = [f \in Fids |-> CASE f \in mixed' -> <<>>
                                     [] IsPrefix(d.given[f], o[f]) ->
                                          SubSeq(o[f], Len(d.given[f]) + 1, Len(o[f]))
                                     [] OTHER -> <<"garbled">>]

-----------------------------------------------------------------------------
(* The procs.                                                              *)

\* fsysproc: read9pmsg with readlock held.  It starts another proc whenever none
\* waits to read, so there is always one to take the next request.
fsysproc(p) ==
    /\ work[p] = nil /\ reply[p] = nil /\ inq # <<>>
    /\ work' = [work EXCEPT ![p] = Head(inq)]
    /\ inq' = Tail(inq)
    /\ UNCHANGED <<reply, queuevars, clientvars, owed, mixed>>

\* p works on r with the queue lock held, and will answer it after that.
Working(p, r, type) ==
    /\ work[p] # nil /\ r = work[p] /\ r.type = type
    /\ work' = [work EXCEPT ![p] = nil]
    /\ reply' = [reply EXCEPT ![p] = r]
    /\ UNCHANGED <<inq, cfid, snd, flushing>>

\* queueheld: the messages that were held are sent to the fids now open.
fsysopen(p, r) ==
    /\ Working(p, r, "open")
    /\ open' = [open EXCEPT ![r.fid] = TRUE]
    /\ nopen' = nopen + 1
    /\ fopen' = <<r.fid>> \o fopen
    /\ sendq' = sendq \o [i \in DOMAIN holdq |->
                            [msg |-> holdq[i], fid |-> fopen', nleft |-> nopen']]
    /\ holdq' = <<>>
    /\ owed' = [owed EXCEPT ![r.fid] = FlattenSeq([i \in DOMAIN holdq |-> Units(holdq[i])])]
    /\ mixed' = mixed \ {r.fid}
    /\ UNCHANGED <<readq, offset, rd>>

\* Mutant: the read is queued and the queues are not drained.
BAD_fsysread(p, r) ==
    /\ work[p] # nil /\ r = work[p] /\ r.type = "read"
    /\ work' = [work EXCEPT ![p] = nil]
    /\ readq' = <<[fid |-> r.fid, tag |-> r.tag, count |-> r.count]>> \o readq
    /\ UNCHANGED <<sendq, offset, rd, owed, mixed>>
    /\ UNCHANGED <<inq, reply, fopen, nopen, holdq, open, cfid, snd, flushing>>

\* queueread puts the read first; drainqueue answers what it can.
fsysread(p, r) ==
    /\ work[p] # nil /\ r = work[p] /\ r.type = "read"
    /\ work' = [work EXCEPT ![p] = nil]
    /\ Drained(sendq, <<[fid |-> r.fid, tag |-> r.tag, count |-> r.count]>> \o readq, owed)
    /\ UNCHANGED <<inq, reply, fopen, nopen, holdq, open, cfid, snd, flushing>>

\* dispose, for a message to the port.  Whether it is held is up to the rule.
dispose(p, r) ==
    /\ Working(p, r, "write")
    /\ IF nopen = 0
       THEN /\ holdq' \in {holdq, Append(holdq, r.msg)}
            /\ UNCHANGED <<sendq, readq, offset, rd, owed, mixed>>
       ELSE /\ Drained(queuesend(sendq, r.msg), readq,
                       [f \in Fids |-> IF open[f] THEN owed[f] \o Units(r.msg) ELSE owed[f]])
            /\ UNCHANGED holdq
    /\ UNCHANGED <<fopen, nopen, open>>

\* flushqueue takes the first read with the old tag off readq, if there is one.
fsysflush(p, r) ==
    /\ Working(p, r, "flush")
    /\ LET i == SelectInSeq(readq, LAMBDA x : x.tag = r.tag)
       IN  readq' = IF i = 0 THEN readq ELSE RemoveAt(readq, i)
    /\ UNCHANGED <<fopen, nopen, sendq, holdq, open, offset, rd, owed, mixed>>

\* removesenders: no message waits for a fid that is closed.
removesenders(f) ==
    LET drop(s) == IF f \in ToSet(s.fid)
                   THEN [s EXCEPT !.fid = [i \in DOMAIN @ |-> IF @[i] = f THEN nil ELSE @[i]],
                                  !.nleft = @ - 1]
                   ELSE s
    IN  SelectSeq([i \in DOMAIN sendq |-> drop(sendq[i])], LAMBDA s : s.nleft # 0)

fsysclunk(p, r) ==
    /\ Working(p, r, "clunk")
    /\ IF open[r.fid]
       THEN /\ nopen' = nopen - 1
            /\ fopen' = SelectSeq(fopen, LAMBDA g : g # r.fid)
            /\ sendq' = removesenders(r.fid)
       ELSE UNCHANGED <<nopen, fopen, sendq>>
    /\ open' = [open EXCEPT ![r.fid] = FALSE]
    /\ offset' = [offset EXCEPT ![r.fid] = 0]
    /\ owed' = [owed EXCEPT ![r.fid] = <<>>]
    /\ UNCHANGED <<readq, holdq, rd, mixed>>

\* The reply is written after the queue lock is released, and read.
fsysrespond(p) ==
    /\ reply[p] # nil
    /\ reply' = [reply EXCEPT ![p] = nil]
    /\ LET r == reply[p]
       IN  /\ cfid' = CASE r.type = "open" -> [cfid EXCEPT ![r.fid] = "open"]
                        [] r.type = "clunk" -> [cfid EXCEPT ![r.fid] = "closed"]
                        [] OTHER -> cfid
           /\ IF r.type = "flush"
              THEN rd' = [rd EXCEPT ![r.tag] = nil] /\ flushing' = flushing \ {r.tag}
              ELSE UNCHANGED <<rd, flushing>>
           /\ snd' = IF r.type = "write" THEN [snd EXCEPT ![r.fid] = nil] ELSE snd
    /\ UNCHANGED <<inq, work, queuevars, owed, mixed>>

-----------------------------------------------------------------------------
Client ==
    \/ \E f \in Fids : SendOpen(f) \/ SendClunk(f)
    \/ \E f \in Fids, t \in Tags, n \in Counts : SendRead(f, t, n)
    \/ \E t \in Tags : SendFlush(t)
    \/ \E s \in Senders, m \in Msgs : SendMsg(s, m)

Step(p) ==
    \/ fsysproc(p)
    \/ fsysopen(p, work[p]) \/ fsysread(p, work[p]) \/ dispose(p, work[p])
    \/ fsysflush(p, work[p]) \/ fsysclunk(p, work[p])
    \/ fsysrespond(p)

Next == Client \/ \E p \in Procs : Step(p)

Spec == Init /\ [][Next]_vars

-----------------------------------------------------------------------------
(* Properties.                                                             *)

\* What the queues will give to fid f: its part of the sends that name it.
Waiting(f) == SelectSeq(sendq, LAMBDA s : f \in ToSet(s.fid))
Pending(f) ==
    LET u == FlattenSeq([i \in DOMAIN Waiting(f) |-> Units(Waiting(f)[i].msg)])
    IN  SubSeq(u, offset[f] + 1, Len(u))

\* nopen, fopen and the nleft of each send agree, and no message waits for a fid
\* that is closed (removesenders), or for nobody.
QueuesExact ==
    /\ nopen = Len(fopen) /\ IsInjective(fopen)
    /\ ToSet(fopen) = {f \in Fids : open[f]}
    /\ \A i \in DOMAIN sendq :
          LET left == {j \in DOMAIN sendq[i].fid : sendq[i].fid[j] # nil}
          IN  /\ sendq[i].nleft = Cardinality(left) /\ left # {}
              /\ \A j \in left : open[sendq[i].fid[j]]

\* plumber(4): "A copy of each message is sent to each client that has the
\* corresponding port open", and a held message to the first that opens it: the
\* queues hold for each fid exactly what it has not read of the messages sent
\* since it was opened, in the order they were sent (queuesend: "this implements
\* a FIFO"), and what drainqueue gives it is always the next part.  The offset
\* belongs to the fid and drainqueue goes on to the next message after one read, so
\* this is said of a fid until two reads of it are in the queue together.
Stream ==
    /\ QueuesExact
    /\ \A f \in Fids \ mixed : owed[f] = Pending(f)

\* No read is lost, and none waits while there is something to read: a read the
\* client waits for is on its way or in readq, and in readq it is only while no
\* message waits for its fid (same exception as in Stream).  A flushed read that
\* is still in readq makes the comment of queueheld untrue ("no need to drain queue
\* because we know no-one is reading yet"); no read the client waits for is.
NoStrandedRead ==
    \A t \in Tags \ flushing :
        rd[t] # nil /\ Unqueued(t) = {} =>
            /\ \E i \in DOMAIN readq : readq[i].tag = t /\ readq[i].fid = rd[t]
            /\ rd[t] \notin mixed => Waiting(rd[t]) = <<>>

\* flush(9P): when the client has its Rflush and no answer, the read "is considered
\* to have been canceled, and should be treated as though it had never been sent":
\* every read in readq, where it can take a message, is one the client waits for.
NoStaleRead ==
    \A i \in DOMAIN readq : rd[readq[i].tag] = readq[i].fid

=============================================================================
