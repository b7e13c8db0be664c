------------------------------- MODULE Serve9p -------------------------------
(***************************************************************************)
(* 9pserve (src/src/cmd/9pserve.c): many 9P clients on the one connection  *)
(* of a server.                                                            *)
(*                                                                         *)
(* Each connection has a connthread that reads its requests, translates    *)
(* tags and fids to those of the server, and passes them to outputthread;  *)
(* inputthread reads the replies of the server, and the connoutthread of   *)
(* the connection translates and writes them.  When a client hangs up,     *)
(* connthread flushes its requests and clunks its fids with messages of    *)
(* its own.  A Msg is counted: it, and with it the tag, is used again when *)
(* nobody has it any more; so are the Fids.                                *)
(*                                                                         *)
(* The threads are coroutines of one proc, so what a thread does between   *)
(* two points where it may wait is one action.  A request is named by its  *)
(* number; its Msg, and the Fid that is made for it, have the same name,   *)
(* which stands for their tag or fid at the server; 0 is nil.  A Msg of    *)
(* connthread's own is named by the request it flushes or the Fid it       *)
(* clunks.  (In msgtab and fidtab a Msg or Fid whose count is 0 may at any *)
(* time become another one: the properties say nobody would notice.)       *)
(*                                                                         *)
(* Clients and server are external.  A client behaves: it uses a tag again *)
(* when it has the reply or the Rflush, and a fid only while no request    *)
(* of its own is changing it; it hangs up at any time.  The server answers *)
(* requests in any order, and a Tflush by forgetting the request it names. *)
(* A request is sent and read in one step, and so is a reply of the        *)
(* server: to read it later only delays what follows.  Tversion, Tauth,    *)
(* Topenfd, and the afid and the fixed aname (-A) of Tattach are left out. *)
(***************************************************************************)
EXTENDS Integers, Sequences, FiniteSets, FiniteSetsExt

CONSTANTS
    Conns,
    CTags, CFids,       \* the tags and fid numbers each client uses
    MayHangup,          \* the clients that may hang up
    MAXMSG,             \* messages a connection may have before it stalls
    Most, MaxReqs       \* bounds: requests each client sends of each type, and all of them

ASSUME Serve9pAssumption ==
    /\ CTags \subseteq Nat \ {0} /\ CFids \subseteq Nat \ {0}
    /\ {MAXMSG, MaxReqs} \subseteq Nat \ {0} /\ MayHangup \subseteq Conns
    /\ Most \in [Conns -> [{"attach", "walk", "io", "clunk", "flush"} -> Nat]]

VARIABLES
    req,                \* the requests sent so far; the index is the request's id
    ctag, cfid, gone,   \* client: the request each tag is busy with, its fids,
                        \* whether it has hung up
    outcome,            \* how each request ended for its client
    heap,               \* the Msgs and Fids, see below
    tagtab, fidtab,     \* c->tag and c->fid
    outq, outp,         \* outq, and the Msg outputthread is writing
    pc, cur,            \* connthread: where it is, and its m and om
    coutq, cout,        \* c->outq, and what connoutthread is writing
    internal, outqdead, \* what is sent on c->internal and c->outqdead
    pend, sfid          \* server: requests to be answered, fids in use

clientvars == <<req, ctag, cfid, gone, outcome>>
connvars == <<tagtab, fidtab, pc, cur, internal, outqdead>>
vars == <<clientvars, heap, connvars, outq, outp, coutq, cout, pend, sfid>>

Ids == 1 .. MaxReqs
FlushOf(m) == MaxReqs + m
ClunkOf(f) == 2 * MaxReqs + f
Msgs == 1 .. 3 * MaxReqs
NoConn == "none"
NoReq == [type |-> "none", c |-> NoConn, tag |-> 0, fid |-> 0, newfid |-> 0,
          old |-> 0, target |-> 0]
\* A Msg that is free.
NoMsg == [ref |-> 0, c |-> NoConn, ctag |-> 0, type |-> "none", fid |-> 0, newfid |-> 0,
          oldm |-> 0, rx |-> "none"]
isinternal(m) == m > MaxReqs
Empty == [x \in {} |-> 0]
\* What connoutthread does: nothing, or it has ended and c->outq is nil.
Idle == [m |-> 0, written |-> FALSE]
Ended == [m |-> 0, written |-> TRUE]

TypeOK ==
    /\ DOMAIN req \subseteq Ids
    /\ ctag \in [Conns -> [CTags -> Ids \cup {0}]]
    /\ cfid \in [Conns -> [CFids -> {"free", "making", "used", "clunking"}]]
    /\ gone \in [Conns -> BOOLEAN]
    /\ outcome \in [Ids -> {"none", "answered", "cancelled", "late"}]
    /\ \A m \in Msgs : heap.msg[m].ref \in Nat /\ heap.msg[m].c \in Conns \cup {NoConn}
    /\ heap.fid \in [Ids -> Nat]
    /\ pc \in [Conns -> {"read", "stalled", "woken", "flush", "sync", "close", "clunk", "done"}]
    /\ internal \in [Conns -> Msgs \cup {0}] /\ outqdead \in [Conns -> BOOLEAN]
    /\ outp \in Msgs \cup {0} /\ sfid \subseteq Ids

Init ==
    /\ req = <<>> /\ outcome = [q \in Ids |-> "none"]
    /\ ctag = [c \in Conns |-> [t \in CTags |-> 0]]
    /\ cfid = [c \in Conns |-> [n \in CFids |-> "free"]]
    /\ gone = [c \in Conns |-> FALSE]
    /\ heap = [msg |-> [m \in Msgs |-> NoMsg], fid |-> [f \in Ids |-> 0],
               nmsg |-> [c \in Conns |-> 0]]
    /\ fidtab = [c \in Conns |-> Empty] /\ sfid = {}
    /\ tagtab = [c \in Conns |-> Empty]
    /\ outq = <<>> /\ outp = 0
    /\ pc = [c \in Conns |-> "read"] /\ cur = [c \in Conns |-> [m |-> 0, om |-> 0]]
    /\ coutq = [c \in Conns |-> <<>>] /\ cout = [c \in Conns |-> Idle]
    /\ internal = [c \in Conns |-> 0] /\ outqdead = [c \in Conns |-> FALSE]
    /\ pend = {}

-----------------------------------------------------------------------------
(* Hash tables.  A table is a function from the keys it has.               *)

gethash(t, n) == IF n \in DOMAIN t THEN t[n] ELSE 0
has(t, n, v) == n \in DOMAIN t /\ t[n] = v
puthash(t, n, v) == [k \in DOMAIN t \cup {n} |-> IF k = n THEN v ELSE t[k]]
delhash(t, n) == [k \in DOMAIN t \ {n} |-> t[k]]

-----------------------------------------------------------------------------
(* Msgs and Fids.  Each operator takes the heap h and returns it changed.  *)

fidincref(h, f) == [h EXCEPT !.fid[f] = @ + 1]
fidnew(h, f) == [h EXCEPT !.fid[f] = 1]
fidput(h, f) == IF f = 0 THEN h ELSE [h EXCEPT !.fid[f] = @ - 1]

msgincref(h, m) == [h EXCEPT !.msg[m].ref = @ + 1]

\* msgnew, with c->nmsg counted by its callers.
msgnew(h, m, fields) ==
    [h EXCEPT !.msg[m] = [fields EXCEPT !.ref = 1], !.nmsg[fields.c] = @ + 1]

RECURSIVE msgput(_, _)

msgclear(h, m) ==
    LET x == h.msg[m]
        h1 == IF x.c = NoConn THEN h ELSE [h EXCEPT !.nmsg[x.c] = @ - 1]
        h2 == IF x.oldm = 0 THEN h1 ELSE msgput(h1, x.oldm)
        h3 == fidput(fidput(h2, x.fid), x.newfid)
    IN  [h3 EXCEPT !.msg[m] = [@ EXCEPT !.c = NoConn, !.oldm = 0, !.fid = 0, !.newfid = 0]]

msgput(h, m) ==
    IF h.msg[m].ref > 1 THEN [h EXCEPT !.msg[m].ref = @ - 1]
    ELSE [msgclear(h, m) EXCEPT !.msg[m] = NoMsg]

-----------------------------------------------------------------------------
(* connthread, while the client is there: one request.                     *)

\* What each case makes of Msg m for request r: the heap, c->fid, and the reply
\* if 9pserve answers r itself.
Case(h, tab, rx) == [h |-> h, fidtab |-> tab, rx |-> rx]

\* Mutants: the Msg to flush is not counted; the Tflush is answered at once.
BAD_TflushUncounted(c, h, m, r) ==
    LET om == gethash(tagtab[c], r.old)
    IN  IF om = 0 THEN Case(h, fidtab[c], "ok")
        ELSE Case([h EXCEPT !.msg[m].oldm = om], fidtab[c], "none")
BAD_TflushAtOnce(c, h, m, r) == Case(h, fidtab[c], "ok")

Tflush(c, h, m, r) ==
    LET om == gethash(tagtab[c], r.old)
    IN  IF om = 0 THEN Case(h, fidtab[c], "ok")
        ELSE Case([msgincref(h, om) EXCEPT !.msg[m].oldm = om], fidtab[c], "none")

Tattach(c, h, m, r) ==
    LET h1 == [fidnew(h, m) EXCEPT !.msg[m].fid = m]
    IN  IF r.fid \in DOMAIN fidtab[c] THEN Case(h1, fidtab[c], "error")
        ELSE Case(fidincref(h1, m), puthash(fidtab[c], r.fid, m), "none")

Twalk(c, h, m, r) ==
    LET f == gethash(fidtab[c], r.fid)
        h1 == [fidincref(h, f) EXCEPT !.msg[m].fid = f]
        h2 == [fidnew(h1, m) EXCEPT !.msg[m].newfid = m]
    IN  IF f = 0 THEN Case(h, fidtab[c], "error")
        ELSE IF r.newfid = r.fid
        THEN Case([fidincref(h1, f) EXCEPT !.msg[m].newfid = f], fidtab[c], "none")
        ELSE IF r.newfid \in DOMAIN fidtab[c] THEN Case(h2, fidtab[c], "error")
        ELSE Case(fidincref(h2, m), puthash(fidtab[c], r.newfid, m), "none")

\* Topen, Tcreate, Tclunk, Tread, Twrite, Tremove, Tstat and Twstat.
Tother(c, h, m, r) ==
    LET f == gethash(fidtab[c], r.fid)
    IN  IF f = 0 THEN Case(h, fidtab[c], "error")
        ELSE Case([fidincref(h, f) EXCEPT !.msg[m].fid = f], fidtab[c], "none")

Packet(m) == [m |-> m, sync |-> NoConn]

\* The reference of msgnew passes to outq, or with a reply to c->outq.
connthread(c, t, r) ==
    LET m == Len(req) + 1
        h0 == msgnew(heap, m, [NoMsg EXCEPT !.c = c, !.ctag = t, !.type = r.type])
        dup == t \in DOMAIN tagtab[c]
        h == msgincref(h0, m)
        x == IF dup THEN Case(h0, fidtab[c], "error")
             ELSE CASE r.type = "flush" -> Tflush(c, h, m, r)
                    [] r.type = "attach" -> Tattach(c, h, m, r)
                    [] r.type = "walk" -> Twalk(c, h, m, r)
                    [] OTHER -> Tother(c, h, m, r)
    IN  /\ pc[c] = "read"
        /\ tagtab' = IF dup THEN tagtab ELSE [tagtab EXCEPT ![c] = puthash(@, t, m)]
        /\ fidtab' = [fidtab EXCEPT ![c] = x.fidtab]
        /\ heap' = [x.h EXCEPT !.msg[m].rx = x.rx]
        /\ IF x.rx = "none"
           THEN /\ outq' = Append(outq, Packet(m))
                /\ pc' = [pc EXCEPT ![c] = IF x.h.nmsg[c] >= MAXMSG THEN "stalled" ELSE "read"]
                /\ UNCHANGED coutq
           ELSE /\ coutq' = [coutq EXCEPT ![c] = Append(@, m)]
                /\ UNCHANGED <<outq, pc>>
        /\ UNCHANGED <<cur, internal, outqdead, outp, cout, pend, sfid>>

\* connoutthread has sent on c->inc.
connwake(c) ==
    /\ pc[c] = "woken"
    /\ pc' = [pc EXCEPT ![c] = IF heap.nmsg[c] >= MAXMSG THEN "stalled" ELSE "read"]
    /\ UNCHANGED <<clientvars, heap, tagtab, fidtab, cur, internal, outqdead, outq, outp,
                   coutq, cout, pend, sfid>>

-----------------------------------------------------------------------------
(* The clients.                                                            *)

Outstanding(c) == {ctag[c][t] : t \in CTags} \ {0}
TagFree(c, t) ==
    /\ ctag[c][t] = 0
    /\ \A q \in Outstanding(c) : req[q].type = "flush" => req[q].old # t
Using(c, n) ==
    {q \in Outstanding(c) : req[q].type # "flush" /\ n \in {req[q].fid, req[q].newfid}}
FirstFree(c, n) ==
    cfid[c][n] = "free" /\ \A k \in CFids : k < n => cfid[c][k] # "free"

\* The client sends r with the first free tag, and connthread reads it.
Send(c, t, r) ==
    /\ ~gone[c]
    /\ Len(req) < MaxReqs
    /\ Cardinality({q \in DOMAIN req : req[q].c = c /\ req[q].type = r.type}) < Most[c][r.type]
    /\ TagFree(c, t) /\ \A u \in CTags : u < t => ~TagFree(c, u)
    /\ req' = Append(req, [r EXCEPT !.c = c, !.tag = t])
    /\ ctag' = [ctag EXCEPT ![c][t] = Len(req) + 1]
    /\ UNCHANGED <<gone, outcome>>
    /\ connthread(c, t, r)

SendAttach(c, t, n) ==
    /\ FirstFree(c, n)
    /\ cfid' = [cfid EXCEPT ![c][n] = "making"]
    /\ Send(c, t, [NoReq EXCEPT !.type = "attach", !.fid = n])

SendWalk(c, t, n, nn) ==
    /\ cfid[c][n] = "used" /\ (FirstFree(c, nn) \/ nn = n)
    /\ cfid' = IF nn = n THEN cfid ELSE [cfid EXCEPT ![c][nn] = "making"]
    /\ Send(c, t, [NoReq EXCEPT !.type = "walk", !.fid = n, !.newfid = nn])

SendIO(c, t, n) ==
    /\ cfid[c][n] = "used"
    /\ Send(c, t, [NoReq EXCEPT !.type = "io", !.fid = n])
    /\ UNCHANGED cfid

SendClunk(c, t, n) ==
    /\ cfid[c][n] = "used" /\ Using(c, n) = {}
    /\ cfid' = [cfid EXCEPT ![c][n] = "clunking"]
    /\ Send(c, t, [NoReq EXCEPT !.type = "clunk", !.fid = n])

SendFlush(c, t, o) ==
    /\ o # t /\ ctag[c][o] # 0
    /\ Send(c, t, [NoReq EXCEPT !.type = "flush", !.old = o, !.target = ctag[c][o]])
    /\ UNCHANGED cfid

Hangup(c) ==
    /\ c \in MayHangup /\ ~gone[c]
    /\ gone' = [gone EXCEPT ![c] = TRUE]
    /\ ctag' = [ctag EXCEPT ![c] = [t \in CTags |-> 0]]
    /\ cfid' = [cfid EXCEPT ![c] = [n \in CFids |-> "free"]]
    /\ UNCHANGED <<req, outcome, heap, connvars, outq, outp, coutq, cout, pend, sfid>>

\* What the client makes of its fids when q is answered with result, or cancelled.
Made(q) == IF req[q].type = "walk" THEN req[q].newfid ELSE req[q].fid
AfterReply(F, q, result) ==
    CASE req[q].type \in {"attach", "walk"} /\ F[Made(q)] = "making" ->
           [F EXCEPT ![Made(q)] = IF result = "ok" THEN "used" ELSE "free"]
      [] req[q].type = "clunk" -> [F EXCEPT ![req[q].fid] = "free"]
      [] OTHER -> F
AfterCancel(F, q) ==
    CASE req[q].type \in {"attach", "walk"} /\ F[Made(q)] = "making" ->
           [F EXCEPT ![Made(q)] = "free"]
      [] req[q].type = "clunk" -> [F EXCEPT ![req[q].fid] = "used"]
      [] OTHER -> F

\* The client reads the reply to q.  With an Rflush the request it names, if
\* unanswered, is cancelled: flush(9P) has it treated as though never sent.  A
\* reply to a request that is over is late.
Receive(c, q, result) ==
    LET t == req[q].target
        cancels == t \in Outstanding(c)
        tags == [ctag[c] EXCEPT ![req[q].tag] = 0]
        now == IF outcome[q] = "none" THEN "answered" ELSE "late"
    IN  /\ ctag' = [ctag EXCEPT ![c] = IF cancels THEN [tags EXCEPT ![req[t].tag] = 0] ELSE tags]
        /\ cfid' = [cfid EXCEPT ![c] = IF cancels THEN AfterCancel(@, t)
                                       ELSE AfterReply(@, q, result)]
        /\ outcome' = IF cancels THEN [outcome EXCEPT ![q] = now, ![t] = "cancelled"]
                      ELSE [outcome EXCEPT ![q] = now]
        /\ UNCHANGED <<req, gone>>

-----------------------------------------------------------------------------
(* outputthread.  The server may answer before the write returns.          *)

outputwrite ==
    /\ outp = 0 /\ outq # <<>> /\ Head(outq).sync = NoConn
    /\ LET m == Head(outq).m
           x == heap.msg[m]
       IN  /\ outp' = m
           /\ pend' = pend \cup {[tag |-> m, type |-> x.type, fid |-> x.fid,
                                  newfid |-> x.newfid, old |-> x.oldm]}
    /\ outq' = Tail(outq)
    /\ UNCHANGED <<clientvars, heap, connvars, coutq, cout, sfid>>

outputput ==
    /\ outp # 0
    /\ heap' = msgput(heap, outp)
    /\ outp' = 0
    /\ UNCHANGED <<clientvars, connvars, outq, coutq, cout, pend, sfid>>

\* The Msg sync: all that was before it has been written and put.
outputsync ==
    /\ outp = 0 /\ outq # <<>> /\ Head(outq).sync # NoConn
    /\ outqdead' = [outqdead EXCEPT ![Head(outq).sync] = TRUE]
    /\ outq' = Tail(outq)
    /\ UNCHANGED <<clientvars, heap, tagtab, fidtab, pc, cur, internal, outp, coutq, cout, pend, sfid>>

-----------------------------------------------------------------------------
(* The server, and inputthread, which reads its reply.                     *)

Results(p) == IF p.type \in {"attach", "walk"} THEN {"ok", "error"} ELSE {"ok"}

\* What the server does with p; a request that is flushed is forgotten.
Served(p, result) ==
    /\ pend' = {q \in pend : q # p /\ ~(p.type = "flush" /\ q.tag = p.old)}
    /\ sfid' = CASE p.type = "attach" /\ result = "ok" -> sfid \cup {p.fid}
                 [] p.type = "walk" /\ result = "ok" -> sfid \cup {p.newfid}
                 [] p.type = "clunk" -> sfid \ {p.fid}
                 [] OTHER -> sfid

\* msgget finds the Msg the reply is for.  A thread waits on c->internal whenever
\* an internal Msg is out.
inputthread(p, result) ==
    /\ Served(p, result)
    /\ LET m == p.tag
           c == heap.msg[m].c
           h == [msgincref(heap, m) EXCEPT !.msg[m].rx = result]
       IN  IF heap.msg[m].ref = 0 THEN UNCHANGED <<heap, internal, coutq>>
           ELSE IF isinternal(m)
           THEN heap' = h /\ internal' = [internal EXCEPT ![c] = m] /\ UNCHANGED coutq
           ELSE IF cout[c] # Ended
           THEN heap' = h /\ coutq' = [coutq EXCEPT ![c] = Append(@, m)] /\ UNCHANGED internal
           ELSE heap' = msgput(h, m) /\ UNCHANGED <<internal, coutq>>
    /\ UNCHANGED <<clientvars, tagtab, fidtab, pc, cur, outqdead, outq, outp, cout>>

-----------------------------------------------------------------------------
(* connoutthread.                                                          *)

\* delhash on c->tag, and msgput if m was there.
deltag(h, T, m) ==
    LET t == h.msg[m].ctag
    IN  IF has(T, t, m) THEN [h |-> msgput(h, m), T |-> delhash(T, t)]
        ELSE [h |-> h, T |-> T]
\* The Fid that leaves c->fid with reply x.  Mutants: the newfid of a walk that
\* succeeds goes too; the fid of a Tclunk stays.
BAD_fidgoneWalk(x) ==
    CASE x.type = "clunk" -> x.fid
      [] x.type = "attach" /\ x.rx # "ok" -> x.fid
      [] x.type = "walk" /\ x.fid # x.newfid -> x.newfid
      [] OTHER -> 0
BAD_fidgoneClunk(x) ==
    CASE x.type = "attach" /\ x.rx # "ok" -> x.fid
      [] x.type = "walk" /\ x.rx # "ok" /\ x.fid # x.newfid -> x.newfid
      [] OTHER -> 0
fidgone(x) ==
    CASE x.type = "clunk" -> x.fid
      [] x.type = "attach" /\ x.rx # "ok" -> x.fid
      [] x.type = "walk" /\ x.rx # "ok" /\ x.fid # x.newfid -> x.newfid
      [] OTHER -> 0

connoutthread(c) ==
    /\ cout[c] = Idle /\ coutq[c] # <<>> /\ Head(coutq[c]) # 0
    /\ LET m == Head(coutq[c])
           x == heap.msg[m]
           d1 == IF x.oldm = 0 THEN [h |-> heap, T |-> tagtab[c]]
                 ELSE deltag(heap, tagtab[c], x.oldm)
           f == fidgone(x)
           drop == {n \in DOMAIN fidtab[c] : fidtab[c][n] = f}
           h2 == IF drop # {} THEN fidput(d1.h, f) ELSE d1.h
           d3 == deltag(h2, d1.T, m)
       IN  /\ fidtab' = [fidtab EXCEPT ![c] = [n \in DOMAIN @ \ drop |-> @[n]]]
           /\ tagtab' = [tagtab EXCEPT ![c] = d3.T]
           /\ heap' = d3.h
           /\ cout' = [cout EXCEPT ![c] = [m |-> m, written |-> FALSE]]
    /\ coutq' = [coutq EXCEPT ![c] = Tail(@)]
    /\ UNCHANGED <<clientvars, pc, cur, internal, outqdead, outq, outp, pend, sfid>>

\* The write reaches the client, or fails because the client is gone.
connoutwrite(c) ==
    /\ cout[c].m # 0 /\ ~cout[c].written
    /\ cout' = [cout EXCEPT ![c].written = TRUE]
    /\ LET x == heap.msg[cout[c].m]
       IN  IF gone[c] THEN UNCHANGED clientvars ELSE Receive(c, cout[c].m, x.rx)
    /\ UNCHANGED <<heap, connvars, outq, outp, coutq, pend, sfid>>

\* Mutant: connthread is not woken.
BAD_connoutput(c) ==
    /\ cout[c].m # 0 /\ cout[c].written
    /\ heap' = msgput(heap, cout[c].m)
    /\ cout' = [cout EXCEPT ![c] = Idle]
    /\ UNCHANGED pc
    /\ UNCHANGED <<clientvars, tagtab, fidtab, cur, internal, outqdead, outq, outp, coutq, pend, sfid>>

\* nbsendp on c->inc wakes connthread if it waits there.
connoutput(c) ==
    /\ cout[c].m # 0 /\ cout[c].written
    /\ heap' = msgput(heap, cout[c].m)
    /\ cout' = [cout EXCEPT ![c] = Idle]
    /\ pc' = IF pc[c] = "stalled" /\ heap'.nmsg[c] < MAXMSG THEN [pc EXCEPT ![c] = "woken"] ELSE pc
    /\ UNCHANGED <<clientvars, tagtab, fidtab, cur, internal, outqdead, outq, outp, coutq, pend, sfid>>

\* recvq returns nil.
connoutend(c) ==
    /\ cout[c] = Idle /\ coutq[c] # <<>> /\ Head(coutq[c]) = 0
    /\ cout' = [cout EXCEPT ![c] = Ended]
    /\ coutq' = [coutq EXCEPT ![c] = Tail(@)]
    /\ outqdead' = [outqdead EXCEPT ![c] = TRUE]
    /\ UNCHANGED <<clientvars, heap, tagtab, fidtab, pc, cur, internal, outq, outp, pend, sfid>>

-----------------------------------------------------------------------------
(* connthread, when the client has hung up.                                *)

\* A Msg of connthread's own: one reference for connthread, one for outq.
Internal(h, m, c, fields) == msgincref(msgnew(h, m, [fields EXCEPT !.c = c]), m)

\* The loop over c->tag, in the order of the table; then the sync.
nextflush(c, h, T) ==
    LET om == T[Min(DOMAIN T)]
        m == FlushOf(om)
        h1 == msgincref(msgincref(h, om), om)
    IN  /\ tagtab' = [tagtab EXCEPT ![c] = T]
        /\ IF DOMAIN T = {}
           THEN /\ heap' = h
                /\ outq' = Append(outq, [m |-> 0, sync |-> c])
                /\ cur' = [cur EXCEPT ![c] = [m |-> 0, om |-> 0]]
                /\ pc' = [pc EXCEPT ![c] = "sync"]
           ELSE /\ heap' = Internal(h1, m, c, [NoMsg EXCEPT !.type = "flush", !.oldm = om])
                /\ outq' = Append(outq, Packet(m))
                /\ cur' = [cur EXCEPT ![c] = [m |-> m, om |-> om]]
                /\ pc' = [pc EXCEPT ![c] = "flush"]

conneof(c) ==
    /\ pc[c] = "read" /\ gone[c]
    /\ nextflush(c, heap, tagtab[c])
    /\ UNCHANGED <<clientvars, fidtab, internal, outqdead, outp, coutq, cout, pend, sfid>>

connflushed(c) ==
    /\ pc[c] = "flush" /\ internal[c] # 0
    /\ internal' = [internal EXCEPT ![c] = 0]
    /\ LET om == cur[c].om
           d == deltag(msgput(msgput(heap, internal[c]), cur[c].m), tagtab[c], om)
       IN  nextflush(c, msgput(d.h, om), d.T)
    /\ UNCHANGED <<clientvars, fidtab, outqdead, outp, coutq, cout, pend, sfid>>

\* The local output queue is closed.
connsynced(c) ==
    /\ pc[c] = "sync" /\ outqdead[c]
    /\ outqdead' = [outqdead EXCEPT ![c] = FALSE]
    /\ coutq' = [coutq EXCEPT ![c] = Append(@, 0)]
    /\ pc' = [pc EXCEPT ![c] = "close"]
    /\ UNCHANGED <<clientvars, heap, tagtab, fidtab, cur, internal, outq, outp, cout, pend, sfid>>

\* Mutant: the fids are not clunked.
BAD_nextclunk(c, h, F) ==
    /\ pc' = [pc EXCEPT ![c] = "done"]
    /\ heap' = h
    /\ cur' = [cur EXCEPT ![c] = [m |-> 0, om |-> 0]]
    /\ UNCHANGED <<fidtab, outq>>

\* The loop over c->fid; then c is freed.
nextclunk(c, h, F) ==
    LET f == F[Min(DOMAIN F)]
        m == ClunkOf(f)
    IN  /\ fidtab' = [fidtab EXCEPT ![c] = F]
        /\ IF DOMAIN F = {}
           THEN /\ pc' = [pc EXCEPT ![c] = "done"]
                /\ heap' = h
                /\ cur' = [cur EXCEPT ![c] = [m |-> 0, om |-> 0]]
                /\ UNCHANGED outq
           ELSE /\ pc' = [pc EXCEPT ![c] = "clunk"]
                /\ heap' = Internal(fidincref(h, f), m, c, [NoMsg EXCEPT !.type = "clunk", !.fid = f])
                /\ outq' = Append(outq, Packet(m))
                /\ cur' = [cur EXCEPT ![c] = [m |-> m, om |-> 0]]

connclosed(c) ==
    /\ pc[c] = "close" /\ outqdead[c]
    /\ outqdead' = [outqdead EXCEPT ![c] = FALSE]
    /\ nextclunk(c, heap, fidtab[c])
    /\ UNCHANGED <<clientvars, tagtab, internal, outp, coutq, cout, pend, sfid>>

connclunked(c) ==
    /\ pc[c] = "clunk" /\ internal[c] # 0
    /\ internal' = [internal EXCEPT ![c] = 0]
    /\ LET n == Min(DOMAIN fidtab[c])
           h1 == msgclear(heap, internal[c])
           h2 == msgput(msgput(h1, internal[c]), cur[c].m)
       IN  nextclunk(c, fidput(h2, fidtab[c][n]), delhash(fidtab[c], n))
    /\ UNCHANGED <<clientvars, tagtab, outqdead, outp, coutq, cout, pend, sfid>>

-----------------------------------------------------------------------------
Client(c) ==
    \/ \E t \in CTags, n \in CFids :
          \/ SendAttach(c, t, n) \/ SendIO(c, t, n) \/ SendClunk(c, t, n)
          \/ \E nn \in CFids : SendWalk(c, t, n, nn)
    \/ \E t, o \in CTags : SendFlush(c, t, o)
    \/ Hangup(c)

Threads ==
    \/ outputwrite \/ outputput \/ outputsync
    \/ \E p \in pend : \E result \in Results(p) : inputthread(p, result)
    \/ \E c \in Conns :
          \/ connwake(c) \/ conneof(c) \/ connflushed(c) \/ connsynced(c)
          \/ connclosed(c) \/ connclunked(c)
          \/ connoutthread(c) \/ connoutwrite(c) \/ connoutput(c) \/ connoutend(c)

Next == Threads \/ \E c \in Conns : Client(c)

Spec == Init /\ [][Next]_vars

\* The threads run while one of them can, and the server answers.
FairSpec == Spec /\ WF_vars(Threads)

-----------------------------------------------------------------------------
(* Properties.                                                             *)

Live == {m \in Msgs : heap.msg[m].ref > 0}
One(b) == IF b THEN 1 ELSE 0
Keys(T, x) == Cardinality({n \in DOMAIN T : T[n] = x})
Places(s, x) == Cardinality({i \in DOMAIN s : s[i] = x})

\* The pointers to Msg m, and to Fid f, that are counted.
Pointers(m) ==
    LET of(c) == Keys(tagtab[c], m) + Places(coutq[c], m) + One(cout[c].m = m)
                 + One(internal[c] = m) + One(cur[c].m = m) + One(cur[c].om = m)
    IN  Places(outq, Packet(m)) + One(outp = m) + MapThenSumSet(of, Conns)
        + Cardinality({k \in Live : heap.msg[k].oldm = m})
FidPointers(f) ==
    LET of(c) == Keys(fidtab[c], f)
    IN  MapThenSumSet(of, Conns) + Cardinality({k \in Live : heap.msg[k].fid = f})
        + Cardinality({k \in Live : heap.msg[k].newfid = f})

\* Reference counts: each Msg and each Fid is counted exactly as often as a
\* table, a queue, a thread or a Msg points to it, and c->nmsg is the number of
\* the Msgs of c, however the threads interleave: none is used again too early
\* or lost (msgput, fidput).
RefsExact ==
    /\ TypeOK
    /\ \A m \in Msgs : heap.msg[m].ref = Pointers(m)
    /\ \A f \in Ids : heap.fid[f] = FidPointers(f)
    /\ \A c \in Conns : heap.nmsg[c] = Cardinality({m \in Live : heap.msg[m].c = c})

\* The Fid that a request at the server is to make.
Makes(p) == IF p.type = "walk" THEN p.newfid ELSE p.fid

\* A tag or a fid is not used for another request while the server has it in
\* use: the Msg of a request that is still to be answered is not freed, and
\* neither is a Fid that the server has, or is asked to make, though requests are
\* flushed and clients hang up in between.
ServerAgrees ==
    /\ \A p \in pend : heap.msg[p.tag].ref > 0
    /\ \A f \in sfid : heap.fid[f] > 0
    /\ \A p \in pend : p.type \in {"attach", "walk"} => heap.fid[Makes(p)] > 0

\* A request to make fid n of c was cancelled by a Tflush.
Cancelled(c, n) ==
    \E q \in DOMAIN req : outcome[q] = "cancelled" /\ req[q].c = c
                          /\ req[q].type \in {"attach", "walk"} /\ Made(q) = n

\* While a client is there its tables agree with what it knows: c->tag has no tag
\* that it may use again; c->fid has the fids it may use, with Fids the server has
\* too, and not the ones it has clunked or failed to make, whatever was flushed in
\* between; only a fid whose making was cancelled may stay behind.
TablesAgree ==
    \A c \in Conns :
        ~gone[c] =>
            /\ \A t \in CTags : TagFree(c, t) => t \notin DOMAIN tagtab[c]
            /\ \A n \in CFids :
                  /\ cfid[c][n] = "used" => n \in DOMAIN fidtab[c] /\ fidtab[c][n] \in sfid
                  /\ cfid[c][n] = "free" => n \notin DOMAIN fidtab[c] \/ Cancelled(c, n)

\* The client that a Msg, or the request it flushes or whose Fid it clunks, is of.
Owner(m) == req[((m - 1) % MaxReqs) + 1].c

\* The asserts of connthread: the Msg it gets back is the one it sent, and no Msg is
\* left when the output queue is closed.  When c is freed nothing of it is left:
\* no Msg, no tag and no fid in its tables, and at the server no request and no fid
\* (9pserve(4): it "flushes any outstanding 9P transactions and clunks any
\* outstanding fids belonging to the client").
HangupClean ==
    \A c \in Conns :
        /\ internal[c] # 0 => internal[c] = cur[c].m
        /\ pc[c] = "close" /\ outqdead[c] => heap.nmsg[c] = 0
        /\ pc[c] = "done" =>
              /\ \A m \in Live : heap.msg[m].c # c
              /\ coutq[c] = <<>> /\ cout[c] = Ended
              /\ tagtab[c] = Empty /\ fidtab[c] = Empty
              /\ \A p \in pend : Owner(p.tag) # c
              /\ \A f \in sfid : Owner(f) # c

\* Somebody waits for 9pserve.
Busy == \E c \in Conns : IF gone[c] THEN pc[c] # "done" ELSE Outstanding(c) # {}

\* Every request is answered or cancelled, and the connection of a client that
\* hangs up is closed in the end, also when it was stalled with MAXMSG messages.
\* (The clients send so many requests, so 9pserve becomes idle.)
Settles == Busy ~> ~Busy

Abstract == INSTANCE Transactions WITH
    status <- [q \in Ids |-> IF q > Len(req) THEN "unsent"
                             ELSE IF outcome[q] = "none" THEN "pending" ELSE outcome[q]],
    target <- [q \in Ids |-> IF q > Len(req) THEN 0 ELSE req[q].target]

\* For its clients together 9pserve implements the transactions of flush(9P): a
\* reply goes to the request it is for, once, and not after the Rflush.
ImplementsTransactions == Abstract!Spec
=============================================================================
