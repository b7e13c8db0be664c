-------------------------------- MODULE Srv9p --------------------------------
(***************************************************************************)
(* The 9P server library (src/src/lib9p: srv.c, req.c, fid.c, intmap.c).   *)
(*                                                                         *)
(* One proc, "srv", reads the requests and calls the service functions; a  *)
(* service function may answer at once, or leave the request to another    *)
(* proc of the program, which calls respond later.  respond removes the    *)
(* tag from the pool, writes the reply with wlock held, and answers the    *)
(* Tflushes that were delayed until then.                                  *)
(*                                                                         *)
(* A request is named by the number of the message it came in, and so is   *)
(* the Req made for it; a Fid is named by the request that made it.  0 is  *)
(* nil.  A proc is its stack of calls, a sequence of frames with the top   *)
(* first: respond calls itself for a delayed Tflush.  A section under a    *)
(* lock is one action.                                                     *)
(*                                                                         *)
(* The client is external.  It behaves: it uses a tag again only when it   *)
(* has the reply, and the Rflush if it flushed the request, and it clunks  *)
(* a fid when none of its own requests is using it.  It reads a reply when *)
(* it is written: to read it later only delays what it may send.           *)
(* Tversion, Tauth and the afid of Tattach are left out.  The checks on    *)
(* modes, offsets and permissions, and the errors of the service functions,*)
(* are a choice of the result, where a Fid depends on it.                  *)
(***************************************************************************)
EXTENDS Integers, Sequences, FiniteSets

CONSTANTS
    Workers,            \* the other procs that call respond
    Tags, FidNumbers,
    Most, MaxMsgs       \* bounds: messages the client sends, of each type and in all

ASSUME Srv9pAssumption ==
    /\ {"srv", "none"} \cap Workers = {}
    /\ IsFiniteSet(Tags) /\ IsFiniteSet(FidNumbers)
    /\ Most \in [{"attach", "walk", "io", "clunk", "flush"} -> Nat]
    /\ MaxMsgs \in Nat \ {0}

VARIABLES
    msg, nread,         \* the messages sent, and how many of them getreq has read
    ctag, cfid,         \* client: the request each tag is busy with; its fids
    over,               \* client: the requests it has the reply to
    rpool, fpool,       \* srv->rpool and srv->fpool: tag to Req, number to Fid
    rref, fref,         \* ref of each Req and of each Fid
    fid, newfid, oldreq, responded, flush, pool,    \* fields of the Req
    pend,               \* requests a service function has left for later
    wlock, lk,          \* owners of srv->wlock and of the lk of each Req
    stack               \* the calls each proc is in

clientvars == <<msg, ctag, cfid, over>>
reqvars == <<rref, fid, newfid, oldreq, responded, flush, pool>>
poolvars == <<rpool, fpool, fref>>
vars == <<clientvars, nread, reqvars, poolvars, pend, wlock, lk, stack>>

Ids == 1 .. MaxMsgs
Procs == {"srv"} \cup Workers
NoProc == "none"
tag(q) == msg[q].tag
type(q) == msg[q].type
Outcomes == {"ok", "partial", "error"}

TypeOK ==
    /\ nread \in 0 .. Len(msg) /\ Len(msg) <= MaxMsgs
    /\ ctag \in [Tags -> Ids \cup {0}]
    /\ cfid \in [FidNumbers -> {"free", "making", "used", "clunking"}]
    /\ rpool \in [Tags -> Ids \cup {0}]
    /\ fpool \in [FidNumbers -> Ids \cup {0}]
    /\ {fid, newfid, oldreq} \subseteq [Ids -> Ids \cup {0}]
    /\ {rref, fref} \subseteq [Ids -> Nat]
    /\ {responded, pool} \subseteq [Ids -> BOOLEAN]
    /\ pend \subseteq Ids
    /\ wlock \in Procs \cup {NoProc}
    /\ lk \in [Ids -> Procs \cup {NoProc}]

Init ==
    /\ msg = <<>> /\ nread = 0
    /\ ctag = [t \in Tags |-> 0] /\ over = {}
    /\ cfid = [n \in FidNumbers |-> "free"]
    /\ rpool = [t \in Tags |-> 0] /\ fpool = [n \in FidNumbers |-> 0]
    /\ rref = [q \in Ids |-> 0] /\ fref = [q \in Ids |-> 0]
    /\ fid = [q \in Ids |-> 0] /\ newfid = [q \in Ids |-> 0]
    /\ oldreq = [q \in Ids |-> 0]
    /\ responded = [q \in Ids |-> FALSE]
    /\ flush = [q \in Ids |-> <<>>]
    /\ pool = [q \in Ids |-> TRUE]
    /\ pend = {}
    /\ wlock = NoProc /\ lk = [q \in Ids |-> NoProc]
    /\ stack = [p \in Procs |-> <<>>]

-----------------------------------------------------------------------------
(* The client.                                                             *)

Outstanding == {ctag[t] : t \in Tags} \ {0}

\* t can carry a new request: its last one is answered, and so is every
\* Tflush of it.
TagFree(t) ==
    /\ ctag[t] = 0
    /\ \A q \in Outstanding : type(q) = "flush" => msg[q].old # t

\* The requests of the client that are using fid number n.
Using(n) ==
    {q \in Outstanding : type(q) # "flush" /\ n \in {msg[q].fid, msg[q].newfid}}

\* The client takes the first tag that is free.
Send(t, m) ==
    /\ TagFree(t) /\ \A u \in Tags : u < t => ~TagFree(u)
    /\ Len(msg) < MaxMsgs
    /\ Cardinality({q \in DOMAIN msg : type(q) = m.type}) < Most[m.type]
    /\ msg' = Append(msg, [m EXCEPT !.tag = t])
    /\ ctag' = [ctag EXCEPT ![t] = Len(msg) + 1]
    /\ UNCHANGED <<over, nread, reqvars, poolvars, pend, wlock, lk, stack>>

FirstFree(n) == cfid[n] = "free" /\ \A k \in FidNumbers : k < n => cfid[k] # "free"

Message(ty, n, nn) ==
    [type |-> ty, tag |-> 0, fid |-> n, newfid |-> nn, old |-> 0, target |-> 0]

SendAttach(t, n) ==
    /\ FirstFree(n)
    /\ cfid' = [cfid EXCEPT ![n] = "making"]
    /\ Send(t, Message("attach", n, 0))

SendWalk(t, n, nn) ==
    /\ cfid[n] = "used" /\ (FirstFree(nn) \/ nn = n)
    /\ cfid' = IF nn = n THEN cfid ELSE [cfid EXCEPT ![nn] = "making"]
    /\ Send(t, Message("walk", n, nn))

SendIO(t, n) ==
    /\ cfid[n] = "used"
    /\ Send(t, Message("io", n, 0))
    /\ UNCHANGED cfid

\* Tclunk, or Tremove.
SendClunk(t, n) ==
    /\ cfid[n] = "used" /\ Using(n) = {}
    /\ cfid' = [cfid EXCEPT ![n] = "clunking"]
    /\ Send(t, Message("clunk", n, 0))

\* The request a Tflush is about is remembered as its target.
SendFlush(t, o) ==
    /\ o # t /\ \E i \in 1 .. Len(msg) : tag(i) = o
    /\ Send(t, [Message("flush", 0, 0) EXCEPT !.old = o, !.target = ctag[o]])
    /\ UNCHANGED cfid

\* The client reads the reply to q.
Receive(q, result) ==
    LET made == IF type(q) = "walk" THEN msg[q].newfid ELSE msg[q].fid
    IN  /\ ctag' = [ctag EXCEPT ![tag(q)] = 0]
        /\ cfid' = CASE type(q) \in {"attach", "walk"} /\ cfid[made] = "making" ->
                         [cfid EXCEPT ![made] = IF result = "ok" THEN "used" ELSE "free"]
                     [] type(q) = "clunk" ->
                         [cfid EXCEPT ![msg[q].fid] = "free"]
                     [] OTHER -> cfid
        /\ over' = over \cup {q}
        /\ UNCHANGED msg

-----------------------------------------------------------------------------
(* References.                                                             *)

closefid(F, f) == IF f = 0 THEN F ELSE [F EXCEPT ![f] = @ - 1]

\* closereq lets go of one reference to q; with the last one it lets go of
\* the Fids of q.  (oldreq is nil by then, see RefsExact.)
closereqR(q) == [rref EXCEPT ![q] = @ - 1]
closereqF(q) == IF rref[q] = 1 THEN closefid(closefid(fref, fid[q]), newfid[q]) ELSE fref

-----------------------------------------------------------------------------
(* The read loop: getreq, then the handler of the message.                 *)

Frame(q, pc, result) == [r |-> q, pc |-> pc, result |-> result]
Push(p, frames) == stack' = [stack EXCEPT ![p] = frames \o @]
\* The top frame of p is replaced by frames.
Replace(p, frames) == stack' = [stack EXCEPT ![p] = frames \o Tail(@)]
At(p, pc) == stack[p] # <<>> /\ Head(stack[p]).pc = pc
Top(p) == Head(stack[p]).r

\* allocreq gives the new Req a reference for the pool and one for the
\* handler; a tag that is in the pool gets a Req that is not, and an error.
getreq ==
    /\ stack["srv"] = <<>>
    /\ nread < Len(msg)
    /\ nread' = nread + 1
    /\ LET q == nread + 1
           dup == rpool[tag(q)] # 0
       IN  /\ rpool' = IF dup THEN rpool ELSE [rpool EXCEPT ![tag(q)] = q]
           /\ rref' = [rref EXCEPT ![q] = IF dup THEN 1 ELSE 2]
           /\ pool' = [pool EXCEPT ![q] = ~dup]
           /\ Push("srv", <<IF dup THEN Frame(q, "respond", "duptag")
                                   ELSE Frame(q, "handler", "ok")>>)
    /\ UNCHANGED <<clientvars, fpool, fref, fid, newfid, oldreq, responded,
                   flush, pend, wlock, lk>>

\* The handler leaves q to another proc, or answers it now.
Later(q) == pend' = pend \cup {q} /\ Replace("srv", <<>>)
Now(q, result) == Replace("srv", <<Frame(q, "respond", result)>>) /\ UNCHANGED pend
\* The results that are told apart: a fid that was to be made may not be.
Results(q) ==
    CASE type(q) = "attach" -> {"ok", "error"}
      [] type(q) = "walk" -> {"ok", "partial", "error"}
      [] OTHER -> {"ok"}
Serve(q) == Later(q) \/ \E result \in Results(q) : Now(q, result)

Handling(q, ty) ==
    /\ At("srv", "handler") /\ q = Top("srv")
    /\ type(q) = ty
    /\ UNCHANGED <<clientvars, nread, rpool, responded, flush, pool, wlock, lk>>

\* allocfid: one reference for the pool, one for the request.
sattach(q) ==
    /\ Handling(q, "attach")
    /\ LET n == msg[q].fid
       IN  IF fpool[n] # 0
           THEN Now(q, "error") /\ UNCHANGED <<fpool, fref, fid>>
           ELSE /\ fpool' = [fpool EXCEPT ![n] = q]
                /\ fref' = [fref EXCEPT ![q] = 2]
                /\ fid' = [fid EXCEPT ![q] = q]
                /\ Serve(q)
    /\ UNCHANGED <<rref, newfid, oldreq>>

swalk(q) ==
    /\ Handling(q, "walk")
    /\ LET f == fpool[msg[q].fid]
           nn == msg[q].newfid
           held == [fref EXCEPT ![f] = @ + 1]
       IN  \/ /\ f = 0
              /\ Now(q, "error") /\ UNCHANGED <<fpool, fref, fid, newfid>>
           \/ /\ f # 0 /\ nn = msg[q].fid
              /\ fref' = [fref EXCEPT ![f] = @ + 2]
              /\ fid' = [fid EXCEPT ![q] = f]
              /\ newfid' = [newfid EXCEPT ![q] = f]
              /\ Serve(q) /\ UNCHANGED fpool
           \/ /\ f # 0 /\ nn # msg[q].fid /\ fpool[nn] # 0
              /\ fref' = held
              /\ fid' = [fid EXCEPT ![q] = f]
              /\ Now(q, "error") /\ UNCHANGED <<fpool, newfid>>
           \/ /\ f # 0 /\ fpool[nn] = 0
              /\ fpool' = [fpool EXCEPT ![nn] = q]
              /\ fref' = [held EXCEPT ![q] = 2]
              /\ fid' = [fid EXCEPT ![q] = f]
              /\ newfid' = [newfid EXCEPT ![q] = q]
              /\ Serve(q)
    /\ UNCHANGED <<rref, oldreq>>

\* sopen, screate, sread, swrite, sstat and swstat.
sio(q) ==
    /\ Handling(q, "io")
    /\ LET f == fpool[msg[q].fid]
       IN  IF f = 0
           THEN Now(q, "error") /\ UNCHANGED <<fref, fid>>
           ELSE /\ fref' = [fref EXCEPT ![f] = @ + 1]
                /\ fid' = [fid EXCEPT ![q] = f]
                /\ Serve(q)
    /\ UNCHANGED <<rref, fpool, newfid, oldreq>>

\* sclunk and sremove: removefid hands the pool's reference to the request.
\* Only sremove may leave the answer for later.
sclunk(q) ==
    /\ Handling(q, "clunk")
    /\ LET f == fpool[msg[q].fid]
       IN  /\ fid' = [fid EXCEPT ![q] = f]
           /\ fpool' = [fpool EXCEPT ![msg[q].fid] = 0]
           /\ IF f = 0 THEN Now(q, "error") ELSE Serve(q)
    /\ UNCHANGED <<rref, fref, newfid, oldreq>>

\* The service function flush may answer the old request first, if the
\* request is still waiting for someone to answer it.
sflush(q) ==
    /\ Handling(q, "flush")
    /\ LET old == rpool[msg[q].old]
       IN  /\ oldreq' = [oldreq EXCEPT ![q] = old]
           /\ rref' = IF old = 0 THEN rref ELSE [rref EXCEPT ![old] = @ + 1]
           /\ \/ Now(q, "ok")
              \/ /\ old \in pend
                 /\ pend' = pend \ {old}
                 /\ Replace("srv", <<Frame(old, "respond", "error"), Frame(q, "respond", "ok")>>)
    /\ UNCHANGED <<fpool, fref, fid, newfid>>

-----------------------------------------------------------------------------
(* respond(r, error), called by any proc.                                  *)

\* A proc of the program answers a request that was left for later.
Finish(w, q, result) ==
    /\ stack[w] = <<>> /\ q \in pend
    /\ result \in Results(q)
    /\ pend' = pend \ {q}
    /\ Push(w, <<Frame(q, "respond", result)>>)
    /\ UNCHANGED <<clientvars, nread, reqvars, poolvars, wlock, lk>>

\* The top frame of p, at pc, is about q; it goes on at next.
Responding(p, q, pc, next) ==
    /\ At(p, pc) /\ q = Top(p)
    /\ Replace(p, <<[Head(stack[p]) EXCEPT !.pc = next]>>)
    /\ UNCHANGED <<nread, newfid, pool, pend>>

\* Mutant: the Tflush is not put on the list of the request it waits for.
BAD_rflushDelay(p, q) ==
    /\ At(p, "respond") /\ q = Top(p)
    /\ type(q) = "flush" /\ ~responded[q]
    /\ oldreq[q] # 0 /\ lk[oldreq[q]] = NoProc /\ ~responded[oldreq[q]]
    /\ Replace(p, <<>>)
    /\ UNCHANGED <<clientvars, nread, rref, fid, newfid, oldreq, responded, flush,
                   pool, poolvars, pend, wlock, lk>>

\* rflush: with the old request unanswered, its answer will call respond again.
rflushDelay(p, q) ==
    /\ At(p, "respond") /\ q = Top(p)
    /\ type(q) = "flush" /\ ~responded[q]
    /\ LET or == oldreq[q]
       IN  /\ or # 0 /\ lk[or] = NoProc /\ ~responded[or]
           /\ flush' = [flush EXCEPT ![or] = Append(@, q)]
    /\ Replace(p, <<>>)
    /\ UNCHANGED <<clientvars, nread, rref, fid, newfid, oldreq, responded,
                   pool, poolvars, pend, wlock, lk>>

\* Mutant: the Tflush does not wait for the answer to the old request.
BAD_rflush(p, q) ==
    /\ Responding(p, q, "respond", "wlock")
    /\ type(q) = "flush" /\ ~responded[q]
    /\ LET or == oldreq[q]
       IN  IF or = 0 THEN UNCHANGED <<rref, fref>>
           ELSE /\ lk[or] = NoProc
                /\ rref' = closereqR(or) /\ fref' = closereqF(or)
    /\ oldreq' = [oldreq EXCEPT ![q] = 0]
    /\ UNCHANGED <<clientvars, fid, responded, flush, rpool, fpool, wlock, lk>>

rflush(p, q) ==
    /\ Responding(p, q, "respond", "wlock")
    /\ type(q) = "flush" /\ ~responded[q]
    /\ LET or == oldreq[q]
       IN  IF or = 0 THEN UNCHANGED <<rref, fref>>
           ELSE /\ lk[or] = NoProc /\ responded[or]
                /\ rref' = closereqR(or) /\ fref' = closereqF(or)
    /\ oldreq' = [oldreq EXCEPT ![q] = 0]
    /\ UNCHANGED <<clientvars, fid, responded, flush, rpool, fpool, wlock, lk>>

\* rattach and rwalk: a fid that was to be made is taken back on failure.
\* The other r functions set fields of the fid only.
rother(p, q) ==
    /\ Responding(p, q, "respond", "wlock")
    /\ type(q) # "flush" /\ ~responded[q]
    /\ LET failed == Head(stack[p]).result # "ok"
           attached == type(q) = "attach" /\ fid[q] # 0
           walked == type(q) = "walk" /\ newfid[q] # 0 /\ msg[q].newfid # msg[q].fid
           n == IF attached THEN msg[q].fid ELSE msg[q].newfid
       IN  IF failed /\ (attached \/ walked)
           THEN fpool' = [fpool EXCEPT ![n] = 0] /\ fref' = closefid(fref, fpool[n])
           ELSE UNCHANGED <<fpool, fref>>
    /\ UNCHANGED <<clientvars, rref, fid, oldreq, responded, flush, rpool, wlock, lk>>

\* Mutant: r->fid is closed but not cleared.
BAD_removeFid(p, q) ==
    /\ wlock = NoProc /\ lk[q] = NoProc
    /\ Responding(p, q, "wlock", "write")
    /\ wlock' = p
    /\ responded' = [responded EXCEPT ![q] = TRUE]
    /\ IF pool[q]
       THEN LET F == closereqF(rpool[tag(q)])
            IN  /\ rpool' = [rpool EXCEPT ![tag(q)] = 0]
                /\ rref' = closereqR(rpool[tag(q)])
                /\ IF rref'[q] = 1 + Len(flush[q])
                   THEN fref' = closefid(F, fid[q]) /\ UNCHANGED fid
                   ELSE fref' = F /\ UNCHANGED fid
       ELSE UNCHANGED <<rpool, rref, fref, fid>>
    /\ UNCHANGED <<clientvars, oldreq, flush, fpool, lk>>

\* Mutant: the tag stays in the pool.
BAD_removeTag(p, q) ==
    /\ wlock = NoProc /\ lk[q] = NoProc
    /\ Responding(p, q, "wlock", "write")
    /\ wlock' = p
    /\ responded' = [responded EXCEPT ![q] = TRUE]
    /\ UNCHANGED <<rpool, rref, fref, fid>>
    /\ UNCHANGED <<clientvars, oldreq, flush, fpool, lk>>

\* Mutant: the fid is left to the last closereq.
BAD_removeLate(p, q) ==
    /\ wlock = NoProc /\ lk[q] = NoProc
    /\ Responding(p, q, "wlock", "write")
    /\ wlock' = p
    /\ responded' = [responded EXCEPT ![q] = TRUE]
    /\ IF pool[q]
       THEN /\ rpool' = [rpool EXCEPT ![tag(q)] = 0]
            /\ rref' = closereqR(rpool[tag(q)]) /\ fref' = closereqF(rpool[tag(q)])
       ELSE UNCHANGED <<rpool, rref, fref>>
    /\ UNCHANGED fid
    /\ UNCHANGED <<clientvars, oldreq, flush, fpool, lk>>

\* wlock is taken and the tag removed, before the reply is written; then, under
\* lk, responded is set and the fid closed unless someone else has q.
remove(p, q) ==
    /\ wlock = NoProc /\ lk[q] = NoProc
    /\ Responding(p, q, "wlock", "write")
    /\ wlock' = p
    /\ responded' = [responded EXCEPT ![q] = TRUE]
    /\ IF pool[q]
       THEN LET F == closereqF(rpool[tag(q)])
            IN  /\ rpool' = [rpool EXCEPT ![tag(q)] = 0]
                /\ rref' = closereqR(rpool[tag(q)])
                /\ IF rref'[q] = 1 + Len(flush[q])
                   THEN fref' = closefid(F, fid[q]) /\ fid' = [fid EXCEPT ![q] = 0]
                   ELSE fref' = F /\ UNCHANGED fid
       ELSE UNCHANGED <<rpool, rref, fref, fid>>
    /\ UNCHANGED <<clientvars, oldreq, flush, fpool, lk>>

write(p, q) ==
    /\ Responding(p, q, "write", "free")
    /\ Receive(q, Head(stack[p]).result)
    /\ wlock' = NoProc
    /\ UNCHANGED <<rref, fid, oldreq, responded, flush, poolvars, lk>>

\* The label free; a second answer to a request goes there at once.
AtFree(p) == stack[p] # <<>> /\ responded[Top(p)] /\ Head(stack[p]).pc \in {"respond", "free"}

\* With lk held, the next delayed Tflush is answered.
respondflush(p, q) ==
    /\ AtFree(p) /\ q = Top(p) /\ flush[q] # <<>>
    /\ lk[q] \in {p, NoProc}
    /\ lk' = [lk EXCEPT ![q] = p]
    /\ oldreq' = [oldreq EXCEPT ![Head(flush[q])] = 0]
    /\ flush' = [flush EXCEPT ![q] = Tail(@)]
    /\ Push(p, <<Frame(Head(flush[q]), "respond", "ok")>>)
    /\ UNCHANGED <<clientvars, nread, rref, fid, newfid, responded, pool,
                   poolvars, pend, wlock>>

\* All are answered: lk is released and the handler's reference given back.
return(p, q) ==
    /\ AtFree(p) /\ q = Top(p) /\ flush[q] = <<>>
    /\ lk[q] \in {p, NoProc}
    /\ lk' = [lk EXCEPT ![q] = NoProc]
    /\ rref' = closereqR(q)
    /\ fref' = IF pool[q] THEN closereqF(q) ELSE fref
    /\ Replace(p, <<>>)
    /\ UNCHANGED <<clientvars, nread, fid, newfid, oldreq, responded, flush,
                   pool, rpool, fpool, pend, wlock>>

-----------------------------------------------------------------------------
Client ==
    \/ \E t \in Tags, n \in FidNumbers :
          \/ SendAttach(t, n)
          \/ \E nn \in FidNumbers : SendWalk(t, n, nn)
          \/ SendIO(t, n)
          \/ SendClunk(t, n)
    \/ \E t, o \in Tags : SendFlush(t, o)

Handler ==
    \/ getreq
    \/ \E q \in Ids : sattach(q) \/ swalk(q) \/ sio(q) \/ sclunk(q) \/ sflush(q)

respond(p) ==
    \E q \in Ids :
        \/ rflushDelay(p, q) \/ rflush(p, q) \/ rother(p, q)
        \/ remove(p, q) \/ write(p, q)
        \/ respondflush(p, q) \/ return(p, q)

Server ==
    \/ Handler
    \/ \E w \in Workers, q \in Ids, result \in Outcomes : Finish(w, q, result)
    \/ \E p \in Procs : respond(p)

Next == Client \/ Server

Spec == Init /\ [][Next]_vars

\* The procs run while one of them can, and what was left for later is answered.
FairSpec == Spec /\ WF_vars(Server)

-----------------------------------------------------------------------------
(* Properties.                                                             *)

\* The requests whose Req a call, the program or a delayed list still holds.
Frames == UNION {{stack[p][i] : i \in 1 .. Len(stack[p])} : p \in Procs}
Held == {fr.r : fr \in Frames} \cup pend
        \cup UNION {{flush[q][i] : i \in 1 .. Len(flush[q])} : q \in Ids}
Flushed(q) == \E i \in 1 .. Len(msg) : msg[i].type = "flush" /\ msg[i].target = q
Holders(q) ==
    (IF q \in Held THEN 1 ELSE 0)
    + Cardinality({t \in Tags : rpool[t] = q})
    + Cardinality({f \in Ids : oldreq[f] = q})
FidHolders(f) ==
    Cardinality({n \in FidNumbers : fpool[n] = f})
    + Cardinality({q \in Ids : rref[q] > 0 /\ fid[q] = f})
    + Cardinality({q \in Ids : rref[q] > 0 /\ newfid[q] = f})

\* Reference counts: no Req is destroyed while the pool, a call of respond, the
\* program or a Tflush has a pointer to it, a Req nobody flushed is destroyed
\* when the last pointer goes, and the count of a Fid is exactly the number of
\* pointers to it, whatever the interleaving of respond with the read loop.
RefsExact ==
    /\ TypeOK
    /\ \A q \in Ids :
          /\ rref[q] >= Holders(q)
          /\ ~Flushed(q) => rref[q] = Holders(q)
          /\ rref[q] = 0 => oldreq[q] = 0
          /\ fref[q] = FidHolders(q)

\* A tag is free in the server when the client may use it again: no request of
\* a client that behaves is taken for a duplicate, and each reply that
\* is written belongs to the request its tag is busy with (the race respond describes
\* above removereq, with a fast client on one side and a Tflush on the other).
TagsAgree ==
    /\ \A fr \in Frames : fr.result # "duptag"
    /\ \A fr \in Frames : fr.pc = "write" => ctag[tag(fr.r)] = fr.r

\* The Fids with number n that are not destroyed.
Alive(n) ==
    {f \in 1 .. Len(msg) :
        fref[f] > 0 /\ n = IF type(f) = "attach" THEN msg[f].fid ELSE msg[f].newfid}
Clunked == {msg[fr.r].fid : fr \in {fr \in Frames : fr.pc = "write"
                                        /\ type(fr.r) = "clunk"}}

\* When Rclunk is written the Fid has been destroyed, or it is still held as
\* the newfid of the walk that made it, or by a request that was flushed: no
\* other request that respond has answered keeps it (respond closes r->fid
\* before the write, so that a fast client cannot come in between).
AnsweredLetGo ==
    \A n \in Clunked : \A f \in Alive(n), q \in Ids : fid[q] = f => Flushed(q)

\* The comment in respond: if the client is behaving, closing the fid before the
\* reply to a Tclunk or Tremove is written calls destroyfid.
ClunkDestroys == \A n \in Clunked : Alive(n) = {}

\* Every request is answered in the end, a Tflush of a Tflush included: wlock and
\* the locks of the Reqs never wait for each other.  (The client sends MaxMsgs
\* messages, so a server that answers them all becomes idle.)
Answered == (Outstanding # {}) ~> (Outstanding = {})

\* lib9p replies to every request, a flushed one too: none is cancelled.
Abstract == INSTANCE Transactions WITH
    status <- [q \in Ids |-> IF q \in over THEN "answered"
                             ELSE IF q <= Len(msg) THEN "pending" ELSE "unsent"],
    target <- [q \in Ids |-> IF q > Len(msg) THEN 0 ELSE msg[q].target]

\* The server implements the transactions of flush(9P): one reply to each
\* request, and none once the Rflush for it has been written.
ImplementsTransactions == Abstract!Spec
=============================================================================
