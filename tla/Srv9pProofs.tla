----------------------------- MODULE Srv9pProofs -----------------------------
(***************************************************************************)
(* Proofs about the 9P server library of Srv9p, for any tags, fids, procs  *)
(* and number of messages.                                                 *)
(*                                                                         *)
(* A request that was read is in one place: in a call, left for later, or  *)
(* on the list of the request that its Tflush waits for.  It has its tag   *)
(* in the pool until respond sets responded, and the client has the tag    *)
(* until the reply is written, which wlock separates: between the two, the *)
(* proc that has wlock is about to write that reply.  So a Tflush that     *)
(* finds nothing under the old tag, or finds its request responded to, is  *)
(* answered after that request.  IInv says this.                           *)
(*                                                                         *)
(* RInv says that the counts are those of the pointers.  A step changes    *)
(* one entry of a table of pointers at a time, so it is enough to know how *)
(* the number of entries with a value changes then (Counts); and a Req     *)
(* whose handler has not run has no Fid, so that allocfid makes a new one  *)
(* (Fresh).  Numbered and Clunks relate the Fids to the client's fids.     *)
(***************************************************************************)
EXTENDS Srv9p, TLAPS

PCs == {"handler", "respond", "wlock", "write", "free"}
FrameSet == [r : Ids, pc : PCs, result : Outcomes]
Types == {"attach", "walk", "io", "clunk", "flush"}
Sent == 1 .. Len(msg)
Messages == [type : Types, tag : Tags, fid : FidNumbers \cup {0}, newfid : FidNumbers \cup {0},
             old : Tags \cup {0}, target : Ids \cup {0}]

MessageOK(m) ==
    /\ m.tag \in Tags /\ m.type \in Types
    /\ m.target \in Ids \cup {0}
    /\ m.type # "flush" => m.target = 0
    /\ m.type = "flush" => m.old \in Tags
    /\ m.type # "flush" => m.fid \in FidNumbers
    /\ m.type = "walk" => m.newfid \in FidNumbers

Typed ==
    /\ msg \in Seq(Messages) /\ Len(msg) \in Nat /\ Len(msg) <= MaxMsgs
    /\ \A q \in Sent : MessageOK(msg[q])
    /\ nread \in Nat /\ nread <= Len(msg)
    /\ ctag \in [Tags -> Ids \cup {0}]
    /\ rpool \in [Tags -> Ids \cup {0}]
    /\ oldreq \in [Ids -> Ids \cup {0}]
    /\ responded \in [Ids -> BOOLEAN]
    /\ pool = [q \in Ids |-> TRUE]
    /\ over \subseteq Ids /\ pend \subseteq Ids
    /\ wlock \in Procs \cup {NoProc}
    /\ flush \in [Ids -> Seq(Ids)]
    /\ stack \in [Procs -> Seq(FrameSet)]

\* A tag of the client is busy with the one request of it that has no reply,
\* and stays so until the Tflushes of that request are answered.
Tagged ==
    /\ \A q \in Sent : q \notin over => ctag[tag(q)] = q
    /\ \A t \in Tags : ctag[t] # 0 => ctag[t] \in Sent \ over /\ tag(ctag[t]) = t
    /\ \A q \in Sent : type(q) = "flush" =>
          /\ msg[q].target # 0 => msg[q].target < q /\ tag(msg[q].target) = msg[q].old
          /\ q \notin over /\ ctag[msg[q].old] # 0 => ctag[msg[q].old] = msg[q].target

\* The pool has the requests that were read and not responded to.
Pooled ==
    /\ \A q \in Ids : q <= nread /\ ~responded[q] => rpool[tag(q)] = q
    /\ \A t \in Tags : rpool[t] # 0 =>
          rpool[t] <= nread /\ ~responded[rpool[t]] /\ tag(rpool[t]) = t
    /\ \A q \in Ids : responded[q] => q <= nread
    /\ \A q \in over : responded[q]

\* What a Tflush waits for: the answer, and before that the call of respond.
Ended(q) == msg[q].target = 0 \/ msg[q].target \in over
Came(q) == msg[q].target = 0 \/ responded[msg[q].target]

Writing ==
    \A q \in Ids : responded[q] /\ q \notin over =>
        /\ wlock \in Procs /\ stack[wlock] # <<>>
        /\ Head(stack[wlock]).r = q /\ Head(stack[wlock]).pc = "write"

Elements(s) == {s[i] : i \in 1 .. Len(s)}

\* The calls on a stack are about different requests, and below the top they
\* are calls of respond, or of the service function flush from sflush.
Orderly(s) ==
    /\ \A i, j \in 1 .. Len(s) : s[i].r = s[j].r => i = j
    /\ \A i \in 1 .. Len(s) : i # 1 => s[i].pc \in {"respond", "free"}

\* What is known at each pc of a call of p.
FrameOK(p, fr) ==
    /\ fr.r <= nread /\ fr.r \notin pend
    /\ fr.pc \in {"handler", "respond", "wlock"} => ~responded[fr.r]
    /\ fr.pc = "handler" => oldreq[fr.r] = 0
    /\ fr.pc = "respond" => oldreq[fr.r] \in {0, msg[fr.r].target} /\ (oldreq[fr.r] = 0 => Came(fr.r))
    /\ fr.pc \in {"wlock", "write", "free"} => oldreq[fr.r] = 0
    /\ fr.pc = "wlock" => Came(fr.r)
    /\ fr.pc = "write" => responded[fr.r] /\ fr.r \notin over /\ wlock = p /\ Ended(fr.r)
    /\ fr.pc = "free" => fr.r \in over

Calls ==
    /\ \A p \in Procs : Orderly(stack[p])
    /\ \A p \in Procs : \A fr \in Elements(stack[p]) : FrameOK(p, fr)
    /\ \A p, w \in Procs : \A fr \in Elements(stack[p]), gr \in Elements(stack[w]) :
          fr.r = gr.r => p = w

\* The requests that some call is about.
Called == {q \in Ids : \E p \in Procs : \E fr \in Elements(stack[p]) : fr.r = q}

\* Requests left for later.
PendOK(q) == q <= nread /\ ~responded[q] /\ type(q) # "flush" /\ oldreq[q] = 0
Pending == \A q \in pend : PendOK(q)

\* Tflushes that wait for request o.
Delayed(o) == Elements(flush[o])
DelayOK(o, f) == f <= nread /\ ~responded[f] /\ f \notin pend /\ oldreq[f] = o /\ msg[f].target = o
Distinct(s) == \A i, j \in 1 .. Len(s) : s[i] = s[j] => i = j
Delays ==
    /\ \A o \in Ids : Distinct(flush[o])
    /\ \A o \in Ids : \A f \in Delayed(o) : DelayOK(o, f)
    /\ \A o \in Ids : \A f \in Delayed(o) : f \notin Called

Answers == \A q \in over : Ended(q)
\* A Tflush that waits for a request.
Flushing == \A q \in Ids : oldreq[q] # 0 => q <= nread

IInv == Typed /\ Tagged /\ Pooled /\ Writing /\ Calls /\ Pending /\ Delays /\ Answers /\ Flushing

\* The number of entries of fn that are v, and how a change of one entry changes
\* it.  Library follows from the theorems about finite sets (LibraryHolds); until
\* these are brought in the lemmas take it as an assumption.
Num(D, fn, v) == Cardinality({x \in D : fn[x] = v})
One(u, v) == IF u = v THEN 1 ELSE 0
DiffersAt(D, fn, gn, x) == x \in D /\ \A y \in D : y # x => gn[y] = fn[y]
Moves(D, fn, gn, a, b, v) == Num(D, gn, v) + One(a, v) = Num(D, fn, v) + One(b, v)
Counts(D) ==
    /\ \A fn, v : Num(D, fn, v) \in Nat
    /\ \A fn, v : (\A x \in D : fn[x] # v) <=> Num(D, fn, v) = 0
    /\ \A fn, gn, x, v : DiffersAt(D, fn, gn, x) => Moves(D, fn, gn, fn[x], gn[x], v)
Library == Counts(Tags) /\ Counts(FidNumbers) /\ Counts(Ids)

\* The references of a Req, and those of a Fid; a Req that is destroyed has none.
ReqOK(q) ==
    /\ rref[q] >= Holders(q)
    /\ ~Flushed(q) => rref[q] = Holders(q)
theFid(q) == IF rref[q] > 0 THEN fid[q] ELSE 0
theNew(q) == IF rref[q] > 0 THEN newfid[q] ELSE 0
InPool(f) == Num(FidNumbers, fpool, f)
AsFid(f) == Num(Ids, [q \in Ids |-> theFid(q)], f)
AsNew(f) == Num(Ids, [q \in Ids |-> theNew(q)], f)
FidOK(f) == fref[f] = InPool(f) + AsFid(f) + AsNew(f)

\* The number of Fid f.
number(f) == IF type(f) = "attach" THEN msg[f].fid ELSE msg[f].newfid

\* The handler of q has not run: there is no Fid q, and Req q has none.
New(q) == ~(q <= nread) \/ \E p \in Procs : \E fr \in Elements(stack[p]) : fr.r = q /\ fr.pc = "handler"
Clear(q) ==
    /\ fid[q] = 0 /\ newfid[q] = 0
    /\ \A n \in FidNumbers : fpool[n] # q
    /\ \A x \in Ids : fid[x] # q /\ newfid[x] # q

Counted ==
    /\ cfid \in [FidNumbers -> {"free", "making", "used", "clunking"}]
    /\ fpool \in [FidNumbers -> Ids \cup {0}]
    /\ fid \in [Ids -> Ids \cup {0}] /\ newfid \in [Ids -> Ids \cup {0}]
    /\ rref \in [Ids -> Nat] /\ fref \in [Ids -> Nat]
    /\ lk \in [Ids -> Procs \cup {NoProc}]
Waits == \A q \in Ids : oldreq[q] # 0 => q \in Held /\ oldreq[q] <= nread /\ oldreq[q] = msg[q].target
Reqs == \A q \in Ids : ReqOK(q)
Fids == \A f \in Ids : FidOK(f)
Fresh == \A q \in Ids : New(q) => Clear(q)

RInv == Counted /\ Waits /\ Reqs /\ Fids /\ Fresh

\* A request uses the Fid that the client named, and does so until respond
\* has answered it, or longer if it was flushed.
Numbered ==
    /\ \A n \in FidNumbers, f \in Ids : fpool[n] = f => n = number(f)
    /\ \A q, f \in Ids : fid[q] = f =>
          type(q) # "flush" /\ msg[q].fid = number(f) /\ (responded[q] => Flushed(q))

\* No other request of the client names a fid that it is clunking.
Clunks ==
    \A c \in Sent : c \notin over /\ type(c) = "clunk" =>
        /\ cfid[msg[c].fid] = "clunking"
        /\ \A q \in Sent : q # c /\ q \notin over /\ type(q) # "flush" => msg[q].fid # msg[c].fid

-----------------------------------------------------------------------------
(* Stacks and lists.                                                       *)

\* The prover of a step that names no other.
USE Zenon

\* In a step the frames out of p's stack make room for the frames in.
Stacked(p, out, in) ==
    /\ stack' \in [Procs -> Seq(FrameSet)]
    /\ \A w \in Procs : w # p => stack'[w] = stack[w]
    /\ Orderly(stack'[p])
    /\ Elements(stack'[p]) = (Elements(stack[p]) \ out) \cup in

\* The top of a stack.
LEMMA TopFrame ==
    ASSUME Typed, Calls, NEW p \in Procs, stack[p] # <<>>
    PROVE  /\ Head(stack[p]) \in FrameSet /\ Head(stack[p]) \in Elements(stack[p])
           /\ FrameOK(p, Head(stack[p]))
           /\ \A fr \in Elements(stack[p]) : fr # Head(stack[p]) => fr.r # Head(stack[p]).r
  <1>. stack[p] \in Seq(FrameSet) /\ Orderly(stack[p])
    BY DEF Typed, Calls
  <1>. 1 \in 1 .. Len(stack[p]) /\ Head(stack[p]) = stack[p][1] /\ stack[p][1] \in FrameSet
    BY SMT
  <1>1. Head(stack[p]) \in Elements(stack[p])
    BY DEF Elements
  <1>2. \A fr \in Elements(stack[p]) : fr # Head(stack[p]) => fr.r # Head(stack[p]).r
    BY DEF Elements, Orderly
  <1>. QED  BY <1>1, <1>2 DEF Calls

-----------------------------------------------------------------------------
(* What a step leaves as it is.                                            *)

\* Nothing that has happened to a request is undone.
Grows ==
    /\ nread' \in Nat /\ nread <= nread'
    /\ over \subseteq over'
    /\ \A x \in Ids : responded[x] => responded'[x]
    /\ \A x \in Sent : msg'[x] = msg[x]

\* A step that is not about request x.
Kept(x) ==
    /\ responded'[x] <=> responded[x]
    /\ oldreq'[x] = oldreq[x]
    /\ x \in over' <=> x \in over
    /\ x \in pend' => x \in pend

LEMMA WasSent ==
    ASSUME Typed, NEW q \in Ids, q <= nread
    PROVE  q \in Sent /\ MessageOK(msg[q])
  <1>. q \in Sent
    BY SMT DEF Typed, Sent, Ids
  <1>. QED  BY DEF Typed

\* The step is about request q.
About(q) == \A x \in Ids : x # q => Kept(x)

LEMMA FrameTyped ==
    ASSUME Typed, NEW p \in Procs, NEW fr \in Elements(stack[p])
    PROVE  fr \in FrameSet /\ fr.r \in Ids
  <1>. stack[p] \in Seq(FrameSet)
    BY DEF Typed
  <1>. fr \in FrameSet
    BY SMT DEF Elements
  <1>. QED  BY DEF FrameSet

LEMMA CalledReq ==
    ASSUME Typed, Calls, Delays, NEW p \in Procs, stack[p] # <<>>, NEW q, q = Head(stack[p]).r
    PROVE  /\ q \in Ids /\ q <= nread /\ q \in Sent /\ MessageOK(msg[q]) /\ q \notin pend
           /\ q \in Called /\ \A o \in Ids : q \notin Delayed(o)
  <1>. Head(stack[p]) \in FrameSet /\ Head(stack[p]) \in Elements(stack[p]) /\ FrameOK(p, Head(stack[p]))
    BY TopFrame
  <1>. q \in Ids /\ q <= nread /\ q \notin pend
    BY DEF FrameSet, FrameOK
  <1>. q \in Called
    BY DEF Called
  <1>. QED  BY WasSent DEF Delays

\* Most steps change neither the tags nor what was answered.
Plain == UNCHANGED <<msg, nread, ctag, rpool, pool, over, responded, wlock>>

\* The request a Tflush finds in the pool is the one the client means.
LEMMA OldIsTarget ==
    ASSUME Typed, Tagged, Pooled, NEW q \in Ids, q <= nread, ~responded[q], type(q) = "flush"
    PROVE  /\ msg[q].old \in Tags
           /\ rpool[msg[q].old] \in {0, msg[q].target}
           /\ rpool[msg[q].old] = 0 => Came(q)
  <1>. q \in Sent /\ q \notin over /\ MessageOK(msg[q]) /\ msg[q].old \in Tags
    BY WasSent DEF Pooled, MessageOK, type
  <1>1. PICK old \in Ids \cup {0} : old = rpool[msg[q].old]
    BY DEF Typed
  <1>2. CASE old # 0
    <2>. old \in Ids /\ old <= nread /\ ~responded[old] /\ tag(old) = msg[q].old
      BY <1>1, <1>2 DEF Pooled
    <2>. old \in Sent /\ old \notin over
      BY WasSent DEF Pooled
    <2>. ctag[msg[q].old] = old
      BY DEF Tagged
    <2>. ctag[msg[q].old] = msg[q].target
      BY <1>2 DEF Tagged
    <2>. QED  BY <1>1, <1>2
  <1>3. CASE old = 0
    <2>1. ASSUME msg[q].target # 0, ~responded[msg[q].target] PROVE FALSE
      <3>. msg[q].target \in Ids /\ msg[q].target < q /\ tag(msg[q].target) = msg[q].old
        BY <2>1 DEF Tagged, MessageOK
      <3>. msg[q].target <= nread
        BY SMT DEF Typed, Ids
      <3>. rpool[tag(msg[q].target)] = msg[q].target
        BY <2>1 DEF Pooled
      <3>. rpool[tag(msg[q].target)] = 0
        BY <1>1, <1>3
      <3>. QED  BY <2>1
    <2>. Came(q)
      BY <2>1 DEF Came
    <2>. rpool[msg[q].old] = 0
      BY <1>1, <1>3
    <2>. QED  OBVIOUS
  <1>. QED  BY <1>2, <1>3

\* The messages after the client has sent m.
LEMMA SentOn ==
    ASSUME Typed, NEW m \in Messages, msg' = Append(msg, m), Len(msg) < MaxMsgs
    PROVE  /\ Len(msg)' = Len(msg) + 1 /\ Len(msg) + 1 <= MaxMsgs /\ Len(msg) + 1 \in Nat
           /\ msg' \in Seq(Messages) /\ msg'[Len(msg) + 1] = m
           /\ Len(msg) + 1 \in Ids /\ ~(Len(msg) + 1 <= nread)
           /\ \A x \in Sent : msg'[x] = msg[x]
           /\ \A x : x \in Sent' <=> x \in Sent \/ x = Len(msg) + 1
           /\ \A x \in Sent : x \in Ids /\ x < Len(msg) + 1
           /\ nread <= nread /\ nread <= Len(msg) + 1
  <1>. msg \in Seq(Messages) /\ Len(msg) \in Nat /\ nread \in Nat /\ nread <= Len(msg)
    BY DEF Typed
  <1>. QED  BY Srv9pAssumption, SMT DEF Sent, Ids

Sends(t, m) ==
    /\ TagFree(t) /\ Len(msg) < MaxMsgs
    /\ m \in Messages /\ MessageOK(m) /\ m.tag = t
    /\ m.type = "flush" => m.old # t /\ m.target = ctag[m.old]
    /\ msg' = Append(msg, m) /\ ctag' = [ctag EXCEPT ![t] = Len(msg) + 1]
    /\ UNCHANGED <<over, nread, reqvars, poolvars, pend, wlock, lk, stack>>

LEMMA ClientSends == Typed /\ Client => \E t \in Tags : \E m : Sends(t, m)
  <1>SendSends.
    ASSUME Typed, NEW t \in Tags, NEW m, Send(t, m),
           m = [type |-> m.type, tag |-> 0, fid |-> m.fid, newfid |-> m.newfid, old |-> m.old, target |-> m.target],
           m.type \in Types, m.fid \in FidNumbers \cup {0}, m.newfid \in FidNumbers \cup {0},
           m.old \in Tags \cup {0}, m.target \in Ids \cup {0},
           m.type # "flush" => m.target = 0,
           m.type = "flush" => m.old \in Tags /\ m.old # t /\ m.target = ctag[m.old],
           m.type # "flush" => m.fid \in FidNumbers, m.type = "walk" => m.newfid \in FidNumbers
    PROVE  \E n : Sends(t, n)
    <2>. USE <1>SendSends
    <2>. PICK n : n = [m EXCEPT !.tag = t]
      OBVIOUS
    <2>.  /\ n \in Messages /\ n.tag = t /\ n.type = m.type /\ n.old = m.old /\ n.target = m.target
          /\ n.fid = m.fid /\ n.newfid = m.newfid
      BY SMT DEF Messages
    <2>. MessageOK(n)
      BY DEF MessageOK
    <2>.  /\ TagFree(t) /\ Len(msg) < MaxMsgs /\ msg' = Append(msg, n) /\ ctag' = [ctag EXCEPT ![t] = Len(msg) + 1]
          /\ UNCHANGED <<over, nread, reqvars, poolvars, pend, wlock, lk, stack>>
      BY DEF Send
    <2>. QED  BY DEF Sends
  <1>. SUFFICES ASSUME Typed, Client PROVE \E t \in Tags : \E m : Sends(t, m)
    OBVIOUS
  <1>1. ASSUME NEW t \in Tags, NEW ty \in Types \ {"flush"}, NEW n \in FidNumbers, NEW nn \in FidNumbers \cup {0},
               ty = "walk" => nn \in FidNumbers, Send(t, Message(ty, n, nn))
        PROVE  \E m : Sends(t, m)
    <2>. PICK m : m = Message(ty, n, nn)
      OBVIOUS
    <2>.  /\ m = [type |-> m.type, tag |-> 0, fid |-> m.fid, newfid |-> m.newfid, old |-> m.old, target |-> m.target]
          /\ m.type = ty /\ m.fid = n /\ m.newfid = nn /\ m.old = 0 /\ m.target = 0
      BY SMT DEF Message
    <2>. Send(t, m)
      BY <1>1
    <2>.  /\ m.type \in Types /\ m.type # "flush" /\ m.fid \in FidNumbers \cup {0} /\ m.newfid \in FidNumbers \cup {0}
          /\ m.old \in Tags \cup {0} /\ m.target \in Ids \cup {0}
          /\ m.fid \in FidNumbers /\ (m.type = "walk" => m.newfid \in FidNumbers)
      BY <1>1
    <2>. QED  BY <1>SendSends
  <1>2. ASSUME NEW t \in Tags, NEW o \in Tags, SendFlush(t, o)
        PROVE  \E m : Sends(t, m)
    <2>. PICK m : m = [Message("flush", 0, 0) EXCEPT !.old = o, !.target = ctag[o]]
      OBVIOUS
    <2>.  /\ m = [type |-> m.type, tag |-> 0, fid |-> m.fid, newfid |-> m.newfid, old |-> m.old, target |-> m.target]
          /\ m.type = "flush" /\ m.fid = 0 /\ m.newfid = 0 /\ m.old = o /\ m.target = ctag[o]
      BY DEF Message
    <2>. Send(t, m) /\ o # t /\ ctag[o] \in Ids \cup {0}
      BY <1>2 DEF SendFlush, Typed
    <2>.  /\ m.type \in Types /\ m.fid \in FidNumbers \cup {0} /\ m.newfid \in FidNumbers \cup {0}
          /\ m.old \in Tags \cup {0} /\ m.target \in Ids \cup {0}
          /\ m.old \in Tags /\ m.old # t /\ m.target = ctag[m.old]
      BY <1>2 DEF Types
    <2>. QED  BY <1>SendSends
  <1>3. ASSUME NEW t \in Tags, NEW n \in FidNumbers,
               SendAttach(t, n) \/ (\E nn \in FidNumbers : SendWalk(t, n, nn)) \/ SendIO(t, n) \/ SendClunk(t, n)
        PROVE  \E m : Sends(t, m)
    <2>.  /\ {"attach", "walk", "io", "clunk"} \subseteq Types \ {"flush"} /\ 0 \in FidNumbers \cup {0}
          /\ "attach" # "walk" /\ "io" # "walk" /\ "clunk" # "walk"
      BY SMT DEF Types
    <2>1. ASSUME SendAttach(t, n) PROVE \E m : Sends(t, m)
      BY <1>1, <2>1 DEF SendAttach
    <2>2. ASSUME NEW nn \in FidNumbers, SendWalk(t, n, nn) PROVE \E m : Sends(t, m)
      BY <1>1, <2>2 DEF SendWalk
    <2>3. ASSUME SendIO(t, n) PROVE \E m : Sends(t, m)
      BY <1>1, <2>3 DEF SendIO
    <2>4. ASSUME SendClunk(t, n) PROVE \E m : Sends(t, m)
      BY <1>1, <2>4 DEF SendClunk
    <2>. QED  BY <1>3, <2>1, <2>2, <2>3, <2>4
  <1>. QED  BY <1>2, <1>3 DEF Client

-----------------------------------------------------------------------------
(* What a step does to the requests that are held.                         *)

Handled(x) == \E p \in Procs : \E fr \in Elements(stack[p]) : fr.r = x /\ fr.pc = "handler"

\* Frames out leave the stacks and frames in come: what becomes of request x.
Leaves(x, out, in) ==
    /\ x \in Called' <=> (\E fr \in in : fr.r = x) \/ (x \in Called /\ \A fr \in out : fr.r # x)
    /\ Handled(x)' => (\E fr \in in : fr.r = x /\ fr.pc = "handler") \/ (Handled(x) /\ \A fr \in out : fr.r # x)

\* The requests that are held, and those whose handler has not run.
Late(x) == \E o \in Ids : x \in Delayed(o)
Found == \A x \in Ids : x \in Held <=> x \in Called \/ x \in pend \/ Late(x)

LEMMA HeldIs == Found
  <1>. SUFFICES ASSUME NEW x \in Ids PROVE x \in Held <=> x \in Called \/ x \in pend \/ Late(x)
    BY DEF Found
  <1>. x \in {fr.r : fr \in Frames} <=> x \in Called
    <2>. \A fr : fr \in Frames <=> \E p \in Procs : fr \in Elements(stack[p])
      BY DEF Frames, Elements
    <2>. QED  BY DEF Called
  <1>. x \in UNION {{flush[q][i] : i \in 1 .. Len(flush[q])} : q \in Ids} <=> Late(x)
    BY DEF Late, Delayed, Elements
  <1>. QED  BY DEF Held

LEMMA HeldMoves ==
    ASSUME NEW x \in Ids
    PROVE  /\ x \in Held <=> x \in Called \/ x \in pend \/ Late(x)
           /\ x \in Held' <=> x \in Called' \/ x \in pend' \/ Late(x)'
           /\ New(x) <=> ~(x <= nread) \/ Handled(x)
           /\ New(x)' <=> ~(x <= nread') \/ Handled(x)'
  <1>. Found /\ Found'
    BY HeldIs, PTL
  <1>. (New(x) <=> ~(x <= nread) \/ Handled(x)) /\ (New(x)' <=> ~(x <= nread') \/ Handled(x)')
    BY DEF New, Handled
  <1>. QED  BY DEF Found

\* Every request that was held still is; every handler that has run has run.
HeldStays == \A x \in Ids : x \in Held' <=> x \in Held
NewStays == \A x \in Ids : New(x)' => New(x)
Served(q) == \A x \in Ids : New(x)' => New(x) /\ x # q

\* respond goes on to its next label.
GoesOn ==
    \A p \in Procs, q \in Ids, pc \in PCs, next \in PCs :
        next # "handler" /\ Responding(p, q, pc, next) /\ UNCHANGED flush
        => /\ HeldStays /\ NewStays /\ q \in Held
           /\ stack[p] # <<>> /\ q = Head(stack[p]).r /\ q <= nread
           /\ FrameOK(p, Head(stack[p])) /\ Head(stack[p]).pc = pc

\* What each kind of step does to them.
Moved ==
    /\ getreq => \E q \in Ids :
                   /\ \A x \in Ids : x \in Held' <=> x \in Held \/ x = q
                   /\ NewStays /\ New(q) /\ q \notin Held /\ ~(q <= nread) /\ nread' = q
                   /\ rpool' = [rpool EXCEPT ![tag(q)] = q] /\ rref' = [rref EXCEPT ![q] = 2]
                   /\ tag(q) \in Tags /\ rpool[tag(q)] = 0
    /\ \A q \in Ids : sattach(q) \/ swalk(q) \/ sio(q) \/ sclunk(q) \/ sflush(q)
                     => HeldStays /\ Served(q) /\ q \in Held /\ New(q)
    /\ \A p \in Workers, q \in Ids, result \in Outcomes : Finish(p, q, result) => HeldStays /\ NewStays
    /\ \A p \in Procs, q \in Ids : rflushDelay(p, q) => HeldStays /\ NewStays
    /\ GoesOn
    /\ \A p \in Procs, q \in Ids : respondflush(p, q)
           => /\ HeldStays /\ NewStays
              /\ \E f \in Ids : /\ oldreq[f] = q /\ oldreq' = [oldreq EXCEPT ![f] = 0]
                                /\ f <= nread /\ msg[f].target = q
    /\ \A p \in Procs, q \in Ids : return(p, q)
           => /\ \A x \in Ids : x \in Held' <=> x \in Held /\ x # q
              /\ NewStays /\ q \in Held /\ oldreq[q] = 0

-----------------------------------------------------------------------------
(* The invariant.                                                          *)

LEMMA InitIInv ==
    ASSUME Init
    PROVE  IInv
  <1>.  /\ msg = <<>> /\ nread = 0 /\ ctag = [t \in Tags |-> 0] /\ over = {} /\ rpool = [t \in Tags |-> 0]
        /\ oldreq = [q \in Ids |-> 0] /\ responded = [q \in Ids |-> FALSE] /\ flush = [q \in Ids |-> <<>>]
        /\ pool = [q \in Ids |-> TRUE] /\ pend = {} /\ wlock = NoProc /\ stack = [p \in Procs |-> <<>>]
    BY DEF Init
  <1>1. /\ msg \in Seq(Messages) /\ Len(msg) = 0 /\ 0 <= MaxMsgs /\ nread <= Len(msg) /\ Sent = {}
        /\ \A q \in Ids : ~(q <= nread)
    BY Srv9pAssumption, SMT DEF Sent, Ids
  <1>. <<>> \in Seq(Ids) /\ <<>> \in Seq(FrameSet) /\ Elements(<<>>) = {} /\ Orderly(<<>>) /\ Distinct(<<>>)
    BY SMT DEF Elements, Orderly, Distinct
  <1>2. Typed
    <2>. flush \in [Ids -> Seq(Ids)] /\ stack \in [Procs -> Seq(FrameSet)]
      OBVIOUS
    <2>. 0 \in Nat
      BY SMT
    <2>. QED  BY <1>1 DEF Typed
  <1>3. Tagged /\ Pooled /\ Writing /\ Pending /\ Answers /\ Flushing
    BY <1>1 DEF Tagged, Pooled, Writing, Pending, Answers, Flushing
  <1>4. \A p \in Procs : stack[p] = <<>>
    OBVIOUS
  <1>. \A q \in Ids : flush[q] = <<>>
    OBVIOUS
  <1>. Calls
    BY <1>4 DEF Calls
  <1>. Delays
    BY DEF Delays, Delayed
  <1>. QED  BY <1>2, <1>3 DEF IInv

LEMMA StutterIInv ==
    ASSUME IInv, UNCHANGED vars
    PROVE  IInv'
  <1>. /\ UNCHANGED <<msg, nread, ctag, over, rpool, oldreq, responded, flush, pool, pend, wlock, stack>>
    BY DEF vars, clientvars, reqvars, poolvars
  <1>. Typed' /\ Tagged' /\ Pooled' /\ Writing' /\ Answers' /\ Flushing'
    BY DEF IInv, Typed, Tagged, Pooled, Writing, Answers, Flushing, Sent, tag, type, Ended
  <1>. Calls'
    BY ZenonT(30) DEF IInv, Calls, FrameOK, Came, Ended
  <1>. Pending' /\ Delays'
    BY DEF IInv, Pending, PendOK, type, Delays, DelayOK, Delayed, Called
  <1>. QED  BY DEF IInv

\* A step keeps the invariant, and moves the requests that are held as Moved says.
LEMMA StepHolds == IInv => Moved /\ (Next => IInv')
  <1>Popped.
    ASSUME NEW s \in Seq(FrameSet), s # <<>>, Orderly(s)
    PROVE  /\ Tail(s) \in Seq(FrameSet) /\ Orderly(Tail(s))
           /\ Head(s) \in FrameSet /\ Head(s) \in Elements(s)
           /\ Elements(Tail(s)) = Elements(s) \ {Head(s)}
           /\ \A fr \in Elements(Tail(s)) : fr.r # Head(s).r
           /\ Tail(s) # <<>> => Head(Tail(s)).pc \in {"respond", "free"}
    <2>. USE <1>Popped
    <2>.  /\ Tail(s) \in Seq(FrameSet) /\ Len(Tail(s)) = Len(s) - 1 /\ Len(s) \in Nat /\ Len(s) >= 1
          /\ \A i \in 1 .. Len(Tail(s)) : Tail(s)[i] = s[i + 1]
          /\ Head(s) = s[1] /\ s[1] \in FrameSet
          /\ Tail(s) # <<>> => Len(s) >= 2 /\ Head(Tail(s)) = s[2]
      BY SMT
    <2>1. Orderly(Tail(s))
      BY SMT DEF Orderly
    <2>2. Head(s) \in Elements(s)
      BY SMT DEF Elements
    <2>3. ASSUME NEW fr \in Elements(Tail(s)) PROVE fr \in Elements(s) /\ fr.r # Head(s).r
      <3>. PICK i \in 1 .. Len(Tail(s)) : fr = Tail(s)[i]
        BY SMT DEF Elements
      <3>. QED  BY SMT DEF Elements, Orderly
    <2>4. ASSUME NEW fr \in Elements(s), fr # Head(s) PROVE fr \in Elements(Tail(s))
      <3>. PICK i \in 1 .. Len(s) : fr = s[i]
        BY SMT DEF Elements
      <3>. i # 1 /\ i - 1 \in 1 .. Len(Tail(s)) /\ fr = Tail(s)[i - 1]
        BY <2>4, SMT
      <3>. QED  BY SMT DEF Elements
    <2>. Tail(s) # <<>> => Head(Tail(s)).pc \in {"respond", "free"}
      BY SMT DEF Orderly
    <2>. Head(s) \notin Elements(Tail(s))
      BY <2>3
    <2>. Elements(Tail(s)) = Elements(s) \ {Head(s)}
      BY <2>3, <2>4
    <2>. QED  BY <2>1, <2>2, <2>3
  <1>Pushed.
    ASSUME NEW s \in Seq(FrameSet), Orderly(s), NEW fr \in FrameSet, \A gr \in Elements(s) : gr.r # fr.r,
           s # <<>> => Head(s).pc \in {"respond", "free"}
    PROVE  /\ <<fr>> \o s \in Seq(FrameSet) /\ Orderly(<<fr>> \o s)
           /\ <<fr>> \o s # <<>> /\ Head(<<fr>> \o s) = fr
           /\ Elements(<<fr>> \o s) = Elements(s) \cup {fr}
    <2>. USE <1>Pushed
    <2>. DEFINE u == <<fr>> \o s
    <2>1. /\ u \in Seq(FrameSet) /\ Len(u) = Len(s) + 1 /\ Len(s) \in Nat
          /\ u # <<>> /\ Head(u) = fr /\ u[1] = fr
          /\ \A i \in 1 .. Len(u) : i # 1 => i - 1 \in 1 .. Len(s) /\ u[i] = s[i - 1]
          /\ Len(s) >= 1 => s # <<>> /\ Head(s) = s[1]
      BY SMT
    <2>. HIDE DEF u
    <2>2. Orderly(u)
      <3>1. ASSUME NEW i \in 1 .. Len(u), NEW j \in 1 .. Len(u), u[i].r = u[j].r PROVE i = j
        <4>1. \A k \in 1 .. Len(u) : k # 1 => u[k].r # fr.r
          BY <2>1, SMT DEF Elements
        <4>2. CASE i = 1 \/ j = 1
          BY <2>1, <3>1, <4>1, <4>2, SMT
        <4>3. CASE i # 1 /\ j # 1
          BY <2>1, <3>1, <4>3, SMT DEF Orderly
        <4>. QED  BY <4>2, <4>3, SMT
      <3>2. ASSUME NEW i \in 1 .. Len(u), i # 1 PROVE u[i].pc \in {"respond", "free"}
        <4>1. i - 1 \in 1 .. Len(s) /\ u[i] = s[i - 1]
          BY <2>1, <3>2, SMT
        <4>. QED  BY <2>1, <3>2, <4>1, SMT DEF Orderly
      <3>. QED  BY <3>1, <3>2, SMT DEF Orderly
    <2>3. ASSUME NEW gr \in Elements(s) PROVE gr \in Elements(u)
      <3>1. PICK i \in 1 .. Len(s) : gr = s[i]
        BY SMT DEF Elements
      <3>2. i + 1 \in 1 .. Len(u) /\ u[i + 1] = gr
        BY <2>1, <3>1, SMT
      <3>. QED  BY <3>2, SMT DEF Elements
    <2>4. fr \in Elements(u)
      BY <2>1, SMT DEF Elements
    <2>5. ASSUME NEW gr \in Elements(u) PROVE gr \in Elements(s) \cup {fr}
      BY <2>1 DEF Elements
    <2>6. Elements(u) = Elements(s) \cup {fr}
      BY <2>3, <2>4, <2>5
    <2>. QED  BY <2>1, <2>2, <2>6 DEF u
  <1>Appended.
    ASSUME NEW s \in Seq(Ids), Distinct(s), NEW f \in Ids, f \notin Elements(s)
    PROVE  /\ Append(s, f) \in Seq(Ids) /\ Distinct(Append(s, f))
           /\ Elements(Append(s, f)) = Elements(s) \cup {f}
    <2>. USE <1>Appended
    <2>. DEFINE u == Append(s, f)
    <2>.  /\ u \in Seq(Ids) /\ Len(u) = Len(s) + 1 /\ Len(s) \in Nat /\ u[Len(u)] = f
          /\ \A i \in 1 .. Len(s) : u[i] = s[i]
          /\ \A i \in 1 .. Len(u) : i # Len(u) => i \in 1 .. Len(s)
      BY SMT
    <2>. HIDE DEF u
    <2>1. Distinct(u)
      <3>. SUFFICES ASSUME NEW i \in 1 .. Len(u), NEW j \in 1 .. Len(u), u[i] = u[j] PROVE i = j
        BY DEF Distinct
      <3>. \A k \in 1 .. Len(s) : s[k] # f
        BY DEF Elements
      <3>1. CASE i = Len(u) \/ j = Len(u)
        BY <3>1
      <3>2. CASE i # Len(u) /\ j # Len(u)
        BY <3>2 DEF Distinct
      <3>. QED  BY <3>1, <3>2
    <2>2. ASSUME NEW x \in Elements(s) PROVE x \in Elements(u)
      BY SMT DEF Elements
    <2>. f \in Elements(u)
      BY SMT DEF Elements
    <2>3. ASSUME NEW x \in Elements(u) PROVE x \in Elements(s) \cup {f}
      BY SMT DEF Elements
    <2>. Elements(u) = Elements(s) \cup {f}
      BY <2>2, <2>3
    <2>. QED  BY <2>1 DEF u
  <1>Shortened.
    ASSUME NEW s \in Seq(Ids), Distinct(s), s # <<>>
    PROVE  /\ Tail(s) \in Seq(Ids) /\ Distinct(Tail(s)) /\ Head(s) \in Ids /\ Head(s) \in Elements(s)
           /\ Elements(Tail(s)) = Elements(s) \ {Head(s)}
    <2>. USE <1>Shortened
    <2>.  /\ Tail(s) \in Seq(Ids) /\ Len(Tail(s)) = Len(s) - 1 /\ Len(s) \in Nat /\ Len(s) >= 1
          /\ \A i \in 1 .. Len(Tail(s)) : Tail(s)[i] = s[i + 1]
          /\ Head(s) = s[1] /\ s[1] \in Ids
      BY SMT
    <2>1. Distinct(Tail(s))
      BY SMT DEF Distinct
    <2>2. Head(s) \in Elements(s)
      BY SMT DEF Elements
    <2>3. ASSUME NEW x \in Elements(Tail(s)) PROVE x \in Elements(s) /\ x # Head(s)
      <3>. PICK i \in 1 .. Len(Tail(s)) : x = Tail(s)[i]
        BY SMT DEF Elements
      <3>. QED  BY SMT DEF Elements, Distinct
    <2>4. ASSUME NEW x \in Elements(s), x # Head(s) PROVE x \in Elements(Tail(s))
      <3>. PICK i \in 1 .. Len(s) : x = s[i]
        BY SMT DEF Elements
      <3>. i - 1 \in 1 .. Len(Tail(s)) /\ x = Tail(s)[i - 1]
        BY <2>4, SMT
      <3>. QED  BY DEF Elements
    <2>. Elements(Tail(s)) = Elements(s) \ {Head(s)}
      BY <2>3, <2>4
    <2>. QED  BY <2>1, <2>2
  <1>StackPopped.
    ASSUME Typed, Calls, NEW p \in Procs, stack[p] # <<>>, NEW top, top = Head(stack[p]), Replace(p, <<>>)
    PROVE  Stacked(p, {top}, {})
    <2>. USE <1>StackPopped
    <2>1. stack[p] \in Seq(FrameSet) /\ Orderly(stack[p])
      BY DEF Typed, Calls
    <2>. Tail(stack[p]) \in Seq(FrameSet) /\ Orderly(Tail(stack[p])) /\ Elements(Tail(stack[p])) = Elements(stack[p]) \ {top}
      BY <2>1, <1>Popped
    <2>2. <<>> \o Tail(stack[p]) = Tail(stack[p])
      BY SMT
    <2>. stack' = [stack EXCEPT ![p] = Tail(stack[p])]
      BY <2>2 DEF Replace
    <2>. stack'[p] = Tail(stack[p]) /\ \A w \in Procs : w # p => stack'[w] = stack[w]
      BY DEF Typed
    <2>. stack' \in [Procs -> Seq(FrameSet)]
      BY DEF Typed
    <2>. QED  BY DEF Stacked
  <1>StackSwapped.
    ASSUME Typed, Calls, NEW p \in Procs, stack[p] # <<>>, NEW top, top = Head(stack[p]),
           NEW fr \in FrameSet, fr.r = top.r, Replace(p, <<fr>>)
    PROVE  Stacked(p, {top}, {fr}) /\ stack'[p] # <<>> /\ Head(stack'[p]) = fr
    <2>. USE <1>StackSwapped
    <2>. DEFINE s == Tail(stack[p])
    <2>1. stack[p] \in Seq(FrameSet) /\ Orderly(stack[p])
      BY DEF Typed, Calls
    <2>.  /\ s \in Seq(FrameSet) /\ Orderly(s) /\ Elements(s) = Elements(stack[p]) \ {top}
          /\ \A gr \in Elements(s) : gr.r # fr.r
          /\ s # <<>> => Head(s).pc \in {"respond", "free"}
      <3>.  /\ s \in Seq(FrameSet) /\ Orderly(s) /\ Elements(s) = Elements(stack[p]) \ {Head(stack[p])}
            /\ \A gr \in Elements(s) : gr.r # Head(stack[p]).r
            /\ s # <<>> => Head(s).pc \in {"respond", "free"}
        BY <2>1, <1>Popped
      <3>. QED  OBVIOUS
    <2>.  /\ <<fr>> \o s \in Seq(FrameSet) /\ Orderly(<<fr>> \o s)
          /\ <<fr>> \o s # <<>> /\ Head(<<fr>> \o s) = fr
          /\ Elements(<<fr>> \o s) = Elements(s) \cup {fr}
      BY <1>Pushed
    <2>. stack' = [stack EXCEPT ![p] = <<fr>> \o s]
      BY DEF Replace
    <2>. stack'[p] = <<fr>> \o s /\ \A w \in Procs : w # p => stack'[w] = stack[w]
      BY DEF Typed
    <2>. stack' \in [Procs -> Seq(FrameSet)]
      BY DEF Typed
    <2>. QED  BY DEF Stacked
  <1>StackPushed.
    ASSUME Typed, Calls, NEW p \in Procs, NEW fr \in FrameSet, Push(p, <<fr>>),
           stack[p] # <<>> => Head(stack[p]).pc \in {"respond", "free"},
           \A gr \in Elements(stack[p]) : gr.r # fr.r
    PROVE  Stacked(p, {}, {fr}) /\ stack'[p] # <<>> /\ Head(stack'[p]) = fr
    <2>. USE <1>StackPushed
    <2>. DEFINE s == stack[p]
    <2>1. stack[p] \in Seq(FrameSet) /\ Orderly(stack[p])
      BY DEF Typed, Calls
    <2>.  /\ <<fr>> \o s \in Seq(FrameSet) /\ Orderly(<<fr>> \o s)
          /\ <<fr>> \o s # <<>> /\ Head(<<fr>> \o s) = fr
          /\ Elements(<<fr>> \o s) = Elements(s) \cup {fr}
      BY <2>1, <1>Pushed
    <2>. stack' = [stack EXCEPT ![p] = <<fr>> \o s]
      BY DEF Push
    <2>. stack'[p] = <<fr>> \o s /\ \A w \in Procs : w # p => stack'[w] = stack[w]
      BY DEF Typed
    <2>. stack' \in [Procs -> Seq(FrameSet)]
      BY DEF Typed
    <2>. QED  BY DEF Stacked
  \* sflush calls the service function flush, which answers the old request first.
  <1>StackDoubled.
    ASSUME Typed, Calls, NEW p \in Procs, stack[p] # <<>>, NEW top, top = Head(stack[p]),
           NEW fr \in FrameSet, fr.r = top.r, fr.pc = "respond",
           NEW gr \in FrameSet, gr.r \notin Called, Replace(p, <<gr, fr>>)
    PROVE  Stacked(p, {top}, {fr, gr}) /\ stack'[p] # <<>> /\ Head(stack'[p]) = gr
    <2>. USE <1>StackDoubled
    <2>. DEFINE s == Tail(stack[p])
    <2>1. stack[p] \in Seq(FrameSet) /\ Orderly(stack[p])
      BY DEF Typed, Calls
    <2>2. /\ s \in Seq(FrameSet) /\ Orderly(s) /\ Elements(s) = Elements(stack[p]) \ {top}
          /\ \A hr \in Elements(s) : hr.r # fr.r
          /\ s # <<>> => Head(s).pc \in {"respond", "free"}
      <3>.  /\ s \in Seq(FrameSet) /\ Orderly(s) /\ Elements(s) = Elements(stack[p]) \ {Head(stack[p])}
            /\ \A hr \in Elements(s) : hr.r # Head(stack[p]).r
            /\ s # <<>> => Head(s).pc \in {"respond", "free"}
        BY <2>1, <1>Popped
      <3>. QED  OBVIOUS
    <2>3. /\ <<fr>> \o s \in Seq(FrameSet) /\ Orderly(<<fr>> \o s)
          /\ <<fr>> \o s # <<>> /\ Head(<<fr>> \o s) = fr
          /\ Elements(<<fr>> \o s) = Elements(s) \cup {fr}
      BY <2>2, <1>Pushed
    <2>4. PICK u : u = <<fr>> \o s
      OBVIOUS
    <2>5. /\ u \in Seq(FrameSet) /\ Orderly(u) /\ u # <<>> /\ Head(u).pc \in {"respond", "free"}
          /\ Elements(u) = Elements(s) \cup {fr}
      BY <2>3, <2>4
    <2>6. ASSUME NEW hr \in Elements(u) PROVE hr.r # gr.r
      <3>. top \in Elements(stack[p])
        BY <2>1, <1>Popped
      <3>. PICK kr \in Elements(stack[p]) : kr.r = hr.r
        BY <2>2, <2>5, <2>6
      <3>. kr.r \in Ids
        BY FrameTyped
      <3>. QED  BY DEF Called
    <2>.  /\ <<gr>> \o u \in Seq(FrameSet) /\ Orderly(<<gr>> \o u)
          /\ <<gr>> \o u # <<>> /\ Head(<<gr>> \o u) = gr
          /\ Elements(<<gr>> \o u) = Elements(u) \cup {gr}
      BY <2>5, <2>6, <1>Pushed
    <2>7. <<gr, fr>> \o s = <<gr>> \o u
      BY <2>2, <2>4, SMT
    <2>. stack' = [stack EXCEPT ![p] = <<gr>> \o u]
      BY <2>7 DEF Replace
    <2>. stack'[p] = <<gr>> \o u /\ \A w \in Procs : w # p => stack'[w] = stack[w]
      BY DEF Typed
    <2>. stack' \in [Procs -> Seq(FrameSet)]
      BY DEF Typed
    <2>. Elements(stack'[p]) = (Elements(stack[p]) \ {top}) \cup {fr, gr}
      BY <2>2, <2>5
    <2>. QED  BY DEF Stacked
  \* The label free of respond.
  <1>FreeFrame.
    ASSUME IInv, NEW p \in Procs, NEW q, AtFree(p), q = Top(p)
    PROVE  /\ stack[p] # <<>> /\ q = Head(stack[p]).r /\ Head(stack[p]).pc = "free"
           /\ q \in Ids /\ q \in over /\ responded[q] /\ q <= nread /\ q \notin pend /\ q \in Called
           /\ \A o \in Ids : q \notin Delayed(o)
    <2>. USE <1>FreeFrame
    <2>. stack[p] # <<>> /\ q = Head(stack[p]).r /\ Head(stack[p]).pc \in {"respond", "free"} /\ responded[q]
      BY DEF AtFree, Top
    <2>. FrameOK(p, Head(stack[p]))
      BY TopFrame DEF IInv
    <2>. Head(stack[p]).pc = "free" /\ q \in over
      BY DEF FrameOK
    <2>. QED  BY CalledReq DEF IInv
  \* The tag of the next message is not in the pool: its last request is over.
  <1>TagIsNew.
    ASSUME Typed, Tagged, Pooled, NEW q \in Ids, q = nread + 1, nread < Len(msg)
    PROVE  /\ q \in Sent /\ tag(q) \in Tags /\ rpool[tag(q)] = 0
           /\ ~responded[q] /\ q \notin over /\ ~(q <= nread)
           /\ \A x \in Ids : x <= nread + 1 <=> x <= nread \/ x = q
    <2>. USE <1>TagIsNew
    <2>. q \in Sent /\ ~(q <= nread) /\ \A x \in Ids : x <= nread + 1 <=> x <= nread \/ x = q
      BY SMT DEF Typed, Sent, Ids
    <2>. tag(q) \in Tags /\ ~responded[q] /\ q \notin over
      BY DEF Typed, MessageOK, Pooled, tag
    <2>1. ASSUME rpool[tag(q)] # 0 PROVE FALSE
      <3>. PICK r \in Ids : r = rpool[tag(q)]
        BY <2>1 DEF Typed
      <3>. r <= nread /\ ~responded[r] /\ tag(r) = tag(q)
        BY <2>1 DEF Pooled
      <3>. r \in Sent /\ r \notin over
        BY WasSent DEF Pooled
      <3>. ctag[tag(r)] = r /\ ctag[tag(q)] = q
        BY DEF Tagged
      <3>. QED  OBVIOUS
    <2>. QED  BY <2>1
  <1>StepMoves.
    IInv => Moved
    <2>OneFrame.
      ASSUME Calls, NEW p \in Procs, NEW w \in Procs, NEW fr \in Elements(stack[p]), NEW gr \in Elements(stack[w]),
             fr.r = gr.r
      PROVE  fr = gr
      <3>. USE <2>OneFrame
      <3>. p = w /\ Orderly(stack[p])
        BY DEF Calls
      <3>. gr \in Elements(stack[p])
        OBVIOUS
      <3>. PICK i \in 1 .. Len(stack[p]) : fr = stack[p][i]
        BY DEF Elements
      <3>. PICK j \in 1 .. Len(stack[p]) : gr = stack[p][j]
        BY DEF Elements
      <3>. QED  BY DEF Orderly
    <2>StackMoves.
      ASSUME Calls, NEW p \in Procs, NEW out, NEW in, Stacked(p, out, in), \A fr \in out : fr \in Elements(stack[p]),
             NEW x \in Ids
      PROVE  Leaves(x, out, in)
      <3>. USE <2>StackMoves
      <3>1. /\ \A fr : fr \in Elements(stack'[p]) <=> fr \in in \/ (fr \in Elements(stack[p]) /\ fr \notin out)
            /\ \A w \in Procs : w # p => stack'[w] = stack[w]
        BY DEF Stacked
      <3>2. ASSUME NEW w \in Procs, NEW fr \in Elements(stack'[w]), fr.r = x
            PROVE  fr \in in \/ (fr \in Elements(stack[w]) /\ \A gr \in out : gr.r # x)
        <4>1. CASE fr \in Elements(stack[w]) /\ (w = p => fr \notin out)
          <5>1. ASSUME NEW gr \in out, gr.r = x PROVE FALSE
            <6>. gr \in Elements(stack[p])
              BY <5>1
            <6>. fr = gr /\ w = p
              BY <3>2, <4>1, <5>1, <2>OneFrame DEF Calls
            <6>. QED  BY <4>1, <5>1
          <5>. QED  BY <4>1, <5>1
        <4>2. CASE w = p
          BY <3>1, <3>2, <4>1, <4>2
        <4>3. CASE w # p
          BY <3>1, <3>2, <4>1, <4>3
        <4>. QED  BY <4>2, <4>3
      <3>3. ASSUME x \in Called' PROVE (\E fr \in in : fr.r = x) \/ (x \in Called /\ \A fr \in out : fr.r # x)
        <4>. PICK w \in Procs : \E fr \in Elements(stack'[w]) : fr.r = x
          BY <3>3 DEF Called
        <4>. PICK fr \in Elements(stack'[w]) : fr.r = x
          OBVIOUS
        <4>. QED  BY <3>2 DEF Called
      <3>4. ASSUME NEW fr \in in, fr.r = x PROVE x \in Called'
        BY <3>1, <3>4 DEF Called
      <3>5. ASSUME x \in Called, \A fr \in out : fr.r # x PROVE x \in Called'
        <4>. PICK w \in Procs : \E fr \in Elements(stack[w]) : fr.r = x
          BY <3>5 DEF Called
        <4>. PICK fr \in Elements(stack[w]) : fr.r = x
          OBVIOUS
        <4>. fr \in Elements(stack'[w])
          <5>1. CASE w = p
            BY <3>1, <3>5, <5>1
          <5>2. CASE w # p
            BY <3>1, <5>2
          <5>. QED  BY <5>1, <5>2
        <4>. QED  BY DEF Called
      <3>6. ASSUME Handled(x)'
            PROVE (\E fr \in in : fr.r = x /\ fr.pc = "handler") \/ (Handled(x) /\ \A fr \in out : fr.r # x)
        <4>. PICK w \in Procs : \E fr \in Elements(stack'[w]) : fr.r = x /\ fr.pc = "handler"
          BY <3>6 DEF Handled
        <4>. PICK fr \in Elements(stack'[w]) : fr.r = x /\ fr.pc = "handler"
          OBVIOUS
        <4>. QED  BY <3>2 DEF Handled
      <3>. QED  BY <3>3, <3>4, <3>5, <3>6 DEF Leaves
    \* The top frame goes on, or is popped, or one is pushed on it.
    <2>SwapMoves.
      ASSUME Typed, Calls, NEW p \in Procs, stack[p] # <<>>, NEW q \in Ids, q = Head(stack[p]).r,
             NEW fr \in FrameSet, fr.r = q, fr.pc # "handler", Replace(p, <<fr>>), NEW x \in Ids
      PROVE  (x \in Called' <=> x \in Called) /\ (Handled(x)' => Handled(x) /\ x # q)
      <3>. USE <2>SwapMoves
      <3>. PICK top : top = Head(stack[p])
        OBVIOUS
      <3>. PICK out, in : out = {top} /\ in = {fr}
        OBVIOUS
      <3>1. Stacked(p, {top}, {fr})
        BY <1>StackSwapped
      <3>2. Stacked(p, out, in)
        BY <3>1
      <3>. top \in Elements(stack[p]) /\ q \in Called
        <4>. top \in Elements(stack[p])
          BY TopFrame
        <4>. QED  BY DEF Called
      <3>. Leaves(x, out, in)
        <4>. \A hr \in out : hr \in Elements(stack[p])
          OBVIOUS
        <4>. QED  BY <3>2, <2>StackMoves
      <3>. QED  BY DEF Leaves
    <2>PopMoves.
      ASSUME Typed, Calls, NEW p \in Procs, stack[p] # <<>>, NEW q \in Ids, q = Head(stack[p]).r,
             Replace(p, <<>>), NEW x \in Ids
      PROVE  (x \in Called' <=> x \in Called /\ x # q) /\ (Handled(x)' => Handled(x) /\ x # q)
      <3>. USE <2>PopMoves
      <3>. PICK top : top = Head(stack[p])
        OBVIOUS
      <3>. PICK out, in : out = {top} /\ in = {}
        OBVIOUS
      <3>1. Stacked(p, {top}, {})
        BY <1>StackPopped
      <3>2. Stacked(p, out, in)
        BY <3>1
      <3>. top \in Elements(stack[p])
        BY TopFrame
      <3>. Leaves(x, out, in)
        <4>. \A hr \in out : hr \in Elements(stack[p])
          OBVIOUS
        <4>. QED  BY <3>2, <2>StackMoves
      <3>. QED  BY DEF Leaves
    <2>PushMoves.
      ASSUME Typed, Calls, NEW p \in Procs, NEW q \in Ids, q \notin Called,
             stack[p] # <<>> => Head(stack[p]).pc \in {"respond", "free"},
             NEW fr \in FrameSet, fr.r = q, Push(p, <<fr>>), NEW x \in Ids
      PROVE  /\ x \in Called' <=> x \in Called \/ x = q
             /\ Handled(x)' => Handled(x) \/ (x = q /\ fr.pc = "handler")
      <3>. USE <2>PushMoves
      <3>. PICK out, in : out = {} /\ in = {fr}
        OBVIOUS
      <3>1. \A gr \in Elements(stack[p]) : gr.r # fr.r
        BY DEF Called
      <3>2. Stacked(p, {}, {fr})
        BY <3>1, <1>StackPushed
      <3>. Stacked(p, out, in)
        BY <3>2
      <3>. Leaves(x, out, in)
        <4>. \A hr \in out : hr \in Elements(stack[p])
          OBVIOUS
        <4>. QED  BY <2>StackMoves
      <3>. QED  BY DEF Leaves
    <2>DoubleMoves.
      ASSUME Typed, Calls, NEW p \in Procs, stack[p] # <<>>, NEW q \in Ids, q = Head(stack[p]).r,
             NEW fr \in FrameSet, fr.r = q, fr.pc = "respond",
             NEW o \in Ids, o \notin Called, NEW gr \in FrameSet, gr.r = o, gr.pc = "respond",
             Replace(p, <<gr, fr>>), NEW x \in Ids
      PROVE  (x \in Called' <=> x \in Called \/ x = o) /\ (Handled(x)' => Handled(x) /\ x # q)
      <3>. USE <2>DoubleMoves
      <3>. PICK top : top = Head(stack[p])
        OBVIOUS
      <3>. PICK out, in : out = {top} /\ in = {fr, gr}
        OBVIOUS
      <3>1. Stacked(p, {top}, {fr, gr})
        BY <1>StackDoubled
      <3>2. Stacked(p, out, in)
        BY <3>1
      <3>. top \in Elements(stack[p]) /\ q \in Called
        <4>. top \in Elements(stack[p])
          BY TopFrame
        <4>. QED  BY DEF Called
      <3>. Leaves(x, out, in)
        <4>. \A hr \in out : hr \in Elements(stack[p])
          OBVIOUS
        <4>. QED  BY <3>2, <2>StackMoves
      <3>. fr.pc # "handler" /\ gr.pc # "handler"
        BY SMT
      <3>. QED  BY DEF Leaves
    <2>GoOnMoves.
      ASSUME IInv, NEW p \in Procs, stack[p] # <<>>, NEW q \in Ids, q = Head(stack[p]).r,
             NEW fr \in FrameSet, fr.r = q, fr.pc # "handler", Replace(p, <<fr>>), UNCHANGED <<nread, pend, flush>>
      PROVE  HeldStays /\ Served(q) /\ q \in Held
      <3>. USE <2>GoOnMoves
      <3>1. Typed /\ Calls /\ Delays
        BY DEF IInv
      <3>. q \in Called /\ q <= nread
        BY <3>1, CalledReq
      <3>2. ASSUME NEW x \in Ids PROVE (x \in Held' <=> x \in Held) /\ (New(x)' => New(x) /\ x # q)
        <4>. (x \in Called' <=> x \in Called) /\ (Handled(x)' => Handled(x) /\ x # q)
          BY <3>1, <2>SwapMoves
        <4>. Late(x)' <=> Late(x)
          BY DEF Late, Delayed
        <4>.  /\ x \in Held <=> x \in Called \/ x \in pend \/ Late(x)
              /\ x \in Held' <=> x \in Called' \/ x \in pend' \/ Late(x)'
              /\ New(x) <=> ~(x <= nread) \/ Handled(x)
              /\ New(x)' <=> ~(x <= nread') \/ Handled(x)'
          BY HeldMoves
        <4>. QED  OBVIOUS
      <3>. q \in Held
        BY HeldMoves
      <3>. QED  BY <3>2 DEF HeldStays, Served
    <2>LeaveMoves.
      ASSUME IInv, NEW p \in Procs, stack[p] # <<>>, NEW q \in Ids, q = Head(stack[p]).r,
             Replace(p, <<>>), UNCHANGED nread, pend' = pend \cup {q}, flush' = flush
      PROVE  HeldStays /\ Served(q) /\ q \in Held
      <3>. USE <2>LeaveMoves
      <3>1. Typed /\ Calls /\ Delays
        BY DEF IInv
      <3>. q \in Called /\ q <= nread
        BY <3>1, CalledReq
      <3>2. ASSUME NEW x \in Ids PROVE (x \in Held' <=> x \in Held) /\ (New(x)' => New(x) /\ x # q)
        <4>. (x \in Called' <=> x \in Called /\ x # q) /\ (Handled(x)' => Handled(x) /\ x # q)
          BY <3>1, <2>PopMoves
        <4>. (Late(x)' <=> Late(x)) /\ (x \in pend' <=> x \in pend \/ x = q)
          BY DEF Late, Delayed
        <4>.  /\ x \in Held <=> x \in Called \/ x \in pend \/ Late(x)
              /\ x \in Held' <=> x \in Called' \/ x \in pend' \/ Late(x)'
              /\ New(x) <=> ~(x <= nread) \/ Handled(x)
              /\ New(x)' <=> ~(x <= nread') \/ Handled(x)'
          BY HeldMoves
        <4>. QED  OBVIOUS
      <3>. q \in Held
        BY HeldMoves
      <3>. QED  BY <3>2 DEF HeldStays, Served
    <2>ServeMoves.
      ASSUME IInv, NEW q \in Ids, sattach(q) \/ swalk(q) \/ sio(q) \/ sclunk(q)
      PROVE  HeldStays /\ Served(q) /\ q \in Held /\ New(q)
      <3>. USE <2>ServeMoves
      <3>.  /\ stack["srv"] # <<>> /\ Head(stack["srv"]).pc = "handler" /\ q = Head(stack["srv"]).r
            /\ UNCHANGED <<nread, flush>> /\ "srv" \in Procs /\ Typed /\ Calls
        <4>. \E ty \in {"attach", "walk", "io", "clunk"} : Handling(q, ty)
          BY DEF sattach, swalk, sio, sclunk
        <4>. QED  BY DEF Handling, At, Top, Procs, IInv
      <3>1. Later(q) \/ \E result \in Outcomes : Now(q, result)
        <4>. Serve(q) \/ Now(q, "error")
          BY DEF sattach, swalk, sio, sclunk
        <4>. Results(q) \subseteq Outcomes
          BY DEF Results, Outcomes
        <4>. QED  BY DEF Serve, Outcomes
      <3>2. New(q)
        <4>. Head(stack["srv"]) \in Elements(stack["srv"])
          BY TopFrame
        <4>. QED  BY DEF New
      <3>3. CASE Later(q)
        <4>. pend' = pend \cup {q} /\ Replace("srv", <<>>)
          BY <3>3 DEF Later
        <4>. QED  BY <3>2, <2>LeaveMoves
      <3>4. CASE \E result \in Outcomes : Now(q, result)
        <4>. PICK result \in Outcomes : Now(q, result)
          BY <3>4
        <4>. PICK fr : fr = Frame(q, "respond", result)
          OBVIOUS
        <4>. Replace("srv", <<fr>>) /\ pend' = pend /\ fr.r = q /\ fr.pc # "handler" /\ fr \in FrameSet
          BY DEF Now, Frame, FrameSet, PCs
        <4>. QED  BY <3>2, <2>GoOnMoves
      <3>. QED  BY <3>1, <3>3, <3>4
    \* A request that is left for later, or delayed, is called for.
    <2>CallMoves.
      ASSUME IInv, NEW p \in Procs, NEW q \in Ids, q \notin Called, q <= nread,
             stack[p] # <<>> => Head(stack[p]).pc \in {"respond", "free"},
             NEW fr \in FrameSet, fr.r = q, fr.pc # "handler", Push(p, <<fr>>), UNCHANGED nread,
             q \in Held, \A x \in Ids : x # q => (x \in pend' <=> x \in pend) /\ (Late(x)' <=> Late(x))
      PROVE  HeldStays /\ NewStays
      <3>. USE <2>CallMoves
      <3>1. Typed /\ Calls
        BY DEF IInv
      <3>2. ASSUME NEW x \in Ids PROVE (x \in Held' <=> x \in Held) /\ (New(x)' => New(x))
        <4>. (x \in Called' <=> x \in Called \/ x = q) /\ (Handled(x)' => Handled(x))
          BY <3>1, <2>PushMoves
        <4>.  /\ x \in Held <=> x \in Called \/ x \in pend \/ Late(x)
              /\ x \in Held' <=> x \in Called' \/ x \in pend' \/ Late(x)'
              /\ New(x) <=> ~(x <= nread) \/ Handled(x)
              /\ New(x)' <=> ~(x <= nread') \/ Handled(x)'
          BY HeldMoves
        <4>1. CASE x = q
          BY <4>1
        <4>2. CASE x # q
          BY <4>2
        <4>. QED  BY <4>1, <4>2
      <3>. QED  BY <3>2 DEF HeldStays, NewStays
    \* A request that is left for later is in no call, and on no list.
    <2>PendingApart.
      ASSUME IInv, NEW q \in pend
      PROVE  q \in Ids /\ q <= nread /\ q \notin Called /\ q \in Held /\ ~Late(q)
      <3>. USE <2>PendingApart
      <3>1. Typed /\ Calls /\ Delays /\ Pending
        BY DEF IInv
      <3>2. ASSUME q \in Called PROVE FALSE
        <4>. PICK w \in Procs : \E gr \in Elements(stack[w]) : gr.r = q
          BY <3>2 DEF Called
        <4>. PICK gr \in Elements(stack[w]) : gr.r = q
          OBVIOUS
        <4>. FrameOK(w, gr)
          BY <3>1 DEF Calls
        <4>. QED  BY DEF FrameOK
      <3>. q \in Ids /\ q <= nread /\ ~Late(q)
        BY <3>1 DEF Typed, Pending, PendOK, Late, Delays, DelayOK
      <3>. q \in Held
        BY HeldMoves
      <3>. QED  BY <3>2
    <2>FinishMoves.
      ASSUME IInv, NEW p \in Workers, NEW q \in Ids, NEW result \in Outcomes, Finish(p, q, result)
      PROVE  HeldStays /\ NewStays
      <3>. USE <2>FinishMoves
      <3>.  /\ stack[p] = <<>> /\ q \in pend /\ pend' = pend \ {q} /\ UNCHANGED <<nread, flush>> /\ p \in Procs
            /\ Push(p, <<Frame(q, "respond", result)>>)
        BY DEF Finish, reqvars, Procs
      <3>1. PICK fr : fr = Frame(q, "respond", result)
        OBVIOUS
      <3>. Push(p, <<fr>>) /\ fr.r = q /\ fr.pc # "handler" /\ fr \in FrameSet
        BY <3>1 DEF Frame, FrameSet, PCs
      <3>. q <= nread /\ q \notin Called /\ q \in Held
        BY <2>PendingApart
      <3>. \A x \in Ids : x # q => (x \in pend' <=> x \in pend) /\ (Late(x)' <=> Late(x))
        BY DEF Late, Delayed
      <3>. QED  BY <2>CallMoves
    <2>DelayMoves.
      ASSUME IInv, NEW p \in Procs, NEW q \in Ids, rflushDelay(p, q)
      PROVE  HeldStays /\ NewStays
      <3>. USE <2>DelayMoves
      <3>.  /\ stack[p] # <<>> /\ q = Head(stack[p]).r /\ oldreq[q] # 0
            /\ flush' = [flush EXCEPT ![oldreq[q]] = Append(@, q)] /\ Replace(p, <<>>) /\ UNCHANGED <<nread, pend>>
        BY DEF rflushDelay, At, Top
      <3>. Typed /\ Calls /\ Delays
        BY DEF IInv
      <3>1. q \in Called /\ \A o \in Ids : q \notin Delayed(o)
        BY CalledReq
      <3>2. PICK or \in Ids : or = oldreq[q]
        BY DEF Typed
      <3>3. Elements(Append(flush[or], q)) = Delayed(or) \cup {q}
        <4>. flush[or] \in Seq(Ids) /\ Distinct(flush[or]) /\ q \notin Elements(flush[or])
          BY <3>1 DEF Typed, Delays, Delayed
        <4>. QED  BY <1>Appended DEF Delayed
      <3>4. flush'[or] = Append(flush[or], q) /\ \A o \in Ids : o # or => flush'[o] = flush[o]
        BY <3>2 DEF Typed
      <3>5. ASSUME NEW x \in Ids PROVE Late(x)' <=> Late(x) \/ x = q
        <4>. x \in Elements(flush'[or]) <=> x \in Delayed(or) \/ x = q
          BY <3>3, <3>4
        <4>. \A o \in Ids : o # or => (x \in Elements(flush'[o]) <=> x \in Delayed(o))
          BY <3>4 DEF Delayed
        <4>. Late(x)' <=> \E o \in Ids : x \in Elements(flush'[o])
          BY DEF Late, Delayed
        <4>. QED  BY DEF Late
      <3>6. ASSUME NEW x \in Ids PROVE (x \in Held' <=> x \in Held) /\ (New(x)' => New(x))
        <4>. (x \in Called' <=> x \in Called /\ x # q) /\ (Handled(x)' => Handled(x) /\ x # q)
          BY <2>PopMoves
        <4>.  /\ x \in Held <=> x \in Called \/ x \in pend \/ Late(x)
              /\ x \in Held' <=> x \in Called' \/ x \in pend' \/ Late(x)'
              /\ New(x) <=> ~(x <= nread) \/ Handled(x)
              /\ New(x)' <=> ~(x <= nread') \/ Handled(x)'
          BY HeldMoves
        <4>. QED  BY <3>1, <3>5
      <3>. QED  BY <3>6 DEF HeldStays, NewStays
    <2>RespondflushMoves.
      ASSUME IInv, NEW p \in Procs, NEW q \in Ids, respondflush(p, q)
      PROVE  /\ HeldStays /\ NewStays
             /\ \E f \in Ids : /\ oldreq[f] = q /\ oldreq' = [oldreq EXCEPT ![f] = 0]
                               /\ f <= nread /\ msg[f].target = q
      <3>. USE <2>RespondflushMoves
      <3>.  /\ AtFree(p) /\ q = Top(p) /\ flush[q] # <<>> /\ oldreq' = [oldreq EXCEPT ![Head(flush[q])] = 0]
            /\ flush' = [flush EXCEPT ![q] = Tail(@)] /\ Push(p, <<Frame(Head(flush[q]), "respond", "ok")>>)
            /\ UNCHANGED <<nread, pend>>
        BY DEF respondflush
      <3>1. stack[p] # <<>> /\ Head(stack[p]).pc = "free"
        BY <1>FreeFrame
      <3>2. Typed /\ Calls /\ Delays
        BY DEF IInv
      <3>3. /\ Head(flush[q]) \in Ids /\ Head(flush[q]) \in Delayed(q)
            /\ Elements(Tail(flush[q])) = Delayed(q) \ {Head(flush[q])}
        <4>. flush[q] \in Seq(Ids) /\ Distinct(flush[q])
          BY <3>2 DEF Typed, Delays
        <4>. QED  BY <1>Shortened DEF Delayed
      <3>. PICK f \in Ids : f = Head(flush[q])
        BY <3>3
      <3>4. DelayOK(q, f) /\ f \notin Called
        BY <3>2, <3>3 DEF Delays
      <3>5. PICK fr : fr = Frame(f, "respond", "ok")
        OBVIOUS
      <3>6. Push(p, <<fr>>) /\ fr \in FrameSet /\ fr.r = f /\ fr.pc # "handler"
        BY <3>5 DEF Frame, FrameSet, PCs, Outcomes
      <3>7. flush'[q] = Tail(flush[q]) /\ \A o \in Ids : o # q => flush'[o] = flush[o]
        BY <3>2 DEF Typed
      <3>8.  ASSUME NEW x \in Ids, x # f PROVE Late(x)' <=> Late(x)
        <4>. x \in Elements(flush'[q]) <=> x \in Delayed(q)
          BY <3>3, <3>7, <3>8
        <4>. \A o \in Ids : o # q => (x \in Elements(flush'[o]) <=> x \in Delayed(o))
          BY <3>7 DEF Delayed
        <4>. Late(x)' <=> \E o \in Ids : x \in Elements(flush'[o])
          BY DEF Late, Delayed
        <4>. QED  BY DEF Late
      <3>9.  Late(f) /\ f \in Held
        <4>. Late(f)
          BY <3>3 DEF Late
        <4>. QED  BY HeldMoves
      <3>10. \A x \in Ids : x # f => (x \in pend' <=> x \in pend) /\ (Late(x)' <=> Late(x))
        BY <3>8
      <3>. HeldStays /\ NewStays
        <4>. f <= nread /\ nread' = nread
          BY <3>4 DEF DelayOK
        <4>. QED  BY <3>1, <3>4, <3>6, <3>9, <3>10, <2>CallMoves
      <3>. oldreq[f] = q /\ oldreq' = [oldreq EXCEPT ![f] = 0] /\ f <= nread /\ msg[f].target = q
        BY <3>4 DEF DelayOK
      <3>. QED  OBVIOUS
    \* The requests that a Tflush finds, or that a service function may answer.
    <2>SflushMoves.
      ASSUME IInv, NEW q \in Ids, sflush(q)
      PROVE  HeldStays /\ Served(q) /\ q \in Held /\ New(q)
      <3>. USE <2>SflushMoves
      <3>. DEFINE old == rpool[msg[q].old]
      <3>.  /\ stack["srv"] # <<>> /\ Head(stack["srv"]).pc = "handler" /\ q = Head(stack["srv"]).r
            /\ UNCHANGED <<nread, flush>> /\ "srv" \in Procs /\ Typed /\ Calls /\ Delays
        BY DEF sflush, Handling, At, Top, Procs, IInv
      <3>1. \/ Now(q, "ok")
            \/ /\ old \in pend /\ pend' = pend \ {old}
               /\ Replace("srv", <<Frame(old, "respond", "error"), Frame(q, "respond", "ok")>>)
        BY DEF sflush
      <3>2. PICK fr : fr = Frame(q, "respond", "ok")
        OBVIOUS
      <3>3. fr \in FrameSet /\ fr.r = q /\ fr.pc = "respond" /\ fr.pc # "handler"
        BY <3>2 DEF Frame, FrameSet, PCs, Outcomes
      <3>. New(q) /\ q \in Called /\ q <= nread
        <4>. Head(stack["srv"]) \in Elements(stack["srv"]) /\ q \in Called /\ q <= nread
          BY TopFrame, CalledReq
        <4>. QED  BY DEF New
      <3>4. CASE Now(q, "ok")
        <4>. Replace("srv", <<fr>>) /\ pend' = pend
          BY <3>2, <3>4 DEF Now
        <4>. QED  BY <3>3, <2>GoOnMoves
      <3>5. CASE /\ old \in pend /\ pend' = pend \ {old}
                 /\ Replace("srv", <<Frame(old, "respond", "error"), Frame(q, "respond", "ok")>>)
        <4>1. PICK o \in Ids : o = old
          BY <3>5 DEF Typed
        <4>2. PICK gr : gr = Frame(o, "respond", "error")
          OBVIOUS
        <4>3. gr \in FrameSet /\ gr.r = o /\ gr.pc = "respond" /\ Replace("srv", <<gr, fr>>)
          BY <3>2, <3>5, <4>1, <4>2 DEF Frame, FrameSet, PCs, Outcomes
        <4>4. o \notin Called /\ o \in Held
          BY <3>5, <4>1, <2>PendingApart
        <4>5. ASSUME NEW x \in Ids PROVE (x \in Held' <=> x \in Held) /\ (New(x)' => New(x) /\ x # q)
          <5>. (x \in Called' <=> x \in Called \/ x = o) /\ (Handled(x)' => Handled(x) /\ x # q)
            BY <3>3, <4>3, <4>4, <2>DoubleMoves, ZenonT(30)
          <5>1. (Late(x)' <=> Late(x)) /\ (x # o => (x \in pend' <=> x \in pend))
            BY <3>5, <4>1 DEF Late, Delayed
          <5>.  /\ x \in Held <=> x \in Called \/ x \in pend \/ Late(x)
                /\ x \in Held' <=> x \in Called' \/ x \in pend' \/ Late(x)'
                /\ New(x) <=> ~(x <= nread) \/ Handled(x)
                /\ New(x)' <=> ~(x <= nread') \/ Handled(x)'
            BY HeldMoves
          <5>2. CASE x = o
            BY <4>4, <5>2
          <5>3. CASE x # o
            BY <5>1, <5>3
          <5>. QED  BY <5>2, <5>3
        <4>. q \in Held
          BY HeldMoves
        <4>. QED  BY <4>5 DEF HeldStays, Served
      <3>. QED  BY <3>1, <3>4, <3>5
    <2>ReturnMoves.
      ASSUME IInv, NEW p \in Procs, NEW q \in Ids, return(p, q)
      PROVE  (\A x \in Ids : x \in Held' <=> x \in Held /\ x # q) /\ NewStays /\ q \in Held /\ oldreq[q] = 0
      <3>. USE <2>ReturnMoves
      <3>. AtFree(p) /\ q = Top(p) /\ Replace(p, <<>>) /\ UNCHANGED <<nread, pend, flush>>
        BY DEF return
      <3>.  /\ stack[p] # <<>> /\ q = Head(stack[p]).r /\ Head(stack[p]).pc = "free" /\ q \notin pend
            /\ q \in Called /\ ~Late(q)
        BY <1>FreeFrame DEF Late
      <3>1. Typed /\ Calls
        BY DEF IInv
      <3>2. oldreq[q] = 0
        <4>. FrameOK(p, Head(stack[p]))
          BY <3>1, TopFrame
        <4>. QED  BY DEF FrameOK
      <3>3. ASSUME NEW x \in Ids PROVE (x \in Held' <=> x \in Held /\ x # q) /\ (New(x)' => New(x))
        <4>. (x \in Called' <=> x \in Called /\ x # q) /\ (Handled(x)' => Handled(x) /\ x # q)
          BY <3>1, <2>PopMoves
        <4>. (Late(x)' <=> Late(x)) /\ (x \in pend' <=> x \in pend)
          BY DEF Late, Delayed
        <4>.  /\ x \in Held <=> x \in Called \/ x \in pend \/ Late(x)
              /\ x \in Held' <=> x \in Called' \/ x \in pend' \/ Late(x)'
              /\ New(x) <=> ~(x <= nread) \/ Handled(x)
              /\ New(x)' <=> ~(x <= nread') \/ Handled(x)'
          BY HeldMoves
        <4>1. CASE x = q
          BY <4>1
        <4>2. CASE x # q
          BY <4>2
        <4>. QED  BY <4>1, <4>2
      <3>. q \in Held
        BY HeldMoves
      <3>. QED  BY <3>2, <3>3 DEF NewStays
    \* getreq, for a message whose tag is new.
    <2>GetreqMoves.
      ASSUME IInv, getreq
      PROVE  \E q \in Ids :
                /\ \A x \in Ids : x \in Held' <=> x \in Held \/ x = q
                /\ NewStays /\ New(q) /\ q \notin Held /\ ~(q <= nread) /\ nread' = q
                /\ rpool' = [rpool EXCEPT ![tag(q)] = q] /\ rref' = [rref EXCEPT ![q] = 2]
                /\ tag(q) \in Tags /\ rpool[tag(q)] = 0
      <3>. USE <2>GetreqMoves
      <3>1. Typed /\ Tagged /\ Pooled /\ Calls /\ Pending /\ Delays /\ "srv" \in Procs
        BY DEF IInv, Procs
      <3>2. /\ stack["srv"] = <<>> /\ nread < Len(msg) /\ nread' = nread + 1
            /\ UNCHANGED <<flush, pend>>
        BY DEF getreq
      <3>3. nread + 1 \in Ids
        <4>. Len(msg) \in Nat /\ Len(msg) <= MaxMsgs /\ nread \in Nat
          BY <3>1 DEF Typed
        <4>. QED  BY <3>2, Srv9pAssumption, SMT DEF Ids
      <3>4. PICK q \in Ids : q = nread + 1
        BY <3>3
      <3>.  /\ tag(q) \in Tags /\ rpool[tag(q)] = 0 /\ ~(q <= nread)
            /\ \A x \in Ids : x <= nread' <=> x <= nread \/ x = q
        BY <3>1, <3>2, <3>4, <1>TagIsNew
      <3>5. PICK fr : fr = Frame(q, "handler", "ok")
        OBVIOUS
      <3>6. /\ rpool' = [rpool EXCEPT ![tag(q)] = q] /\ Push("srv", <<fr>>) /\ rref' = [rref EXCEPT ![q] = 2]
        BY <3>4, <3>5 DEF getreq
      <3>7. fr \in FrameSet /\ fr.r = q
        BY <3>5 DEF Frame, FrameSet, PCs, Outcomes
      <3>8. q \notin Called /\ q \notin pend /\ ~Late(q)
        <4>1. ASSUME q \in Called PROVE FALSE
          <5>. PICK w \in Procs : \E gr \in Elements(stack[w]) : gr.r = q
            BY <4>1 DEF Called
          <5>. PICK gr \in Elements(stack[w]) : gr.r = q
            OBVIOUS
          <5>. FrameOK(w, gr)
            BY <3>1 DEF Calls
          <5>. QED  BY DEF FrameOK
        <4>. ~Late(q)
          BY <3>1 DEF Late, Delays, DelayOK
        <4>. QED  BY <3>1, <4>1 DEF Pending, PendOK
      <3>9.  ASSUME NEW x \in Ids PROVE (x \in Held' <=> x \in Held \/ x = q) /\ (New(x)' => New(x))
        <4>. (x \in Called' <=> x \in Called \/ x = q) /\ (Handled(x)' => Handled(x) \/ x = q)
          BY <3>1, <3>2, <3>6, <3>7, <3>8, <2>PushMoves
        <4>1. (Late(x)' <=> Late(x)) /\ (x \in pend' <=> x \in pend)
          BY <3>2 DEF Late, Delayed
        <4>.  /\ x \in Held <=> x \in Called \/ x \in pend \/ Late(x)
              /\ x \in Held' <=> x \in Called' \/ x \in pend' \/ Late(x)'
              /\ New(x) <=> ~(x <= nread) \/ Handled(x)
              /\ New(x)' <=> ~(x <= nread') \/ Handled(x)'
          BY HeldMoves
        <4>. x <= nread' <=> x <= nread \/ x = q
          OBVIOUS
        <4>2. CASE x = q
          BY <4>2
        <4>3. CASE x # q
          BY <4>1, <4>3
        <4>. QED  BY <4>2, <4>3
      <3>. q \notin Held /\ New(q)
        BY <3>8, HeldMoves
      <3>. QED  BY <3>2, <3>4, <3>6, <3>9 DEF NewStays
    \* respond goes on.
    <2>RespondingMoves.
      ASSUME IInv, NEW p \in Procs, NEW q \in Ids, NEW pc \in PCs, NEW next \in PCs, next # "handler",
             Responding(p, q, pc, next), UNCHANGED flush
      PROVE  /\ HeldStays /\ NewStays /\ q \in Held
             /\ stack[p] # <<>> /\ q = Head(stack[p]).r /\ q <= nread /\ FrameOK(p, Head(stack[p])) /\ Head(stack[p]).pc = pc
      <3>. USE <2>RespondingMoves
      <3>.  /\ stack[p] # <<>> /\ q = Head(stack[p]).r /\ UNCHANGED <<nread, pend>> /\ Head(stack[p]).pc = pc
            /\ Replace(p, <<[Head(stack[p]) EXCEPT !.pc = next]>>)
        BY DEF Responding, At, Top
      <3>. Typed /\ Calls /\ Delays
        BY DEF IInv
      <3>. Head(stack[p]) \in FrameSet /\ FrameOK(p, Head(stack[p]))
        BY TopFrame
      <3>. PICK fr : fr = [Head(stack[p]) EXCEPT !.pc = next]
        OBVIOUS
      <3>. fr \in FrameSet /\ fr.r = q /\ fr.pc # "handler"
        BY SMT DEF FrameSet
      <3>. HeldStays /\ Served(q) /\ q \in Held
        BY <2>GoOnMoves
      <3>. q <= nread
        BY CalledReq
      <3>. QED  BY DEF Served, NewStays
    <2>. SUFFICES ASSUME IInv PROVE Moved
      OBVIOUS
    <2>1. ASSUME NEW q \in Ids, sattach(q) \/ swalk(q) \/ sio(q) \/ sclunk(q) \/ sflush(q)
          PROVE  HeldStays /\ Served(q) /\ q \in Held /\ New(q)
      BY <2>1, <2>ServeMoves, <2>SflushMoves
    <2>2. GoesOn
      BY <2>RespondingMoves, ZenonT(30) DEF GoesOn
    <2>. QED  BY <2>1, <2>2, <2>FinishMoves, <2>DelayMoves, <2>RespondflushMoves, <2>ReturnMoves,
                 <2>GetreqMoves DEF Moved
  <1>StepIInv.
    IInv /\ Next => IInv'
    <2>StillRead.
      ASSUME Typed, Grows, NEW q \in Ids, q <= nread
      PROVE  q <= nread' /\ q \in Sent /\ msg'[q] = msg[q] /\ MessageOK(msg[q])
      <3>. USE <2>StillRead
      <3>. q <= nread'
        BY SMT DEF Grows, Typed, Ids
      <3>. QED  BY WasSent DEF Grows
    <2>FrameStays.
      ASSUME Typed, Grows, NEW p \in Procs, NEW fr \in FrameSet, FrameOK(p, fr), Kept(fr.r),
             fr.pc = "write" => wlock' = wlock
      PROVE  FrameOK(p, fr)'
      <3>. USE <2>FrameStays
      <3>. fr.r \in Ids /\ fr.r <= nread /\ fr.r \notin pend
        BY DEF FrameSet, FrameOK
      <3>. fr.r <= nread' /\ msg'[fr.r] = msg[fr.r] /\ msg[fr.r].target \in Ids \cup {0}
        BY <2>StillRead DEF MessageOK
      <3>. (Came(fr.r) => Came(fr.r)') /\ (Ended(fr.r) => Ended(fr.r)')
        BY DEF Came, Ended, Grows
      <3>. QED  BY DEF FrameOK, Kept
    <2>DelayStays.
      ASSUME Typed, Grows, NEW o \in Ids, NEW f \in Ids, DelayOK(o, f), Kept(f)
      PROVE  DelayOK(o, f)'
      <3>. USE <2>DelayStays
      <3>. f <= nread' /\ msg'[f] = msg[f]
        BY <2>StillRead DEF DelayOK
      <3>. QED  BY DEF DelayOK, Kept
    <2>DelaysKept.
      ASSUME Typed, Delays, Grows, NEW q \in Ids, About(q), \A o \in Ids : q \notin Delayed(o),
             flush' = flush, Called' \subseteq Called \cup {q}
      PROVE  Delays'
      <3>. USE <2>DelaysKept
      <3>1. \A o \in Ids : Delayed(o)' = Delayed(o)
        BY DEF Delayed
      <3>2. ASSUME NEW o \in Ids, NEW f \in Delayed(o) PROVE DelayOK(o, f)' /\ f \notin Called'
        <4>. f # q /\ DelayOK(o, f) /\ f \notin Called
          BY DEF Delays
        <4>. f \in Ids
          <5>. flush[o] \in Seq(Ids)
            BY DEF Typed
          <5>. QED  BY SMT DEF Delayed, Elements
        <4>. Kept(f)
          BY DEF About
        <4>. QED  BY <2>DelayStays
      <3>. QED  BY <3>1, <3>2 DEF Delays
    <2>PendingKept.
      ASSUME Typed, Pending, Grows, NEW q \in Ids, About(q), pend' \subseteq Ids, q \in pend' => PendOK(q)'
      PROVE  Pending'
      <3>. USE <2>PendingKept
      <3>. SUFFICES ASSUME NEW x \in pend', x # q PROVE PendOK(x)'
        BY DEF Pending
      <3>. x \in Ids /\ x \in pend /\ Kept(x)
        BY DEF About, Kept
      <3>. PendOK(x)
        BY DEF Pending
      <3>. x <= nread' /\ msg'[x] = msg[x]
        BY <2>StillRead DEF PendOK
      <3>. QED  BY DEF PendOK, Kept, type
    <2>SendsPreserves.
      ASSUME IInv, NEW t \in Tags, NEW m, Sends(t, m)
      PROVE  IInv'
      <3>. USE <2>SendsPreserves
      <3>. Typed /\ Tagged /\ Pooled /\ Writing /\ Calls /\ Pending /\ Delays /\ Answers /\ Flushing
        BY DEF IInv
      <3>.  /\ UNCHANGED <<over, rpool, responded, nread, oldreq, flush, pool, pend, wlock, stack>>
            /\ TagFree(t) /\ m \in Messages /\ MessageOK(m) /\ m.tag = t
            /\ m.type = "flush" => m.old # t /\ m.target = ctag[m.old]
        BY DEF Sends, reqvars, poolvars
      <3>1. PICK q : q = Len(msg) + 1
        OBVIOUS
      <3>.  /\ Len(msg)' = q /\ q <= MaxMsgs /\ q \in Nat
            /\ msg' \in Seq(Messages) /\ msg'[q] = m
            /\ q \in Ids /\ ~(q <= nread)
            /\ \A x \in Sent : msg'[x] = msg[x]
            /\ \A x : x \in Sent' <=> x \in Sent \/ x = q
            /\ \A x \in Sent : x \in Ids /\ x < q
            /\ nread <= nread /\ nread <= q
        BY <3>1, SentOn DEF Sends
      <3>2. ctag' \in [Tags -> Ids \cup {0}] /\ ctag'[t] = q /\ \A u \in Tags : u # t => ctag'[u] = ctag[u]
        BY <3>1 DEF Typed, Sends
      <3>3. Grows /\ About(q)
        BY DEF Grows, About, Kept, Typed
      <3>4. /\ \A x \in Sent : MessageOK(msg[x]) /\ tag(x)' = tag(x) /\ type(x)' = type(x) /\ tag(x) \in Tags
            /\ tag(q)' = t /\ type(q)' = m.type
        BY DEF Typed, MessageOK, tag, type
      <3>5. \A x \in Ids : x <= nread => x \in Sent
        BY WasSent
      <3>6. Pooled'
        <4>1. ASSUME NEW x \in Ids, x <= nread, ~responded[x] PROVE rpool[tag(x)'] = x
          BY <3>4, <3>5, <4>1 DEF Pooled
        <4>2. ASSUME NEW u \in Tags, rpool[u] # 0
              PROVE  rpool[u] <= nread /\ ~responded[rpool[u]] /\ (msg'[rpool[u]]).tag = u
          <5>. rpool[u] <= nread /\ ~responded[rpool[u]] /\ tag(rpool[u]) = u
            BY <4>2 DEF Pooled
          <5>. rpool[u] \in Ids
            BY <4>2 DEF Typed
          <5>. QED  BY <3>5 DEF tag
        <4>. QED  BY <4>1, <4>2 DEF Pooled, tag
      <3>7.  Calls'
        <4>1. ASSUME NEW p \in Procs, NEW fr \in Elements(stack[p]) PROVE FrameOK(p, fr)'
          <5>. fr \in FrameSet /\ fr.r \in Ids /\ FrameOK(p, fr)
            BY FrameTyped DEF Calls
          <5>. Kept(fr.r)
            <6>. fr.r # q
              BY DEF FrameOK
            <6>. QED  BY <3>3 DEF About
          <5>. QED  BY <3>3, <2>FrameStays
        <4>. QED  BY <4>1 DEF Calls
      <3>8.  Delays'
        <4>. \A o \in Ids : q \notin Delayed(o)
          BY DEF Delays, DelayOK
        <4>. Called' \subseteq Called
          BY DEF Called
        <4>. QED  BY <3>3, <2>DelaysKept
      <3>9.  Pending'
        <4>. q \notin pend' /\ pend' \subseteq Ids
          BY DEF Pending, PendOK, Typed
        <4>. QED  BY <3>3, <2>PendingKept
      <3>10. Writing' /\ Flushing'
        BY DEF Writing, Flushing
      <3>11. Answers' /\ q \notin over
        <4>1. ASSUME NEW x \in over PROVE Ended(x)' /\ x # q
          <5>. x \in Ids /\ x <= nread /\ Ended(x)
            BY DEF Answers, Pooled, Typed
          <5>. QED  BY <3>5 DEF Ended
        <4>. QED  BY <4>1 DEF Answers
      <3>12. ctag[t] = 0 /\ \A x \in Sent : x \notin over /\ type(x) = "flush" => msg[x].old # t
        <4>1. ASSUME NEW x \in Sent, x \notin over, type(x) = "flush" PROVE msg[x].old # t
          <5>. ctag[tag(x)] = x /\ tag(x) \in Tags /\ x # 0
            <6>. x # 0
              BY SMT DEF Sent
            <6>. QED  BY <3>4, <4>1 DEF Tagged
          <5>. x \in Outstanding
            BY DEF Outstanding
          <5>. QED  BY <4>1 DEF TagFree
        <4>. QED  BY <4>1 DEF TagFree
      <3>. Tagged'
        <4>1. ASSUME NEW x \in Sent', x \notin over PROVE ctag'[tag(x)'] = x
          <5>1. CASE x = q
            BY <3>2, <3>4, <5>1
          <5>2. CASE x \in Sent
            <6>. ctag[tag(x)] = x /\ x # 0
              <7>. x # 0
                BY <5>2, SMT DEF Sent
              <7>. QED  BY <4>1, <5>2 DEF Tagged
            <6>. tag(x) # t
              BY <3>12
            <6>. QED  BY <3>2, <3>4, <5>2
          <5>. QED  BY <4>1, <5>1, <5>2
        <4>2. ASSUME NEW u \in Tags, ctag'[u] # 0 PROVE ctag'[u] \in Sent' \ over /\ (msg'[ctag'[u]]).tag = u
          <5>1. CASE u = t
            BY <3>2, <3>11, <5>1
          <5>2. CASE u # t
            <6>. ctag'[u] = ctag[u] /\ ctag[u] \in Sent /\ ctag[u] \notin over /\ tag(ctag[u]) = u
              BY <3>2, <4>2, <5>2 DEF Tagged
            <6>. QED  BY DEF tag
          <5>. QED  BY <5>1, <5>2
        <4>3. ASSUME NEW x \in Sent', type(x)' = "flush"
              PROVE  /\ (msg'[x]).target # 0 => (msg'[x]).target < x /\ (msg'[(msg'[x]).target]).tag = (msg'[x]).old
                     /\ x \notin over /\ ctag'[(msg'[x]).old] # 0 => ctag'[(msg'[x]).old] = (msg'[x]).target
          <5>1. CASE x = q
            <6>. m.type = "flush" /\ m.old \in Tags /\ m.old # t /\ m.target = ctag[m.old]
              BY <3>4, <4>3, <5>1 DEF MessageOK
            <6>. ctag'[m.old] = m.target
              BY <3>2
            <6>1. ASSUME m.target # 0 PROVE m.target < q /\ (msg'[m.target]).tag = m.old
              <7>. m.target \in Sent /\ tag(m.target) = m.old
                BY <6>1, ZenonT(30) DEF Tagged
              <7>. QED  BY DEF tag
            <6>. QED  BY <5>1, <6>1
          <5>2. CASE x \in Sent
            <6>. type(x) = "flush" /\ msg'[x] = msg[x] /\ msg[x].old \in Tags
              BY <3>4, <4>3, <5>2 DEF MessageOK, type
            <6>1. ASSUME msg[x].target # 0 PROVE msg[x].target < x /\ (msg'[msg[x].target]).tag = msg[x].old
              <7>. msg[x].target < x /\ tag(msg[x].target) = msg[x].old
                BY <5>2, <6>1 DEF Tagged
              <7>. msg[x].target \in Sent
                <8>. msg[x].target \in Ids
                  BY <3>4, <5>2, <6>1 DEF MessageOK
                <8>. QED  BY <5>2, SMT DEF Sent, Ids
              <7>. QED  BY DEF tag
            <6>2. ASSUME x \notin over, ctag'[msg[x].old] # 0 PROVE ctag'[msg[x].old] = msg[x].target
              <7>. ctag'[msg[x].old] = ctag[msg[x].old]
                BY <3>2, <3>12, <5>2, <6>2
              <7>. QED  BY <5>2, <6>2 DEF Tagged
            <6>. QED  BY <6>1, <6>2
          <5>. QED  BY <4>3, <5>1, <5>2
        <4>. (\A x \in Sent : x \notin over => ctag[tag(x)] = x)'
          BY <4>1
        <4>. (\A u \in Tags : ctag[u] # 0 => ctag[u] \in Sent \ over /\ tag(ctag[u]) = u)'
          BY <4>2 DEF tag
        <4>.  (\A x \in Sent : type(x) = "flush" =>
                 /\ msg[x].target # 0 => msg[x].target < x /\ tag(msg[x].target) = msg[x].old
                 /\ x \notin over /\ ctag[msg[x].old] # 0 => ctag[msg[x].old] = msg[x].target)'
          BY <4>3 DEF tag
        <4>. QED  BY DEF Tagged
      <3>. Typed'
        <4>. \A x \in Sent' : MessageOK(msg'[x])
          BY <3>4
        <4>. QED  BY <3>2 DEF Typed, MessageOK
      <3>. QED  BY <3>6, <3>7, <3>8, <3>9, <3>10, <3>11 DEF IInv
    \* p puts frames in on its stack and takes others off.
    <2>CallsMoved.
      ASSUME Calls, NEW p \in Procs, NEW out, NEW in, Stacked(p, out, in),
             \A fr \in in : FrameOK(p, fr)',
             \A fr \in in : fr.r \notin Called \/ \E gr \in Elements(stack[p]) : fr.r = gr.r,
             \A fr \in in : fr.r \in Ids,
             \A fr \in Elements(stack[p]) : fr \notin out => FrameOK(p, fr)',
             \A w \in Procs : w # p => \A fr \in Elements(stack[w]) : FrameOK(w, fr)'
      PROVE  Calls'
      <3>. USE <2>CallsMoved
      <3>1. ASSUME NEW w \in Procs PROVE Orderly(stack'[w])
        BY DEF Stacked, Calls
      <3>2. ASSUME NEW w \in Procs, NEW fr \in Elements(stack'[w]) PROVE FrameOK(w, fr)'
        <4>1. CASE w = p
          BY <3>2, <4>1 DEF Stacked
        <4>2. CASE w # p
          BY <3>2, <4>2 DEF Stacked
        <4>. QED  BY <4>1, <4>2
      <3>3. ASSUME NEW w \in Procs, w # p, NEW fr \in Elements(stack'[p]), NEW gr \in Elements(stack'[w]) PROVE fr.r # gr.r
        <4>. gr \in Elements(stack[w])
          BY <3>3 DEF Stacked
        <4>1. CASE fr \in Elements(stack[p])
          BY <3>3, <4>1 DEF Calls
        <4>2. CASE fr \in in
          <5>1. CASE fr.r \notin Called
            BY <4>2, <5>1 DEF Called
          <5>2. CASE \E hr \in Elements(stack[p]) : fr.r = hr.r
            BY <3>3, <5>2 DEF Calls
          <5>. QED  BY <4>2, <5>1, <5>2
        <4>. QED  BY <4>1, <4>2 DEF Stacked
      <3>4. ASSUME NEW v \in Procs, NEW w \in Procs, NEW fr \in Elements(stack'[v]), NEW gr \in Elements(stack'[w]), fr.r = gr.r
            PROVE  v = w
        <4>1. CASE v # p /\ w # p
          BY <3>4, <4>1 DEF Stacked, Calls
        <4>2. CASE v = p \/ w = p
          BY <3>3, <3>4, <4>2
        <4>. QED  BY <4>1, <4>2
      <3>. QED  BY <3>1, <3>2, <3>4 DEF Calls
    <2>CalledMoved.
      ASSUME NEW p \in Procs, NEW out, NEW in, Stacked(p, out, in)
      PROVE  \A q \in Called' : q \in Called \/ \E fr \in in : fr.r = q
      <3>. USE <2>CalledMoved
      <3>. SUFFICES ASSUME NEW q \in Called' PROVE q \in Called \/ \E fr \in in : fr.r = q
        OBVIOUS
      <3>. PICK w \in Procs : \E fr \in Elements(stack'[w]) : fr.r = q
        BY DEF Called
      <3>. q \in Ids
        BY DEF Called
      <3>1. CASE w = p
        BY <3>1 DEF Stacked, Called
      <3>2. CASE w # p
        BY <3>2 DEF Stacked, Called
      <3>. QED  BY <3>1, <3>2
    \* One reply is written at a time, by a proc whose top frame is about it.
    <2>WriteAlone.
      ASSUME Typed, Calls, NEW p \in Procs, NEW fr \in Elements(stack[p]), fr.pc = "write"
      PROVE  /\ wlock = p /\ wlock # NoProc
             /\ stack[p] # <<>> /\ fr = Head(stack[p])
      <3>. USE <2>WriteAlone
      <3>1. wlock = p
        BY DEF Calls, FrameOK
      <3>. p # NoProc
        BY Srv9pAssumption DEF Procs, NoProc
      <3>. stack[p] \in Seq(FrameSet) /\ Orderly(stack[p])
        BY DEF Typed, Calls
      <3>. stack[p] # <<>> /\ fr = Head(stack[p])
        BY SMT DEF Orderly, Elements
      <3>. QED  BY <3>1
    <2>OthersStay.
      ASSUME Typed, Calls, Grows, NEW q \in Ids, About(q), NEW p \in Procs,
             NEW fr \in Elements(stack[p]), fr.r # q, fr.pc = "write" => wlock' = wlock
      PROVE  FrameOK(p, fr)'
      <3>. USE <2>OthersStay
      <3>. fr \in FrameSet /\ fr.r \in Ids /\ FrameOK(p, fr)
        BY FrameTyped DEF Calls
      <3>. Kept(fr.r)
        BY DEF About
      <3>. QED  BY <2>FrameStays
    <2>CallsSwapped.
      ASSUME Typed, Calls, Grows, NEW p \in Procs, stack[p] # <<>>, NEW top, top = Head(stack[p]),
             NEW fr \in FrameSet, fr.r = top.r, Replace(p, <<fr>>), About(fr.r), FrameOK(p, fr)',
             wlock' = wlock \/ wlock = NoProc \/ top.pc = "write"
      PROVE  /\ Calls' /\ Called' \subseteq Called
             /\ Stacked(p, {top}, {fr}) /\ stack'[p] # <<>> /\ Head(stack'[p]) = fr
      <3>. USE <2>CallsSwapped
      <3>1. Stacked(p, {top}, {fr}) /\ stack'[p] # <<>> /\ Head(stack'[p]) = fr
        BY <1>StackSwapped
      <3>.  /\ top \in FrameSet /\ top \in Elements(stack[p]) /\ top.r \in Ids /\ FrameOK(p, top)
            /\ \A gr \in Elements(stack[p]) : gr # top => gr.r # top.r
        BY TopFrame DEF FrameSet
      <3>2. top.r \in Called
        BY DEF Called
      <3>3. ASSUME NEW w \in Procs, NEW gr \in Elements(stack[w]), gr # top \/ w # p PROVE FrameOK(w, gr)'
        <4>1. gr.r # fr.r
          <5>1. CASE w = p
            BY <3>3, <5>1
          <5>2. CASE w # p
            BY <3>3, <5>2 DEF Calls
          <5>. QED  BY <5>1, <5>2
        <4>. gr.pc = "write" => wlock' = wlock
          <5>1. ASSUME gr.pc = "write", top.pc = "write" PROVE FALSE
            <6>. wlock = w /\ gr = Head(stack[w])
              BY <3>3, <5>1, <2>WriteAlone
            <6>. wlock = p
              BY <5>1 DEF FrameOK
            <6>. QED  BY <3>3
          <5>. gr.pc = "write" => wlock # NoProc
            BY <3>3, <2>WriteAlone
          <5>. QED  BY <5>1
        <4>. QED  BY <3>3, <4>1, <2>OthersStay
      <3>. PICK out : out = {top}
        OBVIOUS
      <3>. PICK in : in = {fr}
        OBVIOUS
      <3>s. Stacked(p, out, in)
        BY <3>1
      <3>. Calls'
        <4>. \A gr \in in : FrameOK(p, gr)' /\ gr.r \in Ids /\ \E hr \in Elements(stack[p]) : gr.r = hr.r
          OBVIOUS
        <4>. \A gr \in Elements(stack[p]) : gr \notin out => FrameOK(p, gr)'
          BY <3>3
        <4>. \A w \in Procs : w # p => \A gr \in Elements(stack[w]) : FrameOK(w, gr)'
          BY <3>3
        <4>. QED  BY <3>s, <2>CallsMoved
      <3>. Called' \subseteq Called
        <4>. \A x \in Called' : x \in Called \/ \E gr \in in : gr.r = x
          BY <3>s, <2>CalledMoved
        <4>. QED  BY <3>2
      <3>. QED  BY <3>1
    \* While nobody writes, each request that was responded to has its reply.
    <2>NobodyWrites.
      ASSUME Writing, wlock = NoProc, NEW x \in Ids, responded[x]
      PROVE  x \in over
      <3>. USE <2>NobodyWrites
      <3>. NoProc \notin Procs
        BY Srv9pAssumption DEF Procs, NoProc
      <3>. QED  BY DEF Writing
    <2>RemovePreserves.
      ASSUME IInv, NEW p \in Procs, NEW q \in Ids, remove(p, q)
      PROVE  IInv'
      <3>. USE <2>RemovePreserves
      <3>. Typed /\ Tagged /\ Pooled /\ Writing /\ Calls /\ Pending /\ Delays /\ Answers /\ Flushing
        BY DEF IInv
      <3>1. /\ wlock = NoProc /\ stack[p] # <<>> /\ Head(stack[p]).pc = "wlock" /\ q = Head(stack[p]).r
            /\ Replace(p, <<[Head(stack[p]) EXCEPT !.pc = "write"]>>) /\ wlock' = p
            /\ responded' = [responded EXCEPT ![q] = TRUE]
            /\ UNCHANGED <<msg, ctag, over, nread, oldreq, flush, pool, pend>>
        BY DEF remove, Responding, At, Top, clientvars
      <3>2. rpool' = [rpool EXCEPT ![tag(q)] = 0]
        BY DEF remove, Typed
      <3>3. PICK top : top = Head(stack[p])
        OBVIOUS
      <3>4. /\ q <= nread /\ q \notin pend /\ \A o \in Ids : q \notin Delayed(o)
            /\ MessageOK(msg[q]) /\ ~responded[q] /\ Came(q) /\ oldreq[q] = 0 /\ top \in FrameSet
        BY <3>1, <3>3, TopFrame, CalledReq DEF FrameOK
      <3>5. PICK fr : fr = [top EXCEPT !.pc = "write"]
        OBVIOUS
      <3>6. fr \in FrameSet /\ fr.r = q /\ fr.pc = "write" /\ Replace(p, <<fr>>)
        <4>. fr \in FrameSet /\ fr.r = q /\ fr.pc = "write"
          BY <3>1, <3>3, <3>4, <3>5, SMT DEF FrameSet, PCs
        <4>. QED  BY <3>1, <3>3, <3>5
      <3>7. q \notin over /\ Ended(q)
        <4>1. q \notin over
          BY <3>4 DEF Pooled
        <4>2. ASSUME msg[q].target # 0 PROVE msg[q].target \in over
          <5>. msg[q].target \in Ids /\ responded[msg[q].target]
            BY <3>4, <4>2 DEF MessageOK, Came
          <5>. QED  BY <3>1, <2>NobodyWrites
        <4>. QED  BY <4>1, <4>2 DEF Ended
      <3>8. /\ responded' \in [Ids -> BOOLEAN] /\ responded'[q] /\ \A x \in Ids : x # q => (responded'[x] <=> responded[x])
        BY <3>1 DEF Typed
      <3>9.  Grows
        <4>. nread' \in Nat /\ nread <= nread'
          BY <3>1, SMT DEF Typed
        <4>. \A x \in Ids : responded[x] => responded'[x]
          BY <3>8
        <4>. QED  BY <3>1 DEF Grows
      <3>10. About(q) /\ FrameOK(p, fr)'
        BY <3>1, <3>4, <3>6, <3>7, <3>8 DEF About, Kept, FrameOK, Ended
      <3>11. Calls' /\ Called' \subseteq Called /\ Stacked(p, {top}, {fr}) /\ stack'[p] # <<>> /\ Head(stack'[p]) = fr
        BY <3>1, <3>3, <3>6, <3>9, <3>10, <2>CallsSwapped
      <3>12. Delays'
        BY <3>1, <3>4, <3>9, <3>10, <3>11, <2>DelaysKept
      <3>13. Pending'
        BY <3>1, <3>4, <3>9, <3>10, <2>PendingKept DEF Typed
      <3>14. Writing'
        <4>1. ASSUME NEW x \in Ids, responded'[x], x \notin over PROVE x = q
          BY <3>1, <3>8, <4>1, <2>NobodyWrites
        <4>. QED  BY <3>1, <3>6, <3>11, <4>1 DEF Writing
      <3>15. tag(q) \in Tags /\ rpool[tag(q)] = q
        BY <3>4 DEF Pooled, MessageOK, tag
      <3>16. rpool' \in [Tags -> Ids \cup {0}] /\ rpool'[tag(q)] = 0 /\ \A t \in Tags : t # tag(q) => rpool'[t] = rpool[t]
        BY <3>2, <3>15 DEF Typed
      <3>17. Pooled'
        <4>1. ASSUME NEW x \in Ids, x <= nread, ~responded'[x] PROVE rpool'[tag(x)] = x
          <5>. x # q /\ ~responded[x]
            BY <3>8, <4>1
          <5>. rpool[tag(x)] = x /\ x \in Sent
            BY <4>1, WasSent DEF Pooled
          <5>. tag(x) \in Tags
            BY DEF Typed, MessageOK, tag
          <5>. QED  BY <3>15, <3>16
        <4>2. ASSUME NEW t \in Tags, rpool'[t] # 0
              PROVE  rpool'[t] <= nread /\ ~responded'[rpool'[t]] /\ tag(rpool'[t]) = t
          <5>. t # tag(q) /\ rpool'[t] = rpool[t]
            BY <3>16, <4>2
          <5>. rpool[t] \in Ids /\ rpool[t] <= nread /\ ~responded[rpool[t]] /\ tag(rpool[t]) = t
            BY <4>2 DEF Pooled, Typed
          <5>. rpool[t] # q
            OBVIOUS
          <5>. QED  BY <3>8
        <4>3. ASSUME NEW x \in Ids, responded'[x] PROVE x <= nread
          BY <3>4, <3>8, <4>3 DEF Pooled
        <4>4. ASSUME NEW x \in over PROVE responded'[x]
          BY <3>8, <4>4 DEF Pooled, Typed
        <4>. QED  BY <3>1, <4>1, <4>2, <4>3, <4>4 DEF Pooled, tag
      <3>. Tagged' /\ Answers' /\ Flushing'
        BY <3>1 DEF Tagged, Answers, Ended, Flushing, tag, type, Sent
      <3>. Typed'
        BY <3>1, <3>8, <3>11, <3>16 DEF Typed, Sent, Stacked
      <3>. QED  BY <3>11, <3>12, <3>13, <3>14, <3>17 DEF IInv
    <2>WritePreserves.
      ASSUME IInv, NEW p \in Procs, NEW q \in Ids, write(p, q)
      PROVE  IInv'
      <3>. USE <2>WritePreserves
      <3>1. Typed /\ Tagged /\ Pooled /\ Writing /\ Calls /\ Pending /\ Delays /\ Answers /\ Flushing
        BY DEF IInv
      <3>.  /\ stack[p] # <<>> /\ Head(stack[p]).pc = "write" /\ q = Head(stack[p]).r
            /\ Replace(p, <<[Head(stack[p]) EXCEPT !.pc = "free"]>>) /\ wlock' = NoProc
            /\ over' = over \cup {q} /\ ctag' = [ctag EXCEPT ![tag(q)] = 0]
            /\ UNCHANGED <<msg, rpool, responded, nread, oldreq, flush, pool, pend>>
        BY DEF write, Receive, Responding, At, Top, poolvars
      <3>2. PICK top : top = Head(stack[p])
        OBVIOUS
      <3>3. /\ q <= nread /\ q \notin pend /\ \A o \in Ids : q \notin Delayed(o)
            /\ MessageOK(msg[q]) /\ responded[q] /\ q \notin over /\ wlock = p /\ Ended(q) /\ oldreq[q] = 0 /\ top \in FrameSet
        BY <3>1, <3>2, TopFrame, CalledReq DEF FrameOK
      <3>4. PICK fr : fr = [top EXCEPT !.pc = "free"]
        OBVIOUS
      <3>5. fr \in FrameSet /\ fr.r = q /\ fr.pc = "free" /\ Replace(p, <<fr>>) /\ top.pc = "write"
        <4>. fr \in FrameSet /\ fr.r = q /\ fr.pc = "free"
          BY <3>2, <3>3, <3>4, SMT DEF FrameSet, PCs
        <4>. QED  BY <3>2, <3>4
      <3>6. Grows
        <4>. nread' \in Nat /\ nread <= nread'
          BY <3>1, SMT DEF Typed
        <4>. over \subseteq over'
          OBVIOUS
        <4>. QED  BY DEF Grows
      <3>7. About(q) /\ FrameOK(p, fr)'
        BY <3>3, <3>5 DEF About, Kept, FrameOK
      <3>8. Calls' /\ Called' \subseteq Called /\ Stacked(p, {top}, {fr})
        BY <3>1, <3>2, <3>5, <3>6, <3>7, <2>CallsSwapped
      <3>9.  Delays'
        BY <3>1, <3>3, <3>6, <3>7, <3>8, <2>DelaysKept
      <3>10. Pending'
        BY <3>1, <3>3, <3>6, <3>7, <2>PendingKept DEF Typed
      <3>11. Writing'
        <4>1. ASSUME NEW x \in Ids, responded[x], x \notin over, x # q PROVE FALSE
          BY <3>1, <3>3, <4>1 DEF Writing
        <4>. QED  BY <4>1 DEF Writing
      <3>12. q \in Sent /\ tag(q) \in Tags /\ ctag[tag(q)] = q
        BY <3>1, <3>3, WasSent DEF Tagged, MessageOK, tag
      <3>13. ctag' \in [Tags -> Ids \cup {0}] /\ ctag'[tag(q)] = 0 /\ \A t \in Tags : t # tag(q) => ctag'[t] = ctag[t]
        BY <3>1, <3>12 DEF Typed
      <3>14. Tagged'
        <4>1. ASSUME NEW x \in Sent, x \notin over' PROVE ctag'[tag(x)] = x
          <5>. x # q /\ ctag[tag(x)] = x /\ tag(x) \in Tags
            BY <3>1, <4>1 DEF Tagged, Typed, MessageOK, tag
          <5>. QED  BY <3>12, <3>13
        <4>2. ASSUME NEW t \in Tags, ctag'[t] # 0 PROVE ctag'[t] \in Sent \ over' /\ tag(ctag'[t]) = t
          <5>. t # tag(q) /\ ctag'[t] = ctag[t]
            BY <3>13, <4>2
          <5>. ctag[t] \in Sent \ over /\ tag(ctag[t]) = t
            BY <3>1, <4>2 DEF Tagged
          <5>. ctag[t] # q
            OBVIOUS
          <5>. ctag[t] \notin over'
            OBVIOUS
          <5>. QED  OBVIOUS
        <4>3. ASSUME NEW x \in Sent, type(x) = "flush"
              PROVE  /\ msg[x].target # 0 => msg[x].target < x /\ tag(msg[x].target) = msg[x].old
                     /\ x \notin over' /\ ctag'[msg[x].old] # 0 => ctag'[msg[x].old] = msg[x].target
          <5>1. msg[x].old \in Tags
            BY <3>1, <4>3 DEF Typed, MessageOK, type
          <5>2. ASSUME x \notin over', ctag'[msg[x].old] # 0 PROVE ctag'[msg[x].old] = msg[x].target
            <6>. x \notin over /\ ctag'[msg[x].old] = ctag[msg[x].old]
              BY <3>13, <5>1, <5>2
            <6>. QED  BY <3>1, <4>3, <5>2 DEF Tagged
          <5>. QED  BY <3>1, <4>3, <5>2 DEF Tagged
        <4>4. (\A x \in Sent : x \notin over => ctag[tag(x)] = x)'
          BY <4>1 DEF tag, Sent
        <4>. (\A t \in Tags : ctag[t] # 0 => ctag[t] \in Sent \ over /\ tag(ctag[t]) = t)'
          BY <4>2 DEF tag, Sent
        <4>.  (\A x \in Sent : type(x) = "flush" =>
                 /\ msg[x].target # 0 => msg[x].target < x /\ tag(msg[x].target) = msg[x].old
                 /\ x \notin over /\ ctag[msg[x].old] # 0 => ctag[msg[x].old] = msg[x].target)'
          BY <4>3, ZenonT(30) DEF tag, type, Sent
        <4>. QED  BY <4>4 DEF Tagged
      <3>15. Pooled' /\ Flushing'
        BY <3>1, <3>3 DEF Pooled, Flushing, tag
      <3>. Answers'
        BY <3>1, <3>3 DEF Answers, Ended
      <3>. Typed'
        BY <3>1, <3>8, <3>13 DEF Typed, Sent, Stacked
      <3>. QED  BY <3>8, <3>9, <3>10, <3>11, <3>14, <3>15 DEF IInv
    <2>CallsPushed.
      ASSUME Typed, Calls, Grows, NEW p \in Procs, NEW fr \in FrameSet, Push(p, <<fr>>),
             stack[p] # <<>> => Head(stack[p]).pc \in {"respond", "free"},
             fr.r \notin Called, About(fr.r), FrameOK(p, fr)', wlock' = wlock
      PROVE  /\ Calls' /\ Called' \subseteq Called \cup {fr.r}
             /\ Stacked(p, {}, {fr}) /\ stack'[p] # <<>> /\ Head(stack'[p]) = fr
      <3>. USE <2>CallsPushed
      <3>1. \A w \in Procs : \A gr \in Elements(stack[w]) : gr.r # fr.r
        BY DEF Called, FrameSet
      <3>2. Stacked(p, {}, {fr}) /\ stack'[p] # <<>> /\ Head(stack'[p]) = fr
        BY <3>1, <1>StackPushed
      <3>3. fr.r \in Ids
        BY DEF FrameSet
      <3>4. ASSUME NEW w \in Procs, NEW gr \in Elements(stack[w]) PROVE FrameOK(w, gr)'
        BY <3>1, <3>3, <3>4, <2>OthersStay
      <3>. PICK out : out = {}
        OBVIOUS
      <3>. PICK in : in = {fr}
        OBVIOUS
      <3>s. Stacked(p, out, in)
        BY <3>2
      <3>. Calls'
        <4>. \A gr \in in : FrameOK(p, gr)' /\ gr.r \in Ids /\ gr.r \notin Called
          BY <3>3
        <4>. \A gr \in Elements(stack[p]) : gr \notin out => FrameOK(p, gr)'
          BY <3>4
        <4>. \A w \in Procs : w # p => \A gr \in Elements(stack[w]) : FrameOK(w, gr)'
          BY <3>4
        <4>. QED  BY <3>s, <2>CallsMoved
      <3>. Called' \subseteq Called \cup {fr.r}
        <4>. \A x \in Called' : x \in Called \/ \E gr \in in : gr.r = x
          BY <3>s, <2>CalledMoved
        <4>. QED  OBVIOUS
      <3>. QED  BY <3>2
    <2>WritingKept.
      ASSUME Writing, UNCHANGED <<responded, over, wlock>>, NEW p \in Procs,
             \A w \in Procs : w # p => stack'[w] = stack[w], stack[p] # <<>> => Head(stack[p]).pc # "write"
      PROVE  Writing'
      <3>. USE <2>WritingKept
      <3>. SUFFICES ASSUME NEW q \in Ids, responded[q], q \notin over
                    PROVE  /\ wlock \in Procs /\ stack'[wlock] # <<>>
                           /\ Head(stack'[wlock]).r = q /\ Head(stack'[wlock]).pc = "write"
        BY DEF Writing
      <3>.  /\ wlock \in Procs /\ stack[wlock] # <<>>
            /\ Head(stack[wlock]).r = q /\ Head(stack[wlock]).pc = "write"
        BY DEF Writing
      <3>. wlock # p
        OBVIOUS
      <3>. QED  OBVIOUS
    <2>GetreqPreserves.
      ASSUME IInv, getreq
      PROVE  IInv'
      <3>. USE <2>GetreqPreserves
      <3>. Typed /\ Tagged /\ Pooled /\ Writing /\ Calls /\ Pending /\ Delays /\ Answers /\ Flushing /\ "srv" \in Procs
        BY DEF IInv, Procs
      <3>.  /\ stack["srv"] = <<>> /\ nread < Len(msg) /\ nread' = nread + 1
            /\ UNCHANGED <<msg, ctag, over, oldreq, responded, flush, pend, wlock>>
        BY DEF getreq, clientvars
      <3>1. nread + 1 \in Ids
        <4>. Len(msg) \in Nat /\ Len(msg) <= MaxMsgs /\ nread \in Nat
          BY DEF Typed
        <4>. QED  BY Srv9pAssumption, SMT DEF Ids
      <3>2. PICK q \in Ids : q = nread + 1
        BY <3>1
      <3>.  /\ q \in Sent /\ tag(q) \in Tags /\ rpool[tag(q)] = 0
            /\ ~responded[q] /\ q \notin over /\ ~(q <= nread)
            /\ \A x \in Ids : x <= nread' <=> x <= nread \/ x = q
        BY <3>2, <1>TagIsNew
      <3>3. PICK fr : fr = Frame(q, "handler", "ok")
        OBVIOUS
      <3>4. /\ rpool' = [rpool EXCEPT ![tag(q)] = q] /\ pool' = [pool EXCEPT ![q] = TRUE] /\ Push("srv", <<fr>>)
        BY <3>2, <3>3 DEF getreq
      <3>5. fr \in FrameSet /\ fr.r = q /\ fr.pc = "handler"
        BY <3>3 DEF Frame, FrameSet, PCs, Outcomes
      <3>6. nread' \in Nat /\ nread' <= Len(msg) /\ nread <= nread'
        BY SMT DEF Typed
      <3>7.  Grows
        BY <3>6 DEF Grows
      <3>8.  About(q)
        BY DEF About, Kept
      <3>9.  q \notin Called /\ (\A o \in Ids : q \notin Delayed(o)) /\ q \notin pend /\ oldreq[q] = 0
        <4>1. ASSUME q \in Called PROVE FALSE
          <5>. PICK w \in Procs : \E gr \in Elements(stack[w]) : gr.r = q
            BY <4>1 DEF Called
          <5>. PICK gr \in Elements(stack[w]) : gr.r = q
            OBVIOUS
          <5>. FrameOK(w, gr)
            BY DEF Calls
          <5>. QED  BY DEF FrameOK
        <4>. \A o \in Ids : q \notin Delayed(o)
          BY DEF Delays, DelayOK
        <4>. QED  BY <4>1 DEF Pending, PendOK, Flushing
      <3>10. FrameOK("srv", fr)'
        BY <3>5, <3>9 DEF FrameOK
      <3>11. Calls' /\ Called' \subseteq Called \cup {q} /\ Stacked("srv", {}, {fr})
        BY <3>4, <3>5, <3>7, <3>8, <3>9, <3>10, <2>CallsPushed
      <3>12. Delays'
        BY <3>7, <3>8, <3>9, <3>11, <2>DelaysKept
      <3>13. Writing'
        <4>. \A w \in Procs : w # "srv" => stack'[w] = stack[w]
          BY <3>11 DEF Stacked
        <4>. QED  BY <2>WritingKept
      <3>14. Pending'
        BY <3>7, <3>8, <3>9, <2>PendingKept DEF Typed
      <3>. rpool' \in [Tags -> Ids \cup {0}] /\ rpool'[tag(q)] = q /\ \A t \in Tags : t # tag(q) => rpool'[t] = rpool[t]
        BY <3>4 DEF Typed
      <3>15. Pooled'
        <4>1. ASSUME NEW x \in Ids, x <= nread', ~responded[x] PROVE rpool'[tag(x)] = x
          <5>1. CASE x = q
            BY <5>1
          <5>2. CASE x # q
            <6>. rpool[tag(x)] = x /\ x \in Sent
              BY <4>1, <5>2, WasSent DEF Pooled
            <6>. x # 0
              BY SMT DEF Ids
            <6>. tag(x) \in Tags
              BY DEF Typed, MessageOK, tag
            <6>. QED  OBVIOUS
          <5>. QED  BY <5>1, <5>2
        <4>2. ASSUME NEW t \in Tags, rpool'[t] # 0
              PROVE  rpool'[t] <= nread' /\ ~responded[rpool'[t]] /\ tag(rpool'[t]) = t
          <5>1. CASE t = tag(q)
            BY <5>1
          <5>2. CASE t # tag(q)
            <6>. rpool[t] \in Ids
              BY <4>2, <5>2 DEF Typed
            <6>. QED  BY <4>2, <5>2 DEF Pooled
          <5>. QED  BY <5>1, <5>2
        <4>. QED  BY <4>1, <4>2 DEF Pooled, tag
      <3>. Tagged' /\ Answers' /\ Flushing'
        BY DEF Tagged, Answers, Ended, Flushing, tag, type, Sent
      <3>. pool' = [x \in Ids |-> TRUE]
        BY <3>4 DEF Typed
      <3>. Typed'
        BY <3>6, <3>11 DEF Typed, Sent, Stacked
      <3>. QED  BY <3>11, <3>12, <3>13, <3>14, <3>15 DEF IInv
    <2>CallsPopped.
      ASSUME Typed, Calls, Grows, NEW p \in Procs, stack[p] # <<>>, NEW top, top = Head(stack[p]),
             Replace(p, <<>>), About(top.r), wlock' = wlock
      PROVE  /\ Calls' /\ Called' \subseteq Called \ {top.r}
             /\ Stacked(p, {top}, {})
      <3>. USE <2>CallsPopped
      <3>1. Stacked(p, {top}, {})
        BY <1>StackPopped
      <3>2. /\ top \in FrameSet /\ top \in Elements(stack[p]) /\ top.r \in Ids
            /\ \A gr \in Elements(stack[p]) : gr # top => gr.r # top.r
        BY TopFrame DEF FrameSet
      <3>3. ASSUME NEW w \in Procs, NEW gr \in Elements(stack[w]), gr # top \/ w # p PROVE gr.r # top.r
        <4>1. CASE w = p
          BY <3>2, <3>3, <4>1
        <4>2. CASE w # p
          BY <3>2, <3>3, <4>2 DEF Calls
        <4>. QED  BY <4>1, <4>2
      <3>4. ASSUME NEW w \in Procs, NEW gr \in Elements(stack[w]), gr # top \/ w # p PROVE FrameOK(w, gr)'
        BY <3>2, <3>3, <3>4, <2>OthersStay
      <3>. PICK out : out = {top}
        OBVIOUS
      <3>. PICK in : in = {}
        OBVIOUS
      <3>s. Stacked(p, out, in)
        BY <3>1
      <3>5. Calls'
        <4>. \A gr \in in : FrameOK(p, gr)' /\ gr.r \in Ids /\ gr.r \notin Called
          OBVIOUS
        <4>. \A gr \in Elements(stack[p]) : gr \notin out => FrameOK(p, gr)'
          BY <3>4
        <4>. \A w \in Procs : w # p => \A gr \in Elements(stack[w]) : FrameOK(w, gr)'
          BY <3>4
        <4>. QED  BY <3>s, <2>CallsMoved
      <3>6. ASSUME NEW x \in Called' PROVE x \in Called /\ x # top.r
        <4>1. PICK w \in Procs : \E gr \in Elements(stack'[w]) : gr.r = x
          BY DEF Called
        <4>. PICK gr \in Elements(stack'[w]) : gr.r = x
          BY <4>1
        <4>. gr \in Elements(stack[w]) /\ (gr # top \/ w # p)
          <5>1. CASE w = p
            BY <3>1, <5>1 DEF Stacked
          <5>2. CASE w # p
            BY <3>1, <5>2 DEF Stacked
          <5>. QED  BY <5>1, <5>2
        <4>. QED  BY <3>2, <3>3 DEF Called
      <3>. QED  BY <3>1, <3>5, <3>6
    <2>PlainKeeps.
      ASSUME IInv, Plain
      PROVE  Tagged' /\ Pooled' /\ Answers' /\ Grows
      <3>. USE <2>PlainKeeps
      <3>1. Tagged'
        BY DEF IInv, Plain, Tagged, Sent, tag, type
      <3>. Pooled'
        BY DEF IInv, Plain, Pooled, tag
      <3>. Answers'
        BY DEF IInv, Plain, Answers, Ended
      <3>. nread' \in Nat /\ nread <= nread'
        BY SMT DEF IInv, Plain, Typed
      <3>. QED  BY <3>1 DEF Plain, Grows
    <2>PlainStep.
      ASSUME IInv, Plain, NEW q \in Ids, q <= nread, About(q), NEW p \in Procs, NEW out, NEW in, Stacked(p, out, in),
             stack[p] # <<>> => Head(stack[p]).pc # "write", Calls', Delays',
             pend' \subseteq Ids, q \in pend' => PendOK(q)',
             oldreq' \in [Ids -> Ids \cup {0}], flush' \in [Ids -> Seq(Ids)]
      PROVE  IInv'
      <3>. USE <2>PlainStep
      <3>. Tagged' /\ Pooled' /\ Answers' /\ Grows
        BY <2>PlainKeeps
      <3>1. Pending'
        BY <2>PendingKept DEF IInv
      <3>. Writing'
        <4>. \A w \in Procs : w # p => stack'[w] = stack[w]
          BY DEF Stacked
        <4>. QED  BY <2>WritingKept DEF Plain, IInv
      <3>. Typed'
        BY DEF IInv, Typed, Plain, Sent, Stacked
      <3>. Flushing'
        BY DEF IInv, Flushing, Plain, About, Kept
      <3>. QED  BY <3>1 DEF IInv
    \* sattach, swalk, sio and sclunk answer the request or leave it for later.
    <2>ServePreserves.
      ASSUME IInv, NEW q \in Ids, sattach(q) \/ swalk(q) \/ sio(q) \/ sclunk(q)
      PROVE  IInv'
      <3>. USE <2>ServePreserves
      <3>.  /\ stack["srv"] # <<>> /\ Head(stack["srv"]).pc = "handler" /\ q = Head(stack["srv"]).r
            /\ type(q) # "flush" /\ Plain /\ UNCHANGED <<oldreq, flush>>
        <4>. \E ty \in {"attach", "walk", "io", "clunk"} : Handling(q, ty)
          BY DEF sattach, swalk, sio, sclunk
        <4>. pool' = pool /\ oldreq' = oldreq
          BY DEF sattach, swalk, sio, sclunk, Handling
        <4>. QED  BY DEF Handling, At, Top, Plain, clientvars
      <3>1. Later(q) \/ \E result \in Outcomes : Now(q, result)
        <4>. Serve(q) \/ Now(q, "error")
          BY DEF sattach, swalk, sio, sclunk
        <4>. Results(q) \subseteq Outcomes
          BY DEF Results, Outcomes
        <4>. QED  BY DEF Serve, Outcomes
      <3>2. PICK top : top = Head(stack["srv"])
        OBVIOUS
      <3>3. Tagged' /\ Pooled' /\ Answers' /\ Grows
        BY <2>PlainKeeps
      <3>. "srv" \in Procs /\ Typed /\ Calls /\ Delays /\ Writing /\ Pending
        BY DEF Procs, IInv
      <3>.  /\ top \in FrameSet /\ FrameOK("srv", top) /\ q = top.r /\ top.pc = "handler"
            /\ ~responded[q] /\ oldreq[q] = 0 /\ q <= nread
        BY <3>2, TopFrame DEF FrameOK
      <3>4. MessageOK(msg[q]) /\ q \in Called /\ q \notin pend /\ msg[q].target = 0 /\ \A o \in Ids : q \notin Delayed(o)
        <4>. MessageOK(msg[q]) /\ q \in Called /\ q \notin pend /\ \A o \in Ids : q \notin Delayed(o)
          BY CalledReq
        <4>. QED  BY DEF MessageOK, type
      <3>5. CASE Later(q)
        <4>. pend' = pend \cup {q} /\ Replace("srv", <<>>)
          BY <3>5 DEF Later
        <4>. About(q) /\ wlock' = wlock
          BY DEF About, Kept, Plain
        <4>. Calls' /\ Called' \subseteq Called \ {q} /\ Stacked("srv", {top}, {})
          BY <3>2, <3>3, <2>CallsPopped
        <4>. Delays'
          BY <3>3, <3>4, <2>DelaysKept
        <4>. PendOK(q)' /\ pend' \subseteq Ids
          BY DEF PendOK, Plain, Typed, type
        <4>. oldreq' \in [Ids -> Ids \cup {0}] /\ flush' \in [Ids -> Seq(Ids)]
          BY DEF Typed
        <4>. QED  BY <2>PlainStep
      <3>6. CASE \E result \in Outcomes : Now(q, result)
        <4>1. PICK result \in Outcomes : Now(q, result)
          BY <3>6
        <4>2. PICK fr : fr = Frame(q, "respond", result)
          OBVIOUS
        <4>. Replace("srv", <<fr>>) /\ pend' = pend /\ fr.r = q /\ fr.pc = "respond" /\ fr \in FrameSet
          BY <4>1, <4>2 DEF Now, Frame, FrameSet, PCs
        <4>. About(q) /\ wlock' = wlock
          BY DEF About, Kept, Plain
        <4>3. FrameOK("srv", fr)'
          BY <3>4 DEF FrameOK, Plain, Came
        <4>. Calls' /\ Called' \subseteq Called /\ Stacked("srv", {top}, {fr})
          BY <3>2, <3>3, <4>3, <2>CallsSwapped
        <4>. Delays'
          BY <3>3, <3>4, <2>DelaysKept
        <4>. pend' \subseteq Ids /\ q \notin pend' /\ oldreq' \in [Ids -> Ids \cup {0}] /\ flush' \in [Ids -> Seq(Ids)]
          BY <3>4 DEF Typed
        <4>. QED  BY <2>PlainStep
      <3>. QED  BY <3>1, <3>5, <3>6
    \* A proc of the program calls respond for a request that was left for later.
    <2>FinishPreserves.
      ASSUME IInv, NEW p \in Workers, NEW q \in Ids, NEW result \in Outcomes, Finish(p, q, result)
      PROVE  IInv'
      <3>. USE <2>FinishPreserves
      <3>.  /\ stack[p] = <<>> /\ q \in pend /\ pend' = pend \ {q} /\ Plain /\ UNCHANGED <<oldreq, flush>>
            /\ Push(p, <<Frame(q, "respond", result)>>)
        BY DEF Finish, Plain, clientvars, reqvars, poolvars
      <3>1. PICK fr : fr = Frame(q, "respond", result)
        OBVIOUS
      <3>2. Push(p, <<fr>>) /\ fr.r = q /\ fr.pc = "respond" /\ fr \in FrameSet /\ p \in Procs
        BY <3>1 DEF Frame, FrameSet, PCs, Procs
      <3>3. q <= nread /\ ~responded[q] /\ msg[q].target = 0 /\ oldreq[q] = 0
        <4>. PendOK(q)
          BY DEF IInv, Pending
        <4>. MessageOK(msg[q])
          BY WasSent DEF IInv, PendOK
        <4>. QED  BY DEF PendOK, MessageOK, type
      <3>. Grows /\ Typed /\ Calls /\ Delays
        BY <2>PlainKeeps DEF IInv
      <3>. q \notin Called /\ \A o \in Ids : q \notin Delayed(o)
        <4>1. ASSUME q \in Called PROVE FALSE
          <5>. PICK w \in Procs : \E gr \in Elements(stack[w]) : gr.r = q
            BY <4>1 DEF Called
          <5>. PICK gr \in Elements(stack[w]) : gr.r = q
            OBVIOUS
          <5>. FrameOK(w, gr)
            BY DEF Calls
          <5>. QED  BY DEF FrameOK
        <4>. \A o \in Ids : q \notin Delayed(o)
          BY DEF Delays, DelayOK
        <4>. QED  BY <4>1
      <3>. About(q) /\ wlock' = wlock /\ FrameOK(p, fr)'
        BY <3>2, <3>3 DEF About, Kept, FrameOK, Plain, Came
      <3>. Calls' /\ Called' \subseteq Called \cup {q} /\ Stacked(p, {}, {fr})
        BY <3>2, <2>CallsPushed
      <3>. Delays'
        BY <2>DelaysKept
      <3>. pend' \subseteq Ids /\ q \notin pend' /\ oldreq' \in [Ids -> Ids \cup {0}] /\ flush' \in [Ids -> Seq(Ids)]
        BY DEF Typed
      <3>. QED  BY <3>2, <3>3, <2>PlainStep
    \* rflush with the old request unanswered: the Tflush goes on its list.
    <2>DelayPreserves.
      ASSUME IInv, NEW p \in Procs, NEW q \in Ids, rflushDelay(p, q)
      PROVE  IInv'
      <3>. USE <2>DelayPreserves
      <3>.  /\ stack[p] # <<>> /\ Head(stack[p]).pc = "respond" /\ q = Head(stack[p]).r
            /\ oldreq[q] # 0 /\ flush' = [flush EXCEPT ![oldreq[q]] = Append(@, q)]
            /\ Replace(p, <<>>) /\ Plain /\ UNCHANGED <<oldreq, pend>>
        BY DEF rflushDelay, At, Top, Plain, clientvars, poolvars
      <3>1. PICK top : top = Head(stack[p])
        OBVIOUS
      <3>. Typed /\ Calls /\ Delays /\ Grows
        BY <2>PlainKeeps DEF IInv
      <3>2. /\ q <= nread /\ q \notin pend /\ q \in Called /\ \A o \in Ids : q \notin Delayed(o)
            /\ ~responded[q] /\ oldreq[q] = msg[q].target
        BY TopFrame, CalledReq DEF FrameOK
      <3>3. PICK or \in Ids : or = oldreq[q]
        BY DEF Typed
      <3>4. About(q) /\ wlock' = wlock
        BY DEF About, Kept, Plain
      <3>5. Calls' /\ Called' \subseteq Called \ {q} /\ Stacked(p, {top}, {})
        BY <3>1, <3>4, <2>CallsPopped
      <3>.  /\ flush[or] \in Seq(Ids) /\ Distinct(flush[or])
            /\ Append(flush[or], q) \in Seq(Ids) /\ Distinct(Append(flush[or], q))
            /\ Elements(Append(flush[or], q)) = Delayed(or) \cup {q}
        <4>. flush[or] \in Seq(Ids) /\ Distinct(flush[or]) /\ q \notin Elements(flush[or])
          BY <3>2, <3>3 DEF Typed, Delays, Delayed
        <4>. QED  BY <1>Appended DEF Delayed
      <3>.  /\ flush' \in [Ids -> Seq(Ids)] /\ flush'[or] = Append(flush[or], q)
            /\ \A o \in Ids : o # or => flush'[o] = flush[o]
        BY <3>3 DEF Typed
      <3>. Delays'
        <4>1. ASSUME NEW o \in Ids PROVE Distinct(flush'[o])
          BY DEF Delays
        <4>2. ASSUME NEW o \in Ids, NEW f \in Delayed(o)' PROVE DelayOK(o, f)' /\ f \notin Called'
          <5>. (f = q /\ o = or) \/ f \in Delayed(o)
            BY <4>2 DEF Delayed
          <5>1. CASE f = q /\ o = or
            BY <3>2, <3>3, <3>5, <5>1 DEF DelayOK, Plain
          <5>2. CASE f \in Delayed(o)
            BY <3>5, <5>2 DEF Delays, DelayOK, Plain
          <5>. QED  BY <5>1, <5>2
        <4>. QED  BY <4>1, <4>2 DEF Delays
      <3>. pend' \subseteq Ids /\ q \notin pend' /\ oldreq' \in [Ids -> Ids \cup {0}]
        BY <3>2 DEF Typed
      <3>. QED  BY <3>2, <3>4, <3>5, <2>PlainStep
    \* rflush with the old request answered, or gone, and rother.
    <2>GoOnPreserves.
      ASSUME IInv, NEW p \in Procs, NEW q \in Ids, rflush(p, q) \/ rother(p, q)
      PROVE  IInv'
      <3>. USE <2>GoOnPreserves
      <3>.  /\ stack[p] # <<>> /\ Head(stack[p]).pc = "respond" /\ q = Head(stack[p]).r
            /\ Replace(p, <<[Head(stack[p]) EXCEPT !.pc = "wlock"]>>) /\ Plain /\ UNCHANGED <<pend, flush>>
        BY DEF rflush, rother, Responding, At, Top, Plain, clientvars
      <3>. PICK top : top = Head(stack[p])
        OBVIOUS
      <3>. Typed /\ Calls /\ Delays /\ Grows
        BY <2>PlainKeeps DEF IInv
      <3>.  /\ q <= nread /\ q \notin pend /\ \A o \in Ids : q \notin Delayed(o)
            /\ MessageOK(msg[q]) /\ ~responded[q] /\ top \in FrameSet /\ FrameOK(p, top)
        BY TopFrame, CalledReq DEF FrameOK
      <3>1. PICK fr : fr = [top EXCEPT !.pc = "wlock"]
        OBVIOUS
      <3>2. fr \in FrameSet /\ fr.r = q /\ fr.pc = "wlock"
        BY <3>1, SMT DEF FrameSet, PCs
      <3>. oldreq'[q] = 0 /\ Came(q) /\ oldreq' \in [Ids -> Ids \cup {0}] /\ \A x \in Ids : x # q => oldreq'[x] = oldreq[x]
        <4>1. CASE rflush(p, q)
          <5>. oldreq' = [oldreq EXCEPT ![q] = 0] /\ (oldreq[q] # 0 => responded[oldreq[q]])
            BY <4>1 DEF rflush
          <5>. oldreq[q] \in {0, msg[q].target} /\ (oldreq[q] = 0 => Came(q))
            BY DEF FrameOK
          <5>. Came(q)
            BY DEF Came
          <5>. QED  BY DEF Typed
        <4>2. CASE rother(p, q)
          <5>. type(q) # "flush" /\ oldreq' = oldreq
            BY <4>2 DEF rother
          <5>. msg[q].target = 0
            BY DEF MessageOK, type
          <5>. QED  BY DEF FrameOK, Came, Typed
        <4>. QED  BY <4>1, <4>2
      <3>. About(q) /\ wlock' = wlock /\ FrameOK(p, fr)'
        BY <3>2 DEF About, Kept, FrameOK, Plain, Came
      <3>. Calls' /\ Called' \subseteq Called /\ Stacked(p, {top}, {fr})
        <4>. Replace(p, <<fr>>)
          BY <3>1
        <4>. QED  BY <3>2, <2>CallsSwapped
      <3>. Delays'
        BY <2>DelaysKept
      <3>. pend' \subseteq Ids /\ q \notin pend' /\ flush' \in [Ids -> Seq(Ids)]
        BY DEF Typed
      <3>. QED  BY <2>PlainStep
    \* respond calls itself for a Tflush that was delayed.
    <2>RespondflushPreserves.
      ASSUME IInv, NEW p \in Procs, NEW q \in Ids, respondflush(p, q)
      PROVE  IInv'
      <3>. USE <2>RespondflushPreserves
      <3>.  /\ AtFree(p) /\ q = Top(p) /\ flush[q] # <<>> /\ oldreq' = [oldreq EXCEPT ![Head(flush[q])] = 0]
            /\ flush' = [flush EXCEPT ![q] = Tail(@)] /\ Push(p, <<Frame(Head(flush[q]), "respond", "ok")>>)
            /\ Plain /\ UNCHANGED pend
        BY DEF respondflush, Plain, clientvars, poolvars
      <3>1. stack[p] # <<>> /\ Head(stack[p]).pc = "free" /\ responded[q]
        BY <1>FreeFrame
      <3>. Typed /\ Calls /\ Delays /\ Grows
        BY <2>PlainKeeps DEF IInv
      <3>2. /\ Tail(flush[q]) \in Seq(Ids) /\ Distinct(Tail(flush[q]))
            /\ Head(flush[q]) \in Ids /\ Head(flush[q]) \in Delayed(q)
            /\ Elements(Tail(flush[q])) = Delayed(q) \ {Head(flush[q])}
        <4>. flush[q] \in Seq(Ids) /\ Distinct(flush[q])
          BY DEF Typed, Delays
        <4>. QED  BY <1>Shortened DEF Delayed
      <3>3. PICK f \in Ids : f = Head(flush[q])
        BY <3>2
      <3>4. /\ f <= nread /\ ~responded[f] /\ f \notin pend /\ msg[f].target = q /\ f \notin Called
            /\ \A o \in Ids : o # q => f \notin Delayed(o)
        <4>. DelayOK(q, f) /\ f \notin Called
          BY <3>2, <3>3 DEF Delays
        <4>1. ASSUME NEW o \in Ids, f \in Delayed(o) PROVE oldreq[f] = o
          BY <4>1 DEF Delays, DelayOK
        <4>. QED  BY <4>1 DEF DelayOK
      <3>5. PICK fr : fr = Frame(f, "respond", "ok")
        OBVIOUS
      <3>6. Push(p, <<fr>>) /\ fr \in FrameSet /\ fr.r = f /\ fr.pc = "respond"
        BY <3>3, <3>5 DEF Frame, FrameSet, PCs, Outcomes
      <3>.  /\ flush' \in [Ids -> Seq(Ids)] /\ flush'[q] = Tail(flush[q])
            /\ \A o \in Ids : o # q => flush'[o] = flush[o]
            /\ oldreq' \in [Ids -> Ids \cup {0}] /\ oldreq'[f] = 0 /\ \A x \in Ids : x # f => oldreq'[x] = oldreq[x]
        BY <3>2, <3>3 DEF Typed
      <3>7.  About(f) /\ wlock' = wlock /\ FrameOK(p, fr)'
        BY <3>1, <3>4, <3>6 DEF About, Kept, FrameOK, Plain, Came
      <3>8.  Calls' /\ Called' \subseteq Called \cup {f} /\ Stacked(p, {}, {fr})
        BY <3>1, <3>4, <3>6, <3>7, <2>CallsPushed
      <3>. Delays'
        <4>1. ASSUME NEW o \in Ids PROVE Distinct(flush'[o])
          BY <3>2 DEF Delays
        <4>2. ASSUME NEW o \in Ids, NEW g \in Delayed(o)' PROVE DelayOK(o, g)' /\ g \notin Called'
          <5>. g \in Delayed(o) /\ g # f
            <6>1. CASE o = q
              BY <3>2, <3>3, <4>2, <6>1 DEF Delayed
            <6>2. CASE o # q
              BY <3>4, <4>2, <6>2, ZenonT(30) DEF Delayed
            <6>. QED  BY <6>1, <6>2
          <5>. DelayOK(o, g) /\ g \notin Called
            BY DEF Delays
          <5>. g \in Ids
            <6>. flush[o] \in Seq(Ids)
              BY DEF Typed
            <6>. QED  BY SMT DEF Delayed, Elements
          <5>. QED  BY <3>8 DEF DelayOK, Plain
        <4>. QED  BY <4>1, <4>2 DEF Delays
      <3>. pend' \subseteq Ids /\ f \notin pend'
        BY <3>4 DEF Typed
      <3>. stack[p] # <<>> => Head(stack[p]).pc # "write"
        BY <3>1
      <3>. QED  BY <3>4, <3>7, <3>8, <2>PlainStep
    <2>ReturnPreserves.
      ASSUME IInv, NEW p \in Procs, NEW q \in Ids, return(p, q)
      PROVE  IInv'
      <3>. USE <2>ReturnPreserves
      <3>. AtFree(p) /\ q = Top(p) /\ Replace(p, <<>>) /\ Plain /\ UNCHANGED <<pend, oldreq, flush>>
        BY DEF return, Plain, clientvars
      <3>1. PICK top : top = Head(stack[p])
        OBVIOUS
      <3>.  /\ stack[p] # <<>> /\ Head(stack[p]).pc = "free" /\ top.r = q /\ q <= nread /\ q \notin pend
            /\ \A o \in Ids : q \notin Delayed(o)
        BY <3>1, <1>FreeFrame
      <3>. Typed /\ Calls /\ Delays /\ Grows
        BY <2>PlainKeeps DEF IInv
      <3>. About(q) /\ wlock' = wlock
        BY DEF About, Kept, Plain
      <3>. Calls' /\ Called' \subseteq Called \ {q} /\ Stacked(p, {top}, {})
        BY <3>1, <2>CallsPopped, ZenonT(30)
      <3>. Delays'
        BY <2>DelaysKept
      <3>.  /\ pend' \subseteq Ids /\ q \notin pend' /\ oldreq' \in [Ids -> Ids \cup {0}] /\ flush' \in [Ids -> Seq(Ids)]
            /\ stack[p] # <<>> => Head(stack[p]).pc # "write"
        BY DEF Typed
      <3>. QED  BY <2>PlainStep
    <2>SflushPreserves.
      ASSUME IInv, NEW q \in Ids, sflush(q)
      PROVE  IInv'
      <3>. USE <2>SflushPreserves
      <3>. DEFINE old == rpool[msg[q].old]
      <3>.  /\ stack["srv"] # <<>> /\ Head(stack["srv"]).pc = "handler" /\ q = Head(stack["srv"]).r
            /\ type(q) = "flush" /\ Plain /\ flush' = flush /\ "srv" \in Procs
            /\ oldreq' = [oldreq EXCEPT ![q] = old]
        BY DEF sflush, Handling, At, Top, Plain, clientvars, Procs
      <3>1. \/ Now(q, "ok")
            \/ /\ old \in pend /\ pend' = pend \ {old}
               /\ Replace("srv", <<Frame(old, "respond", "error"), Frame(q, "respond", "ok")>>)
        BY DEF sflush
      <3>2. PICK top : top = Head(stack["srv"])
        OBVIOUS
      <3>. Typed /\ Tagged /\ Pooled /\ Calls /\ Delays /\ Grows
        BY <2>PlainKeeps DEF IInv
      <3>3. /\ q <= nread /\ q \notin pend /\ \A o \in Ids : q \notin Delayed(o)
            /\ ~responded[q]
        BY TopFrame, CalledReq DEF FrameOK
      <3>4. old \in {0, msg[q].target} /\ (old = 0 => Came(q)) /\ old \in Ids \cup {0}
        BY <3>3, OldIsTarget DEF Typed
      <3>5. PICK fr : fr = Frame(q, "respond", "ok")
        OBVIOUS
      <3>6. fr \in FrameSet /\ fr.r = q /\ fr.pc = "respond"
        BY <3>5 DEF Frame, FrameSet, PCs, Outcomes
      <3>7. oldreq' \in [Ids -> Ids \cup {0}] /\ oldreq'[q] = old /\ \A x \in Ids : x # q => oldreq'[x] = oldreq[x]
        BY <3>4 DEF Typed
      <3>8.  wlock' = wlock /\ Came(q)' = Came(q)
        BY DEF Plain, Came
      <3>9.  CASE Now(q, "ok")
        <4>. Replace("srv", <<fr>>) /\ pend' = pend
          BY <3>5, <3>9 DEF Now
        <4>. About(q) /\ FrameOK("srv", fr)'
          BY <3>3, <3>4, <3>6, <3>7, <3>8 DEF About, Kept, FrameOK, Plain
        <4>. Calls' /\ Called' \subseteq Called /\ Stacked("srv", {top}, {fr})
          BY <3>2, <3>6, <3>8, <2>CallsSwapped
        <4>. Delays'
          BY <3>3, <3>8, <2>DelaysKept
        <4>. pend' \subseteq Ids /\ q \notin pend' /\ flush' \in [Ids -> Seq(Ids)]
          BY <3>3 DEF Typed
        <4>. QED  BY <3>3, <3>7, <3>8, <2>PlainStep
      <3>10. CASE /\ old \in pend /\ pend' = pend \ {old}
                  /\ Replace("srv", <<Frame(old, "respond", "error"), Frame(q, "respond", "ok")>>)
        <4>1. PICK o \in Ids : o = old
          BY <3>10 DEF Typed
        <4>2. PICK gr : gr = Frame(o, "respond", "error")
          OBVIOUS
        <4>3. gr \in FrameSet /\ gr.r = o /\ gr.pc = "respond" /\ Replace("srv", <<gr, fr>>)
          BY <3>5, <3>10, <4>1, <4>2 DEF Frame, FrameSet, PCs, Outcomes
        <4>4. o <= nread /\ ~responded[o] /\ msg[o].target = 0 /\ oldreq[o] = 0 /\ o # q
          <5>. PendOK(o)
            BY <3>10, <4>1 DEF IInv, Pending
          <5>. MessageOK(msg[o])
            BY WasSent DEF PendOK
          <5>. QED  BY DEF PendOK, MessageOK, type
        <4>5. o \notin Called /\ \A x \in Ids : o \notin Delayed(x)
          <5>1. ASSUME o \in Called PROVE FALSE
            <6>. PICK w \in Procs : \E hr \in Elements(stack[w]) : hr.r = o
              BY <5>1 DEF Called
            <6>. PICK hr \in Elements(stack[w]) : hr.r = o
              OBVIOUS
            <6>. FrameOK(w, hr)
              BY DEF Calls
            <6>. QED  BY <3>10, <4>1 DEF FrameOK
          <5>. \A x \in Ids : o \notin Delayed(x)
            BY <3>10, <4>1 DEF Delays, DelayOK
          <5>. QED  BY <5>1
        <4>6. About(q)
          BY <3>7, <3>10 DEF About, Kept, Plain
        <4>7. FrameOK("srv", fr)'
          BY <3>3, <3>4, <3>6, <3>7, <3>8, <3>10 DEF FrameOK, Plain
        <4>8. FrameOK("srv", gr)'
          BY <3>7, <3>10, <4>1, <4>3, <4>4 DEF FrameOK, Plain, Came
        <4>9. PICK out, in : out = {top} /\ in = {fr, gr}
          OBVIOUS
        <4>10. Stacked("srv", out, in)
          <5>. Stacked("srv", {top}, {fr, gr})
            BY <3>2, <3>6, <4>3, <4>5, <1>StackDoubled
          <5>. QED  BY <4>9
        <4>11. Calls'
          <5>1. \A hr \in in : FrameOK("srv", hr)'
            BY <4>7, <4>8, <4>9
          <5>2. \A hr \in in : hr.r \in Ids
            BY <3>6, <4>3, <4>9
          <5>3. \A hr \in in : hr.r \notin Called \/ \E kr \in Elements(stack["srv"]) : hr.r = kr.r
            <6>. top \in Elements(stack["srv"])
              BY <3>2, TopFrame
            <6>. QED  BY <3>2, <3>6, <4>3, <4>5, <4>9
          <5>.  /\ \A hr \in Elements(stack["srv"]) : hr \notin out => FrameOK("srv", hr)'
                /\ \A w \in Procs : w # "srv" => \A hr \in Elements(stack[w]) : FrameOK(w, hr)'
            <6>1. ASSUME NEW w \in Procs, NEW hr \in Elements(stack[w]), hr # top PROVE FrameOK(w, hr)'
              <7>. hr.r # q
                <8>.  /\ top \in Elements(stack["srv"])
                      /\ \A kr \in Elements(stack["srv"]) : kr # top => kr.r # top.r
                  BY <3>2, TopFrame
                <8>1. CASE w = "srv"
                  BY <3>2, <6>1, <8>1
                <8>2. CASE w # "srv"
                  BY <3>2, <6>1, <8>2 DEF Calls
                <8>. QED  BY <8>1, <8>2
              <7>. QED  BY <3>8, <4>6, <6>1, <2>OthersStay
            <6>2. ASSUME NEW w \in Procs, w # "srv", NEW hr \in Elements(stack[w]) PROVE hr # top
              <7>. top \in Elements(stack["srv"])
                BY <3>2, TopFrame
              <7>. QED  BY <6>2 DEF Calls
            <6>. QED  BY <4>9, <6>1, <6>2
          <5>. QED  BY <4>10, <5>1, <5>2, <5>3, <2>CallsMoved
        <4>. Delays'
          <5>1. \A x \in Called' : x \in Called \/ \E hr \in in : hr.r = x
            BY <4>10, <2>CalledMoved
          <5>2. \A x \in Called' : x \in Called \/ x \in {q, o}
            BY <3>6, <4>3, <4>9, <5>1
          <5>3. ASSUME NEW x \in Ids, NEW f \in Delayed(x)' PROVE DelayOK(x, f)' /\ f \notin Called'
            <6>. f \in Delayed(x) /\ f # q /\ f # o /\ f \notin Called /\ DelayOK(x, f)
              BY <3>3, <4>5, <5>3 DEF Delays, Delayed
            <6>. f \in Ids
              <7>. flush[x] \in Seq(Ids)
                BY DEF Typed
              <7>. QED  BY SMT DEF Delayed, Elements
            <6>. DelayOK(x, f)'
              BY <4>6, <2>DelayStays DEF About
            <6>. QED  BY <5>2
          <5>. QED  BY <5>3 DEF Delays
        <4>. pend' \subseteq Ids /\ q \notin pend' /\ flush' \in [Ids -> Seq(Ids)]
          BY <3>3, <3>10 DEF Typed
        <4>. stack["srv"] # <<>> => Head(stack["srv"]).pc # "write"
          OBVIOUS
        <4>. QED  BY <3>3, <3>7, <3>8, <4>6, <4>10, <4>11, <2>PlainStep
      <3>. QED  BY <3>1, <3>9, <3>10
    <2>. SUFFICES ASSUME IInv, Next PROVE IInv'
      OBVIOUS
    <2>1. CASE Client
      <3>. PICK t \in Tags : \E m : Sends(t, m)
        BY <2>1, ClientSends DEF IInv
      <3>. PICK m : Sends(t, m)
        OBVIOUS
      <3>. QED  BY <2>SendsPreserves
    <2>2. CASE Handler
      BY <2>2, <2>GetreqPreserves, <2>ServePreserves, <2>SflushPreserves DEF Handler
    <2>3. CASE \E w \in Workers, q \in Ids, result \in Outcomes : Finish(w, q, result)
      BY <2>3, <2>FinishPreserves
    <2>4. ASSUME NEW p \in Procs, respond(p) PROVE IInv'
      BY <2>4, <2>DelayPreserves, <2>GoOnPreserves, <2>RemovePreserves, <2>WritePreserves,
         <2>RespondflushPreserves, <2>ReturnPreserves DEF respond
    <2>. QED  BY <2>1, <2>2, <2>3, <2>4 DEF Next, Server
  <1>. QED  BY <1>StepMoves, <1>StepIInv

\* The inductive invariant of lib9p.
LEMMA Inductive == Spec => []IInv
  <1>. Init => IInv
    BY InitIInv
  <1>. IInv /\ [Next]_vars => IInv'
    BY StepHolds, StutterIInv
  <1>. QED  BY PTL DEF Spec

-----------------------------------------------------------------------------
(* The theorems.                                                           *)

\* In the server library no request of a client that behaves is taken for a
\* duplicate, and each reply respond writes is that of the request its tag is
\* busy with, with any tags and number of procs that call respond.
THEOREM Srv9pTagsAgree == Spec => []TagsAgree
  <1>1. ASSUME IInv PROVE TagsAgree
    <2>. Typed /\ Tagged /\ Calls
      BY <1>1 DEF IInv
    <2>1. ASSUME NEW fr \in Frames PROVE \E p \in Procs : fr \in Elements(stack[p])
      BY DEF Frames, Elements
    <2>2. ASSUME NEW p \in Procs, NEW fr \in Elements(stack[p])
          PROVE  fr.result # "duptag" /\ (fr.pc = "write" => ctag[tag(fr.r)] = fr.r)
      <3>. fr \in FrameSet /\ fr.r \in Ids /\ FrameOK(p, fr)
        BY FrameTyped DEF Calls
      <3>. fr.result # "duptag"
        BY SMT DEF FrameSet, Outcomes
      <3>1. ASSUME fr.pc = "write" PROVE ctag[tag(fr.r)] = fr.r
        <4>. fr.r \notin over /\ fr.r \in Sent
          BY <3>1, WasSent DEF FrameOK
        <4>. QED  BY DEF Tagged
      <3>. QED  BY <3>1
    <2>. QED  BY <2>1, <2>2 DEF TagsAgree
  <1>. IInv => TagsAgree
    BY <1>1
  <1>. QED  BY Inductive, PTL

\* How far each transaction is, and what a Tflush names, for Transactions.
Status == [q \in Ids |-> IF q \in over THEN "answered"
                         ELSE IF q <= Len(msg) THEN "pending" ELSE "unsent"]
Named == [q \in Ids |-> IF q > Len(msg) THEN 0 ELSE msg[q].target]

\* The server library implements the transactions of flush(9P): a request is
\* answered once, and the reply to a Tflush is written after the reply to the
\* request that it names, whatever the order in which the procs of the program
\* call respond.
THEOREM Srv9pRefines == Spec => ImplementsTransactions
  \* A message of the client is a request of Transactions.
  <1>SendsIsRequest.
    ASSUME IInv, NEW t \in Tags, NEW m, Sends(t, m)
    PROVE  \E q \in Ids :
              /\ Status[q] = "unsent"
              /\ Status' = [Status EXCEPT ![q] = "pending"]
              /\ \E o \in {0} \cup {r \in Ids : Status[r] # "unsent"} : Named' = [Named EXCEPT ![q] = o]
    <2>. USE <1>SendsIsRequest
    <2>1. Typed /\ Tagged /\ Pooled
      BY DEF IInv
    <2>2. /\ m \in Messages /\ MessageOK(m) /\ over' = over /\ msg' = Append(msg, m) /\ Len(msg) < MaxMsgs
          /\ m.type = "flush" => m.target = ctag[m.old]
      BY DEF Sends
    <2>3. PICK q : q = Len(msg) + 1
      OBVIOUS
    <2>.  /\ Len(msg)' = q /\ msg'[q] = m /\ q \in Ids /\ ~(q <= nread)
          /\ \A x \in Sent : msg'[x] = msg[x]
          /\ \A x : x \in Sent' <=> x \in Sent \/ x = q
      BY <2>1, <2>2, <2>3, SentOn
    <2>4. /\ \A x \in Ids : (x <= Len(msg) <=> x \in Sent) /\ (x > Len(msg) <=> x \notin Sent)
          /\ \A x \in Ids : (x <= Len(msg)' <=> x \in Sent') /\ (x > Len(msg)' <=> x \notin Sent')
          /\ q \notin Sent
      <3>. Len(msg) \in Nat /\ Len(msg)' = Len(msg) + 1
        BY <2>1, <2>3 DEF Typed
      <3>. QED  BY <2>3, SMT DEF Sent, Ids
    <2>5. q \notin over
      BY <2>1 DEF Pooled
    <2>6. /\ \A x \in Ids : Status[x] = IF x \in over THEN "answered" ELSE IF x \in Sent THEN "pending" ELSE "unsent"
          /\ \A x \in Ids : Named[x] = IF x \notin Sent THEN 0 ELSE msg[x].target
      BY <2>4 DEF Status, Named
    <2>7. Status' = [Status EXCEPT ![q] = "pending"]
      <3>. Status' = [x \in Ids |-> IF x \in over THEN "answered" ELSE IF x <= Len(msg)' THEN "pending" ELSE "unsent"]
        BY <2>2 DEF Status
      <3>.  \A x \in Ids : (IF x \in over THEN "answered" ELSE IF x <= Len(msg)' THEN "pending" ELSE "unsent")
                           = IF x = q THEN "pending" ELSE Status[x]
        BY <2>4, <2>5, <2>6
      <3>. [Status EXCEPT ![q] = "pending"] = [x \in Ids |-> IF x = q THEN "pending" ELSE Status[x]]
        BY DEF Status
      <3>. QED  OBVIOUS
    <2>8. Named' = [Named EXCEPT ![q] = m.target]
      <3>1. Named' = [x \in Ids |-> IF x > Len(msg)' THEN 0 ELSE (msg'[x]).target]
        BY DEF Named
      <3>. \A x \in Ids : (IF x > Len(msg)' THEN 0 ELSE (msg'[x]).target) = IF x = q THEN m.target ELSE Named[x]
        <4>1. ASSUME NEW x \in Ids PROVE (IF x > Len(msg)' THEN 0 ELSE (msg'[x]).target) = IF x = q THEN m.target ELSE Named[x]
          <5>1. CASE x = q
            BY <2>4, <5>1
          <5>2. CASE x \in Sent /\ x # q
            BY <2>4, <2>6, <5>2
          <5>3. CASE x \notin Sent /\ x # q
            BY <2>4, <2>6, <5>3
          <5>. QED  BY <5>1, <5>2, <5>3
        <4>. QED  BY <4>1
      <3>. [Named EXCEPT ![q] = m.target] = [x \in Ids |-> IF x = q THEN m.target ELSE Named[x]]
        BY DEF Named
      <3>. QED  BY <3>1
    <2>. m.target \in {0} \cup {r \in Ids : Status[r] # "unsent"}
      <3>1. ASSUME m.target # 0 PROVE m.target \in Ids /\ Status[m.target] # "unsent"
        <4>. m.target \in Ids /\ m.old \in Tags /\ m.target = ctag[m.old]
          BY <2>2, <3>1 DEF MessageOK
        <4>. m.target \in Sent
          BY <2>1, <3>1 DEF Tagged
        <4>. Status[m.target] \in {"answered", "pending"}
          BY <2>6
        <4>. "answered" # "unsent" /\ "pending" # "unsent"
          BY SMT
        <4>. QED  OBVIOUS
      <3>. QED  BY <3>1
    <2>. Status[q] = "unsent"
      BY <2>4, <2>5, <2>6
    <2>. QED  BY <2>7, <2>8
  \* A reply that respond writes answers its request, and cancels none: what a
  \* Tflush names has its reply by then.
  <1>WriteIsAnswer.
    ASSUME IInv, NEW p \in Procs, NEW q \in Ids, write(p, q)
    PROVE  /\ Status[q] = "pending"
           /\ Status' = [r \in Ids |-> IF r = q THEN "answered"
                                      ELSE IF r = Named[q] /\ Status[r] = "pending" THEN "cancelled"
                                      ELSE Status[r]]
           /\ Named' = Named
    <2>. USE <1>WriteIsAnswer
    <2>1. Typed /\ Tagged /\ Pooled /\ Calls
      BY DEF IInv
    <2>.  /\ stack[p] # <<>> /\ Head(stack[p]).pc = "write" /\ q = Head(stack[p]).r
          /\ over' = over \cup {q} /\ msg' = msg
      BY DEF write, Receive, Responding, At, Top
    <2>2. q <= nread /\ q \notin over /\ Ended(q)
      BY <2>1, TopFrame DEF FrameOK
    <2>3. q <= Len(msg) /\ ~(q > Len(msg))
      <3>. nread \in Nat /\ nread <= Len(msg) /\ Len(msg) \in Nat
        BY <2>1 DEF Typed
      <3>. QED  BY <2>2, SMT DEF Ids
    <2>4. Status[q] = "pending" /\ Named[q] = msg[q].target
      BY <2>2, <2>3 DEF Status, Named
    <2>5. Named' = Named
      BY DEF Named
    <2>6. ASSUME NEW r \in Ids
          PROVE  (IF r \in over' THEN "answered" ELSE IF r <= Len(msg) THEN "pending" ELSE "unsent")
                 = IF r = q THEN "answered"
                   ELSE IF r = Named[q] /\ Status[r] = "pending" THEN "cancelled" ELSE Status[r]
      <3>1. CASE r = q
        BY <3>1
      <3>2. CASE r # q
        <4>1. r \in over' <=> r \in over
          BY <3>2
        <4>. Status[r] = IF r \in over THEN "answered" ELSE IF r <= Len(msg) THEN "pending" ELSE "unsent"
          BY DEF Status
        <4>2. ASSUME r = Named[q] PROVE Status[r] # "pending"
          <5>. r # 0
            BY SMT DEF Ids
          <5>. r \in over
            BY <2>2, <2>4, <4>2 DEF Ended
          <5>. Status[r] = "answered"
            OBVIOUS
          <5>. QED  BY SMT
        <4>. QED  BY <3>2, <4>1, <4>2
      <3>. QED  BY <3>1, <3>2
    <2>. Status' = [r \in Ids |-> IF r \in over' THEN "answered" ELSE IF r <= Len(msg) THEN "pending" ELSE "unsent"]
      BY DEF Status
    <2>. QED  BY <2>4, <2>5, <2>6
  \* Every other step is none of Transactions.
  <1>OtherIsNone.
    ASSUME Server, \A p \in Procs, q \in Ids : ~write(p, q)
    PROVE  UNCHANGED <<Status, Named>>
    <2>. USE <1>OtherIsNone
    <2>. UNCHANGED <<msg, over>>
      <3>1. CASE Handler
        BY <3>1 DEF Handler, getreq, sattach, swalk, sio, sclunk, sflush, Handling, clientvars
      <3>2. CASE \E w \in Workers, q \in Ids, result \in Outcomes : Finish(w, q, result)
        BY <3>2 DEF Finish, clientvars
      <3>3. ASSUME NEW p \in Procs, respond(p) PROVE UNCHANGED <<msg, over>>
        BY <3>3 DEF respond, rflushDelay, rflush, rother, remove, respondflush, return, clientvars
      <3>. QED  BY <3>1, <3>2, <3>3 DEF Server
    <2>. QED  BY DEF Status, Named
  <1>1. Init => Abstract!Init
    <2>. SUFFICES ASSUME Init PROVE Abstract!Init
      OBVIOUS
    <2>1. msg = <<>> /\ over = {}
      BY DEF Init
    <2>2. Len(msg) = 0
      BY <2>1, SMT
    <2>3. \A q \in Ids : ~(q <= Len(msg)) /\ q > Len(msg)
      BY <2>2, SMT DEF Ids
    <2>. QED  BY <2>1, <2>3 DEF Abstract!Init
  <1>2. IInv /\ [Next]_vars => [Abstract!Next]_<<Status, Named>>
    <2>. SUFFICES ASSUME IInv, [Next]_vars PROVE Abstract!Next \/ UNCHANGED <<Status, Named>>
      OBVIOUS
    <2>1. CASE Client
      <3>1. PICK t \in Tags : \E m : Sends(t, m)
        BY <2>1, ClientSends DEF IInv
      <3>2. PICK m : Sends(t, m)
        BY <3>1
      <3>3. PICK q \in Ids :
              /\ Status[q] = "unsent"
              /\ Status' = [Status EXCEPT ![q] = "pending"]
              /\ \E o \in {0} \cup {r \in Ids : Status[r] # "unsent"} : Named' = [Named EXCEPT ![q] = o]
        BY <3>2, <1>SendsIsRequest
      <3>. QED  BY <3>3 DEF Abstract!Next, Abstract!Request, Status, Named
    <2>2. ASSUME NEW p \in Procs, NEW q \in Ids, write(p, q) PROVE Abstract!Next
      BY <2>2, <1>WriteIsAnswer DEF Abstract!Next, Abstract!Answer, Status, Named
    <2>3. CASE Server /\ \A p \in Procs, q \in Ids : ~write(p, q)
      BY <2>3, <1>OtherIsNone
    <2>4. CASE UNCHANGED vars
      BY <2>4 DEF vars, clientvars, Status, Named
    <2>. QED  BY <2>1, <2>2, <2>3, <2>4 DEF Next
  <1>. QED  BY <1>1, <1>2, Inductive, PTL DEF Spec, ImplementsTransactions, Abstract!Spec, Status,
               Named

\* When lib9p has answered a Tflush the request that it names has been answered,
\* and no reply to a request is written twice: what flush(9P) promises a client.
THEOREM FlushedIsOver ==
    Spec => /\ [](\A q \in over : msg[q].target # 0 => msg[q].target \in over)
            /\ [][\A p \in Procs, q \in Ids : write(p, q) => q \notin over]_vars
  <1>1. IInv => \A q \in over : msg[q].target # 0 => msg[q].target \in over
    BY DEF IInv, Answers, Ended
  <1>. IInv /\ [Next]_vars => [\A p \in Procs, q \in Ids : write(p, q) => q \notin over]_vars
    <2>. SUFFICES ASSUME IInv, NEW p \in Procs, NEW q \in Ids, write(p, q) PROVE q \notin over
      OBVIOUS
    <2>. stack[p] # <<>> /\ Head(stack[p]).pc = "write" /\ q = Head(stack[p]).r
      BY DEF write, Responding, At, Top
    <2>. QED  BY TopFrame DEF FrameOK, IInv
  <1>. QED  BY <1>1, Inductive, PTL DEF Spec

-----------------------------------------------------------------------------
(* Counting references.                                                    *)

\* Nothing that the client sent or the server read is taken back.
Onward ==
    /\ nread <= nread'
    /\ \A x \in Sent : x \in Sent' /\ msg'[x] = msg[x]
    /\ \A x \in Ids : Flushed(x) => Flushed(x)'

LEMMA StepOnward ==
    ASSUME IInv, Next
    PROVE  Onward
  <1>1. Typed /\ nread <= nread /\ nread <= nread + 1
    BY SMT DEF IInv, Typed
  <1>2. \A x \in Ids : Flushed(x) <=> \E i \in Sent : msg[i].type = "flush" /\ msg[i].target = x
    BY DEF Flushed, Sent
  <1>3. \A x \in Ids : Flushed(x)' <=> \E i \in Sent' : msg'[i].type = "flush" /\ msg'[i].target = x
    BY DEF Flushed, Sent
  <1>. nread' \in {nread, nread + 1} /\ \A x \in Sent : x \in Sent' /\ msg'[x] = msg[x]
    <2>1. CASE Client
      <3>. PICK t \in Tags : \E m : Sends(t, m)
        BY <1>1, <2>1, ClientSends
      <3>. PICK m : Sends(t, m)
        OBVIOUS
      <3>. m \in Messages /\ msg' = Append(msg, m) /\ Len(msg) < MaxMsgs /\ nread' = nread
        BY DEF Sends
      <3>. QED  BY <1>1, SentOn
    <2>2. CASE msg' = msg /\ nread' \in {nread, nread + 1}
      BY <2>2 DEF Sent
    <2>3. CASE Handler
      BY <2>2, <2>3 DEF Handler, getreq, sattach, swalk, sio, sclunk, sflush, Handling, clientvars
    <2>4. CASE \E w \in Workers, q \in Ids, result \in Outcomes : Finish(w, q, result)
      BY <2>2, <2>4 DEF Finish, clientvars
    <2>5. ASSUME NEW p \in Procs, NEW q \in Ids,
                 rflushDelay(p, q) \/ rflush(p, q) \/ rother(p, q) \/ remove(p, q)
          PROVE  msg' = msg /\ nread' \in {nread, nread + 1}
      BY <2>5 DEF rflushDelay, rflush, rother, remove, Responding, clientvars
    <2>6. ASSUME NEW p \in Procs, NEW q \in Ids, write(p, q) \/ respondflush(p, q) \/ return(p, q)
          PROVE  msg' = msg /\ nread' \in {nread, nread + 1}
      BY <2>6 DEF write, Receive, respondflush, return, Responding, clientvars
    <2>7. CASE \E p \in Procs : respond(p)
      BY <2>2, <2>5, <2>6, <2>7 DEF respond
    <2>. QED  BY <2>1, <2>3, <2>4, <2>7 DEF Next, Server
  <1>. nread <= nread'
    BY <1>1
  <1>. QED  BY <1>2, <1>3 DEF Onward

Has(x) == IF x \in Held THEN 1 ELSE 0

LEMMA HoldersAre ==
    ASSUME Library, NEW x \in Ids
    PROVE  /\ Holders(x) = Has(x) + Num(Tags, rpool, x) + Num(Ids, oldreq, x)
           /\ Holders(x)' = Has(x)' + Num(Tags, rpool', x) + Num(Ids, oldreq', x)
           /\ Has(x) \in Nat /\ Num(Tags, rpool, x) \in Nat /\ Num(Ids, oldreq, x) \in Nat
           /\ Has(x)' \in Nat /\ Num(Tags, rpool', x) \in Nat /\ Num(Ids, oldreq', x) \in Nat
           /\ x # 0
  <1>. Has(x) \in Nat /\ Has(x)' \in Nat /\ x # 0
    BY SMT DEF Has, Ids
  <1>.  /\ Num(Tags, rpool, x) \in Nat /\ Num(Ids, oldreq, x) \in Nat
        /\ Num(Tags, rpool', x) \in Nat /\ Num(Ids, oldreq', x) \in Nat
    BY DEF Library, Counts
  <1>.  /\ Holders(x) = Has(x) + Num(Tags, rpool, x) + Num(Ids, oldreq, x)
        /\ Holders(x)' = Has(x)' + Num(Tags, rpool', x) + Num(Ids, oldreq', x)
    BY DEF Holders, Has, Num
  <1>. QED  OBVIOUS

\* A Req that is held is not destroyed.
LEMMA HeldCounted ==
    ASSUME Library, Counted, Reqs, NEW q \in Ids, q \in Held
    PROVE  rref[q] \in Nat /\ rref[q] > 0
  <1>. rref[q] \in Nat /\ rref[q] >= Holders(q) /\ Has(q) = 1
    BY DEF Reqs, ReqOK, Counted, Has
  <1>. QED  BY HoldersAre, SMT

\* A Fid that nobody has has no references.
LEMMA ClearZero ==
    ASSUME Library, Fids, NEW q \in Ids, Clear(q)
    PROVE  fref[q] = 0 /\ fid[q] = 0 /\ newfid[q] = 0 /\ \A n \in FidNumbers : fpool[n] # q
  <1>1. InPool(q) = 0
    BY DEF Library, Counts, InPool, Clear
  <1>2. q # 0
    BY SMT DEF Ids
  <1>3. AsFid(q) = 0
    <2>. PICK fn : fn = [y \in Ids |-> theFid(y)]
      OBVIOUS
    <2>. \A y \in Ids : fn[y] # q
      BY <1>2 DEF theFid, Clear
    <2>. QED  BY DEF Library, Counts, AsFid
  <1>. AsNew(q) = 0
    <2>. PICK fn : fn = [y \in Ids |-> theNew(y)]
      OBVIOUS
    <2>. \A y \in Ids : fn[y] # q
      BY <1>2 DEF theNew, Clear
    <2>. QED  BY DEF Library, Counts, AsNew
  <1>. fref[q] = InPool(q) + AsFid(q) + AsNew(q)
    BY DEF Fids, FidOK
  <1>. fref[q] = 0
    BY <1>1, <1>3, SMT
  <1>. QED  BY DEF Clear

\* A handler that gives request q its Fids.
Given(q, g) == g \in {0, q} \/ \E n \in FidNumbers : g = fpool[n]
\* What a handler does for request q, which takes the Fid that its fid names.
Takes(q) ==
    /\ UNCHANGED <<rref, rpool, oldreq, cfid, lk>>
    /\ fpool' \in [FidNumbers -> Ids \cup {0}] /\ fref' \in [Ids -> Nat]
    /\ fid' \in [Ids -> Ids \cup {0}] /\ newfid' \in [Ids -> Ids \cup {0}]
    /\ \A n \in FidNumbers : fpool'[n] \in {0, q, fpool[n]}
    /\ \A y \in Ids : y # q => fid'[y] = fid[y] /\ newfid'[y] = newfid[y]
    /\ Given(q, fid'[q]) /\ Given(q, newfid'[q])
    /\ \A f \in Ids : fref'[f] + InPool(f) = fref[f] + InPool(f)' + One(fid'[q], f) + One(newfid'[q], f)

LEMMA NewFacts ==
    ASSUME Library, RInv, NEW q \in Ids, New(q), q \in Held
    PROVE  /\ rref[q] \in Nat /\ rref[q] > 0 /\ fref[q] = 0 /\ fid[q] = 0 /\ newfid[q] = 0
           /\ \A n \in FidNumbers : fpool[n] # q
  <1>. Counted /\ Reqs /\ Fids /\ Clear(q)
    BY DEF RInv, Fresh
  <1>. QED  BY HeldCounted, ClearZero

LEMMA HandlerFacts ==
    ASSUME Library, IInv, RInv, NEW q \in Ids, sattach(q) \/ swalk(q) \/ sio(q) \/ sclunk(q)
    PROVE  /\ HeldStays /\ Served(q) /\ q \in Held /\ New(q) /\ Counted
           /\ rref[q] \in Nat /\ rref[q] > 0 /\ fref[q] = 0 /\ fid[q] = 0 /\ newfid[q] = 0
           /\ \A n \in FidNumbers : fpool[n] # q
           /\ \A f \in Ids : f # 0 /\ fref[f] \in Nat
           /\ MessageOK(msg[q]) /\ q # 0
  <1>1. HeldStays /\ Served(q) /\ q \in Held /\ New(q)
    BY StepHolds DEF Moved
  <1>2. \A f \in Ids : f # 0
    BY SMT DEF Ids
  <1>. MessageOK(msg[q])
    <2>. /\ stack["srv"] # <<>> /\ q = Head(stack["srv"]).r /\ "srv" \in Procs /\ Typed /\ Calls /\ Delays
      BY DEF sattach, swalk, sio, sclunk, Handling, At, Top, Procs, IInv
    <2>. q <= nread
      BY CalledReq
    <2>. QED  BY WasSent
  <1>. QED  BY <1>1, <1>2, NewFacts DEF RInv, Counted

\* A handler that gives request q the Fids a and b.
Gives(q, a, b) ==
    /\ fid' = [fid EXCEPT ![q] = a] /\ newfid' = [newfid EXCEPT ![q] = b]
    /\ fref' \in [Ids -> Nat] /\ fpool' \in [FidNumbers -> Ids \cup {0}]
    /\ \A m \in FidNumbers : fpool'[m] \in {0, q, fpool[m]}
    /\ \A f \in Ids : fref'[f] + InPool(f) = fref[f] + InPool(f)' + One(a, f) + One(b, f)

\* A request in a list of references has one.
LEMMA Found1 ==
    ASSUME NEW D, Counts(D), NEW fn, NEW x \in D, NEW v, fn[x] = v
    PROVE  Num(D, fn, v) \in Nat /\ Num(D, fn, v) > 0
  <1>. Num(D, fn, v) \in Nat /\ Num(D, fn, v) # 0
    BY DEF Counts
  <1>. QED  BY SMT

\* respond takes the tag from the pool and may close the fid of the request.
Removes(q) ==
    /\ tag(q) \in Tags /\ rpool[tag(q)] = q /\ rpool' = [rpool EXCEPT ![tag(q)] = 0]
    /\ rref[q] > 1 /\ rref' = closereqR(q)
    /\ \/ fid' = [fid EXCEPT ![q] = 0] /\ fref' = closefid(fref, fid[q])
       \/ fid' = fid /\ fref' = fref /\ rref'[q] # 1 + Len(flush[q])
    /\ UNCHANGED <<newfid, fpool, oldreq, cfid, lk, flush, msg, nread>>

LEMMA RemoveRemoves ==
    ASSUME Library, IInv, RInv, NEW p \in Procs, NEW q \in Ids, remove(p, q)
    PROVE  Removes(q) /\ HeldStays /\ NewStays /\ q \in Held /\ q <= nread
  <1>. Counted /\ Reqs /\ Typed /\ Pooled
    BY DEF RInv, IInv
  <1>1. /\ UNCHANGED <<newfid, fpool, oldreq, cfid, lk, flush, msg, nread>>
        /\ Responding(p, q, "wlock", "write")
    BY DEF remove, Responding, clientvars
  <1>2. "wlock" \in PCs /\ "write" \in PCs /\ "write" # "handler"
    BY DEF PCs
  <1>. GoesOn
    BY StepHolds DEF Moved
  <1>.  /\ HeldStays /\ NewStays /\ q \in Held /\ q <= nread
        /\ q = Head(stack[p]).r /\ FrameOK(p, Head(stack[p])) /\ Head(stack[p]).pc = "wlock"
    BY <1>1, <1>2 DEF GoesOn
  <1>3. ~responded[q]
    BY DEF FrameOK
  <1>. rpool[tag(q)] = q /\ tag(q) \in Tags
    <2>. MessageOK(msg[q])
      BY WasSent
    <2>. QED  BY <1>3 DEF Pooled, MessageOK, tag
  <1>. rref[q] > 1
    <2>. Num(Tags, rpool, q) \in Nat /\ Num(Tags, rpool, q) > 0
      BY Found1 DEF Library
    <2>. rref[q] >= Holders(q) /\ rref[q] \in Nat /\ Has(q) = 1
      BY DEF Reqs, ReqOK, Counted, Has
    <2>. QED  BY HoldersAre, SMT
  <1>4. rref[q] # 1
    BY SMT DEF Counted
  <1>. closereqF(q) = fref
    BY <1>4 DEF closereqF
  <1>. pool[q]
    BY DEF Typed
  <1>.   /\ rpool' = [rpool EXCEPT ![tag(q)] = 0] /\ rref' = closereqR(q)
         /\ IF rref'[q] = 1 + Len(flush[q])
            THEN fref' = closefid(fref, fid[q]) /\ fid' = [fid EXCEPT ![q] = 0]
            ELSE fref' = fref /\ UNCHANGED fid
    BY DEF remove
  <1>. QED  BY <1>1 DEF Removes

LEMMA StepRInv == Library /\ IInv /\ IInv' /\ RInv /\ [Next]_vars => RInv'
  <1>Changed.
    ASSUME NEW D, Counts(D), NEW R, NEW fn \in [D -> R], NEW x \in D, NEW u, NEW gn, gn = [fn EXCEPT ![x] = u], NEW v
    PROVE  Moves(D, fn, gn, fn[x], u, v)
    <2>. USE <1>Changed
    <2>. gn[x] = u /\ DiffersAt(D, fn, gn, x)
      BY DEF DiffersAt
    <2>. Moves(D, fn, gn, fn[x], gn[x], v)
      BY DEF Counts
    <2>. QED  OBVIOUS
  <1>ReqStep.
    ASSUME Library, Onward, NEW x \in Ids, ReqOK(x), rref[x] \in Nat, rref'[x] \in Int,
           rref'[x] + Holders(x) = rref[x] + Holders(x)'
    PROVE  ReqOK(x)'
    <2>. USE <1>ReqStep
    <2>1. Holders(x) \in Nat /\ Holders(x)' \in Nat
      BY HoldersAre, SMT
    <2>. Flushed(x) => Flushed(x)'
      BY DEF Onward
    <2>. rref[x] >= Holders(x) /\ (~Flushed(x) => rref[x] = Holders(x))
      BY DEF ReqOK
    <2>. rref'[x] >= Holders(x)' /\ (~Flushed(x)' => rref'[x] = Holders(x)')
      BY <2>1, SMT
    <2>. QED  BY DEF ReqOK
  <1>WaitsKept.
    ASSUME IInv, Onward, Waits, nread' \in Nat,
           \A x \in Ids : oldreq'[x] # 0 => oldreq'[x] = oldreq[x] /\ (x \in Held => x \in Held')
    PROVE  Waits'
    <2>. USE <1>WaitsKept
    <2>. SUFFICES ASSUME NEW x \in Ids, oldreq'[x] # 0
                  PROVE  x \in Held' /\ oldreq'[x] <= nread' /\ oldreq'[x] = msg'[x].target
      BY DEF Waits
    <2>.  /\ oldreq'[x] = oldreq[x] /\ oldreq[x] # 0 /\ x \in Held /\ x \in Held' /\ oldreq[x] <= nread
          /\ oldreq[x] = msg[x].target /\ x <= nread /\ Typed
      BY DEF Waits, IInv, Flushing
    <2>. x \in Sent /\ msg'[x] = msg[x]
      BY WasSent DEF Onward
    <2>. oldreq[x] <= nread'
      <3>. oldreq[x] \in Ids /\ nread \in Nat /\ nread <= nread'
        BY DEF Typed, Onward
      <3>. QED  BY SMT DEF Ids
    <2>. QED  OBVIOUS
  <1>LiveStep.
    ASSUME Library, NEW q \in Ids, NEW f \in Ids,
           \A y \in Ids : y # q => rref'[y] = rref[y] /\ fid'[y] = fid[y] /\ newfid'[y] = newfid[y]
    PROVE  /\ AsFid(f)' + One(theFid(q), f) = AsFid(f) + One(theFid(q)', f)
           /\ AsNew(f)' + One(theNew(q), f) = AsNew(f) + One(theNew(q)', f)
           /\ AsFid(f) \in Nat /\ AsFid(f)' \in Nat /\ AsNew(f) \in Nat /\ AsNew(f)' \in Nat
           /\ f # 0
    <2>. USE <1>LiveStep
    <2>1. Counts(Ids)
      BY DEF Library
    <2>2. PICK fn, gn : fn = [y \in Ids |-> theFid(y)] /\ gn = [y \in Ids |-> theFid(y)]'
      OBVIOUS
    <2>3. /\ fn[q] = theFid(q) /\ gn[q] = theFid(q)' /\ (\A y \in Ids : y # q => gn[y] = fn[y])
          /\ AsFid(f) = Num(Ids, fn, f) /\ AsFid(f)' = Num(Ids, gn, f)
      BY <2>2 DEF theFid, AsFid
    <2>4. PICK hn, kn : hn = [y \in Ids |-> theNew(y)] /\ kn = [y \in Ids |-> theNew(y)]'
      OBVIOUS
    <2>5. /\ hn[q] = theNew(q) /\ kn[q] = theNew(q)' /\ (\A y \in Ids : y # q => kn[y] = hn[y])
          /\ AsNew(f) = Num(Ids, hn, f) /\ AsNew(f)' = Num(Ids, kn, f)
      BY <2>4 DEF theNew, AsNew
    <2>6. AsFid(f)' + One(theFid(q), f) = AsFid(f) + One(theFid(q)', f) /\ AsFid(f) \in Nat /\ AsFid(f)' \in Nat
      <3>. Num(Ids, gn, f) + One(fn[q], f) = Num(Ids, fn, f) + One(gn[q], f)
        <4>. DiffersAt(Ids, fn, gn, q)
          BY <2>3 DEF DiffersAt
        <4>. Moves(Ids, fn, gn, fn[q], gn[q], f)
          BY <2>1 DEF Counts
        <4>. QED  BY DEF Moves
      <3>. Num(Ids, gn, f) \in Nat /\ Num(Ids, fn, f) \in Nat
        BY <2>1 DEF Counts
      <3>. QED  BY <2>3
    <2>. AsNew(f)' + One(theNew(q), f) = AsNew(f) + One(theNew(q)', f) /\ AsNew(f) \in Nat /\ AsNew(f)' \in Nat
      <3>. Num(Ids, kn, f) + One(hn[q], f) = Num(Ids, hn, f) + One(kn[q], f)
        <4>. DiffersAt(Ids, hn, kn, q)
          BY <2>5 DEF DiffersAt
        <4>. Moves(Ids, hn, kn, hn[q], kn[q], f)
          BY <2>1 DEF Counts
        <4>. QED  BY DEF Moves
      <3>. Num(Ids, kn, f) \in Nat /\ Num(Ids, hn, f) \in Nat
        BY <2>1 DEF Counts
      <3>. QED  BY <2>5
    <2>. f # 0
      BY SMT DEF Ids
    <2>. QED  BY <2>6
  <1>PoolSame.
    ASSUME Library, fpool' = fpool, NEW f \in Ids
    PROVE  InPool(f)' = InPool(f) /\ InPool(f) \in Nat
    BY <1>PoolSame DEF InPool, Library, Counts
  <1>ClosefidAt.
    ASSUME NEW F \in [Ids -> Int], NEW g \in Ids \cup {0}
    PROVE  closefid(F, g) \in [Ids -> Int] /\ \A f \in Ids : closefid(F, g)[f] = F[f] - One(g, f)
    <2>. USE <1>ClosefidAt
    <2>1. \A f \in Ids : f # 0
      BY SMT DEF Ids
    <2>2. CASE g = 0
      <3>. closefid(F, g) = F
        BY <2>2 DEF closefid
      <3>. \A f \in Ids : One(g, f) = 0
        BY <2>1, <2>2 DEF One
      <3>. QED  BY SMT
    <2>3. CASE g # 0
      <3>. closefid(F, g) = [F EXCEPT ![g] = F[g] - 1]
        BY <2>3, SMT DEF closefid
      <3>. QED  BY <2>3, SMT DEF One
    <2>. QED  BY <2>2, <2>3
  \* A step that makes no Fid and gives none to a request.
  <1>FreshKept.
    ASSUME Fresh, NewStays, \A n \in FidNumbers : fpool'[n] \in {0, fpool[n]},
           \A x \in Ids : fid'[x] \in {0, fid[x]} /\ newfid'[x] = newfid[x]
    PROVE  Fresh'
    <2>. USE <1>FreshKept
    <2>. SUFFICES ASSUME NEW x \in Ids, New(x)' PROVE Clear(x)'
      BY DEF Fresh
    <2>. Clear(x) /\ x # 0
      <3>. x # 0
        BY SMT DEF Ids
      <3>. QED  BY DEF Fresh, NewStays
    <2>. QED  BY DEF Clear
  <1>RemoveRefs.
    ASSUME Library, IInv, RInv, Onward, nread' \in Nat, NEW p \in Procs, NEW q \in Ids, remove(p, q)
    PROVE  RInv'
    <2>. USE <1>RemoveRefs
    <2>. Counted /\ Waits /\ Reqs /\ Fids /\ Fresh /\ Typed
      BY DEF RInv, IInv
    <2>1. Removes(q) /\ HeldStays /\ NewStays
      BY RemoveRemoves
    <2>2. UNCHANGED <<newfid, fpool, oldreq, cfid, lk>> /\ rref[q] > 1 /\ rref' = closereqR(q) /\ tag(q) \in Tags
      BY <2>1 DEF Removes
    <2>3. rref' \in [Ids -> Nat] /\ \A x \in Ids : rref'[x] = rref[x] - One(q, x)
      BY <2>2, SMT DEF closereqR, One, Counted
    <2>4. /\ fid' \in [Ids -> Ids \cup {0}] /\ \A x \in Ids : x # q => fid'[x] = fid[x]
          /\ fid'[q] = 0 \/ fid'[q] = fid[q]
          /\ \A x \in Ids : fid'[x] \in {0, fid[x]}
      <3>. fid \in [Ids -> Ids \cup {0}] /\ (fid' = [fid EXCEPT ![q] = 0] \/ fid' = fid)
        BY <2>1 DEF Removes, Counted
      <3>. QED  OBVIOUS
    <2>5. /\ fref' \in [Ids -> Int]
          /\ \A f \in Ids : fref'[f] = fref[f] - One(fid[q], f) + One(fid'[q], f)
      <3>. fref \in [Ids -> Int] /\ fid[q] \in Ids \cup {0} /\ fid \in [Ids -> Ids \cup {0}]
        BY SMT DEF Counted
      <3>1. CASE fid' = [fid EXCEPT ![q] = 0] /\ fref' = closefid(fref, fid[q])
        <4>1. /\ closefid(fref, fid[q]) \in [Ids -> Int]
              /\ \A f \in Ids : closefid(fref, fid[q])[f] = fref[f] - One(fid[q], f)
          BY <1>ClosefidAt
        <4>. fid'[q] = 0 /\ fref' = closefid(fref, fid[q])
          BY <3>1
        <4>. fref' \in [Ids -> Int] /\ \A f \in Ids : fref'[f] = fref[f] - One(fid[q], f)
          BY <4>1
        <4>. \A f \in Ids : One(0, f) = 0 /\ One(fid[q], f) \in Nat
          BY SMT DEF One, Ids
        <4>. QED  BY SMT
      <3>2. CASE fid' = fid /\ fref' = fref
        <4>. \A f \in Ids : One(fid[q], f) \in Nat
          BY SMT DEF One
        <4>. QED  BY <3>2, SMT
      <3>. QED  BY <2>1, <3>1, <3>2 DEF Removes
    <2>6. ASSUME NEW f \in Ids PROVE FidOK(f)' /\ fref'[f] \in Nat
      <3>1. \A y \in Ids : y # q => rref'[y] = rref[y] /\ fid'[y] = fid[y] /\ newfid'[y] = newfid[y]
        BY <2>2, <2>4 DEF Counted, closereqR
      <3>2. /\ AsFid(f)' + One(theFid(q), f) = AsFid(f) + One(theFid(q)', f)
            /\ AsNew(f)' + One(theNew(q), f) = AsNew(f) + One(theNew(q)', f)
            /\ AsFid(f) \in Nat /\ AsFid(f)' \in Nat /\ AsNew(f) \in Nat /\ AsNew(f)' \in Nat
            /\ f # 0
        BY <3>1, <1>LiveStep
      <3>3. rref'[q] > 0 /\ rref[q] > 0
        BY <2>2, <2>3, SMT DEF One, Counted
      <3>4. theFid(q) = fid[q] /\ theNew(q) = newfid[q] /\ theFid(q)' = fid'[q] /\ theNew(q)' = newfid[q]
        BY <2>2, <3>3 DEF theFid, theNew
      <3>. One(fid[q], f) \in Nat /\ One(fid'[q], f) \in Nat /\ One(newfid[q], f) \in Nat
        BY SMT DEF One
      <3>. AsFid(f)' = AsFid(f) - One(fid[q], f) + One(fid'[q], f) /\ AsNew(f)' = AsNew(f)
        BY <3>2, <3>4, SMTT(30)
      <3>. fref[f] = InPool(f) + AsFid(f) + AsNew(f) /\ InPool(f)' = InPool(f) /\ InPool(f) \in Nat
        BY <2>2, <1>PoolSame DEF Fids, FidOK
      <3>. fref'[f] = InPool(f)' + AsFid(f)' + AsNew(f)' /\ fref'[f] \in Nat
        BY <2>5, <3>2, SMT
      <3>. QED  BY DEF FidOK
    <2>7. fref' \in [Ids -> Nat]
      BY <2>5, <2>6, SMT
    <2>8. Counted'
      BY <2>2, <2>3, <2>4, <2>7 DEF Counted
    <2>9.  Waits'
      BY <2>1, <2>2, <1>WaitsKept DEF HeldStays
    <2>10. ASSUME NEW x \in Ids PROVE ReqOK(x)'
      <3>1. Moves(Tags, rpool, rpool', rpool[tag(q)], 0, x)
        BY <2>1, <1>Changed DEF Library, Typed, Removes
      <3>. Num(Tags, rpool', x) + One(q, x) = Num(Tags, rpool, x) + One(0, x) /\ Num(Ids, oldreq', x) = Num(Ids, oldreq, x)
        BY <2>1, <2>2, <3>1 DEF Moves, Removes
      <3>. Has(x)' = Has(x) /\ ReqOK(x) /\ rref[x] \in Nat /\ rref'[x] = rref[x] - One(q, x)
        BY <2>1, <2>3 DEF Has, HeldStays, Reqs, Counted
      <3>. rref'[x] \in Int /\ rref'[x] + Holders(x) = rref[x] + Holders(x)'
        BY HoldersAre, SMT DEF One
      <3>. QED  BY <1>ReqStep
    <2>. Fresh'
      BY <2>1, <2>2, <2>4, <1>FreshKept
    <2>. QED  BY <2>6, <2>8, <2>9, <2>10 DEF RInv, Reqs, Fids
  \* The pool of fids, when one number is given another Fid.
  <1>PoolStep.
    ASSUME Library, Counted, NEW n \in FidNumbers, NEW u, fpool' = [fpool EXCEPT ![n] = u], NEW f \in Ids
    PROVE  /\ InPool(f)' + One(fpool[n], f) = InPool(f) + One(u, f)
           /\ InPool(f) \in Nat /\ InPool(f)' \in Nat
    <2>. USE <1>PoolStep
    <2>. Counts(FidNumbers) /\ fpool \in [FidNumbers -> Ids \cup {0}]
      BY DEF Library, Counted
    <2>.  /\ Num(FidNumbers, fpool', f) + One(fpool[n], f) = Num(FidNumbers, fpool, f) + One(u, f)
          /\ Num(FidNumbers, fpool', f) \in Nat /\ Num(FidNumbers, fpool, f) \in Nat
      <3>. Moves(FidNumbers, fpool, fpool', fpool[n], u, f)
        BY <1>Changed
      <3>. Num(FidNumbers, fpool', f) \in Nat /\ Num(FidNumbers, fpool, f) \in Nat
        BY DEF Counts
      <3>. QED  BY DEF Moves
    <2>. QED  BY DEF InPool
  <1>ReqsQuiet.
    ASSUME Library, IInv, Onward, nread' \in Nat, Counted, Waits, Reqs, HeldStays, UNCHANGED <<rref, rpool, oldreq>>
    PROVE  Waits' /\ Reqs'
    <2>. USE <1>ReqsQuiet
    <2>1. Waits'
      BY <1>WaitsKept DEF HeldStays
    <2>2. ASSUME NEW x \in Ids PROVE ReqOK(x)'
      <3>1. Has(x)' = Has(x)
        BY DEF Has, HeldStays
      <3>. Holders(x)' = Holders(x)
        BY <3>1, HoldersAre
      <3>. ReqOK(x) /\ rref[x] \in Nat /\ rref'[x] = rref[x]
        BY DEF Reqs, Counted
      <3>. rref'[x] \in Int
        BY SMT
      <3>. QED  BY <1>ReqStep
    <2>. QED  BY <2>1, <2>2 DEF Reqs
  <1>HandlersRefs.
    \A q \in Ids : Library /\ IInv /\ RInv /\ Onward /\ nread' \in Nat /\ (sattach(q) \/ swalk(q) \/ sio(q) \/ sclunk(q)) => RInv'
    <2>FreshServed.
      ASSUME Fresh, NEW q \in Ids, Served(q), \A n \in FidNumbers : fpool'[n] \in {0, q, fpool[n]},
             \A y \in Ids : y # q => fid'[y] = fid[y] /\ newfid'[y] = newfid[y],
             Given(q, fid'[q]), Given(q, newfid'[q])
      PROVE  Fresh'
      <3>. USE <2>FreshServed
      <3>. SUFFICES ASSUME NEW x \in Ids, New(x)' PROVE Clear(x)'
        BY DEF Fresh
      <3>. Clear(x) /\ x # q
        BY DEF Fresh, Served
      <3>. x # 0
        BY SMT DEF Ids
      <3>. fid'[x] = 0 /\ newfid'[x] = 0 /\ \A n \in FidNumbers : fpool'[n] # x
        BY DEF Clear
      <3>. fid'[q] # x /\ newfid'[q] # x
        BY DEF Clear, Given
      <3>. \A y \in Ids : fid'[y] # x /\ newfid'[y] # x
        BY DEF Clear
      <3>. QED  BY DEF Clear
    <2>ServeSum.
      ASSUME Library, NEW q \in Ids, NEW f \in Ids, FidOK(f), fref[f] \in Nat, fref'[f] \in Nat,
             InPool(f) \in Nat, InPool(f)' \in Nat, rref[q] > 0, fid[q] = 0, newfid[q] = 0, rref' = rref,
             \A y \in Ids : y # q => fid'[y] = fid[y] /\ newfid'[y] = newfid[y],
             fref'[f] + InPool(f) = fref[f] + InPool(f)' + One(fid'[q], f) + One(newfid'[q], f)
      PROVE  FidOK(f)'
      <3>. USE <2>ServeSum
      <3>.  /\ AsFid(f)' + One(theFid(q), f) = AsFid(f) + One(theFid(q)', f)
            /\ AsNew(f)' + One(theNew(q), f) = AsNew(f) + One(theNew(q)', f)
            /\ AsFid(f) \in Nat /\ AsFid(f)' \in Nat /\ AsNew(f) \in Nat /\ AsNew(f)' \in Nat
            /\ f # 0
        BY <1>LiveStep
      <3>1. theFid(q) = 0 /\ theNew(q) = 0 /\ theFid(q)' = fid'[q] /\ theNew(q)' = newfid'[q]
        BY DEF theFid, theNew
      <3>. One(0, f) = 0 /\ One(fid'[q], f) \in Nat /\ One(newfid'[q], f) \in Nat
        BY SMT DEF One
      <3>.  /\ AsFid(f)' = AsFid(f) + One(fid'[q], f)
            /\ AsNew(f)' = AsNew(f) + One(newfid'[q], f)
        BY <3>1, SMT
      <3>. fref[f] = InPool(f) + AsFid(f) + AsNew(f)
        BY DEF FidOK
      <3>. fref'[f] = InPool(f)' + AsFid(f)' + AsNew(f)'
        BY SMT
      <3>. QED  BY DEF FidOK
    <2>TakesRefs.
      ASSUME Library, IInv, RInv, Onward, nread' \in Nat, NEW q \in Ids, HeldStays, Served(q), q \in Held, New(q), Takes(q)
      PROVE  RInv'
      <3>. USE <2>TakesRefs
      <3>. Counted /\ Waits /\ Reqs /\ Fids /\ Fresh
        BY DEF RInv
      <3>1. Counted'
        BY DEF Counted, Takes
      <3>2. Waits' /\ Reqs'
        BY <1>ReqsQuiet DEF Takes
      <3>. Fids'
        <4>1. ASSUME NEW f \in Ids PROVE FidOK(f)'
          <5>.  /\ FidOK(f) /\ fref[f] \in Nat /\ fref'[f] \in Nat /\ rref' = rref
                /\ \A y \in Ids : y # q => fid'[y] = fid[y] /\ newfid'[y] = newfid[y]
                /\ fref'[f] + InPool(f) = fref[f] + InPool(f)' + One(fid'[q], f) + One(newfid'[q], f)
            BY DEF Takes, Fids, Counted
          <5>. rref[q] > 0 /\ fid[q] = 0 /\ newfid[q] = 0
            BY NewFacts
          <5>. InPool(f) \in Nat /\ InPool(f)' \in Nat
            BY DEF InPool, Library, Counts
          <5>. QED  BY <2>ServeSum
        <4>. QED  BY <4>1 DEF Fids
      <3>. Fresh'
        BY <2>FreshServed DEF Takes
      <3>. QED  BY <3>1, <3>2 DEF RInv
    <2>SattachTakes.
      ASSUME Library, IInv, RInv, NEW q \in Ids, sattach(q)
      PROVE  Takes(q)
      <3>. USE <2>SattachTakes
      <3>.  /\ Counted /\ fref[q] = 0 /\ fid[q] = 0 /\ newfid[q] = 0
            /\ \A f \in Ids : f # 0 /\ fref[f] \in Nat
            /\ MessageOK(msg[q]) /\ \A n \in FidNumbers : fpool[n] # q
        BY HandlerFacts
      <3>. UNCHANGED <<rref, rpool, oldreq, cfid, lk, newfid>> /\ type(q) = "attach"
        BY DEF sattach, Handling, clientvars
      <3>1. PICK n \in FidNumbers : n = msg[q].fid
        BY DEF MessageOK, type
      <3>2. CASE UNCHANGED <<fpool, fref, fid>>
        <4>1. ASSUME NEW f \in Ids
              PROVE  fref'[f] + InPool(f) = fref[f] + InPool(f)' + One(fid'[q], f) + One(newfid'[q], f)
          <5>. InPool(f)' = InPool(f) /\ InPool(f) \in Nat /\ fref'[f] = fref[f] /\ fref[f] \in Nat /\ f # 0
            BY <3>2, <1>PoolSame
          <5>. One(fid'[q], f) = 0 /\ One(newfid'[q], f) = 0
            BY <3>2 DEF One
          <5>. QED  BY SMT
        <4>. Given(q, fid'[q]) /\ Given(q, newfid'[q])
          BY <3>2 DEF Given
        <4>. QED  BY <3>2, <4>1 DEF Takes, Counted
      <3>3. CASE /\ fpool[n] = 0 /\ fpool' = [fpool EXCEPT ![n] = q] /\ fref' = [fref EXCEPT ![q] = 2]
                 /\ fid' = [fid EXCEPT ![q] = q]
        <4>1. fid'[q] = q /\ newfid'[q] = 0
          BY <3>3 DEF Counted
        <4>2. ASSUME NEW f \in Ids
              PROVE  fref'[f] + InPool(f) = fref[f] + InPool(f)' + One(fid'[q], f) + One(newfid'[q], f)
          <5>. InPool(f)' + One(0, f) = InPool(f) + One(q, f) /\ InPool(f) \in Nat /\ InPool(f)' \in Nat
            BY <3>3, <1>PoolStep
          <5>. fref'[f] = IF f = q THEN 2 ELSE fref[f]
            BY <3>3 DEF Counted
          <5>. QED  BY <4>1, SMT DEF One
        <4>3. Given(q, fid'[q]) /\ Given(q, newfid'[q])
          BY <4>1 DEF Given
        <4>. fref' \in [Ids -> Nat]
          BY <3>3, SMT DEF Counted
        <4>. fpool' \in [FidNumbers -> Ids \cup {0}] /\ fid' \in [Ids -> Ids \cup {0}] /\ newfid' \in [Ids -> Ids \cup {0}]
          BY <3>3 DEF Counted
        <4>.  /\ \A m \in FidNumbers : fpool'[m] \in {0, q, fpool[m]}
              /\ \A y \in Ids : y # q => fid'[y] = fid[y] /\ newfid'[y] = newfid[y]
          BY <3>3 DEF Counted
        <4>. QED  BY <4>2, <4>3 DEF Takes
      <3>. QED  BY <3>1, <3>2, <3>3 DEF sattach
    <2>SioTakes.
      ASSUME Library, IInv, RInv, NEW q \in Ids, sio(q)
      PROVE  Takes(q)
      <3>. USE <2>SioTakes
      <3>.  /\ Counted /\ fid[q] = 0 /\ newfid[q] = 0
            /\ \A f \in Ids : f # 0 /\ fref[f] \in Nat
            /\ MessageOK(msg[q])
        BY HandlerFacts
      <3>. UNCHANGED <<rref, rpool, oldreq, cfid, lk, newfid, fpool>> /\ type(q) = "io"
        BY DEF sio, Handling, clientvars
      <3>1. PICK n \in FidNumbers : n = msg[q].fid
        BY DEF MessageOK, type
      <3>2. PICK g \in Ids \cup {0} : g = fpool[n]
        BY DEF Counted
      <3>.  /\ fref' = IF g = 0 THEN fref ELSE [fref EXCEPT ![g] = @ + 1]
            /\ fid'[q] = g /\ fid' \in [Ids -> Ids \cup {0}]
            /\ \A y \in Ids : y # q => fid'[y] = fid[y]
        BY <3>1, <3>2 DEF sio, Counted
      <3>. fref' \in [Ids -> Nat] /\ \A f \in Ids : fref'[f] = fref[f] + One(g, f)
        BY SMT DEF Counted, One
      <3>3. ASSUME NEW f \in Ids
            PROVE  fref'[f] + InPool(f) = fref[f] + InPool(f)' + One(fid'[q], f) + One(newfid'[q], f)
        <4>. InPool(f)' = InPool(f) /\ InPool(f) \in Nat
          BY <1>PoolSame
        <4>. One(newfid'[q], f) = 0 /\ fid'[q] = g /\ fref'[f] = fref[f] + One(g, f)
          BY DEF One
        <4>. One(g, f) \in Nat /\ fref[f] \in Nat
          BY SMT DEF One
        <4>. QED  BY SMT
      <3>. Given(q, fid'[q]) /\ Given(q, newfid'[q])
        BY <3>2 DEF Given
      <3>. QED  BY <3>3 DEF Takes, Counted
    <2>SclunkTakes.
      ASSUME Library, IInv, RInv, NEW q \in Ids, sclunk(q)
      PROVE  Takes(q)
      <3>. USE <2>SclunkTakes
      <3>1. /\ Counted /\ fid[q] = 0 /\ newfid[q] = 0
            /\ \A f \in Ids : f # 0 /\ fref[f] \in Nat
            /\ MessageOK(msg[q])
        BY HandlerFacts
      <3>2. UNCHANGED <<rref, rpool, oldreq, cfid, lk, newfid, fref>> /\ type(q) = "clunk"
        BY DEF sclunk, Handling, clientvars
      <3>3. PICK n \in FidNumbers : n = msg[q].fid
        BY <3>1, <3>2 DEF MessageOK, type
      <3>4. PICK g \in Ids \cup {0} : g = fpool[n]
        BY <3>1 DEF Counted
      <3>5. fid' = [fid EXCEPT ![q] = g] /\ fpool' = [fpool EXCEPT ![n] = 0]
        BY <3>3, <3>4 DEF sclunk
      <3>6. /\ fid'[q] = g /\ fid' \in [Ids -> Ids \cup {0}] /\ fpool' \in [FidNumbers -> Ids \cup {0}]
            /\ \A y \in Ids : y # q => fid'[y] = fid[y]
            /\ \A m \in FidNumbers : fpool'[m] \in {0, fpool[m]}
        BY <3>1, <3>5 DEF Counted
      <3>7. ASSUME NEW f \in Ids
            PROVE  fref'[f] + InPool(f) = fref[f] + InPool(f)' + One(fid'[q], f) + One(newfid'[q], f)
        <4>1. InPool(f)' + One(g, f) = InPool(f) + One(0, f) /\ InPool(f) \in Nat /\ InPool(f)' \in Nat
          BY <3>1, <3>4, <3>5, <1>PoolStep
        <4>2. One(newfid'[q], f) = 0 /\ fid'[q] = g /\ fref'[f] = fref[f] /\ One(0, f) = 0
          BY <3>1, <3>2, <3>6 DEF One
        <4>3. One(g, f) \in Nat /\ fref[f] \in Nat
          BY <3>1, SMT DEF One
        <4>. QED  BY <4>1, <4>2, <4>3, SMT
      <3>8. Given(q, fid'[q]) /\ Given(q, newfid'[q])
        BY <3>1, <3>2, <3>4, <3>6 DEF Given
      <3>. QED  BY <3>1, <3>2, <3>6, <3>7, <3>8 DEF Takes, Counted
    <2>SwalkTakes.
      ASSUME Library, IInv, RInv, NEW q \in Ids, swalk(q)
      PROVE  Takes(q)
      <3>. USE <2>SwalkTakes
      <3>.  /\ Counted /\ fref[q] = 0 /\ fid[q] = 0 /\ newfid[q] = 0
            /\ \A f \in Ids : f # 0 /\ fref[f] \in Nat
            /\ MessageOK(msg[q]) /\ \A n \in FidNumbers : fpool[n] # q
        BY HandlerFacts
      <3>1. UNCHANGED <<rref, rpool, oldreq, cfid, lk>> /\ type(q) = "walk"
        BY DEF swalk, Handling, clientvars
      <3>2. PICK n \in FidNumbers, nn \in FidNumbers : n = msg[q].fid /\ nn = msg[q].newfid
        BY <3>1 DEF MessageOK, type
      <3>3. PICK g \in Ids \cup {0} : g = fpool[n] /\ g # q
        BY DEF Counted
      <3>4. ASSUME NEW a, NEW b, Given(q, a), Given(q, b), a \in Ids \cup {0}, b \in Ids \cup {0}, Gives(q, a, b)
            PROVE  Takes(q)
        <4>.  /\ fid'[q] = a /\ newfid'[q] = b /\ fid' \in [Ids -> Ids \cup {0}] /\ newfid' \in [Ids -> Ids \cup {0}]
              /\ \A y \in Ids : y # q => fid'[y] = fid[y] /\ newfid'[y] = newfid[y]
          BY <3>4 DEF Counted, Gives
        <4>. QED  BY <3>1, <3>4 DEF Takes, Gives
      <3>5. Given(q, 0) /\ Given(q, q) /\ Given(q, g) /\ g \in Ids \cup {0} /\ q \in Ids \cup {0} /\ 0 \in Ids \cup {0}
        BY <3>3 DEF Given
      <3>6. newfid = [newfid EXCEPT ![q] = 0] /\ fid = [fid EXCEPT ![q] = 0]
        BY SMT DEF Counted
      <3>7. CASE g = 0 /\ UNCHANGED <<fpool, fref, fid, newfid>>
        <4>1. ASSUME NEW f \in Ids PROVE fref'[f] + InPool(f) = fref[f] + InPool(f)' + One(0, f) + One(0, f)
          <5>. InPool(f)' = InPool(f) /\ InPool(f) \in Nat /\ fref'[f] = fref[f] /\ fref[f] \in Nat /\ One(0, f) = 0
            BY <3>7, <1>PoolSame DEF One
          <5>. QED  BY SMT
        <4>.  /\ fref' \in [Ids -> Nat] /\ fpool' \in [FidNumbers -> Ids \cup {0}]
              /\ \A m \in FidNumbers : fpool'[m] \in {0, q, fpool[m]}
              /\ fid' = [fid EXCEPT ![q] = 0] /\ newfid' = [newfid EXCEPT ![q] = 0]
          BY <3>6, <3>7 DEF Counted
        <4>. Gives(q, 0, 0)
          BY <4>1 DEF Gives
        <4>. QED  BY <3>4, <3>5
      <3>8. CASE /\ g # 0 /\ fref' = [fref EXCEPT ![g] = @ + 2] /\ fid' = [fid EXCEPT ![q] = g]
                 /\ newfid' = [newfid EXCEPT ![q] = g] /\ UNCHANGED fpool
        <4>1. ASSUME NEW f \in Ids PROVE fref'[f] + InPool(f) = fref[f] + InPool(f)' + One(g, f) + One(g, f)
          <5>. InPool(f)' = InPool(f) /\ InPool(f) \in Nat /\ fref[f] \in Nat
            BY <3>8, <1>PoolSame
          <5>. fref'[f] = IF f = g THEN fref[f] + 2 ELSE fref[f]
            BY <3>8 DEF Counted
          <5>. QED  BY SMT DEF One
        <4>2. fref' \in [Ids -> Nat]
          BY <3>8, SMT DEF Counted
        <4>. /\ fpool' \in [FidNumbers -> Ids \cup {0}] /\ \A m \in FidNumbers : fpool'[m] \in {0, q, fpool[m]}
          BY <3>8 DEF Counted
        <4>. Gives(q, g, g)
          BY <3>8, <4>1, <4>2 DEF Gives
        <4>. QED  BY <3>4, <3>5
      <3>9.  CASE /\ g # 0 /\ fref' = [fref EXCEPT ![g] = @ + 1] /\ fid' = [fid EXCEPT ![q] = g]
                  /\ UNCHANGED <<fpool, newfid>>
        <4>1. ASSUME NEW f \in Ids PROVE fref'[f] + InPool(f) = fref[f] + InPool(f)' + One(g, f) + One(0, f)
          <5>. InPool(f)' = InPool(f) /\ InPool(f) \in Nat /\ fref[f] \in Nat /\ One(0, f) = 0
            BY <3>9, <1>PoolSame DEF One
          <5>. fref'[f] = IF f = g THEN fref[f] + 1 ELSE fref[f]
            BY <3>9 DEF Counted
          <5>. QED  BY SMT DEF One
        <4>2. fref' \in [Ids -> Nat]
          BY <3>9, SMT DEF Counted
        <4>.  /\ fpool' \in [FidNumbers -> Ids \cup {0}] /\ \A m \in FidNumbers : fpool'[m] \in {0, q, fpool[m]}
              /\ newfid' = [newfid EXCEPT ![q] = 0]
          BY <3>6, <3>9 DEF Counted
        <4>. Gives(q, g, 0)
          BY <3>9, <4>1, <4>2 DEF Gives
        <4>. QED  BY <3>4, <3>5
      <3>10. CASE /\ g # 0 /\ fpool[nn] = 0 /\ fpool' = [fpool EXCEPT ![nn] = q]
                  /\ fref' = [[fref EXCEPT ![g] = @ + 1] EXCEPT ![q] = 2] /\ fid' = [fid EXCEPT ![q] = g]
                  /\ newfid' = [newfid EXCEPT ![q] = q]
        <4>1. ASSUME NEW f \in Ids PROVE fref'[f] + InPool(f) = fref[f] + InPool(f)' + One(g, f) + One(q, f)
          <5>.  /\ InPool(f)' + One(0, f) = InPool(f) + One(q, f) /\ InPool(f) \in Nat /\ InPool(f)' \in Nat
                /\ fref[f] \in Nat /\ One(0, f) = 0
            <6>. InPool(f)' + One(0, f) = InPool(f) + One(q, f) /\ InPool(f) \in Nat /\ InPool(f)' \in Nat
              BY <3>10, <1>PoolStep, ZenonT(30)
            <6>. QED  BY DEF One
          <5>. fref'[f] = IF f = q THEN 2 ELSE IF f = g THEN fref[f] + 1 ELSE fref[f]
            BY <3>10 DEF Counted
          <5>1. CASE f = q
            BY <3>3, <5>1, SMT DEF One
          <5>2. CASE f # q
            BY <3>3, <5>2, SMT DEF One
          <5>. QED  BY <5>1, <5>2, SMT
        <4>2. fref' \in [Ids -> Nat]
          BY <3>3, <3>10, SMT DEF Counted
        <4>. /\ fpool' \in [FidNumbers -> Ids \cup {0}] /\ \A m \in FidNumbers : fpool'[m] \in {0, q, fpool[m]}
          BY <3>10 DEF Counted
        <4>. Gives(q, g, q)
          BY <3>10, <4>1, <4>2 DEF Gives
        <4>. QED  BY <3>4, <3>5
      <3>. PICK k, m : k = msg[q].fid /\ m = msg[q].newfid
        OBVIOUS
      <3>. fpool[k] = g /\ m = nn
        BY <3>2, <3>3
      <3>.   \/ fpool[k] = 0 /\ UNCHANGED <<fpool, fref, fid, newfid>>
             \/ /\ fpool[k] # 0 /\ fref' = [fref EXCEPT ![fpool[k]] = @ + 2] /\ fid' = [fid EXCEPT ![q] = fpool[k]]
                /\ newfid' = [newfid EXCEPT ![q] = fpool[k]] /\ UNCHANGED fpool
             \/ /\ fpool[k] # 0 /\ fref' = [fref EXCEPT ![fpool[k]] = @ + 1] /\ fid' = [fid EXCEPT ![q] = fpool[k]]
                /\ UNCHANGED <<fpool, newfid>>
             \/ /\ fpool[k] # 0 /\ fpool[m] = 0 /\ fpool' = [fpool EXCEPT ![m] = q]
                /\ fref' = [[fref EXCEPT ![fpool[k]] = @ + 1] EXCEPT ![q] = 2] /\ fid' = [fid EXCEPT ![q] = fpool[k]]
                /\ newfid' = [newfid EXCEPT ![q] = q]
        BY DEF swalk
      <3>. QED  BY <3>7, <3>8, <3>9, <3>10
    <2>. SUFFICES ASSUME Library, IInv, RInv, Onward, nread' \in Nat, NEW q \in Ids,
                         sattach(q) \/ swalk(q) \/ sio(q) \/ sclunk(q)
                  PROVE  RInv'
      OBVIOUS
    <2>. Takes(q)
      BY <2>SattachTakes, <2>SwalkTakes, <2>SioTakes, <2>SclunkTakes
    <2>. QED  BY HandlerFacts, <2>TakesRefs
  <1>FidsSame.
    ASSUME Fids, UNCHANGED <<rref, fid, newfid, fpool, fref>>
    PROVE  Fids'
    BY <1>FidsSame DEF Fids, FidOK, InPool, AsFid, AsNew, theFid, theNew
  \* A step that counts nothing.
  <1>QuietRefs.
    ASSUME Library, IInv, RInv, Onward, nread' \in Nat, HeldStays, NewStays,
           UNCHANGED <<rref, fid, newfid, fpool, fref, rpool, oldreq>>,
           cfid' \in [FidNumbers -> {"free", "making", "used", "clunking"}], lk' \in [Ids -> Procs \cup {NoProc}]
    PROVE  RInv'
    <2>. USE <1>QuietRefs
    <2>. Counted /\ Waits /\ Reqs /\ Fids /\ Fresh
      BY DEF RInv
    <2>1. Counted'
      BY DEF Counted
    <2>. Waits' /\ Reqs'
      BY <1>ReqsQuiet
    <2>. Fids'
      BY <1>FidsSame
    <2>. Fresh'
      BY <1>FreshKept
    <2>. QED  BY <2>1 DEF RInv
  <1>RotherRefs.
    ASSUME Library, IInv, RInv, Onward, nread' \in Nat, NEW p \in Procs, NEW q \in Ids, rother(p, q)
    PROVE  RInv'
    <2>. USE <1>RotherRefs
    <2>. Counted /\ Waits /\ Reqs /\ Fids /\ Fresh /\ Typed
      BY DEF RInv, IInv
    <2>1. /\ UNCHANGED <<rref, fid, newfid, rpool, oldreq, cfid, lk, flush>>
          /\ Responding(p, q, "respond", "wlock") /\ type(q) # "flush"
      BY DEF rother, Responding, clientvars
    <2>2. "respond" \in PCs /\ "wlock" \in PCs /\ "wlock" # "handler"
      BY DEF PCs
    <2>. GoesOn
      BY StepHolds DEF Moved
    <2>3. HeldStays /\ NewStays /\ q <= nread
      BY <2>1, <2>2 DEF GoesOn
    <2>4. CASE UNCHANGED <<fpool, fref>>
      BY <2>1, <2>3, <2>4, <1>QuietRefs DEF Counted
    <2>5. ASSUME NEW n \in FidNumbers, fpool' = [fpool EXCEPT ![n] = 0], fref' = closefid(fref, fpool[n])
          PROVE  RInv'
      <3>1. Waits' /\ Reqs'
        BY <2>1, <2>3, <1>ReqsQuiet
      <3>2. fpool[n] \in Ids \cup {0} /\ fref \in [Ids -> Int]
        BY SMT DEF Counted
      <3>3. fref' \in [Ids -> Int] /\ \A f \in Ids : fref'[f] = fref[f] - One(fpool[n], f)
        BY <2>5, <3>2, <1>ClosefidAt
      <3>4. ASSUME NEW f \in Ids PROVE FidOK(f)' /\ fref'[f] \in Nat
        <4>1. InPool(f)' + One(fpool[n], f) = InPool(f) + One(0, f) /\ InPool(f) \in Nat /\ InPool(f)' \in Nat
          BY <2>5, <1>PoolStep
        <4>2. AsFid(f)' = AsFid(f) /\ AsNew(f)' = AsNew(f) /\ AsFid(f) \in Nat /\ AsNew(f) \in Nat
          BY <2>1, ZenonT(30) DEF AsFid, AsNew, theFid, theNew, Library, Counts
        <4>. One(0, f) = 0 /\ One(fpool[n], f) \in Nat
          BY SMT DEF One, Ids
        <4>. fref[f] = InPool(f) + AsFid(f) + AsNew(f) /\ fref'[f] = fref[f] - One(fpool[n], f)
          BY <3>3 DEF Fids, FidOK
        <4>. fref'[f] = InPool(f)' + AsFid(f)' + AsNew(f)' /\ fref'[f] \in Nat
          BY <4>1, <4>2, SMT
        <4>. QED  BY DEF FidOK
      <3>5. fref' \in [Ids -> Nat]
        BY <3>3, <3>4, SMT
      <3>. fpool' \in [FidNumbers -> Ids \cup {0}] /\ \A m \in FidNumbers : fpool'[m] \in {0, fpool[m]}
        BY <2>5 DEF Counted
      <3>. Counted'
        BY <2>1, <3>5 DEF Counted
      <3>. Fresh'
        BY <2>1, <2>3, <1>FreshKept
      <3>. QED  BY <3>1, <3>4 DEF RInv, Fids
    <2>6. MessageOK(msg[q])
      BY <2>3, WasSent
    <2>7. ASSUME ~UNCHANGED <<fpool, fref>> PROVE RInv'
      <3>. DEFINE n == IF type(q) = "attach" /\ fid[q] # 0 THEN msg[q].fid ELSE msg[q].newfid
      <3>.  /\ fpool' = [fpool EXCEPT ![n] = 0] /\ fref' = closefid(fref, fpool[n])
            /\ (type(q) = "attach" /\ fid[q] # 0) \/ type(q) = "walk"
        BY <2>7 DEF rother
      <3>. n \in FidNumbers
        BY <2>6 DEF MessageOK, type
      <3>. HIDE DEF n
      <3>. QED  BY <2>5
    <2>. QED  BY <2>4, <2>7
  <1>FinishRefs.
    ASSUME Library, IInv, RInv, Onward, nread' \in Nat, NEW p \in Workers, NEW q \in Ids, NEW result \in Outcomes,
           Finish(p, q, result)
    PROVE  RInv'
    <2>. USE <1>FinishRefs
    <2>. UNCHANGED <<rref, fid, newfid, fpool, fref, rpool, oldreq, cfid, lk>>
      BY DEF Finish, clientvars, reqvars, poolvars
    <2>. HeldStays /\ NewStays
      BY StepHolds DEF Moved
    <2>. QED  BY <1>QuietRefs DEF RInv, Counted
  <1>DelayRefs.
    ASSUME Library, IInv, RInv, Onward, nread' \in Nat, NEW p \in Procs, NEW q \in Ids, rflushDelay(p, q)
    PROVE  RInv'
    <2>. USE <1>DelayRefs
    <2>. UNCHANGED <<rref, fid, newfid, fpool, fref, rpool, oldreq, cfid, lk>>
      BY DEF rflushDelay, clientvars, poolvars
    <2>. HeldStays /\ NewStays
      BY StepHolds DEF Moved
    <2>. QED  BY <1>QuietRefs DEF RInv, Counted
  <1>WriteRefs.
    ASSUME Library, IInv, RInv, Onward, nread' \in Nat, NEW p \in Procs, NEW q \in Ids, write(p, q)
    PROVE  RInv'
    <2>. USE <1>WriteRefs
    <2>1. /\ UNCHANGED <<rref, fid, newfid, fpool, fref, rpool, oldreq, lk, flush>>
          /\ Responding(p, q, "write", "free")
      BY DEF write, poolvars, Responding
    <2>2. "write" \in PCs /\ "free" \in PCs /\ "free" # "handler"
      BY DEF PCs
    <2>. GoesOn
      BY StepHolds DEF Moved
    <2>3. HeldStays /\ NewStays /\ q <= nread /\ IInv
      BY <2>1, <2>2 DEF GoesOn
    <2>4. cfid' \in [FidNumbers -> {"free", "making", "used", "clunking"}]
      <3>1. cfid \in [FidNumbers -> {"free", "making", "used", "clunking"}]
        BY DEF RInv, Counted
      <3>2. \/ cfid' = cfid
            \/ \E n : \E c \in {"free", "used"} : cfid' = [cfid EXCEPT ![n] = c]
        <4>. DEFINE made == IF type(q) = "walk" THEN msg[q].newfid ELSE msg[q].fid
        <4>1. cfid' = CASE type(q) \in {"attach", "walk"} /\ cfid[made] = "making" ->
                           [cfid EXCEPT ![made] = IF Head(stack[p]).result = "ok" THEN "used" ELSE "free"]
                       [] type(q) = "clunk" ->
                           [cfid EXCEPT ![msg[q].fid] = "free"]
                       [] OTHER -> cfid
          BY DEF write, Receive
        <4>. HIDE DEF made
        <4>2. CASE type(q) \in {"attach", "walk"}
          BY <4>1, <4>2
        <4>3. CASE type(q) \notin {"attach", "walk"}
          BY <4>1, <4>3
        <4>. QED  BY <4>2, <4>3, SMT
      <3>. QED  BY <3>1, <3>2, SMT
    <2>. QED  BY <2>1, <2>3, <2>4, <1>QuietRefs DEF RInv, Counted
  \* Nobody holds more when the client sends.
  <1>IdleRefs.
    ASSUME Library, IInv, RInv, Onward, nread' \in Nat, UNCHANGED <<nread, reqvars, poolvars, pend, stack>>,
           cfid' \in [FidNumbers -> {"free", "making", "used", "clunking"}], lk' = lk
    PROVE  RInv'
    <2>. USE <1>IdleRefs
    <2>. UNCHANGED <<rref, fid, newfid, fpool, fref, rpool, oldreq, flush, nread, pend, stack>>
      BY DEF reqvars, poolvars
    <2>. HeldStays /\ NewStays
      <3>. Called' = Called /\ \A x \in Ids : (Late(x)' <=> Late(x)) /\ (Handled(x)' <=> Handled(x))
        BY DEF Called, Late, Delayed, Handled
      <3>. QED  BY HeldMoves DEF HeldStays, NewStays
    <2>. lk' \in [Ids -> Procs \cup {NoProc}]
      BY DEF RInv, Counted
    <2>. QED  BY <1>QuietRefs
  <1>ClientRefs.
    ASSUME Library, IInv, RInv, Onward, nread' \in Nat, Client
    PROVE  RInv'
    <2>. USE <1>ClientRefs
    <2>1. UNCHANGED <<nread, reqvars, poolvars, pend, stack, lk>>
      <3>. PICK t \in Tags : \E m : Sends(t, m)
        BY ClientSends DEF IInv
      <3>. QED  BY DEF Sends
    <2>. cfid' \in [FidNumbers -> {"free", "making", "used", "clunking"}]
      <3>. cfid \in [FidNumbers -> {"free", "making", "used", "clunking"}]
        BY DEF RInv, Counted
      <3>. cfid' = cfid \/ \E n \in FidNumbers : \E c \in {"making", "clunking"} : cfid' = [cfid EXCEPT ![n] = c]
        BY DEF Client, SendAttach, SendWalk, SendIO, SendClunk, SendFlush
      <3>. QED  BY SMT
    <2>. QED  BY <2>1, <1>IdleRefs
  <1>StutterRInv.
    ASSUME Library, IInv, RInv, UNCHANGED vars
    PROVE  RInv'
    <2>. USE <1>StutterRInv
    <2>. UNCHANGED <<nread, reqvars, poolvars, pend, stack, cfid, lk, msg>>
      BY DEF vars, clientvars
    <2>. nread \in Nat /\ nread <= nread
      BY SMT DEF IInv, Typed
    <2>. Onward /\ nread' \in Nat
      BY DEF Onward, Sent, Flushed
    <2>. QED  BY <1>IdleRefs DEF RInv, Counted
  \* The Fids of q are the only ones that may change, and do not.
  <1>FidsKept.
    ASSUME Library, Counted, Fids, NEW q \in Ids,
           \A y \in Ids : y # q => rref'[y] = rref[y] /\ fid'[y] = fid[y] /\ newfid'[y] = newfid[y],
           theFid(q)' = theFid(q), theNew(q)' = theNew(q), UNCHANGED <<fpool, fref>>
    PROVE  Fids'
    <2>. USE <1>FidsKept
    <2>. SUFFICES ASSUME NEW f \in Ids PROVE FidOK(f)'
      BY DEF Fids
    <2>. fref[f] = InPool(f) + AsFid(f) + AsNew(f) /\ fref'[f] = fref[f] /\ InPool(f)' = InPool(f)
      BY <1>PoolSame DEF Fids, FidOK
    <2>.  /\ AsFid(f)' + One(theFid(q), f) = AsFid(f) + One(theFid(q), f)
          /\ AsNew(f)' + One(theNew(q), f) = AsNew(f) + One(theNew(q), f)
          /\ AsFid(f) \in Nat /\ AsFid(f)' \in Nat /\ AsNew(f) \in Nat /\ AsNew(f)' \in Nat
      BY <1>LiveStep
    <2>. AsFid(f)' = AsFid(f) /\ AsNew(f)' = AsNew(f)
      BY SMT DEF One
    <2>. QED  BY DEF FidOK
  <1>GetreqRefs.
    ASSUME Library, IInv, RInv, Onward, nread' \in Nat, getreq
    PROVE  RInv'
    <2>. USE <1>GetreqRefs
    <2>1. Counted /\ Waits /\ Reqs /\ Fids /\ Fresh /\ Typed /\ Pooled
      BY DEF RInv, IInv
    <2>2. UNCHANGED <<fpool, fref, fid, newfid, oldreq, cfid, lk>>
      BY DEF getreq, clientvars
    <2>3. PICK q \in Ids :
                /\ \A x \in Ids : x \in Held' <=> x \in Held \/ x = q
                /\ NewStays /\ New(q) /\ q \notin Held /\ ~(q <= nread) /\ nread' = q
                /\ rpool' = [rpool EXCEPT ![tag(q)] = q] /\ rref' = [rref EXCEPT ![q] = 2]
                /\ tag(q) \in Tags /\ rpool[tag(q)] = 0
      BY StepHolds DEF Moved
    <2>4. rref' \in [Ids -> Nat] /\ rref'[q] = 2 /\ \A x \in Ids : x # q => rref'[x] = rref[x]
      BY <2>1, <2>3, SMT DEF Counted
    <2>5. Counted'
      BY <2>1, <2>2, <2>4 DEF Counted
    <2>6. Waits'
      BY <2>1, <2>2, <2>3, <1>WaitsKept
    <2>7. ASSUME NEW x \in Ids PROVE ReqOK(x)'
      <3>1. Counts(Tags) /\ rpool \in [Tags -> Ids \cup {0}]
        BY <2>1 DEF Library, Typed
      <3>2. Moves(Tags, rpool, rpool', rpool[tag(q)], q, x)
        BY <2>3, <3>1, <1>Changed
      <3>3. Num(Tags, rpool', x) + One(0, x) = Num(Tags, rpool, x) + One(q, x) /\ Num(Ids, oldreq', x) = Num(Ids, oldreq, x)
        BY <2>2, <2>3, <3>2 DEF Moves
      <3>4. CASE x = q
        <4>1. Num(Tags, rpool, q) = 0
          <5>. \A t \in Tags : rpool[t] # q
            <6>1. ASSUME NEW t \in Tags, rpool[t] = q PROVE FALSE
              <7>. rpool[t] # 0
                BY <6>1, SMT DEF Ids
              <7>. QED  BY <2>1, <2>3, <6>1 DEF Pooled
            <6>. QED  BY <6>1
          <5>. QED  BY <3>1 DEF Counts
        <4>2. Num(Ids, oldreq, q) = 0
          <5>. \A f \in Ids : oldreq[f] # q
            <6>1. ASSUME NEW f \in Ids, oldreq[f] = q PROVE FALSE
              <7>. oldreq[f] # 0
                BY <6>1, SMT DEF Ids
              <7>. QED  BY <2>1, <2>3, <6>1 DEF Waits
            <6>. QED  BY <6>1
          <5>. QED  BY DEF Counts, Library
        <4>3. Has(q)' = 1
          BY <2>3 DEF Has
        <4>. Holders(q)' = 2
          BY <3>3, <3>4, <4>1, <4>2, <4>3, HoldersAre, SMTT(30) DEF One
        <4>. rref'[q] >= Holders(q)' /\ rref'[q] = Holders(q)'
          BY <2>4, SMT
        <4>. QED  BY <3>4 DEF ReqOK
      <3>5. CASE x # q
        <4>1. Has(x)' = Has(x)
          BY <2>3, <3>5 DEF Has
        <4>. ReqOK(x) /\ rref[x] \in Nat /\ rref'[x] = rref[x]
          BY <2>1, <2>4, <3>5 DEF Reqs, Counted
        <4>. Holders(x)' = Holders(x) /\ Holders(x) \in Nat
          BY <3>3, <3>5, <4>1, HoldersAre, SMTT(30) DEF One
        <4>. rref'[x] \in Int /\ rref'[x] + Holders(x) = rref[x] + Holders(x)'
          BY SMT
        <4>. QED  BY <1>ReqStep
      <3>. QED  BY <3>4, <3>5
    <2>. Fids'
      <3>. fid[q] = 0 /\ newfid[q] = 0
        BY <2>1, <2>3 DEF Fresh, Clear
      <3>. theFid(q)' = theFid(q) /\ theNew(q)' = theNew(q)
        BY <2>2 DEF theFid, theNew
      <3>. QED  BY <2>1, <2>2, <2>4, <1>FidsKept
    <2>. Fresh'
      BY <2>1, <2>2, <2>3, <1>FreshKept
    <2>. QED  BY <2>5, <2>6, <2>7 DEF RInv, Reqs
  <1>SflushRefs.
    ASSUME Library, IInv, RInv, Onward, nread' \in Nat, NEW q \in Ids, sflush(q)
    PROVE  RInv'
    <2>. USE <1>SflushRefs
    <2>. Counted /\ Waits /\ Reqs /\ Fids /\ Fresh /\ Typed /\ Tagged /\ Pooled /\ Calls /\ Delays
      BY DEF RInv, IInv
    <2>1. /\ UNCHANGED <<rpool, fpool, fref, fid, newfid, cfid, lk, nread, msg>> /\ type(q) = "flush"
          /\ stack["srv"] # <<>> /\ Head(stack["srv"]).pc = "handler" /\ q = Head(stack["srv"]).r /\ "srv" \in Procs
      BY DEF sflush, Handling, At, Top, clientvars, Procs
    <2>2. HeldStays /\ NewStays /\ q \in Held
      BY StepHolds DEF Moved, Served, NewStays
    <2>3. FrameOK("srv", Head(stack["srv"]))
      BY <2>1, TopFrame
    <2>4. q <= nread /\ ~responded[q] /\ oldreq[q] = 0
      BY <2>1, <2>3 DEF FrameOK
    <2>5. msg[q].old \in Tags /\ rpool[msg[q].old] \in {0, msg[q].target}
      BY <2>1, <2>4, OldIsTarget
    <2>6. PICK t \in Tags : t = msg[q].old
      BY <2>5
    <2>7. PICK old \in Ids \cup {0} : old = rpool[t]
      BY DEF Typed
    <2>8. oldreq' = [oldreq EXCEPT ![q] = old] /\ rref' = IF old = 0 THEN rref ELSE [rref EXCEPT ![old] = @ + 1]
      BY <2>6, <2>7 DEF sflush
    <2>9.  oldreq'[q] = old /\ \A x \in Ids : x # q => oldreq'[x] = oldreq[x]
      BY <2>8 DEF Typed
    <2>10. \A x \in Ids : x # 0
      BY SMT DEF Ids
    <2>11. rref' \in [Ids -> Nat] /\ \A x \in Ids : rref'[x] = rref[x] + One(old, x)
      BY <2>8, <2>10, SMT DEF Counted, One
    <2>12. Counted'
      BY <2>1, <2>11 DEF Counted
    <2>13. Waits'
      <3>. old # 0 => old <= nread /\ old = msg[q].target
        BY <2>5, <2>6, <2>7 DEF Pooled
      <3>. QED  BY <2>1, <2>2, <2>9 DEF Waits, HeldStays
    <2>14. ASSUME NEW x \in Ids PROVE ReqOK(x)'
      <3>1. Moves(Ids, oldreq, oldreq', oldreq[q], old, x)
        BY <2>8, <1>Changed DEF Library, Typed
      <3>2. Num(Ids, oldreq', x) + One(0, x) = Num(Ids, oldreq, x) + One(old, x) /\ Num(Tags, rpool', x) = Num(Tags, rpool, x)
        BY <2>1, <2>4, <3>1 DEF Moves
      <3>. Has(x)' = Has(x) /\ ReqOK(x) /\ rref[x] \in Nat /\ rref'[x] = rref[x] + One(old, x)
        BY <2>2, <2>11 DEF Has, HeldStays, Reqs, Counted
      <3>. rref'[x] \in Int /\ rref'[x] + Holders(x) = rref[x] + Holders(x)'
        BY <3>2, HoldersAre, SMT DEF One
      <3>. QED  BY <1>ReqStep
    <2>. Fids'
      <3>1. CASE old = 0
        BY <2>1, <2>8, <3>1, <1>FidsSame
      <3>2. CASE old # 0
        <4>. old \in Ids
          BY <3>2
        <4>. rref[old] > 0
          <5>. Num(Tags, rpool, old) \in Nat /\ Num(Tags, rpool, old) > 0
            BY <2>7, Found1 DEF Library
          <5>. rref[old] >= Holders(old) /\ rref[old] \in Nat
            BY DEF Reqs, ReqOK, Counted
          <5>. QED  BY HoldersAre, SMT
        <4>1. rref'[old] > 0
          BY <2>11, SMT DEF One, Counted
        <4>. theFid(old)' = theFid(old) /\ theNew(old)' = theNew(old)
          BY <2>1, <4>1 DEF theFid, theNew
        <4>. \A y \in Ids : y # old => rref'[y] = rref[y] /\ fid'[y] = fid[y] /\ newfid'[y] = newfid[y]
          BY <2>1, <2>8, <3>2 DEF Counted
        <4>. QED  BY <2>1, <1>FidsKept
      <3>. QED  BY <3>1, <3>2
    <2>. Fresh'
      BY <2>1, <2>2, <1>FreshKept
    <2>. QED  BY <2>12, <2>13, <2>14 DEF RInv, Reqs
  <1>RespondflushRefs.
    ASSUME Library, IInv, RInv, Onward, nread' \in Nat, NEW p \in Procs, NEW q \in Ids, respondflush(p, q)
    PROVE  RInv'
    <2>. USE <1>RespondflushRefs
    <2>1. Counted /\ Waits /\ Reqs /\ Fids /\ Fresh /\ Typed
      BY DEF RInv, IInv
    <2>2. /\ UNCHANGED <<rpool, rref, fref, fpool, fid, newfid, cfid>> /\ lk' = [lk EXCEPT ![q] = p]
      BY DEF respondflush, clientvars, poolvars
    <2>3. HeldStays /\ NewStays
      BY StepHolds DEF Moved
    <2>4. PICK f \in Ids : /\ oldreq[f] = q /\ oldreq' = [oldreq EXCEPT ![f] = 0]
                           /\ f <= nread /\ msg[f].target = q
      BY StepHolds DEF Moved
    <2>5. oldreq'[f] = 0 /\ \A x \in Ids : x # f => oldreq'[x] = oldreq[x]
      BY <2>1, <2>4 DEF Typed
    <2>6. Counted'
      <3>. lk' \in [Ids -> Procs \cup {NoProc}]
        BY <2>1, <2>2 DEF Counted
      <3>. QED  BY <2>1, <2>2 DEF Counted
    <2>7. Waits'
      BY <2>1, <2>3, <2>5, <1>WaitsKept DEF HeldStays
    <2>8. Flushed(q)
      <3>. f \in Sent /\ MessageOK(msg[f])
        BY <2>1, <2>4, WasSent
      <3>. q # 0
        BY SMT DEF Ids
      <3>. msg[f].type = "flush"
        BY <2>4 DEF MessageOK
      <3>. QED  BY <2>4 DEF Flushed, Sent
    <2>9. ASSUME NEW x \in Ids PROVE ReqOK(x)'
      <3>1. Moves(Ids, oldreq, oldreq', oldreq[f], 0, x)
        BY <2>1, <2>4, <1>Changed DEF Library, Typed
      <3>2. Num(Ids, oldreq', x) + One(q, x) = Num(Ids, oldreq, x) + One(0, x) /\ Num(Tags, rpool', x) = Num(Tags, rpool, x)
        BY <2>2, <2>4, <3>1 DEF Moves
      <3>. Has(x)' = Has(x) /\ ReqOK(x) /\ rref[x] \in Nat /\ rref'[x] = rref[x]
        BY <2>1, <2>2, <2>3 DEF Has, HeldStays, Reqs, Counted
      <3>3. CASE x = q
        <4>1. rref[x] >= Holders(x)
          BY DEF ReqOK
        <4>. rref'[x] >= Holders(x)'
          BY <3>2, <4>1, HoldersAre, SMT DEF One
        <4>. Flushed(x)'
          BY <2>8, <3>3 DEF Onward
        <4>. QED  BY DEF ReqOK
      <3>4. CASE x # q
        <4>. rref'[x] \in Int /\ rref'[x] + Holders(x) = rref[x] + Holders(x)'
          BY <3>2, <3>4, HoldersAre, SMT DEF One
        <4>. QED  BY <1>ReqStep
      <3>. QED  BY <3>3, <3>4
    <2>. Fids'
      BY <2>1, <2>2, <1>FidsSame
    <2>. Fresh'
      BY <2>1, <2>2, <2>3, <1>FreshKept
    <2>. QED  BY <2>6, <2>7, <2>9 DEF RInv, Reqs
  \* closereq, which closes the fids of a Req when it destroys it.
  <1>CloseFids.
    ASSUME Library, Counted, Fids, NEW q \in Ids, rref[q] > 0, rref' = closereqR(q), fref' = closereqF(q),
           UNCHANGED <<fid, newfid, fpool>>
    PROVE  /\ Fids' /\ rref' \in [Ids -> Nat] /\ fref' \in [Ids -> Nat]
           /\ \A x \in Ids : rref'[x] = rref[x] - One(q, x)
    <2>. USE <1>CloseFids
    <2>1. /\ rref \in [Ids -> Nat] /\ fref \in [Ids -> Nat] /\ fid[q] \in Ids \cup {0} /\ newfid[q] \in Ids \cup {0}
      BY DEF Counted
    <2>2. rref' \in [Ids -> Nat] /\ \A x \in Ids : rref'[x] = rref[x] - One(q, x)
      BY <2>1, SMT DEF closereqR, One
    <2>3. \A y \in Ids : y # q => rref'[y] = rref[y] /\ fid'[y] = fid[y] /\ newfid'[y] = newfid[y]
      BY <2>1 DEF closereqR
    <2>4. CASE rref[q] = 1
      <3>1. fref' = closefid(closefid(fref, fid[q]), newfid[q])
        BY <2>4 DEF closereqF
      <3>2. /\ fref' \in [Ids -> Int]
            /\ \A f \in Ids : fref'[f] = fref[f] - One(fid[q], f) - One(newfid[q], f)
        <4>1. fref \in [Ids -> Int]
          BY <2>1, SMT
        <4>2. PICK G : G = closefid(fref, fid[q])
          OBVIOUS
        <4>. G \in [Ids -> Int] /\ \A f \in Ids : G[f] = fref[f] - One(fid[q], f)
          <5>.  /\ closefid(fref, fid[q]) \in [Ids -> Int]
                /\ \A f \in Ids : closefid(fref, fid[q])[f] = fref[f] - One(fid[q], f)
            BY <2>1, <4>1, <1>ClosefidAt
          <5>. QED  BY <4>2
        <4>. fref' \in [Ids -> Int] /\ \A f \in Ids : fref'[f] = G[f] - One(newfid[q], f)
          <5>. fref' = closefid(G, newfid[q])
            BY <3>1, <4>2
          <5>.  /\ closefid(G, newfid[q]) \in [Ids -> Int]
                /\ \A f \in Ids : closefid(G, newfid[q])[f] = G[f] - One(newfid[q], f)
            BY <2>1, <1>ClosefidAt
          <5>. QED  OBVIOUS
        <4>. QED  OBVIOUS
      <3>3. ASSUME NEW f \in Ids PROVE FidOK(f)' /\ fref'[f] \in Nat
        <4>1. /\ AsFid(f)' + One(theFid(q), f) = AsFid(f) + One(theFid(q)', f)
              /\ AsNew(f)' + One(theNew(q), f) = AsNew(f) + One(theNew(q)', f)
              /\ AsFid(f) \in Nat /\ AsFid(f)' \in Nat /\ AsNew(f) \in Nat /\ AsNew(f)' \in Nat
              /\ f # 0
          BY <2>3, <1>LiveStep
        <4>2. rref'[q] = 0 /\ rref[q] > 0 /\ ~(0 > 0)
          BY <2>1, <2>2, <2>4, SMT DEF One
        <4>3. theFid(q) = fid[q] /\ theNew(q) = newfid[q] /\ theFid(q)' = 0 /\ theNew(q)' = 0
          BY <4>2 DEF theFid, theNew
        <4>. One(0, f) = 0 /\ One(fid[q], f) \in Nat /\ One(newfid[q], f) \in Nat
          BY <4>1, SMT DEF One
        <4>4. AsFid(f)' = AsFid(f) - One(fid[q], f) /\ AsNew(f)' = AsNew(f) - One(newfid[q], f)
          BY <4>1, <4>3, SMT
        <4>. fref[f] = InPool(f) + AsFid(f) + AsNew(f) /\ InPool(f)' = InPool(f) /\ InPool(f) \in Nat
          BY <1>PoolSame DEF Fids, FidOK
        <4>. fref'[f] = InPool(f)' + AsFid(f)' + AsNew(f)' /\ fref'[f] \in Nat
          BY <3>2, <4>1, <4>4, SMTT(30)
        <4>. QED  BY DEF FidOK
      <3>. fref' \in [Ids -> Nat]
        BY <3>2, <3>3, SMT
      <3>. QED  BY <2>2, <3>3 DEF Fids
    <2>5. CASE rref[q] # 1
      <3>. fref' = fref
        BY <2>5 DEF closereqF
      <3>1. rref'[q] > 0
        BY <2>1, <2>2, <2>5, SMT DEF One
      <3>. theFid(q)' = theFid(q) /\ theNew(q)' = theNew(q)
        BY <3>1 DEF theFid, theNew
      <3>. Fids'
        BY <2>3, <1>FidsKept
      <3>. QED  BY <2>1, <2>2
    <2>. QED  BY <2>4, <2>5
  <1>RflushRefs.
    ASSUME Library, IInv, RInv, Onward, nread' \in Nat, NEW p \in Procs, NEW q \in Ids, rflush(p, q)
    PROVE  RInv'
    <2>. USE <1>RflushRefs
    <2>1. Counted /\ Waits /\ Reqs /\ Fids /\ Fresh /\ Typed
      BY DEF RInv, IInv
    <2>2. /\ UNCHANGED <<rpool, fpool, fid, newfid, cfid, lk, flush>>
          /\ Responding(p, q, "respond", "wlock") /\ oldreq' = [oldreq EXCEPT ![q] = 0]
      BY DEF rflush, Responding, clientvars
    <2>3. "respond" \in PCs /\ "wlock" \in PCs /\ "wlock" # "handler"
      BY DEF PCs
    <2>. GoesOn
      BY StepHolds DEF Moved
    <2>4. HeldStays /\ NewStays
      BY <2>2, <2>3 DEF GoesOn
    <2>5. PICK or \in Ids \cup {0} : or = oldreq[q]
      BY <2>1 DEF Typed
    <2>6. /\ or = 0 => UNCHANGED <<rref, fref>>
          /\ or # 0 => rref' = closereqR(or) /\ fref' = closereqF(or)
      BY <2>5 DEF rflush
    <2>7. oldreq'[q] = 0 /\ \A x \in Ids : x # q => oldreq'[x] = oldreq[x]
      BY <2>1, <2>2 DEF Typed
    <2>8. /\ Fids' /\ rref' \in [Ids -> Nat] /\ fref' \in [Ids -> Nat]
          /\ \A x \in Ids : rref'[x] = rref[x] - One(or, x)
      <3>1. CASE or = 0
        <4>1. \A x \in Ids : One(or, x) = 0 /\ rref[x] \in Nat
          BY <2>1, <3>1, SMT DEF One, Ids, Counted
        <4>. UNCHANGED <<rref, fref>>
          BY <2>6, <3>1
        <4>. \A x \in Ids : rref'[x] = rref[x] - One(or, x)
          BY <4>1, SMT
        <4>. QED  BY <2>1, <2>2, <1>FidsSame DEF Counted
      <3>2. CASE or # 0
        <4>. or \in Ids
          BY <3>2
        <4>. rref[or] > 0
          <5>. Num(Ids, oldreq, or) \in Nat /\ Num(Ids, oldreq, or) > 0
            BY <2>5, Found1 DEF Library
          <5>. rref[or] >= Holders(or) /\ rref[or] \in Nat
            BY <2>1 DEF Reqs, ReqOK, Counted
          <5>. QED  BY HoldersAre, SMT
        <4>. QED  BY <2>1, <2>2, <2>6, <3>2, <1>CloseFids
      <3>. QED  BY <3>1, <3>2
    <2>9. Counted'
      BY <2>1, <2>2, <2>8 DEF Counted
    <2>10. Waits'
      BY <2>1, <2>4, <2>7, <1>WaitsKept DEF HeldStays
    <2>11. ASSUME NEW x \in Ids PROVE ReqOK(x)'
      <3>1. Moves(Ids, oldreq, oldreq', oldreq[q], 0, x)
        BY <2>1, <2>2, <1>Changed DEF Library, Typed
      <3>2. Num(Ids, oldreq', x) + One(or, x) = Num(Ids, oldreq, x) + One(0, x) /\ Num(Tags, rpool', x) = Num(Tags, rpool, x)
        BY <2>2, <2>5, <3>1 DEF Moves
      <3>. Has(x)' = Has(x) /\ ReqOK(x) /\ rref[x] \in Nat /\ rref'[x] = rref[x] - One(or, x)
        BY <2>1, <2>4, <2>8 DEF Has, HeldStays, Reqs, Counted
      <3>. rref'[x] \in Int /\ rref'[x] + Holders(x) = rref[x] + Holders(x)'
        BY <3>2, HoldersAre, SMT DEF One
      <3>. QED  BY <1>ReqStep
    <2>. Fresh'
      BY <2>1, <2>2, <2>4, <1>FreshKept
    <2>. QED  BY <2>8, <2>9, <2>10, <2>11 DEF RInv, Reqs
  <1>ReturnRefs.
    ASSUME Library, IInv, RInv, Onward, nread' \in Nat, NEW p \in Procs, NEW q \in Ids, return(p, q)
    PROVE  RInv'
    <2>. USE <1>ReturnRefs
    <2>. Counted /\ Waits /\ Reqs /\ Fids /\ Fresh /\ Typed
      BY DEF RInv, IInv
    <2>1. /\ UNCHANGED <<rpool, oldreq, fpool, fid, newfid, cfid>> /\ lk' = [lk EXCEPT ![q] = NoProc]
          /\ rref' = closereqR(q) /\ fref' = closereqF(q)
      BY DEF return, clientvars, Typed
    <2>2. (\A x \in Ids : x \in Held' <=> x \in Held /\ x # q) /\ NewStays /\ q \in Held /\ oldreq[q] = 0
      BY StepHolds DEF Moved
    <2>3. rref[q] > 0
      BY <2>2, HeldCounted
    <2>4. /\ Fids' /\ rref' \in [Ids -> Nat] /\ fref' \in [Ids -> Nat]
          /\ \A x \in Ids : rref'[x] = rref[x] - One(q, x)
      BY <2>1, <2>3, <1>CloseFids
    <2>5. Counted'
      <3>. lk' \in [Ids -> Procs \cup {NoProc}]
        BY <2>1 DEF Counted
      <3>. QED  BY <2>1, <2>4 DEF Counted
    <2>6. Waits'
      BY <2>1, <2>2, <1>WaitsKept
    <2>7. ASSUME NEW x \in Ids PROVE ReqOK(x)'
      <3>1. Num(Ids, oldreq', x) = Num(Ids, oldreq, x) /\ Num(Tags, rpool', x) = Num(Tags, rpool, x)
        BY <2>1
      <3>. ReqOK(x) /\ rref[x] \in Nat /\ rref'[x] = rref[x] - One(q, x)
        BY <2>4 DEF Reqs, Counted
      <3>. Has(x)' = Has(x) - One(q, x)
        BY <2>2, SMTT(30) DEF Has, One
      <3>. rref'[x] \in Int /\ rref'[x] + Holders(x) = rref[x] + Holders(x)'
        BY <3>1, HoldersAre, SMT DEF One
      <3>. QED  BY <1>ReqStep
    <2>. Fresh'
      BY <2>1, <2>2, <1>FreshKept
    <2>. QED  BY <2>4, <2>5, <2>6, <2>7 DEF RInv, Reqs
  <1>. SUFFICES ASSUME Library, IInv, IInv', RInv, Next PROVE RInv'
    BY <1>StutterRInv
  <1>. Onward /\ nread' \in Nat
    BY StepOnward DEF IInv, Typed
  <1>1. CASE Client
    BY <1>1, <1>ClientRefs
  <1>2. CASE Handler
    BY <1>2, <1>GetreqRefs, <1>HandlersRefs, <1>SflushRefs DEF Handler
  <1>3. CASE \E w \in Workers, q \in Ids, result \in Outcomes : Finish(w, q, result)
    BY <1>3, <1>FinishRefs
  <1>4. ASSUME NEW p \in Procs, respond(p) PROVE RInv'
    BY <1>4, <1>DelayRefs, <1>RflushRefs, <1>RotherRefs, <1>RemoveRefs, <1>WriteRefs,
       <1>RespondflushRefs, <1>ReturnRefs DEF respond
  <1>. QED  BY <1>1, <1>2, <1>3, <1>4 DEF Next, Server

LEMMA InitRInv ==
    ASSUME Library, Init
    PROVE  RInv
  <1>.  /\ msg = <<>> /\ cfid = [n \in FidNumbers |-> "free"] /\ rpool = [t \in Tags |-> 0]
        /\ fpool = [n \in FidNumbers |-> 0]
        /\ rref = [q \in Ids |-> 0] /\ fref = [q \in Ids |-> 0] /\ fid = [q \in Ids |-> 0]
        /\ newfid = [q \in Ids |-> 0] /\ oldreq = [q \in Ids |-> 0] /\ flush = [q \in Ids |-> <<>>]
        /\ pend = {} /\ lk = [q \in Ids |-> NoProc] /\ stack = [p \in Procs |-> <<>>]
    BY DEF Init
  <1>1. \A x \in Ids : x # 0
    BY SMT DEF Ids
  <1>2. Counted
    <2>. rref \in [Ids -> Nat] /\ fref \in [Ids -> Nat]
      BY SMT
    <2>. QED  BY DEF Counted
  <1>3. Waits
    BY DEF Waits
  <1>4. ASSUME NEW x \in Ids PROVE ReqOK(x)
    <2>1. Num(Tags, rpool, x) = 0 /\ Num(Ids, oldreq, x) = 0
      BY <1>1 DEF Library, Counts
    <2>2. x \notin Called /\ x \notin pend /\ ~Late(x)
      <3>. Elements(<<>>) = {}
        BY SMT DEF Elements
      <3>. QED  BY DEF Called, Late, Delayed
    <2>. Has(x) = 0
      BY <2>2, HeldMoves DEF Has
    <2>. rref[x] = 0 /\ Holders(x) = Has(x) + Num(Tags, rpool, x) + Num(Ids, oldreq, x)
      BY HoldersAre
    <2>. rref[x] >= Holders(x) /\ rref[x] = Holders(x)
      BY <2>1, SMT
    <2>. QED  BY DEF ReqOK
  <1>5. \A x \in Ids : Clear(x)
    BY <1>1 DEF Clear
  <1>6. ASSUME NEW f \in Ids PROVE FidOK(f)
    <2>1. InPool(f) = 0
      BY <1>1 DEF InPool, Library, Counts
    <2>. AsFid(f) = 0 /\ AsNew(f) = 0
      <3>. PICK fn, gn : fn = [y \in Ids |-> theFid(y)] /\ gn = [y \in Ids |-> theNew(y)]
        OBVIOUS
      <3>. \A y \in Ids : fn[y] # f /\ gn[y] # f
        BY <1>1 DEF theFid, theNew
      <3>. Num(Ids, fn, f) = 0 /\ Num(Ids, gn, f) = 0
        BY DEF Library, Counts
      <3>. QED  BY DEF AsFid, AsNew
    <2>. fref[f] = 0
      OBVIOUS
    <2>. fref[f] = InPool(f) + AsFid(f) + AsNew(f)
      BY <2>1, SMT
    <2>. QED  BY DEF FidOK
  <1>. QED  BY <1>2, <1>3, <1>4, <1>5, <1>6 DEF RInv, Reqs, Fids, Fresh

-----------------------------------------------------------------------------
(* The references.                                                         *)

LEMMA CountsExact ==
    ASSUME Library, IInv, RInv
    PROVE  RefsExact
  <1>. Typed /\ Counted /\ Waits /\ Reqs /\ Fids
    BY DEF IInv, RInv
  <1>1. TypeOK
    <2>. nread \in 0 .. Len(msg) /\ Len(msg) <= MaxMsgs
      BY SMT DEF Typed
    <2>. pool \in [Ids -> BOOLEAN]
      BY DEF Typed
    <2>. QED  BY DEF TypeOK, Typed, Counted
  <1>2. ASSUME NEW q \in Ids PROVE fref[q] = FidHolders(q)
    <2>. q # 0
      BY SMT DEF Ids
    <2>1. {x \in Ids : [y \in Ids |-> theFid(y)][x] = q} = {x \in Ids : rref[x] > 0 /\ fid[x] = q}
      BY DEF theFid
    <2>. {x \in Ids : [y \in Ids |-> theNew(y)][x] = q} = {x \in Ids : rref[x] > 0 /\ newfid[x] = q}
      BY DEF theNew
    <2>. fref[q] = InPool(q) + AsFid(q) + AsNew(q)
      BY DEF Fids, FidOK
    <2>.  /\ InPool(q) = Cardinality({n \in FidNumbers : fpool[n] = q})
          /\ AsFid(q) = Cardinality({x \in Ids : rref[x] > 0 /\ fid[x] = q})
          /\ AsNew(q) = Cardinality({x \in Ids : rref[x] > 0 /\ newfid[x] = q})
      BY <2>1 DEF InPool, AsFid, AsNew, Num
    <2>. QED  BY DEF FidHolders
  <1>3. ASSUME NEW q \in Ids, rref[q] = 0 PROVE oldreq[q] = 0
    <2>1. ASSUME oldreq[q] # 0 PROVE FALSE
      <3>. q \in Held
        BY <2>1 DEF Waits
      <3>. rref[q] \in Nat /\ rref[q] > 0
        BY HeldCounted
      <3>. QED  BY <1>3, SMT
    <2>. QED  BY <2>1
  <1>. QED  BY <1>1, <1>2, <1>3 DEF RefsExact, Reqs, ReqOK

-----------------------------------------------------------------------------
(* The Fids that requests have.                                            *)

LEMMA StepNumbered == Library /\ IInv /\ IInv' /\ RInv /\ RInv' /\ Numbered /\ Next => Numbered'
  \* A Fid that the pool or a request has was made by a message that was read.
  <1>FidMade.
    ASSUME IInv, RInv, Onward, NEW f \in Ids,
           (\E n \in FidNumbers : fpool[n] = f) \/ (\E q \in Ids : fid[q] = f) \/ fid[f] # 0
    PROVE  f <= nread /\ f \in Sent /\ msg'[f] = msg[f] /\ number(f)' = number(f)
    <2>. USE <1>FidMade
    <2>. ~New(f)
      BY DEF RInv, Fresh, Clear
    <2>. f <= nread
      BY DEF New
    <2>. f \in Sent /\ msg'[f] = msg[f]
      BY WasSent DEF IInv, Onward
    <2>. QED  BY DEF number, type
  <1>NumberedKept.
    ASSUME IInv, RInv, Onward, Numbered,
           \A n \in FidNumbers : fpool'[n] \in {0, fpool[n]}, \A x \in Ids : fid'[x] \in {0, fid[x]},
           \A x \in Ids : fid'[x] # 0 /\ responded'[x] => responded[x]
    PROVE  Numbered'
    <2>. USE <1>NumberedKept
    <2>1. 0 \notin Ids
      BY SMT DEF Ids
    <2>2. ASSUME NEW n \in FidNumbers, NEW f \in Ids, fpool'[n] = f PROVE n = number(f)'
      <3>. fpool[n] = f
        BY <2>1, <2>2
      <3>. n = number(f)
        BY DEF Numbered
      <3>. number(f)' = number(f)
        BY <1>FidMade
      <3>. QED  OBVIOUS
    <2>3. ASSUME NEW q \in Ids, NEW f \in Ids, fid'[q] = f
          PROVE  type(q)' # "flush" /\ msg'[q].fid = number(f)' /\ (responded'[q] => Flushed(q)')
      <3>. fid[q] = f /\ f # 0
        BY <2>1, <2>3
      <3>1. number(f)' = number(f)
        BY <1>FidMade
      <3>2. msg'[q] = msg[q]
        BY <1>FidMade
      <3>. type(q) # "flush" /\ msg[q].fid = number(f) /\ (responded[q] => Flushed(q))
        BY DEF Numbered
      <3>. responded'[q] => Flushed(q)'
        BY <2>3 DEF Onward
      <3>. type(q)' # "flush" /\ msg'[q].fid = number(f)
        BY <3>2 DEF type
      <3>. QED  BY <3>1
    <2>. QED  BY <2>2, <2>3 DEF Numbered
  <1>HandlerNumbers.
    ASSUME IInv, RInv, Onward, Numbered, NEW q \in Ids, msg' = msg, responded' = responded, ~responded[q],
           type(q) # "flush", \A y \in Ids : y # q => fid'[y] = fid[y],
           \A n \in FidNumbers : fpool'[n] \in {0, fpool[n]} \/ (fpool'[n] = q /\ n = number(q)),
           \A f \in Ids : fid'[q] = f => msg[q].fid = number(f)
    PROVE  Numbered'
    <2>. USE <1>HandlerNumbers
    <2>. (\A f : number(f)' = number(f)) /\ (\A x : type(x)' = type(x)) /\ 0 \notin Ids
      BY SMT DEF number, type, Ids
    <2>1. ASSUME NEW n \in FidNumbers, NEW f \in Ids, fpool'[n] = f PROVE n = number(f)'
      <3>. fpool[n] = f \/ (f = q /\ n = number(q))
        BY <2>1
      <3>. n = number(f)
        BY DEF Numbered
      <3>. QED  OBVIOUS
    <2>2. ASSUME NEW x \in Ids, NEW f \in Ids, fid'[x] = f
          PROVE  type(x)' # "flush" /\ msg'[x].fid = number(f)' /\ (responded'[x] => Flushed(x)')
      <3>1. CASE x = q
        BY <2>2, <3>1
      <3>2. CASE x # q
        <4>. fid[x] = f
          BY <2>2, <3>2
        <4>. type(x) # "flush" /\ msg[x].fid = number(f) /\ (responded[x] => Flushed(x))
          BY DEF Numbered
        <4>. QED  BY DEF Onward
      <3>. QED  BY <3>1, <3>2
    <2>. QED  BY <2>1, <2>2 DEF Numbered
  <1>HandlersNumber.
    ASSUME Library, IInv, RInv, Onward, Numbered, NEW q \in Ids, sattach(q) \/ swalk(q) \/ sio(q) \/ sclunk(q)
    PROVE  Numbered'
    <2>. USE <1>HandlersNumber
    <2>1. Counted /\ MessageOK(msg[q]) /\ fid[q] = 0
      BY HandlerFacts
    <2>2. /\ UNCHANGED <<msg, responded>> /\ Typed /\ Calls /\ "srv" \in Procs
          /\ stack["srv"] # <<>> /\ Head(stack["srv"]).pc = "handler" /\ q = Head(stack["srv"]).r
          /\ type(q) \in {"attach", "walk", "io", "clunk"}
      BY DEF sattach, swalk, sio, sclunk, Handling, clientvars, At, Top, IInv, Procs
    <2>3. ~responded[q]
      <3>. FrameOK("srv", Head(stack["srv"]))
        BY <2>2, TopFrame
      <3>. QED  BY <2>2 DEF FrameOK
    <2>4. type(q) # "flush" /\ msg[q].fid \in FidNumbers /\ (type(q) = "walk" => msg[q].newfid \in FidNumbers)
      BY <2>1, <2>2 DEF MessageOK, type
    <2>5. ASSUME NEW g, fid' = [fid EXCEPT ![q] = g] \/ fid' = fid, g \in Ids => msg[q].fid = number(g),
                 \A n \in FidNumbers : fpool'[n] \in {0, fpool[n]} \/ (fpool'[n] = q /\ n = number(q))
          PROVE  Numbered'
      <3>. (\A y \in Ids : y # q => fid'[y] = fid[y]) /\ (fid'[q] = g \/ fid'[q] = 0)
        BY <2>1, <2>5 DEF Counted
      <3>. \A f \in Ids : fid'[q] = f => msg[q].fid = number(f)
        <4>. 0 \notin Ids
          BY SMT DEF Ids
        <4>. QED  BY <2>5
      <3>. QED  BY <2>2, <2>3, <2>4, <2>5, <1>HandlerNumbers
    <2>. PICK k \in FidNumbers : k = msg[q].fid /\ (fpool[k] \in Ids => msg[q].fid = number(fpool[k]))
      BY <2>4 DEF Numbered
    <2>6. CASE sattach(q)
      <3>. type(q) = "attach" /\ number(q) = k
        BY <2>6 DEF sattach, Handling, number
      <3>.  /\ fid' = [fid EXCEPT ![q] = q] \/ fid' = fid
            /\ fpool' = fpool \/ fpool' = [fpool EXCEPT ![k] = q]
        BY <2>6 DEF sattach
      <3>. \A n \in FidNumbers : fpool'[n] \in {0, fpool[n]} \/ (fpool'[n] = q /\ n = number(q))
        BY <2>1 DEF Counted
      <3>. msg[q].fid = number(q)
        OBVIOUS
      <3>. QED  BY <2>5
    <2>7. CASE swalk(q)
      <3>. type(q) = "walk" /\ number(q) = msg[q].newfid /\ "walk" # "attach"
        BY <2>7 DEF swalk, Handling, number
      <3>.  /\ fid' = [fid EXCEPT ![q] = fpool[k]] \/ fid' = fid
            /\ fpool' = fpool \/ fpool' = [fpool EXCEPT ![msg[q].newfid] = q]
        BY <2>7 DEF swalk
      <3>. \A n \in FidNumbers : fpool'[n] \in {0, fpool[n]} \/ (fpool'[n] = q /\ n = number(q))
        BY <2>1 DEF Counted
      <3>. QED  BY <2>5
    <2>8. CASE sio(q) \/ sclunk(q)
      <3>.  /\ fid' = [fid EXCEPT ![q] = fpool[k]] \/ fid' = fid
            /\ fpool' = fpool \/ fpool' = [fpool EXCEPT ![k] = 0]
        BY <2>8 DEF sio, sclunk
      <3>. \A n \in FidNumbers : fpool'[n] \in {0, fpool[n]} \/ (fpool'[n] = q /\ n = number(q))
        BY <2>1 DEF Counted
      <3>. QED  BY <2>5
    <2>. QED  BY <2>6, <2>7, <2>8
  \* respond closes the fid of a request that nobody flushed before it writes.
  <1>RemoveNumbers.
    ASSUME Library, IInv, IInv', RInv, RInv', Onward, Numbered, NEW p \in Procs, NEW q \in Ids, remove(p, q)
    PROVE  Numbered'
    <2>. USE <1>RemoveNumbers
    <2>1. Removes(q) /\ HeldStays /\ q \in Held
      BY RemoveRemoves
    <2>2. responded' = [responded EXCEPT ![q] = TRUE] /\ Typed /\ Typed' /\ Counted /\ Delays /\ Pooled' /\ Waits'
      BY DEF remove, IInv, RInv
    <2>3. UNCHANGED <<fpool, msg, flush, nread>>
      BY <2>1 DEF Removes
    <2>4. ASSUME ~Flushed(q) PROVE fid'[q] = 0
      <3>1. \A f \in Ids : f <= nread /\ msg[f].target = q => FALSE
        <4>1. ASSUME NEW f \in Ids, f <= nread, msg[f].target = q PROVE FALSE
          <5>. f \in Sent /\ MessageOK(msg[f])
            BY <2>2, <4>1, WasSent
          <5>. q # 0
            BY SMT DEF Ids
          <5>. msg[f].type = "flush"
            BY <4>1 DEF MessageOK
          <5>. QED  BY <2>4, <4>1 DEF Flushed, Sent
        <4>. QED  BY <4>1
      <3>2. Len(flush[q]) = 0
        <4>1. flush[q] \in Seq(Ids)
          BY <2>2 DEF Typed
        <4>. Delayed(q) = {}
          <5>1. ASSUME NEW f \in Delayed(q) PROVE FALSE
            <6>. PICK i \in 1 .. Len(flush[q]) : f = flush[q][i]
              BY <5>1 DEF Delayed, Elements
            <6>. f \in Ids
              BY <4>1, SMT
            <6>. f <= nread /\ msg[f].target = q
              BY <2>2 DEF Delays, DelayOK
            <6>. QED  BY <3>1
          <5>. QED  BY <5>1
        <4>. Len(flush[q]) \in Nat /\ (Len(flush[q]) # 0 => 1 \in 1 .. Len(flush[q]))
          BY <4>1, SMT
        <4>. 1 \notin 1 .. Len(flush[q])
          BY DEF Delayed, Elements
        <4>. QED  OBVIOUS
      <3>3. Num(Ids, oldreq', q) = 0
        <4>. \A f \in Ids : oldreq'[f] # q
          <5>1. ASSUME NEW f \in Ids, oldreq'[f] = q PROVE FALSE
            <6>. q # 0
              BY SMT DEF Ids
            <6>. q = msg[f].target /\ f <= nread
              BY <2>2, <2>3, <5>1 DEF Waits, IInv, Flushing
            <6>. QED  BY <3>1
          <5>. QED  BY <5>1
        <4>. QED  BY DEF Library, Counts
      <3>4. Num(Tags, rpool', q) = 0
        <4>. \A t \in Tags : rpool'[t] # q
          <5>. q # 0
            BY SMT DEF Ids
          <5>. responded'[q]
            BY <2>2 DEF Typed
          <5>. QED  BY <2>2 DEF Pooled
        <4>. QED  BY DEF Library, Counts
      <3>5. Has(q)' = 1
        BY <2>1 DEF Has, HeldStays
      <3>6. ~Flushed(q)'
        BY <2>3, <2>4 DEF Flushed
      <3>. rref'[q] = Holders(q)'
        BY <3>6 DEF RInv, Reqs, ReqOK
      <3>. Holders(q)' = Has(q)' + Num(Tags, rpool', q) + Num(Ids, oldreq', q)
        BY HoldersAre
      <3>. rref'[q] = 1 + Len(flush[q])
        BY <3>2, <3>3, <3>4, <3>5, SMT
      <3>. QED  BY <2>1, <2>2 DEF Removes, Counted
    <2>5. (\A x \in Ids : x # q => fid'[x] = fid[x]) /\ fid'[q] \in {0, fid[q]}
      BY <2>1, <2>2 DEF Removes, Counted
    <2>6. CASE Flushed(q)
      <3>. (\A f : number(f)' = number(f)) /\ (\A x : type(x)' = type(x)) /\ 0 \notin Ids
        BY <2>3, SMT DEF number, type, Ids
      <3>1. ASSUME NEW n \in FidNumbers, NEW f \in Ids, fpool'[n] = f PROVE n = number(f)'
        BY <2>3, <3>1 DEF Numbered
      <3>2. ASSUME NEW x \in Ids, NEW f \in Ids, fid'[x] = f
            PROVE  type(x)' # "flush" /\ msg'[x].fid = number(f)' /\ (responded'[x] => Flushed(x)')
        <4>. fid[x] = f
          BY <2>5, <3>2
        <4>. type(x) # "flush" /\ msg[x].fid = number(f) /\ (responded[x] => Flushed(x))
          BY DEF Numbered
        <4>. responded'[x] => Flushed(x)'
          BY <2>2, <2>6, ZenonT(30) DEF Onward, Typed
        <4>. QED  BY <2>3
      <3>. QED  BY <3>1, <3>2 DEF Numbered
    <2>7. CASE ~Flushed(q)
      <3>. \A x \in Ids : fid'[x] \in {0, fid[x]} /\ (fid'[x] # 0 /\ responded'[x] => responded[x])
        BY <2>2, <2>4, <2>5, <2>7 DEF Typed
      <3>. QED  BY <2>3, <1>NumberedKept
    <2>. QED  BY <2>6, <2>7
  <1>. SUFFICES ASSUME Library, IInv, IInv', RInv, RInv', Numbered, Next PROVE Numbered'
    OBVIOUS
  <1>. Onward /\ Counted
    BY StepOnward DEF RInv
  <1>1. ASSUME UNCHANGED <<fpool, fid, responded>> PROVE Numbered'
    BY <1>1, <1>NumberedKept
  <1>2. CASE Client
    <2>. PICK t \in Tags : \E m : Sends(t, m)
      BY <1>2, ClientSends DEF IInv
    <2>. QED  BY <1>1 DEF Sends, reqvars, poolvars
  <1>3. CASE Handler
    <2>1. CASE getreq \/ \E q \in Ids : sflush(q)
      BY <1>1, <2>1 DEF getreq, sflush, Handling
    <2>. QED  BY <1>3, <2>1, <1>HandlersNumber DEF Handler
  <1>4. CASE \E w \in Workers, q \in Ids, result \in Outcomes : Finish(w, q, result)
    BY <1>1, <1>4 DEF Finish, reqvars, poolvars
  <1>5. ASSUME NEW p \in Procs, NEW q \in Ids, rother(p, q) PROVE Numbered'
    <2>. UNCHANGED <<fid, responded>> /\ (fpool' = fpool \/ \E n : fpool' = [fpool EXCEPT ![n] = 0])
      BY <1>5 DEF rother
    <2>. \A n \in FidNumbers : fpool'[n] \in {0, fpool[n]}
      BY DEF Counted
    <2>. QED  BY <1>NumberedKept
  <1>6. ASSUME NEW p \in Procs, NEW q \in Ids, remove(p, q) PROVE Numbered'
    BY <1>6, <1>RemoveNumbers
  <1>7. ASSUME NEW p \in Procs, NEW q \in Ids,
               rflushDelay(p, q) \/ rflush(p, q) \/ write(p, q) \/ respondflush(p, q) \/ return(p, q)
        PROVE  Numbered'
    BY <1>1, <1>7 DEF rflushDelay, rflush, write, respondflush, return, poolvars
  <1>. QED  BY <1>2, <1>3, <1>4, <1>5, <1>6, <1>7 DEF Next, Server, respond

\* The client names a fid that it is not clunking, and clunks one that it is
\* not using.
Names(m) ==
    /\ m.type # "flush" => m.fid \in FidNumbers /\ cfid[m.fid] \in {"free", "used"}
    /\ m.type = "clunk" => Using(m.fid) = {} /\ cfid'[m.fid] = "clunking"
    /\ \A k \in FidNumbers : cfid[k] = "clunking" => cfid'[k] = "clunking"

LEMMA StepClunks == IInv /\ RInv /\ Clunks /\ Next => Clunks'
  <1>ClientNames.
    ASSUME IInv, RInv, NEW m, Client, msg'[Len(msg) + 1] = m
    PROVE  Names(m)
    <2>. USE <1>ClientNames
    <2>1. msg \in Seq(Messages) /\ Counted
      BY DEF IInv, Typed, RInv
    <2>2. ASSUME NEW t, NEW ty, NEW n \in FidNumbers, NEW nn, Send(t, Message(ty, n, nn))
          PROVE  m.type = ty /\ m.fid = n
      <3>. PICK a : a = [Message(ty, n, nn) EXCEPT !.tag = t]
        OBVIOUS
      <3>. a.type = ty /\ a.fid = n
        BY SMT DEF Message
      <3>. msg' = Append(msg, a)
        BY <2>2 DEF Send
      <3>. m = a
        BY <2>1, SMT
      <3>. QED  OBVIOUS
    <2>3. ASSUME NEW t \in Tags, NEW n \in FidNumbers, SendAttach(t, n) PROVE Names(m)
      <3>. m.type = "attach" /\ m.fid = n
        BY <2>2, <2>3 DEF SendAttach
      <3>. cfid[n] = "free" /\ cfid' = [cfid EXCEPT ![n] = "making"]
        BY <2>3 DEF SendAttach, FirstFree
      <3>. \A k \in FidNumbers : cfid[k] = "clunking" => cfid'[k] = "clunking"
        BY <2>1 DEF Counted
      <3>. QED  BY DEF Names
    <2>4. ASSUME NEW t \in Tags, NEW n \in FidNumbers, NEW nn \in FidNumbers, SendWalk(t, n, nn) PROVE Names(m)
      <3>. m.type = "walk" /\ m.fid = n
        BY <2>2, <2>4 DEF SendWalk
      <3>. cfid[n] = "used" /\ (cfid' = cfid \/ (cfid[nn] = "free" /\ cfid' = [cfid EXCEPT ![nn] = "making"]))
        BY <2>4 DEF SendWalk, FirstFree
      <3>. \A k \in FidNumbers : cfid[k] = "clunking" => cfid'[k] = "clunking"
        BY <2>1 DEF Counted
      <3>. QED  BY DEF Names
    <2>5. ASSUME NEW t \in Tags, NEW n \in FidNumbers, SendIO(t, n) PROVE Names(m)
      <3>. m.type = "io" /\ m.fid = n /\ cfid[n] = "used" /\ cfid' = cfid
        BY <2>2, <2>5 DEF SendIO
      <3>. QED  BY DEF Names
    <2>6. ASSUME NEW t \in Tags, NEW n \in FidNumbers, SendClunk(t, n) PROVE Names(m)
      <3>. m.type = "clunk" /\ m.fid = n
        BY <2>2, <2>6 DEF SendClunk
      <3>. cfid[n] = "used" /\ Using(n) = {} /\ cfid' = [cfid EXCEPT ![n] = "clunking"]
        BY <2>6 DEF SendClunk
      <3>. cfid'[n] = "clunking" /\ \A k \in FidNumbers : cfid[k] = "clunking" => cfid'[k] = "clunking"
        BY <2>1 DEF Counted
      <3>. QED  BY DEF Names
    <2>7. ASSUME NEW t \in Tags, NEW o \in Tags, SendFlush(t, o) PROVE Names(m)
      <3>. PICK a : a = [[Message("flush", 0, 0) EXCEPT !.old = o, !.target = ctag[o]] EXCEPT !.tag = t]
        OBVIOUS
      <3>. a.type = "flush"
        BY SMT DEF Message
      <3>. msg' = Append(msg, a) /\ cfid' = cfid
        BY <2>7 DEF SendFlush, Send
      <3>. m = a
        BY <2>1, SMT
      <3>. QED  BY DEF Names
    <2>. QED  BY <2>3, <2>4, <2>5, <2>6, <2>7 DEF Client
  <1>ClientClunks.
    ASSUME IInv, RInv, Clunks, Client
    PROVE  Clunks'
    <2>. USE <1>ClientClunks
    <2>1. PICK t \in Tags : \E m : Sends(t, m)
      BY ClientSends DEF IInv
    <2>2. PICK m : Sends(t, m)
      BY <2>1
    <2>3. Typed /\ Tagged /\ m \in Messages /\ msg' = Append(msg, m) /\ Len(msg) < MaxMsgs /\ over' = over
      BY <2>2 DEF Sends, IInv
    <2>4. PICK z : z = Len(msg) + 1
      OBVIOUS
    <2>5. /\ msg'[z] = m
          /\ \A x \in Sent : msg'[x] = msg[x] /\ type(x)' = type(x)
          /\ \A x : x \in Sent' <=> x \in Sent \/ x = z
      BY <2>3, <2>4, SentOn DEF type
    <2>6. Names(m) /\ type(z)' = m.type
      BY <2>4, <2>5, <1>ClientNames DEF type
    <2>7. \A c \in Sent : c \notin over /\ type(c) = "clunk" =>
             /\ cfid[msg[c].fid] = "clunking" /\ msg[c].fid \in FidNumbers
             /\ \A q \in Sent : q # c /\ q \notin over /\ type(q) # "flush" => msg[q].fid # msg[c].fid
      BY <2>3 DEF Clunks, Typed, MessageOK, type
    <2>8. ASSUME NEW c \in Sent', c \notin over', type(c)' = "clunk" PROVE cfid'[msg'[c].fid] = "clunking"
      <3>1. CASE c = z
        BY <2>5, <2>6, <2>8, <3>1 DEF Names
      <3>2. CASE c # z
        <4>. c \in Sent /\ c \notin over /\ type(c) = "clunk" /\ msg'[c] = msg[c]
          BY <2>3, <2>5, <2>8, <3>2
        <4>. cfid[msg[c].fid] = "clunking" /\ msg[c].fid \in FidNumbers
          BY <2>7
        <4>. QED  BY <2>6 DEF Names
      <3>. QED  BY <3>1, <3>2
    <2>9. ASSUME NEW c \in Sent', c \notin over', type(c)' = "clunk",
                 NEW q \in Sent', q # c, q \notin over', type(q)' # "flush"
          PROVE  msg'[q].fid # msg'[c].fid
      <3>1. CASE c = z
        <4>. q \in Sent /\ q \notin over /\ type(q) # "flush" /\ msg'[q] = msg[q] /\ Using(m.fid) = {} /\ msg'[c] = m
          BY <2>3, <2>5, <2>6, <2>9, <3>1 DEF Names
        <4>. ctag[tag(q)] = q /\ tag(q) \in Tags /\ q # 0
          <5>. MessageOK(msg[q]) /\ msg[q] \in Messages
            BY <2>3, SMTT(30) DEF Typed, Sent
          <5>. q # 0
            BY SMT DEF Sent
          <5>. QED  BY <2>3, ZenonT(30) DEF Tagged, MessageOK, tag
        <4>. q \in Outstanding
          BY DEF Outstanding
        <4>. QED  BY DEF Using
      <3>2. CASE q = z
        <4>. c \in Sent /\ c \notin over /\ type(c) = "clunk" /\ msg'[c] = msg[c] /\ msg'[q] = m /\ m.type # "flush"
          BY <2>3, <2>5, <2>6, <2>9, <3>2
        <4>. cfid[msg[c].fid] = "clunking" /\ cfid[m.fid] \in {"free", "used"}
          BY <2>6, <2>7 DEF Names
        <4>. QED  OBVIOUS
      <3>3. CASE c # z /\ q # z
        <4>. c \in Sent /\ c \notin over /\ type(c) = "clunk" /\ msg'[c] = msg[c]
          BY <2>3, <2>5, <2>9, <3>3
        <4>. q \in Sent /\ q \notin over /\ type(q) # "flush" /\ msg'[q] = msg[q]
          BY <2>3, <2>5, <2>9, <3>3
        <4>. QED  BY <2>7, <2>9
      <3>. QED  BY <3>1, <3>2, <3>3
    <2>. QED  BY <2>8, <2>9 DEF Clunks
  <1>WriteClunks.
    ASSUME IInv, RInv, Clunks, NEW p \in Procs, NEW q \in Ids, write(p, q)
    PROVE  Clunks'
    <2>. USE <1>WriteClunks
    <2>.  /\ Typed /\ Calls /\ Counted /\ msg' = msg /\ over' = over \cup {q}
          /\ stack[p] # <<>> /\ Head(stack[p]).pc = "write" /\ q = Head(stack[p]).r
      BY DEF IInv, RInv, write, Receive, Responding, At, Top
    <2>1. FrameOK(p, Head(stack[p]))
      BY TopFrame
    <2>2. q <= nread /\ q \notin over
      BY <2>1 DEF FrameOK
    <2>3. q \in Sent
      BY <2>2, WasSent
    <2>4. \A c : type(c)' = type(c)
      BY DEF type
    <2>.  /\ Sent' = Sent
          /\ \A c \in Sent : c \notin over /\ type(c) = "clunk" =>
                /\ cfid[msg[c].fid] = "clunking" /\ msg[c].fid \in FidNumbers
                /\ \A x \in Sent : x # c /\ x \notin over /\ type(x) # "flush" => msg[x].fid # msg[c].fid
      BY DEF Sent, Clunks, Typed, MessageOK, type
    <2>5. \/ cfid' = cfid
          \/ \E n, v : cfid[n] = "making" /\ cfid' = [cfid EXCEPT ![n] = v]
          \/ type(q) = "clunk" /\ cfid' = [cfid EXCEPT ![msg[q].fid] = "free"]
      BY DEF write, Receive
    <2>6. ASSUME NEW c \in Sent, c \notin over, c # q, type(c) = "clunk" PROVE cfid'[msg[c].fid] = "clunking"
      <3>. cfid[msg[c].fid] = "clunking" /\ msg[c].fid \in FidNumbers
        BY <2>6
      <3>. type(q) = "clunk" => msg[q].fid # msg[c].fid
        BY <2>2, <2>3, <2>6
      <3>. QED  BY <2>5 DEF Counted
    <2>. QED  BY <2>4, <2>6, ZenonT(30) DEF Clunks
  <1>. SUFFICES ASSUME IInv, RInv, Clunks, Next PROVE Clunks'
    OBVIOUS
  <1>1. ASSUME UNCHANGED clientvars PROVE Clunks'
    BY <1>1, ZenonT(30) DEF Clunks, clientvars, Sent, type
  <1>2. CASE Client
    BY <1>2, <1>ClientClunks
  <1>3. CASE Handler
    BY <1>1, <1>3 DEF Handler, getreq, sattach, swalk, sio, sclunk, sflush, Handling
  <1>4. CASE \E w \in Workers, q \in Ids, result \in Outcomes : Finish(w, q, result)
    BY <1>1, <1>4 DEF Finish
  <1>5. ASSUME NEW p \in Procs, NEW q \in Ids, write(p, q) PROVE Clunks'
    BY <1>5, <1>WriteClunks
  <1>6. ASSUME NEW p \in Procs, NEW q \in Ids,
               \/ rflushDelay(p, q) \/ rflush(p, q) \/ rother(p, q) \/ remove(p, q)
               \/ respondflush(p, q) \/ return(p, q)
        PROVE  Clunks'
    BY <1>1, <1>6 DEF rflushDelay, rflush, rother, remove, respondflush, return
  <1>. QED  BY <1>2, <1>3, <1>4, <1>5, <1>6 DEF Next, Server, respond

LEMMA InitNumbers ==
    ASSUME Init
    PROVE  Numbered /\ Clunks
  <1>. fpool = [n \in FidNumbers |-> 0] /\ fid = [q \in Ids |-> 0] /\ msg = <<>>
    BY DEF Init
  <1>. 0 \notin Ids /\ Sent = {}
    BY SMT DEF Ids, Sent
  <1>. QED  BY DEF Numbered, Clunks

LEMMA StutterNumbers ==
    ASSUME Numbered, Clunks, UNCHANGED vars
    PROVE  Numbered' /\ Clunks'
  <1>. UNCHANGED <<fpool, fid, responded, msg, over, cfid>>
    BY DEF vars, clientvars, reqvars, poolvars
  <1>. Clunks'
    BY ZenonT(30) DEF Clunks, Sent, type
  <1>. (\A f : number(f)' = number(f)) /\ (\A x : type(x)' = type(x)) /\ (\A x : Flushed(x)' <=> Flushed(x))
    BY DEF number, type, Flushed
  <1>. Numbered'
    BY DEF Numbered
  <1>. QED  OBVIOUS

LEMMA LetGo ==
    ASSUME IInv, RInv, Numbered, Clunks
    PROVE  AnsweredLetGo
  <1>. Typed /\ Calls /\ Pooled
    BY DEF IInv
  <1>1. SUFFICES ASSUME NEW n \in Clunked, NEW f \in Alive(n), NEW q \in Ids, fid[q] = f, ~Flushed(q) PROVE FALSE
    BY DEF AnsweredLetGo
  <1>2. f \in Ids /\ n = number(f)
    <2>. f \in 1 .. Len(msg) /\ n = number(f)
      BY DEF Alive, number
    <2>. Len(msg) \in Nat /\ Len(msg) <= MaxMsgs
      BY SMT DEF Typed
    <2>. QED  BY Srv9pAssumption, SMT DEF Ids
  <1>3. type(q) # "flush" /\ msg[q].fid = n /\ ~responded[q]
    BY <1>1, <1>2 DEF Numbered
  <1>4. q \in Sent /\ q \notin over
    <2>. ~New(q)
      BY <1>1, <1>2, SMT DEF RInv, Fresh, Clear, Ids
    <2>. q <= nread
      BY DEF New
    <2>. QED  BY <1>3, WasSent DEF Pooled
  <1>. PICK fr \in Frames : fr.pc = "write" /\ type(fr.r) = "clunk" /\ n = msg[fr.r].fid
    BY DEF Clunked
  <1>. PICK p \in Procs : fr \in Elements(stack[p])
    BY DEF Frames, Elements
  <1>. FrameOK(p, fr) /\ fr.r \in Ids
    <2>. fr \in FrameSet
      BY SMT DEF Typed, Elements
    <2>. QED  BY DEF Calls, FrameSet
  <1>. fr.r \in Sent /\ fr.r \notin over /\ responded[fr.r]
    BY WasSent DEF FrameOK
  <1>. QED  BY <1>3, <1>4 DEF Clunks

INSTANCE FiniteSetTheorems

LEMMA FiniteCounts ==
    ASSUME NEW D, IsFiniteSet(D)
    PROVE  Counts(D)
  <1>1. ASSUME NEW fn, NEW v PROVE IsFiniteSet({x \in D : fn[x] = v})
    <2>. {x \in D : fn[x] = v} \in SUBSET D
      OBVIOUS
    <2>. QED  BY FS_Subset
  <1>2. ASSUME NEW fn, NEW v PROVE Num(D, fn, v) \in Nat
    BY <1>1, FS_CardinalityType DEF Num
  <1>3. ASSUME NEW fn, NEW v PROVE (\A x \in D : fn[x] # v) <=> Num(D, fn, v) = 0
    <2>. Num(D, fn, v) = 0 <=> {x \in D : fn[x] = v} = {}
      BY <1>1, FS_EmptySet DEF Num
    <2>. QED  OBVIOUS
  <1>4. ASSUME NEW fn, NEW gn, NEW x, NEW v, DiffersAt(D, fn, gn, x) PROVE Moves(D, fn, gn, fn[x], gn[x], v)
    <2>1. x \in D /\ \A y \in D : y # x => gn[y] = fn[y]
      BY <1>4 DEF DiffersAt
    <2>2. PICK A, B : A = {y \in D : fn[y] = v} /\ B = {y \in D : gn[y] = v}
      OBVIOUS
    <2>. IsFiniteSet(A) /\ IsFiniteSet(B) /\ Num(D, fn, v) = Cardinality(A) /\ Num(D, gn, v) = Cardinality(B)
      BY <1>1, <2>2 DEF Num
    <2>3. Cardinality(A) \in Nat /\ Cardinality(B) \in Nat
      BY FS_CardinalityType
    <2>4. CASE (fn[x] = v) <=> (gn[x] = v)
      <3>. A = B
        BY <2>1, <2>2, <2>4
      <3>. One(fn[x], v) = One(gn[x], v)
        BY <2>4 DEF One
      <3>. QED  BY DEF Moves
    <2>5. CASE fn[x] = v /\ gn[x] # v
      <3>1. x \in A /\ B = A \ {x}
        BY <2>1, <2>2, <2>5
      <3>. Cardinality(B) = Cardinality(A) - 1
        BY <3>1, FS_RemoveElement
      <3>. One(fn[x], v) = 1 /\ One(gn[x], v) = 0
        BY <2>5 DEF One
      <3>. Num(D, gn, v) + One(fn[x], v) = Num(D, fn, v) + One(gn[x], v)
        BY <2>3, SMT
      <3>. QED  BY DEF Moves
    <2>6. CASE fn[x] # v /\ gn[x] = v
      <3>1. x \in B /\ A = B \ {x}
        BY <2>1, <2>2, <2>6
      <3>. Cardinality(A) = Cardinality(B) - 1
        BY <3>1, FS_RemoveElement
      <3>. One(fn[x], v) = 0 /\ One(gn[x], v) = 1
        BY <2>6 DEF One
      <3>. Num(D, gn, v) + One(fn[x], v) = Num(D, fn, v) + One(gn[x], v)
        BY <2>3, SMT
      <3>. QED  BY DEF Moves
    <2>. QED  BY <2>4, <2>5, <2>6
  <1>. QED  BY <1>2, <1>3, <1>4 DEF Counts

LEMMA LibraryHolds == Library
  <1>. IsFiniteSet(Ids)
    <2>. 1 \in Int /\ MaxMsgs \in Int
      BY Srv9pAssumption, SMT
    <2>. QED  BY FS_Interval DEF Ids
  <1>. QED  BY FiniteCounts, Srv9pAssumption DEF Library

LEMMA InductiveRefs == Spec => [](IInv /\ RInv)
  <1>. Init => RInv
    BY InitRInv, LibraryHolds
  <1>. IInv /\ IInv' /\ RInv /\ [Next]_vars => RInv'
    BY StepRInv, LibraryHolds
  <1>. QED  BY Inductive, PTL DEF Spec

\* The reference counts of lib9p, with any tags, fids, messages and number of
\* procs that call respond: no Req is destroyed while something points to it, one
\* that nobody flushed is destroyed with its last pointer, and the count of a Fid
\* is the number of pointers to it (incref and closereq, closefid at each place of
\* srv.c that stores or drops one).
THEOREM Srv9pRefsExact == Spec => []RefsExact
  <1>. IInv /\ RInv => RefsExact
    BY CountsExact, LibraryHolds
  <1>. QED  BY InductiveRefs, PTL

LEMMA InductiveNumbers == Spec => [](IInv /\ RInv /\ Numbered /\ Clunks)
  <1>. Init => Numbered /\ Clunks
    BY InitNumbers
  <1>. IInv /\ IInv' /\ RInv /\ RInv' /\ Numbered /\ Clunks /\ [Next]_vars => Numbered' /\ Clunks'
    BY StepNumbered, StepClunks, StutterNumbers, LibraryHolds
  <1>. QED  BY InductiveRefs, PTL DEF Spec

\* When the reply to a Tclunk or Tremove is written, no request but a flushed one
\* has the Fid as its fid, whatever the procs that call respond and the order in
\* which they do: respond closes r->fid under lk before it writes a reply (srv.c).
THEOREM Srv9pAnsweredLetGo == Spec => []AnsweredLetGo
  <1>. IInv /\ RInv /\ Numbered /\ Clunks => AnsweredLetGo
    BY LetGo
  <1>. QED  BY InductiveNumbers, PTL
=============================================================================
