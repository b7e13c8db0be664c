---------------------------- MODULE ChannelProofs ----------------------------
(***************************************************************************)
(* Proofs about the channels of Channel, for any threads, channels, buffer *)
(* sizes, values and arrays of Alts.                                       *)
(*                                                                         *)
(* The arrays of a channel and the conditions under which a thread waits   *)
(* depend on each other: altexec hands a value to the right thread because *)
(* the arrays hold exactly the waiting operations, and altcopy's "it's     *)
(* always okay to receive and then send" holds because receivers wait only *)
(* at an empty buffer and senders at a full one.  IInv joins the two, and  *)
(* says where the result of a chanalt is while its thread is not back yet. *)
(***************************************************************************)
EXTENDS Channel, TLAPS

Op(t, i) == alt[t].alts[i]
Ops(t) == DOMAIN alt[t].alts

\* Operation i of thread t is one of those that wait on c.
Waits(t, i, c, op) == t \in Waiting /\ i \in Ops(t) /\ Op(t, i).c = c /\ Op(t, i).op = op

IInv ==
    /\ TypeOK /\ ~aborted
    /\ DOMAIN buf = Channels /\ nbuf \in [Channels -> Nat] /\ off \in [Channels -> Nat]
    /\ asend \in [Channels -> SUBSET (Threads \X Nat)]
    /\ arecv \in [Channels -> SUBSET (Threads \X Nat)]
    /\ \A c \in Channels, t \in Threads, i \in Nat :
           /\ <<t, i>> \in asend[c] <=> Waits(t, i, c, "CHANSND")
           /\ <<t, i>> \in arecv[c] <=> Waits(t, i, c, "CHANRCV")
    /\ NoMissedMatch
    /\ \A t \in Threads :
           /\ alt[t] = nil <=> pc[t] = "idle"
           /\ t \in runnable => talt[t] \in Ops(t)
           /\ pc[t] = "chanlock" \/ t \in Waiting => got[t] = nil

----------------------------------------------------------------------------
(* The ring buffer: k values in a buffer b of size n, from b[o] on.        *)

\* What a slot of a buffer holds.
Element == Values \cup {nil}

Ring(b, o, k, n) == [i \in 1..k |-> b[(o + i - 1) % n]]

\* The buffer after one more value was written.
Written(b, o, k, n, v) == [b EXCEPT ![(o + k) % n] = v]

\* The value that is put in goes behind the others.
LEMMA RingPut ==
    ASSUME NEW n \in Nat \ {0}, NEW b \in [0..(n - 1) -> Element], NEW o \in 0..(n - 1),
           NEW k \in 0..(n - 1), NEW v \in Element
    PROVE  /\ Ring(b, o, k, n) \in Seq(Element)
           /\ Ring(Written(b, o, k, n, v), o, k + 1, n) = Append(Ring(b, o, k, n), v)
  <1>. DEFINE r == Ring(b, o, k, n)
              w == (o + k) % n
              b2 == [b EXCEPT ![w] = v]
              r2 == Ring(b2, o, k + 1, n)
  <1>1. \A i \in 1..(k + 1) : (o + i - 1) % n = IF o + i - 1 < n THEN o + i - 1 ELSE o + i - 1 - n
    <2>. TAKE i \in 1..(k + 1)
    <2>1. o + i - 1 \in 0..(2 * n - 1)
      OBVIOUS
    <2>. QED  BY <2>1
  <1>2. w = (IF o + k < n THEN o + k ELSE o + k - n) /\ w \in 0..(n - 1)
    <2>1. o + k \in 0..(2 * n - 1)
      OBVIOUS
    <2>. QED  BY <2>1
  <1>3. r \in [1..k -> Element]
    BY <1>1 DEF Ring
  <1>4. r \in Seq(Element) /\ Len(r) = k
    BY <1>3
  <1>5. r2 \in [1..(k + 1) -> Element]
    BY <1>1 DEF Ring
  <1>6. r2 \in Seq(Element) /\ Len(r2) = k + 1
    <2>. HIDE DEF r2
    <2>. QED  BY <1>5
  <1>7. \A i \in 1..k : (o + i - 1) % n # w
    BY <1>1, <1>2
  <1>8. \A i \in 1..k : r2[i] = r[i]
    BY <1>1, <1>7 DEF Ring
  <1>9. r2[k + 1] = v
    BY <1>2 DEF Ring
  <1>10. /\ Append(r, v) \in Seq(Element) /\ Len(Append(r, v)) = k + 1
         /\ \A i \in 1..k : Append(r, v)[i] = r[i]
         /\ Append(r, v)[k + 1] = v
    BY <1>4
  <1>11. r2 = Append(r, v)
    <2>. HIDE DEF r, r2
    <2>1. \A i \in 1..(k + 1) : r2[i] = Append(r, v)[i]
      BY <1>8, <1>9, <1>10
    <2>. QED  BY <1>6, <1>10, <2>1
  <1>. QED  BY <1>2, <1>4, <1>11, Zenon DEF Written

\* The value that is taken out is the first.
LEMMA RingTake ==
    ASSUME NEW n \in Nat \ {0}, NEW b \in [0..(n - 1) -> Element], NEW o \in 0..(n - 1),
           NEW k \in 1..n
    PROVE  /\ Ring(b, o, k, n) \in Seq(Element) /\ Ring(b, o, k, n) # <<>>
           /\ Head(Ring(b, o, k, n)) = b[o]
           /\ Ring(b, IF o + 1 = n THEN 0 ELSE o + 1, k - 1, n) = Tail(Ring(b, o, k, n))
  <1>. DEFINE r == Ring(b, o, k, n)
              o2 == IF o + 1 = n THEN 0 ELSE o + 1
              r2 == Ring(b, o2, k - 1, n)
  <1>1. \A i \in 1..k : (o + i - 1) % n = IF o + i - 1 < n THEN o + i - 1 ELSE o + i - 1 - n
    <2>. TAKE i \in 1..k
    <2>1. o + i - 1 \in 0..(2 * n - 1)
      OBVIOUS
    <2>. QED  BY <2>1
  <1>2. \A i \in 1..(k - 1) : (o2 + i - 1) % n = (o + (i + 1) - 1) % n
    <2>. TAKE i \in 1..(k - 1)
    <2>1. o2 + i - 1 \in 0..(2 * n - 1)
      OBVIOUS
    <2>2. (o2 + i - 1) % n = IF o2 + i - 1 < n THEN o2 + i - 1 ELSE o2 + i - 1 - n
      BY <2>1
    <2>3. i + 1 \in 1..k
      OBVIOUS
    <2>. QED  BY <1>1, <2>2, <2>3
  <1>3. r \in [1..k -> Element] /\ r[1] = b[o]
    BY <1>1 DEF Ring
  <1>4. r \in Seq(Element) /\ Len(r) = k /\ r # <<>>
    <2>1. r \in Seq(Element) /\ Len(r) = k
      BY <1>3
    <2>. QED  BY <2>1
  <1>5. /\ Tail(r) \in Seq(Element) /\ Len(Tail(r)) = k - 1
        /\ \A i \in 1..(k - 1) : Tail(r)[i] = r[i + 1]
    BY <1>4
  <1>6. /\ r2 \in [1..(k - 1) -> Element]
        /\ \A i \in 1..(k - 1) : r2[i] = r[i + 1]
    <2>1. \A i \in 1..(k - 1) : i + 1 \in 1..k /\ r2[i] = r[i + 1]
      BY <1>2 DEF Ring
    <2>2. \A i \in 1..(k - 1) : r2[i] \in Element
      BY <1>3, <2>1, Zenon
    <2>. QED  BY <2>1, <2>2, Zenon DEF Ring
  <1>7. r2 \in Seq(Element) /\ Len(r2) = k - 1
    BY <1>6
  <1>8. r2 = Tail(r)
    BY <1>5, <1>6, <1>7
  <1>. QED  BY <1>3, <1>4, <1>8

----------------------------------------------------------------------------
(* The five things chanaltexec(t) does with operation i of t.              *)

Alone == UNCHANGED <<asend, arecv, talt, runnable>>

\* Operation j of the waiting thread u is its partner.
With(u, j) ==
    /\ u \in Waiting /\ j \in Ops(u)
    /\ asend' = [c \in Channels |-> asend[c] \ entries(u)]
    /\ arecv' = [c \in Channels |-> arecv[c] \ entries(u)]
    /\ talt' = [talt EXCEPT ![u] = j]
    /\ runnable' = runnable \cup {u}

\* A value goes into the buffer, or comes out of it.
Put(t, i) ==
    LET c == Op(t, i).c
    IN  /\ Alone /\ Op(t, i).op = "CHANSND" /\ arecv[c] = {} /\ nbuf[c] < bufsize[c]
        /\ buf' = [buf EXCEPT ![c][(off[c] + nbuf[c]) % bufsize[c]] = Op(t, i).v]
        /\ nbuf' = [nbuf EXCEPT ![c] = @ + 1]
        /\ UNCHANGED <<off, got>>

after(c) == IF off[c] + 1 = bufsize[c] THEN 0 ELSE off[c] + 1

Take(t, i) ==
    LET c == Op(t, i).c
    IN  /\ Alone /\ Op(t, i).op = "CHANRCV" /\ asend[c] = {} /\ nbuf[c] > 0
        /\ off' = [off EXCEPT ![c] = after(c)]
        /\ nbuf' = [nbuf EXCEPT ![c] = @ - 1]
        /\ got' = [got EXCEPT ![t] = buf[c][off[c]]]
        /\ UNCHANGED buf

\* t sends to u, receives from u, or receives from a full buffer and lets u send.
Give(t, i, u, j) ==
    LET c == Op(t, i).c
    IN  /\ With(u, j) /\ Op(t, i).op = "CHANSND" /\ Op(u, j).op = "CHANRCV"
        /\ Op(u, j).c = c /\ nbuf[c] = 0
        /\ got' = [got EXCEPT ![u] = Op(t, i).v]
        /\ UNCHANGED <<buf, off, nbuf>>

Get(t, i, u, j) ==
    LET c == Op(t, i).c
    IN  /\ With(u, j) /\ Op(t, i).op = "CHANRCV" /\ Op(u, j).op = "CHANSND"
        /\ Op(u, j).c = c /\ nbuf[c] = 0
        /\ got' = [got EXCEPT ![t] = Op(u, j).v]
        /\ UNCHANGED <<buf, off, nbuf>>

Shift(t, i, u, j) ==
    LET c == Op(t, i).c
    IN  /\ With(u, j) /\ Op(t, i).op = "CHANRCV" /\ Op(u, j).op = "CHANSND"
        /\ Op(u, j).c = c /\ nbuf[c] > 0 /\ nbuf[c] = bufsize[c]
        /\ got' = [got EXCEPT ![t] = buf[c][off[c]]]
        /\ off' = [off EXCEPT ![c] = after(c)]
        /\ buf' = [buf EXCEPT ![c][(after(c) + (nbuf[c] - 1)) % bufsize[c]] = Op(u, j).v]
        /\ UNCHANGED nbuf

\* What a thread offers, and what its operations may be.
LEMMA Offered ==
    ASSUME IInv, NEW t \in Threads, pc[t] # "idle"
    PROVE  /\ alt[t] \in Alts /\ alt[t] # nil
           /\ Ops(t) \subseteq Nat \ {0}
           /\ \A i \in Ops(t) :
                 /\ Op(t, i).c \in Channels
                 /\ Op(t, i).op \in {"CHANSND", "CHANRCV", "CHANNOP"}
                 /\ Op(t, i).op = "CHANSND" => Op(t, i).v \in Values
  <1>. DEFINE S == [c : Channels, op : {"CHANSND", "CHANRCV", "CHANNOP"}, v : Values \cup {nil}]
  <1>1. alt[t] \in Alts /\ alt[t] # nil
    BY Zenon DEF IInv, TypeOK
  <1>2. alt[t].alts \in Seq(S) /\ \A i \in Ops(t) : Op(t, i).op = "CHANSND" => Op(t, i).v \in Values
    BY <1>1, ChannelAssumption, Zenon DEF Op, Ops
  <1>3. Ops(t) = 1..Len(alt[t].alts) /\ Len(alt[t].alts) \in Nat
    BY <1>2 DEF Ops
  <1>4. \A i \in Ops(t) : Op(t, i) \in S
    <2>. HIDE DEF S
    <2>. QED  BY <1>2, <1>3 DEF Op, Ops
  <1>. QED  BY <1>1, <1>2, <1>3, <1>4

\* A member of an array is an operation of a waiting thread on that channel.
LEMMA Member ==
    ASSUME IInv, NEW c \in Channels, NEW x, NEW op \in {"CHANSND", "CHANRCV"},
           x \in chanarray(c, op)
    PROVE  \E u \in Threads, j \in Nat : x = <<u, j>> /\ Waits(u, j, c, op)
  <1>1. x \in Threads \X Nat
    BY Zenon DEF IInv, chanarray
  <1>2. PICK u \in Threads, j \in Nat : x = <<u, j>>
    BY <1>1
  <1>. QED  BY <1>2, Zenon DEF IInv, chanarray

\* altalldequeue finds every entry of a waiting thread.
LEMMA Dequeued ==
    ASSUME IInv, NEW u \in Waiting, altalldequeue(u)
    PROVE  aborted' = FALSE
  <1>. SUFFICES ASSUME NEW x \in ops(u) PROVE x \in chanarray(entry(x).c, entry(x).op)
    BY Zenon DEF altalldequeue
  <1>1. u \in Threads /\ pc[u] = "switch"
    BY Zenon DEF Waiting
  <1>2. PICK i \in Ops(u) : x = <<u, i>>
    BY Zenon DEF ops, entries, Ops
  <1>3. entry(x) = Op(u, i) /\ Op(u, i).op # "CHANNOP"
    BY <1>2, Zenon DEF ops, entry, Op
  <1>4. i \in Nat /\ Op(u, i).c \in Channels /\ Op(u, i).op \in {"CHANSND", "CHANRCV"}
    BY <1>1, <1>2, <1>3, Offered, Zenon
  <1>. QED  BY <1>1, <1>2, <1>3, <1>4, Zenon DEF IInv, Waits, chanarray

\* The sizes of the sets of at most one operation that altexec gives to
\* altcopy.  It is proved from the library's theorems at the end (lemma
\* Library); until then the lemmas take it as an assumption.
Units == Cardinality({}) = 0 /\ \A x : Cardinality({x}) = 1

\* chanaltexec does one of the five, and t returns.
LEMMA Executes ==
    ASSUME Units, IInv, NEW t \in Threads, chanaltexec(t)
    PROVE  /\ pc[t] = "chanlock" /\ aborted' = FALSE
           /\ \E i \in Ops(t) :
                 /\ return(t, i - 1)
                 /\ \/ Put(t, i) \/ Take(t, i)
                    \/ \E u \in Threads, j \in Nat :
                          Give(t, i, u, j) \/ Get(t, i, u, j) \/ Shift(t, i, u, j)
  <1>1. pc[t] = "chanlock"
    BY Zenon DEF chanaltexec, at
  <1>2. PICK i \in Ops(t) : altcanexec(<<t, i>>) /\ altexec(<<t, i>>) /\ return(t, i - 1)
    BY DEF chanaltexec, can, entries, Ops
  <1>. DEFINE a == Op(t, i)
              c == a.c
              ar == chanarray(c, otherop(a.op))
  <1>3. c \in Channels /\ a.op \in {"CHANSND", "CHANRCV"}
    BY <1>1, <1>2, Offered, Zenon DEF altcanexec, entry, Op
  <1>4. entry(<<t, i>>) = a
    BY Zenon DEF entry, Op
  <1>5. nbuf[c] \in Nat /\ bufsize[c] \in Nat /\ nbuf[c] <= bufsize[c]
    BY <1>3, ChannelAssumption DEF IInv, TypeOK
  <1>. HIDE DEF a, c, ar
  <1>6. CASE ar = {}
    <2>1. Alone /\ aborted' = aborted
      BY <1>2, <1>4, <1>6, Zenon DEF altexec, a, c, ar, Alone
    <2>2. CASE a.op = "CHANSND"
      <3>1. altcopy(c, {<<t, i>>}, {})
        BY <1>2, <1>4, <1>6, <2>2, Zenon DEF altexec, a, c, ar
      <3>2. arecv[c] = {} /\ nbuf[c] < bufsize[c]
        BY <1>2, <1>4, <1>6, <2>2, Zenon DEF altcanexec, otherop, chanarray, a, c, ar
      <3>3. {entry(x).v : x \in {<<t, i>>}} = {a.v}
        BY <1>4, Zenon
      <3>4. Cardinality({<<t, i>>}) = 1
        BY Zenon DEF Units
      <3>5. /\ got' = [u \in Threads |-> got[u]]
            /\ off' = [off EXCEPT ![c] = off[c]]
            /\ nbuf' = [nbuf EXCEPT ![c] = nbuf[c] + 1]
            /\ buf' = [buf EXCEPT ![c][(off[c] + nbuf[c]) % bufsize[c]] = CHOOSE w \in {a.v} : TRUE]
        BY <3>1, <3>3, <3>4, Zenon DEF altcopy
      <3>6. got' = got /\ off' = off
        BY <1>3, <3>5, Zenon DEF IInv, TypeOK
      <3>7. Put(t, i)
        BY <2>1, <2>2, <3>2, <3>5, <3>6, Zenon DEF Put, a, c
      <3>. QED  BY <1>1, <1>2, <2>1, <3>7 DEF IInv
    <2>3. CASE a.op = "CHANRCV"
      <3>1. altcopy(c, {}, {<<t, i>>})
        BY <1>2, <1>4, <1>6, <2>3, Zenon DEF altexec, a, c, ar
      <3>2. asend[c] = {} /\ nbuf[c] > 0
        BY <1>2, <1>4, <1>6, <2>3, Zenon DEF altcanexec, otherop, chanarray, a, c, ar
      <3>4. Cardinality({}) = 0
        BY Zenon DEF Units
      <3>5. /\ got' = [u \in Threads |-> IF u # t THEN got[u] ELSE buf[c][off[c]]]
            /\ off' = [off EXCEPT ![c] = after(c)]
            /\ nbuf' = [nbuf EXCEPT ![c] = nbuf[c] - 1 + 0]
            /\ buf' = buf
        <4>1. /\ off' = [off EXCEPT ![c] = after(c)]
              /\ nbuf' = [nbuf EXCEPT ![c] = nbuf[c] - 1 + 0]
              /\ buf' = buf
          BY <3>1, <3>4, Zenon DEF altcopy, after
        <4>2. got' = [u \in Threads |-> IF u # t THEN got[u] ELSE buf[c][off[c]]]
          BY <3>1 DEF altcopy
        <4>. QED  BY <4>1, <4>2, Zenon
      <3>6. got' = [got EXCEPT ![t] = buf[c][off[c]]]
        BY <3>5, Zenon DEF IInv, TypeOK
      <3>7. nbuf[c] - 1 + 0 = nbuf[c] - 1
        BY <1>5
      <3>8. Take(t, i)
        BY <2>1, <2>3, <3>2, <3>5, <3>6, <3>7, Zenon DEF Take, a, c
      <3>. QED  BY <1>1, <1>2, <2>1, <3>8 DEF IInv
    <2>. QED  BY <1>3, <2>2, <2>3, Zenon
  <1>7. CASE ar # {}
    <2>. DEFINE copy(y) == IF a.op = "CHANSND" THEN altcopy(c, {<<t, i>>}, y)
                                               ELSE altcopy(c, y, {<<t, i>>})
    <2>1. PICK other \in ar :
              /\ copy({other})
              /\ altalldequeue(other[1])
              /\ talt' = [talt EXCEPT ![other[1]] = other[2]]
              /\ runnable' = runnable \cup {other[1]}
      BY <1>2, <1>4, <1>7, Zenon DEF altexec, a, c, ar
    <2>2. otherop(a.op) \in {"CHANSND", "CHANRCV"}
      BY Zenon DEF otherop
    <2>3. PICK u \in Threads, j \in Nat : other = <<u, j>> /\ Waits(u, j, c, otherop(a.op))
      BY <1>3, <2>1, <2>2, Member, Zenon DEF ar
    <2>4. other[1] = u /\ other[2] = j /\ u # t
      BY <1>1, <2>3, Zenon DEF Waits, Waiting
    <2>5. With(u, j) /\ aborted' = FALSE
      BY <2>1, <2>3, <2>4, Dequeued, Zenon DEF With, Waits, altalldequeue
    <2>6. entry(other) = Op(u, j)
      BY <2>4, Zenon DEF entry, Op
    <2>7. CASE a.op = "CHANSND"
      <3>1. altcopy(c, {<<t, i>>}, {other})
        BY <2>1, <2>7, Zenon
      <3>2. Op(u, j).op = "CHANRCV" /\ Op(u, j).c = c /\ <<u, j>> \in arecv[c]
        BY <1>3, <2>1, <2>3, <2>7, Zenon DEF Waits, otherop, ar, chanarray
      <3>3. nbuf[c] = 0
        BY <1>3, <3>2, Zenon DEF IInv, NoMissedMatch
      <3>4. {entry(x).v : x \in {<<t, i>>}} = {a.v}
        BY <1>4, Zenon
      <3>5. /\ got' = [v \in Threads |-> IF v # u THEN got[v] ELSE CHOOSE w \in {a.v} : TRUE]
            /\ UNCHANGED <<buf, off, nbuf>>
        BY <2>4, <3>1, <3>3, <3>4, Zenon DEF altcopy
      <3>6. got' = [got EXCEPT ![u] = a.v]
        BY <3>5, Zenon DEF IInv, TypeOK
      <3>7. Give(t, i, u, j)
        BY <2>5, <2>7, <3>2, <3>3, <3>5, <3>6, Zenon DEF Give, a, c
      <3>. QED  BY <1>1, <1>2, <2>5, <3>7, Zenon
    <2>8. CASE a.op = "CHANRCV"
      <3>1. altcopy(c, {other}, {<<t, i>>})
        BY <2>1, <2>8, Zenon
      <3>2. Op(u, j).op = "CHANSND" /\ Op(u, j).c = c /\ <<u, j>> \in asend[c]
        BY <1>3, <2>1, <2>3, <2>8, Zenon DEF Waits, otherop, ar, chanarray
      <3>3. nbuf[c] = bufsize[c]
        BY <1>3, <3>2, Zenon DEF IInv, NoMissedMatch
      <3>4. {entry(x).v : x \in {other}} = {Op(u, j).v}
        BY <2>6, Zenon
      <3>5. CASE nbuf[c] = 0
        <4>1. /\ got' = [v \in Threads |-> IF v # t THEN got[v] ELSE CHOOSE w \in {Op(u, j).v} : TRUE]
              /\ UNCHANGED <<buf, off, nbuf>>
          BY <3>1, <3>4, <3>5 DEF altcopy
        <4>2. got' = [got EXCEPT ![t] = Op(u, j).v]
          BY <4>1, Zenon DEF IInv, TypeOK
        <4>3. Get(t, i, u, j)
          BY <2>5, <2>8, <3>2, <3>5, <4>1, <4>2, Zenon DEF Get, a, c
        <4>. QED  BY <1>1, <1>2, <2>5, <4>3, Zenon
      <3>6. CASE nbuf[c] # 0
        <4>1. Cardinality({other}) = 1
          BY Zenon DEF Units
        <4>2. /\ got' = [v \in Threads |-> IF v # t THEN got[v] ELSE buf[c][off[c]]]
              /\ off' = [off EXCEPT ![c] = after(c)]
              /\ nbuf' = [nbuf EXCEPT ![c] = nbuf[c] - 1 + 1]
              /\ buf' = [buf EXCEPT ![c][(after(c) + (nbuf[c] - 1)) % bufsize[c]] =
                                             CHOOSE w \in {Op(u, j).v} : TRUE]
          <5>1. off' = [off EXCEPT ![c] = after(c)]
            BY <3>1, <3>6, Zenon DEF altcopy, after
          <5>2. nbuf' = [nbuf EXCEPT ![c] = nbuf[c] - 1 + 1]
            BY <3>1, <3>6, <4>1, Zenon DEF altcopy
          <5>3. buf' = [buf EXCEPT ![c][(after(c) + (nbuf[c] - 1)) % bufsize[c]] =
                                             CHOOSE w \in {Op(u, j).v} : TRUE]
            BY <3>1, <3>4, <3>6, Zenon DEF altcopy, after
          <5>4. got' = [v \in Threads |-> IF v # t THEN got[v] ELSE buf[c][off[c]]]
            BY <3>1, <3>6 DEF altcopy
          <5>. QED  BY <5>1, <5>2, <5>3, <5>4, Zenon
        <4>3. got' = [got EXCEPT ![t] = buf[c][off[c]]]
          BY <4>2, Zenon DEF IInv, TypeOK
        <4>4. nbuf' = nbuf
          <5>1. nbuf[c] - 1 + 1 = nbuf[c]
            BY <1>5
          <5>. QED  BY <1>3, <4>2, <5>1, Zenon DEF IInv
        <4>5. nbuf[c] > 0
          BY <1>5, <3>6
        <4>6. Shift(t, i, u, j)
          BY <2>5, <2>8, <3>2, <3>3, <4>2, <4>3, <4>4, <4>5, Zenon DEF Shift, a, c
        <4>. QED  BY <1>1, <1>2, <2>5, <4>6, Zenon
      <3>. QED  BY <3>5, <3>6, Zenon
    <2>. QED  BY <1>3, <2>7, <2>8, Zenon
  <1>. QED  BY <1>6, <1>7, Zenon

----------------------------------------------------------------------------
(* IInv is an invariant.                                                   *)

\* The arrays, and the sides of IInv that do not depend on the buffers.
Arrays ==
    /\ asend \in [Channels -> SUBSET (Threads \X Nat)]
    /\ arecv \in [Channels -> SUBSET (Threads \X Nat)]
    /\ \A c \in Channels, t \in Threads, i \in Nat :
           /\ <<t, i>> \in asend[c] <=> Waits(t, i, c, "CHANSND")
           /\ <<t, i>> \in arecv[c] <=> Waits(t, i, c, "CHANRCV")
Returned ==
    /\ alt \in [Threads -> Alts \cup {nil}]
    /\ talt \in [Threads -> Nat]
    /\ ret \in [Threads -> Int]
    /\ pc \in [Threads -> {"idle", "chanlock", "switch"}]
    /\ runnable \subseteq {t \in Threads : pc[t] = "switch"}
    /\ aborted = FALSE
    /\ \A t \in Threads :
           /\ alt[t] = nil <=> pc[t] = "idle"
           /\ t \in runnable => talt[t] \in Ops(t)
Buffers ==
    /\ DOMAIN buf = Channels /\ nbuf \in [Channels -> Nat] /\ off \in [Channels -> Nat]
    /\ \A c \in Channels :
           /\ buf[c] \in [0..(bufsize[c] - 1) -> Values \cup {nil}]
           /\ off[c] = 0 \/ off[c] \in 1..(bufsize[c] - 1)
           /\ nbuf[c] \in 0..bufsize[c]
Values_got ==
    /\ got \in [Threads -> Values \cup {nil}]
    /\ \A t \in Threads : pc[t] = "chanlock" \/ t \in Waiting => got[t] = nil

LEMMA Parts == IInv <=> Arrays /\ Returned /\ Buffers /\ Values_got /\ NoMissedMatch
  BY Zenon DEF IInv, TypeOK, Arrays, Returned, Buffers, Values_got

\* The same, after a step.
LEMMA PartsPrime ==
    Arrays' /\ Returned' /\ Buffers' /\ Values_got' /\ NoMissedMatch' => IInv'
  BY Zenon DEF IInv, TypeOK, Arrays, Returned, Buffers, Values_got

LEMMA InitIInv == Init => IInv
  <1>. SUFFICES ASSUME Init PROVE IInv
    BY Zenon
  <1>. USE ChannelAssumption DEF Init
  <1>1. Waiting = {}
    BY Zenon DEF Waiting
  <1>2. Arrays
    BY <1>1, Zenon DEF Arrays, Waits
  <1>3. Returned
    BY DEF Returned
  <1>4. Buffers
    BY DEF Buffers
  <1>5. Values_got
    BY <1>1, Zenon DEF Values_got
  <1>6. NoMissedMatch
    BY Zenon DEF NoMissedMatch
  <1>. QED  BY <1>2, <1>3, <1>4, <1>5, <1>6, Parts, Zenon

\* What return does to the thread, and to who waits.
\* The arrays stay exact while the waiting threads keep their Alts.
LEMMA ArraysKept ==
    ASSUME Arrays, Waiting' = Waiting, UNCHANGED <<asend, arecv>>,
           \A u \in Waiting : alt'[u] = alt[u]
    PROVE  Arrays'
  <1>1. \A u, i, c, op : Waits(u, i, c, op)' <=> Waits(u, i, c, op)
    BY Zenon DEF Waits, Ops, Op
  <1>. QED  BY <1>1, Zenon DEF Arrays

LEMMA ReturnAlone ==
    ASSUME IInv, NEW t \in Threads, pc[t] = "chanlock", NEW i \in Nat, return(t, i - 1),
           Alone, aborted' = FALSE
    PROVE  Arrays' /\ Returned' /\ Waiting' = Waiting
  <1>1. /\ Arrays /\ Returned
        /\ alt' = [alt EXCEPT ![t] = nil] /\ pc' = [pc EXCEPT ![t] = "idle"]
        /\ ret' = [ret EXCEPT ![t] = i - 1]
        /\ UNCHANGED <<asend, arecv, talt, runnable>>
    BY Parts, Zenon DEF return, Alone
  <1>2. Waiting' = Waiting /\ t \notin Waiting
    BY <1>1, Zenon DEF Waiting, Returned
  <1>3. Arrays'
    BY <1>1, <1>2, ArraysKept, Zenon DEF Returned, Waiting
  <1>4. Returned'
    BY <1>1 DEF Returned, Ops
  <1>. QED  BY <1>2, <1>3, <1>4, Zenon

LEMMA ReturnWith ==
    ASSUME IInv, NEW t \in Threads, pc[t] = "chanlock", NEW i \in Nat, return(t, i - 1),
           NEW u \in Threads, NEW j \in Nat, With(u, j), aborted' = FALSE
    PROVE  /\ Arrays' /\ Returned' /\ Waiting' = Waiting \ {u} /\ u # t
           /\ \A c \in Channels : asend'[c] \subseteq asend[c] /\ arecv'[c] \subseteq arecv[c]
  <1>1. /\ Arrays /\ Returned /\ u \in Waiting /\ j \in Ops(u)
        /\ alt' = [alt EXCEPT ![t] = nil] /\ pc' = [pc EXCEPT ![t] = "idle"]
        /\ ret' = [ret EXCEPT ![t] = i - 1]
        /\ asend' = [c \in Channels |-> asend[c] \ entries(u)]
        /\ arecv' = [c \in Channels |-> arecv[c] \ entries(u)]
        /\ talt' = [talt EXCEPT ![u] = j]
        /\ runnable' = runnable \cup {u}
    BY Parts, Zenon DEF return, With
  <1>2. Waiting' = Waiting \ {u} /\ t \notin Waiting /\ u # t
    BY <1>1, Zenon DEF Waiting, Returned
  <1>3. \A v \in Threads, k \in Nat : <<v, k>> \in entries(u) <=> v = u /\ k \in Ops(u)
    BY Zenon DEF entries, Ops
  <1>4. ASSUME NEW v \in Threads, NEW k \in Nat, NEW c \in Channels
        PROVE  /\ <<v, k>> \in asend'[c] <=> Waits(v, k, c, "CHANSND")'
               /\ <<v, k>> \in arecv'[c] <=> Waits(v, k, c, "CHANRCV")'
    <2>1. /\ <<v, k>> \in asend[c] <=> Waits(v, k, c, "CHANSND")
          /\ <<v, k>> \in arecv[c] <=> Waits(v, k, c, "CHANRCV")
      BY <1>1, Zenon DEF Arrays
    <2>2. /\ <<v, k>> \in asend'[c] <=> <<v, k>> \in asend[c] /\ ~(v = u /\ k \in Ops(u))
          /\ <<v, k>> \in arecv'[c] <=> <<v, k>> \in arecv[c] /\ ~(v = u /\ k \in Ops(u))
      BY <1>1, <1>3, Zenon
    <2>3. CASE v \in {t, u}
      BY <1>2, <2>1, <2>2, <2>3, Zenon DEF Waits
    <2>4. CASE v \notin {t, u}
      <3>1. alt'[v] = alt[v] /\ (v \in Waiting' <=> v \in Waiting)
        BY <1>1, <1>2, <2>4, Zenon DEF Returned
      <3>. QED  BY <2>1, <2>2, <2>4, <3>1, Zenon DEF Waits, Ops, Op
    <2>. QED  BY <2>3, <2>4, Zenon
  <1>5. /\ asend' \in [Channels -> SUBSET (Threads \X Nat)]
        /\ arecv' \in [Channels -> SUBSET (Threads \X Nat)]
        /\ \A c \in Channels : asend'[c] \subseteq asend[c] /\ arecv'[c] \subseteq arecv[c]
    BY <1>1, Zenon DEF Arrays
  <1>6. Arrays'
    BY <1>4, <1>5, Zenon DEF Arrays
  <1>7. Returned'
    BY <1>1, <1>2 DEF Returned, Ops, Waiting
  <1>. QED  BY <1>2, <1>5, <1>6, <1>7, Zenon

\* The buffers with a value more, a value less, or both.
LEMMA PutBuffers ==
    ASSUME Buffers, NEW c \in Channels, nbuf[c] < bufsize[c], NEW v \in Values,
           buf' = [buf EXCEPT ![c][(off[c] + nbuf[c]) % bufsize[c]] = v],
           nbuf' = [nbuf EXCEPT ![c] = @ + 1], off' = off
    PROVE  Buffers'
  <1>0. bufsize[c] \in Nat /\ nbuf[c] \in 0..bufsize[c] /\ (off[c] = 0 \/ off[c] \in 1..(bufsize[c] - 1))
    BY ChannelAssumption, Zenon DEF Buffers
  <1>1. bufsize[c] \in Nat \ {0} /\ off[c] \in 0..(bufsize[c] - 1) /\ nbuf[c] \in 0..(bufsize[c] - 1)
    BY <1>0
  <1>2. buf'[c] \in [0..(bufsize[c] - 1) -> Values \cup {nil}]
    BY <1>1, Zenon DEF Buffers
  <1>3. DOMAIN buf' = Channels /\ \A d \in Channels \ {c} : buf'[d] = buf[d]
    BY Zenon DEF Buffers
  <1>. QED  BY <1>1, <1>2, <1>3, SMTT(30) DEF Buffers

LEMMA TakeBuffers ==
    ASSUME Buffers, NEW c \in Channels, nbuf[c] > 0,
           off' = [off EXCEPT ![c] = after(c)],
           nbuf' = [nbuf EXCEPT ![c] = @ - 1], buf' = buf
    PROVE  Buffers'
  <1>0. bufsize[c] \in Nat /\ nbuf[c] \in 0..bufsize[c] /\ (off[c] = 0 \/ off[c] \in 1..(bufsize[c] - 1))
    BY ChannelAssumption, Zenon DEF Buffers
  <1>1. bufsize[c] \in Nat \ {0} /\ off[c] \in 0..(bufsize[c] - 1) /\ nbuf[c] \in 1..bufsize[c]
    BY <1>0
  <1>2. after(c) \in 0..(bufsize[c] - 1)
    BY <1>1 DEF after
  <1>. QED  BY <1>1, <1>2 DEF Buffers

LEMMA ShiftBuffers ==
    ASSUME Buffers, NEW c \in Channels, nbuf[c] > 0, NEW v \in Values,
           off' = [off EXCEPT ![c] = after(c)],
           buf' = [buf EXCEPT ![c][(after(c) + (nbuf[c] - 1)) % bufsize[c]] = v],
           nbuf' = nbuf
    PROVE  Buffers'
  <1>0. bufsize[c] \in Nat /\ nbuf[c] \in 0..bufsize[c] /\ (off[c] = 0 \/ off[c] \in 1..(bufsize[c] - 1))
    BY ChannelAssumption, Zenon DEF Buffers
  <1>1. bufsize[c] \in Nat \ {0} /\ off[c] \in 0..(bufsize[c] - 1) /\ nbuf[c] \in 1..bufsize[c]
    BY <1>0
  <1>2. after(c) \in 0..(bufsize[c] - 1)
    BY <1>1 DEF after
  <1>3. buf'[c] \in [0..(bufsize[c] - 1) -> Values \cup {nil}]
    BY <1>1, <1>2, Zenon DEF Buffers
  <1>4. DOMAIN buf' = Channels /\ \A d \in Channels \ {c} : buf'[d] = buf[d]
    BY Zenon DEF Buffers
  <1>. QED  BY <1>1, <1>2, <1>3, <1>4, SMTT(30) DEF Buffers

\* chanaltexec keeps the invariant.  A value goes into a buffer that was not
\* full, so that nobody waits to send, and comes out of one that was not
\* empty, so that nobody waits to receive.
LEMMA ExecPreserves ==
    ASSUME Units, IInv, NEW t \in Threads, chanaltexec(t)
    PROVE  IInv'
  <1>1. pc[t] = "chanlock" /\ aborted' = FALSE
    BY Executes, Zenon
  <1>2. PICK i \in Ops(t) :
            /\ return(t, i - 1)
            /\ \/ Put(t, i) \/ Take(t, i)
               \/ \E u \in Threads, j \in Nat :
                     Give(t, i, u, j) \/ Get(t, i, u, j) \/ Shift(t, i, u, j)
    BY Executes, Zenon
  <1>. DEFINE c == Op(t, i).c
  <1>3. /\ i \in Nat /\ c \in Channels
        /\ Op(t, i).op = "CHANSND" => Op(t, i).v \in Values
    BY <1>1, <1>2, Offered, Zenon
  <1>4. Arrays /\ Returned /\ Buffers /\ Values_got /\ NoMissedMatch
    BY Parts, Zenon
  <1>5. nbuf[c] \in Nat /\ bufsize[c] \in Nat /\ nbuf[c] <= bufsize[c]
    <2>1. nbuf[c] \in 0..bufsize[c] /\ bufsize[c] \in Nat
      BY <1>3, <1>4, ChannelAssumption, Zenon DEF Buffers
    <2>. QED  BY <2>1
  <1>6. nbuf[c] > 0 => buf[c][off[c]] \in Values \cup {nil}
    <2>1. /\ buf[c] \in [0..(bufsize[c] - 1) -> Values \cup {nil}]
          /\ off[c] = 0 \/ off[c] \in 1..(bufsize[c] - 1)
      BY <1>3, <1>4, Zenon DEF Buffers
    <2>. QED  BY <1>5, <2>1
  <1>7. pc' = [pc EXCEPT ![t] = "idle"] /\ t \notin Waiting
    BY <1>1, <1>2, Zenon DEF return, Waiting
  <1>. HIDE DEF c
  <1>8. CASE Put(t, i)
    <2>1. /\ Alone /\ Op(t, i).op = "CHANSND" /\ arecv[c] = {} /\ nbuf[c] < bufsize[c]
          /\ buf' = [buf EXCEPT ![c][(off[c] + nbuf[c]) % bufsize[c]] = Op(t, i).v]
          /\ nbuf' = [nbuf EXCEPT ![c] = @ + 1]
          /\ UNCHANGED <<off, got>>
      BY <1>8, Zenon DEF Put, c
    <2>2. Arrays' /\ Returned' /\ Waiting' = Waiting
      BY <1>1, <1>2, <1>3, <2>1, ReturnAlone, Zenon
    <2>3. Buffers'
      BY <1>3, <1>4, <2>1, PutBuffers, Zenon
    <2>4. Values_got'
      BY <1>4, <1>7, <2>1, <2>2, Zenon DEF Values_got, Returned
    <2>5. NoMissedMatch'
      BY <1>3, <1>4, <1>5, <2>1, SMTT(30) DEF NoMissedMatch, Alone, Buffers
    <2>. QED  BY <2>2, <2>3, <2>4, <2>5, PartsPrime, Zenon
  <1>9. CASE Take(t, i)
    <2>1. /\ Alone /\ asend[c] = {} /\ nbuf[c] > 0
          /\ off' = [off EXCEPT ![c] = after(c)]
          /\ nbuf' = [nbuf EXCEPT ![c] = @ - 1]
          /\ got' = [got EXCEPT ![t] = buf[c][off[c]]]
          /\ UNCHANGED buf
      BY <1>9, Zenon DEF Take, c
    <2>2. Arrays' /\ Returned' /\ Waiting' = Waiting
      BY <1>1, <1>2, <1>3, <2>1, ReturnAlone, Zenon
    <2>3. Buffers'
      BY <1>3, <1>4, <2>1, TakeBuffers, Zenon
    <2>4. Values_got'
      BY <1>4, <1>6, <1>7, <2>1, <2>2, Zenon DEF Values_got, Returned
    <2>5. NoMissedMatch'
      BY <1>3, <1>4, <1>5, <2>1 DEF NoMissedMatch, Alone, Buffers
    <2>. QED  BY <2>2, <2>3, <2>4, <2>5, PartsPrime, Zenon
  <1>10. ASSUME NEW u \in Threads, NEW j \in Nat, Give(t, i, u, j) \/ Get(t, i, u, j)
         PROVE  IInv'
    <2>1. /\ With(u, j) /\ nbuf' = nbuf /\ off' = off /\ buf' = buf
          /\ \E v \in Values : got' = [got EXCEPT ![u] = v] \/ got' = [got EXCEPT ![t] = v]
      <3>1. CASE Give(t, i, u, j)
        BY <1>3, <3>1, Zenon DEF Give
      <3>2. CASE Get(t, i, u, j)
        <4>1. With(u, j) /\ Op(u, j).op = "CHANSND" /\ got' = [got EXCEPT ![t] = Op(u, j).v]
          BY <3>2, Zenon DEF Get
        <4>2. Op(u, j).v \in Values
          BY <4>1, Offered, Zenon DEF With, Waiting
        <4>. QED  BY <3>2, <4>1, <4>2, Zenon DEF Get
      <3>. QED  BY <1>10, <3>1, <3>2, Zenon
    <2>2. /\ Arrays' /\ Returned' /\ Waiting' = Waiting \ {u} /\ u # t
          /\ \A d \in Channels : asend'[d] \subseteq asend[d] /\ arecv'[d] \subseteq arecv[d]
      BY <1>1, <1>2, <1>3, <2>1, ReturnWith, Zenon
    <2>3. Buffers'
      BY <1>4, <2>1, Zenon DEF Buffers
    <2>4. Values_got'
      <3>1. pc[u] = "switch"
        BY <2>1, Zenon DEF With, Waiting
      <3>. QED  BY <1>4, <1>7, <2>1, <2>2, <3>1 DEF Values_got, Returned
    <2>5. NoMissedMatch'
      BY <1>4, <2>1, <2>2 DEF NoMissedMatch
    <2>. QED  BY <2>2, <2>3, <2>4, <2>5, PartsPrime, Zenon
  <1>11. ASSUME NEW u \in Threads, NEW j \in Nat, Shift(t, i, u, j)
         PROVE  IInv'
    <2>1. /\ With(u, j) /\ Op(u, j).op = "CHANSND" /\ nbuf[c] > 0
          /\ got' = [got EXCEPT ![t] = buf[c][off[c]]]
          /\ off' = [off EXCEPT ![c] = after(c)]
          /\ buf' = [buf EXCEPT ![c][(after(c) + (nbuf[c] - 1)) % bufsize[c]] = Op(u, j).v]
          /\ nbuf' = nbuf
      BY <1>11, Zenon DEF Shift, c
    <2>2. /\ Arrays' /\ Returned' /\ Waiting' = Waiting \ {u} /\ u # t
          /\ \A d \in Channels : asend'[d] \subseteq asend[d] /\ arecv'[d] \subseteq arecv[d]
      BY <1>1, <1>2, <1>3, <2>1, ReturnWith, Zenon
    <2>3. Buffers'
      <3>1. Op(u, j).v \in Values
        BY <2>1, Offered, Zenon DEF With, Waiting
      <3>. QED  BY <1>3, <1>4, <2>1, <3>1, ShiftBuffers, Zenon
    <2>4. Values_got'
      BY <1>4, <1>6, <1>7, <2>1, <2>2 DEF Values_got, Returned
    <2>5. NoMissedMatch'
      BY <1>4, <2>1, <2>2 DEF NoMissedMatch
    <2>. QED  BY <2>2, <2>3, <2>4, <2>5, PartsPrime, Zenon
  <1>. QED  BY <1>2, <1>8, <1>9, <1>10, <1>11, Zenon

\* The other actions.
LEMMA OfferPreserves ==
    ASSUME IInv, NEW t \in Threads, NEW a \in Alts, chanalt(t, a)
    PROVE  IInv'
  <1>1. Arrays /\ Returned /\ Buffers /\ Values_got /\ NoMissedMatch
    BY Parts, Zenon
  <1>2. /\ pc[t] = "idle" /\ ~aborted
        /\ alt' = [alt EXCEPT ![t] = a] /\ talt' = [talt EXCEPT ![t] = 1]
        /\ ret' = [ret EXCEPT ![t] = 0] /\ got' = [got EXCEPT ![t] = nil]
        /\ pc' = [pc EXCEPT ![t] = "chanlock"]
        /\ UNCHANGED <<buf, off, nbuf, asend, arecv, runnable, aborted>>
    BY Zenon DEF chanalt, chanvars, at
  <1>3. Waiting' = Waiting /\ t \notin Waiting /\ t \notin runnable /\ a # nil
    BY <1>1, <1>2, ChannelAssumption, Zenon DEF Waiting, Returned
  <1>4. Arrays'
    BY <1>1, <1>2, <1>3, ArraysKept, Zenon DEF Returned, Waiting
  <1>5. Returned'
    BY <1>1, <1>2, <1>3 DEF Returned, Ops
  <1>6. Buffers' /\ NoMissedMatch'
    BY <1>1, <1>2, Zenon DEF Buffers, NoMissedMatch
  <1>7. Values_got'
    BY <1>1, <1>2, <1>3, Zenon DEF Values_got, Returned
  <1>. QED  BY <1>4, <1>5, <1>6, <1>7, PartsPrime, Zenon

LEMMA NoblkPreserves ==
    ASSUME IInv, NEW t \in Threads, chanaltnoblk(t)
    PROVE  IInv'
  <1>1. Arrays /\ Returned /\ Buffers /\ Values_got /\ NoMissedMatch
    BY Parts, Zenon
  <1>2. /\ pc[t] = "chanlock" /\ return(t, 0 - 1) /\ Alone /\ aborted' = FALSE
        /\ pc' = [pc EXCEPT ![t] = "idle"]
        /\ UNCHANGED <<buf, off, nbuf, asend, arecv, talt, got, runnable, aborted>>
    BY <1>1 DEF chanaltnoblk, chanvars, at, Alone, Returned, return
  <1>3. Arrays' /\ Returned' /\ Waiting' = Waiting
    BY <1>2, ReturnAlone, Zenon
  <1>6. Buffers' /\ NoMissedMatch'
    BY <1>1, <1>2, Zenon DEF Buffers, NoMissedMatch
  <1>7. Values_got'
    BY <1>1, <1>2, <1>3, Zenon DEF Values_got, Returned
  <1>. QED  BY <1>3, <1>6, <1>7, PartsPrime, Zenon

LEMMA ReturnPreserves ==
    ASSUME IInv, NEW t \in Threads, chanaltreturn(t)
    PROVE  IInv'
  <1>1. Arrays /\ Returned /\ Buffers /\ Values_got /\ NoMissedMatch
    BY Parts, Zenon
  <1>2. /\ pc[t] = "switch" /\ t \in runnable /\ runnable' = runnable \ {t}
        /\ ret' = [ret EXCEPT ![t] = talt[t] - 1]
        /\ alt' = [alt EXCEPT ![t] = nil] /\ pc' = [pc EXCEPT ![t] = "idle"]
        /\ aborted' = FALSE
        /\ UNCHANGED <<buf, off, nbuf, asend, arecv, talt, got>>
    BY <1>1, Zenon DEF chanaltreturn, chanvars, at, return, Returned, Ops
  <1>3. Waiting' = Waiting /\ t \notin Waiting
    BY <1>1, <1>2, Zenon DEF Waiting, Returned
  <1>4. Arrays'
    BY <1>1, <1>2, <1>3, ArraysKept, Zenon DEF Returned, Waiting
  <1>5. Returned'
    BY <1>1, <1>2 DEF Returned, Ops
  <1>6. Buffers' /\ NoMissedMatch'
    BY <1>1, <1>2, Zenon DEF Buffers, NoMissedMatch
  <1>7. Values_got'
    BY <1>1, <1>2, <1>3, Zenon DEF Values_got, Returned
  <1>. QED  BY <1>4, <1>5, <1>6, <1>7, PartsPrime, Zenon

\* What it means that none of a thread's operations can be carried out.
LEMMA Cannot ==
    ASSUME IInv, NEW t \in Threads, pc[t] = "chanlock", can(t) = {}, NEW i \in Ops(t)
    PROVE  LET c == Op(t, i).c IN
           /\ c \in Channels /\ i \in Nat
           /\ Op(t, i).op \in {"CHANSND", "CHANRCV", "CHANNOP"}
           /\ Op(t, i).op = "CHANSND" => nbuf[c] = bufsize[c] /\ arecv[c] = {}
           /\ Op(t, i).op = "CHANRCV" => nbuf[c] = 0 /\ asend[c] = {}
  <1>. DEFINE c == Op(t, i).c
  <1>1. c \in Channels /\ i \in Nat /\ Op(t, i).op \in {"CHANSND", "CHANRCV", "CHANNOP"}
    BY Offered, Zenon
  <1>2. bufsize[c] \in Nat /\ nbuf[c] \in 0..bufsize[c]
    BY <1>1, ChannelAssumption, Zenon DEF IInv, TypeOK
  <1>3. ~altcanexec(<<t, i>>) /\ entry(<<t, i>>) = Op(t, i)
    BY Zenon DEF can, entries, Ops, Op, entry
  <1>4. /\ arecv[c] # {} => nbuf[c] = 0
        /\ asend[c] # {} => nbuf[c] = bufsize[c]
    BY <1>1, Zenon DEF IInv, NoMissedMatch
  <1>. HIDE DEF c
  <1>5. CASE Op(t, i).op = "CHANSND"
    <2>1. /\ ~(bufsize[c] = 0 /\ arecv[c] # {})
          /\ ~(bufsize[c] > 0 /\ nbuf[c] < bufsize[c])
      BY <1>3, <1>5, Zenon DEF altcanexec, chanarray, otherop, c
    <2>2. nbuf[c] = bufsize[c] /\ arecv[c] = {}
      BY <1>2, <1>4, <2>1
    <2>. QED  BY <1>1, <1>5, <2>2, Zenon DEF c
  <1>6. CASE Op(t, i).op = "CHANRCV"
    <2>1. /\ ~(bufsize[c] = 0 /\ asend[c] # {})
          /\ ~(bufsize[c] > 0 /\ nbuf[c] > 0)
      BY <1>3, <1>6, Zenon DEF altcanexec, chanarray, otherop, c
    <2>2. nbuf[c] = 0 /\ asend[c] = {}
      BY <1>2, <1>4, <2>1
    <2>. QED  BY <1>1, <1>6, <2>2, Zenon DEF c
  <1>. QED  BY <1>1, <1>5, <1>6, Zenon DEF c

LEMMA BlockPreserves ==
    ASSUME IInv, NEW t \in Threads, chanaltblock(t)
    PROVE  IInv'
  <1>1. Arrays /\ Returned /\ Buffers /\ Values_got /\ NoMissedMatch
    BY Parts, Zenon
  <1>2. /\ pc[t] = "chanlock" /\ can(t) = {} /\ pc' = [pc EXCEPT ![t] = "switch"]
        /\ UNCHANGED <<buf, off, nbuf, alt, talt, got, ret, runnable, aborted>>
    BY Zenon DEF chanaltblock, at
  <1>3. Waiting' = Waiting \cup {t} /\ t \notin Waiting /\ t \notin runnable
    BY <1>1, <1>2, Zenon DEF Waiting, Returned
  <1>. DEFINE S(op, d) == {x \in ops(t) : entry(x).op = op /\ entry(x).c = d}
  <1>4. /\ asend' = [d \in Channels |-> asend[d] \cup S("CHANSND", d)]
        /\ arecv' = [d \in Channels |-> arecv[d] \cup S("CHANRCV", d)]
    BY Zenon DEF chanaltblock, altqueue
  <1>5. ASSUME NEW op \in {"CHANSND", "CHANRCV"}, NEW d \in Channels
        PROVE  /\ S(op, d) \subseteq Threads \X Nat
               /\ \A v \in Threads, k \in Nat :
                     <<v, k>> \in S(op, d) <=> v = t /\ k \in Ops(t) /\ Op(t, k).c = d /\ Op(t, k).op = op
    <2>1. \A x : x \in S(op, d) <=> \E k \in Ops(t) : x = <<t, k>> /\ Op(t, k).c = d /\ Op(t, k).op = op
      BY DEF ops, entries, entry, Ops, Op
    <2>2. Ops(t) \subseteq Nat
      BY <1>2, Offered, Zenon
    <2>. HIDE DEF S
    <2>. QED  BY <2>1, <2>2
  <1>. HIDE DEF S
  <1>6. Arrays'
    <2>1. /\ asend' \in [Channels -> SUBSET (Threads \X Nat)]
          /\ arecv' \in [Channels -> SUBSET (Threads \X Nat)]
      BY <1>1, <1>4, <1>5, Zenon DEF Arrays
    <2>2. ASSUME NEW d \in Channels, NEW v \in Threads, NEW k \in Nat
          PROVE  /\ <<v, k>> \in asend'[d] <=> Waits(v, k, d, "CHANSND")'
                 /\ <<v, k>> \in arecv'[d] <=> Waits(v, k, d, "CHANRCV")'
      <3>1. /\ <<v, k>> \in asend[d] <=> Waits(v, k, d, "CHANSND")
            /\ <<v, k>> \in arecv[d] <=> Waits(v, k, d, "CHANRCV")
        BY <1>1, Zenon DEF Arrays
      <3>2. /\ <<v, k>> \in asend'[d] <=> <<v, k>> \in asend[d] \/ <<v, k>> \in S("CHANSND", d)
            /\ <<v, k>> \in arecv'[d] <=> <<v, k>> \in arecv[d] \/ <<v, k>> \in S("CHANRCV", d)
        BY <1>4, Zenon
      <3>3. /\ Ops(v)' = Ops(v) /\ Op(v, k)' = Op(v, k)
            /\ v \in Waiting' <=> v \in Waiting \/ v = t
        BY <1>2, <1>3, Zenon DEF Ops, Op
      <3>. QED  BY <1>3, <1>5, <3>1, <3>2, <3>3 DEF Waits
    <2>. QED  BY <2>1, <2>2, Zenon DEF Arrays
  <1>7. Returned'
    BY <1>1, <1>2, <1>3, Zenon DEF Returned, Ops
  <1>8. Buffers'
    BY <1>1, <1>2, Zenon DEF Buffers
  <1>9. Values_got'
    BY <1>1, <1>2, <1>3, Zenon DEF Values_got, Returned
  <1>10. NoMissedMatch'
    <2>. SUFFICES ASSUME NEW d \in Channels
                  PROVE  /\ arecv'[d] # {} => nbuf[d] = 0
                         /\ asend'[d] # {} => nbuf[d] = bufsize[d]
                         /\ \A x \in asend'[d], y \in arecv'[d] : x[1] = y[1]
      BY <1>2, Zenon DEF NoMissedMatch
    <2>1. /\ arecv[d] # {} => nbuf[d] = 0
          /\ asend[d] # {} => nbuf[d] = bufsize[d]
          /\ \A x \in asend[d], y \in arecv[d] : x[1] = y[1]
      BY <1>1, Zenon DEF NoMissedMatch
    <2>2. /\ asend'[d] = asend[d] \cup S("CHANSND", d)
          /\ arecv'[d] = arecv[d] \cup S("CHANRCV", d)
      BY <1>4, Zenon
    <2>3. ASSUME NEW x \in S("CHANSND", d)
          PROVE  x[1] = t /\ nbuf[d] = bufsize[d] /\ arecv[d] = {}
      <3>1. PICK v \in Threads, k \in Nat : x = <<v, k>>
        BY <1>5
      <3>2. v = t /\ k \in Ops(t) /\ Op(t, k).c = d /\ Op(t, k).op = "CHANSND"
        BY <1>5, <3>1, Zenon
      <3>. QED  BY <1>2, <3>1, <3>2, Cannot, Zenon
    <2>4. ASSUME NEW x \in S("CHANRCV", d)
          PROVE  x[1] = t /\ nbuf[d] = 0 /\ asend[d] = {}
      <3>1. PICK v \in Threads, k \in Nat : x = <<v, k>>
        BY <1>5
      <3>2. v = t /\ k \in Ops(t) /\ Op(t, k).c = d /\ Op(t, k).op = "CHANRCV"
        BY <1>5, <3>1, Zenon
      <3>. QED  BY <1>2, <3>1, <3>2, Cannot, Zenon
    <2>. QED  BY <2>1, <2>2, <2>3, <2>4, Zenon
  <1>. QED  BY <1>6, <1>7, <1>8, <1>9, <1>10, PartsPrime, Zenon

LEMMA Stutter == IInv /\ UNCHANGED vars => IInv'
  <1>. SUFFICES ASSUME IInv, UNCHANGED vars PROVE IInv'
    BY Zenon
  <1>1. UNCHANGED <<buf, off, nbuf, asend, arecv, alt, talt, got, ret, pc, runnable, aborted>>
    BY Zenon DEF vars, chanvars
  <1>2. Arrays /\ Returned /\ Buffers /\ Values_got /\ NoMissedMatch /\ Waiting' = Waiting
    BY <1>1, Parts, Zenon DEF Waiting
  <1>3. Arrays' /\ Returned'
    BY <1>1, <1>2 DEF Arrays, Returned, Waits, Ops, Op
  <1>4. Buffers' /\ Values_got' /\ NoMissedMatch'
    BY <1>1, <1>2, Zenon DEF Buffers, Values_got, NoMissedMatch
  <1>. QED  BY <1>3, <1>4, PartsPrime, Zenon

----------------------------------------------------------------------------
(* The refinement.  Queue, Offers and Index are the mapping's expressions. *)

Queue == [c \in Channels |-> Ring(buf[c], off[c], nbuf[c], bufsize[c])]
Offers == [t \in Threads |-> IF t \in runnable THEN nil ELSE alt[t]]
Index == [t \in Threads |-> IF t \in runnable THEN talt[t] - 1 ELSE ret[t]]

\* The queue of a channel, and what the three changes of its buffer do to it.
LEMMA QueueLen ==
    ASSUME Buffers, NEW c \in Channels
    PROVE  /\ Queue[c] \in Seq(Values \cup {nil}) /\ Len(Queue[c]) = nbuf[c]
           /\ nbuf[c] \in 0..bufsize[c] /\ bufsize[c] \in Nat
  <1>. DEFINE n == bufsize[c]
              r == Ring(buf[c], off[c], nbuf[c], n)
  <1>1. /\ buf[c] \in [0..(n - 1) -> Values \cup {nil}] /\ n \in Nat
        /\ off[c] = 0 \/ off[c] \in 1..(n - 1)
        /\ nbuf[c] \in 0..n
    BY ChannelAssumption, Zenon DEF Buffers
  <1>. HIDE DEF n
  <1>2. r \in [1..nbuf[c] -> Values \cup {nil}]
    <2>1. ASSUME NEW i \in 1..nbuf[c] PROVE (off[c] + i - 1) % n \in 0..(n - 1)
      <3>1. off[c] + i - 1 \in 0..(2 * n - 1) /\ n > 0
        BY <1>1, SMTT(30)
      <3>. QED  BY <1>1, <3>1
    <2>. QED  BY <1>1, <2>1, Zenon DEF Ring
  <1>3. r \in Seq(Values \cup {nil}) /\ Len(r) = nbuf[c]
    <2>. HIDE DEF r
    <2>1. nbuf[c] \in Nat
      BY <1>1
    <2>. QED  BY <1>2, <2>1
  <1>4. Queue[c] = r
    BY Zenon DEF Queue, n
  <1>. QED  BY <1>1, <1>3, <1>4, Zenon DEF n

LEMMA PutQueue ==
    ASSUME Buffers, NEW c \in Channels, nbuf[c] < bufsize[c], NEW v \in Values,
           buf' = [buf EXCEPT ![c][(off[c] + nbuf[c]) % bufsize[c]] = v],
           nbuf' = [nbuf EXCEPT ![c] = @ + 1], off' = off
    PROVE  Queue' = [Queue EXCEPT ![c] = Append(@, v)]
  <1>. DEFINE n == bufsize[c]
              w == (off[c] + nbuf[c]) % n
  <1>0. /\ buf[c] \in [0..(n - 1) -> Values \cup {nil}] /\ n \in Nat
        /\ off[c] = 0 \/ off[c] \in 1..(n - 1)
        /\ nbuf[c] \in 0..n
    BY ChannelAssumption, Zenon DEF Buffers
  <1>1. n \in Nat \ {0} /\ off[c] \in 0..(n - 1) /\ nbuf[c] \in 0..(n - 1)
    BY <1>0
  <1>2. Ring([buf[c] EXCEPT ![w] = v], off[c], nbuf[c] + 1, n)
            = Append(Ring(buf[c], off[c], nbuf[c], n), v)
    <2>. DEFINE b == buf[c]
                o == off[c]
                k == nbuf[c]
    <2>1. n \in Nat \ {0} /\ b \in [0..(n - 1) -> Element] /\ o \in 0..(n - 1) /\ k \in 0..(n - 1) /\ v \in Element
      BY <1>0, <1>1, Zenon DEF Element
    <2>. HIDE DEF n, b, o, k
    <2>2. Ring(Written(b, o, k, n, v), o, k + 1, n) = Append(Ring(b, o, k, n), v)
      BY <2>1, RingPut, ZenonT(60)
    <2>. QED  BY <2>2, Zenon DEF b, o, k, Written
  <1>3. /\ buf'[c] = [buf[c] EXCEPT ![w] = v] /\ nbuf'[c] = nbuf[c] + 1 /\ off'[c] = off[c]
        /\ \A d \in Channels \ {c} : buf'[d] = buf[d] /\ nbuf'[d] = nbuf[d] /\ off'[d] = off[d]
    BY Zenon DEF Buffers
  <1>4. Queue'[c] = Append(Queue[c], v)
    BY <1>2, <1>3, Zenon DEF Queue
  <1>5. \A d \in Channels \ {c} : Queue'[d] = Queue[d]
    BY <1>3 DEF Queue
  <1>. QED  BY <1>4, <1>5, Zenon DEF Queue

LEMMA TakeQueue ==
    ASSUME Buffers, NEW c \in Channels, nbuf[c] > 0,
           off' = [off EXCEPT ![c] = after(c)],
           nbuf' = [nbuf EXCEPT ![c] = @ - 1], buf' = buf
    PROVE  /\ Queue' = [Queue EXCEPT ![c] = Tail(@)]
           /\ Queue[c] # <<>> /\ Head(Queue[c]) = buf[c][off[c]]
  <1>. DEFINE n == bufsize[c]
  <1>0. /\ buf[c] \in [0..(n - 1) -> Values \cup {nil}] /\ n \in Nat
        /\ off[c] = 0 \/ off[c] \in 1..(n - 1)
        /\ nbuf[c] \in 0..n
    BY ChannelAssumption, Zenon DEF Buffers
  <1>1. n \in Nat \ {0} /\ off[c] \in 0..(n - 1) /\ nbuf[c] \in 1..n
    BY <1>0
  <1>2. /\ Ring(buf[c], off[c], nbuf[c], n) # <<>>
        /\ Head(Ring(buf[c], off[c], nbuf[c], n)) = buf[c][off[c]]
        /\ Ring(buf[c], after(c), nbuf[c] - 1, n) = Tail(Ring(buf[c], off[c], nbuf[c], n))
    <2>. DEFINE b == buf[c]
                o == off[c]
                k == nbuf[c]
    <2>1. n \in Nat \ {0} /\ b \in [0..(n - 1) -> Element] /\ o \in 0..(n - 1) /\ k \in 1..n
      BY <1>0, <1>1, Zenon DEF Element
    <2>. HIDE DEF n, b, o, k
    <2>2. /\ Ring(b, o, k, n) \in Seq(Element) /\ Ring(b, o, k, n) # <<>>
          /\ Head(Ring(b, o, k, n)) = b[o]
          /\ Ring(b, IF o + 1 = n THEN 0 ELSE o + 1, k - 1, n) = Tail(Ring(b, o, k, n))
      BY <2>1, RingTake, Zenon
    <2>. QED  BY <2>2, Zenon DEF b, o, k, n, Element, after
  <1>3. /\ nbuf'[c] = nbuf[c] - 1 /\ off'[c] = after(c)
        /\ \A d \in Channels \ {c} : nbuf'[d] = nbuf[d] /\ off'[d] = off[d]
    BY Zenon DEF Buffers
  <1>4. Queue'[c] = Tail(Queue[c])
    BY <1>2, <1>3, Zenon DEF Queue
  <1>5. \A d \in Channels \ {c} : Queue'[d] = Queue[d]
    BY <1>3 DEF Queue
  <1>6. Queue[c] # <<>> /\ Head(Queue[c]) = buf[c][off[c]]
    BY <1>2, Zenon DEF Queue
  <1>7. Queue = [d \in Channels |-> Queue[d]] /\ Queue' = [d \in Channels |-> Queue'[d]]
    BY DEF Queue
  <1>. QED  BY <1>4, <1>5, <1>6, <1>7, Zenon

LEMMA ShiftQueue ==
    ASSUME Buffers, NEW c \in Channels, nbuf[c] > 0, nbuf[c] = bufsize[c], NEW v \in Values,
           off' = [off EXCEPT ![c] = after(c)],
           buf' = [buf EXCEPT ![c][(after(c) + (nbuf[c] - 1)) % bufsize[c]] = v],
           nbuf' = nbuf
    PROVE  /\ Queue' = [Queue EXCEPT ![c] = Tail(Append(@, v))]
           /\ Head(Append(Queue[c], v)) = buf[c][off[c]]
  <1>. DEFINE n == bufsize[c]
              r == Ring(buf[c], off[c], nbuf[c], n)
              w == (after(c) + (nbuf[c] - 1)) % n
  <1>0. /\ buf[c] \in [0..(n - 1) -> Values \cup {nil}] /\ n \in Nat
        /\ off[c] = 0 \/ off[c] \in 1..(n - 1)
        /\ nbuf[c] \in 0..n
    BY ChannelAssumption, Zenon DEF Buffers
  <1>1. n \in Nat \ {0} /\ off[c] \in 0..(n - 1) /\ nbuf[c] \in 1..n /\ nbuf[c] - 1 \in 0..(n - 1)
    BY <1>0
  <1>2. /\ r \in Seq(Values \cup {nil}) /\ r # <<>>
        /\ Head(r) = buf[c][off[c]]
        /\ Ring(buf[c], after(c), nbuf[c] - 1, n) = Tail(r)
    <2>. DEFINE b == buf[c]
                o == off[c]
                k == nbuf[c]
    <2>1. n \in Nat \ {0} /\ b \in [0..(n - 1) -> Element] /\ o \in 0..(n - 1) /\ k \in 1..n
      BY <1>0, <1>1, Zenon DEF Element
    <2>. HIDE DEF n, b, o, k
    <2>2. /\ Ring(b, o, k, n) \in Seq(Element) /\ Ring(b, o, k, n) # <<>>
          /\ Head(Ring(b, o, k, n)) = b[o]
          /\ Ring(b, IF o + 1 = n THEN 0 ELSE o + 1, k - 1, n) = Tail(Ring(b, o, k, n))
      BY <2>1, RingTake, Zenon
    <2>. QED  BY <2>2, Zenon DEF b, o, k, n, Element, after
  <1>3. after(c) \in 0..(n - 1)
    BY <1>1 DEF after
  <1>4. Ring([buf[c] EXCEPT ![w] = v], after(c), (nbuf[c] - 1) + 1, n)
            = Append(Ring(buf[c], after(c), nbuf[c] - 1, n), v)
    <2>. DEFINE b == buf[c]
                o == after(c)
                k == nbuf[c] - 1
    <2>1. n \in Nat \ {0} /\ b \in [0..(n - 1) -> Element] /\ o \in 0..(n - 1) /\ k \in 0..(n - 1) /\ v \in Element
      BY <1>0, <1>1, <1>3, Zenon DEF Element
    <2>. HIDE DEF n, b, o, k
    <2>2. Ring(Written(b, o, k, n, v), o, k + 1, n) = Append(Ring(b, o, k, n), v)
      BY <2>1, RingPut, ZenonT(60)
    <2>. QED  BY <2>2, Zenon DEF b, o, k, Written
  <1>5. (nbuf[c] - 1) + 1 = nbuf[c]
    BY <1>1
  <1>6. /\ buf'[c] = [buf[c] EXCEPT ![w] = v] /\ off'[c] = after(c)
        /\ \A d \in Channels \ {c} : buf'[d] = buf[d] /\ off'[d] = off[d]
    BY Zenon DEF Buffers
  <1>7. Queue[c] = r /\ Queue'[c] = Ring(buf'[c], off'[c], nbuf[c], n)
    BY Zenon DEF Queue
  <1>8. Tail(Append(r, v)) = Append(Tail(r), v) /\ Head(Append(r, v)) = Head(r)
    <2>. HIDE DEF r
    <2>. QED  BY <1>2
  <1>9. Queue'[c] = Tail(Append(Queue[c], v))
    BY <1>2, <1>4, <1>5, <1>6, <1>7, <1>8, Zenon
  <1>10. \A d \in Channels \ {c} : Queue'[d] = Queue[d]
    BY <1>6 DEF Queue
  <1>11. Head(Append(Queue[c], v)) = buf[c][off[c]]
    BY <1>2, <1>7, <1>8, Zenon
  <1>. QED  BY <1>9, <1>10, <1>11, Zenon DEF Queue

\* The abstract operations of a thread that has not been served are its own.
LEMMA AbstractOp ==
    ASSUME NEW t \in Threads, t \notin runnable
    PROVE  Abstract!Ops(t) = Ops(t) /\ \A i : Abstract!Op(t, i) = Op(t, i)
  BY Zenon DEF Abstract!Ops, Abstract!Op, Ops, Op

\* It has no partner when the opposite array is empty.
LEMMA Partnerless ==
    ASSUME IInv, NEW t \in Threads, pc[t] = "chanlock", NEW i \in Ops(t),
           LET c == Op(t, i).c IN
           /\ Op(t, i).op = "CHANSND" => arecv[c] = {}
           /\ Op(t, i).op = "CHANRCV" => asend[c] = {}
    PROVE  Abstract!NoPartner(t, i)
  <1>. SUFFICES ASSUME NEW u \in Waiting, NEW j \in Abstract!Ops(u), Abstract!Opposite(t, i, u, j)
                PROVE  FALSE
    BY Zenon DEF Abstract!NoPartner
  <1>1. t \notin runnable /\ u \in Threads /\ u \notin runnable /\ pc[u] = "switch"
    BY Zenon DEF Waiting, IInv, TypeOK
  <1>2. j \in Ops(u) /\ Op(t, i).c = Op(u, j).c
        /\ {Op(t, i).op, Op(u, j).op} = {"CHANSND", "CHANRCV"}
    BY <1>1, AbstractOp, Zenon DEF Abstract!Opposite
  <1>3. Op(t, i).c \in Channels /\ j \in Nat
    BY <1>1, <1>2, Offered, Zenon
  <1>4. \/ Op(t, i).op = "CHANSND" /\ Op(u, j).op = "CHANRCV"
        \/ Op(t, i).op = "CHANRCV" /\ Op(u, j).op = "CHANSND"
    BY <1>2, Zenon
  <1>5. \A c \in Channels, v \in Threads, k \in Nat :
            /\ <<v, k>> \in asend[c] <=> Waits(v, k, c, "CHANSND")
            /\ <<v, k>> \in arecv[c] <=> Waits(v, k, c, "CHANRCV")
    BY Zenon DEF IInv
  <1>6. Waits(u, j, Op(t, i).c, Op(u, j).op)
    BY <1>2, Zenon DEF Waits
  <1>. QED  BY <1>1, <1>3, <1>4, <1>5, <1>6, Zenon

\* What return does to the abstract state, alone or with a partner.
LEMMA AbstractReturnAlone ==
    ASSUME IInv, NEW t \in Threads, pc[t] = "chanlock", NEW k \in Int, return(t, k), Alone
    PROVE  /\ t \notin runnable /\ t \notin Waiting /\ Waiting' = Waiting
           /\ Offers[t] # nil /\ Offers' = [Offers EXCEPT ![t] = nil]
           /\ Index' = [Index EXCEPT ![t] = k]
  <1>1. /\ alt' = [alt EXCEPT ![t] = nil] /\ pc' = [pc EXCEPT ![t] = "idle"]
        /\ ret' = [ret EXCEPT ![t] = k]
        /\ UNCHANGED <<talt, runnable>>
    BY Zenon DEF return, Alone
  <1>2. /\ alt \in [Threads -> Alts \cup {nil}] /\ ret \in [Threads -> Int]
        /\ pc \in [Threads -> {"idle", "chanlock", "switch"}]
        /\ t \notin runnable /\ alt[t] # nil
    BY Zenon DEF IInv, TypeOK
  <1>3. t \notin Waiting /\ Waiting' = Waiting
    BY <1>1, <1>2, Zenon DEF Waiting
  <1>4. Offers' = [Offers EXCEPT ![t] = nil] /\ Offers[t] # nil
    BY <1>1, <1>2, Zenon DEF Offers
  <1>5. Index' = [Index EXCEPT ![t] = k]
    BY <1>1, <1>2, Zenon DEF Index
  <1>. QED  BY <1>2, <1>3, <1>4, <1>5, Zenon

LEMMA AbstractReturnWith ==
    ASSUME IInv, NEW t \in Threads, pc[t] = "chanlock", NEW k \in Int, return(t, k),
           NEW u \in Threads, NEW j \in Nat, With(u, j)
    PROVE  /\ t \notin runnable /\ t \notin Waiting /\ u \in Waiting /\ u \notin runnable /\ u # t
           /\ Waiting' = Waiting \ {t, u}
           /\ Offers[t] # nil /\ Offers[u] # nil
           /\ Offers' = [Offers EXCEPT ![t] = nil, ![u] = nil]
           /\ Index' = [Index EXCEPT ![t] = k, ![u] = j - 1]
           /\ got[t] = nil /\ got[u] = nil
  <1>1. /\ alt' = [alt EXCEPT ![t] = nil] /\ pc' = [pc EXCEPT ![t] = "idle"]
        /\ ret' = [ret EXCEPT ![t] = k]
        /\ talt' = [talt EXCEPT ![u] = j] /\ runnable' = runnable \cup {u} /\ u \in Waiting
    BY Zenon DEF return, With
  <1>2. /\ alt \in [Threads -> Alts \cup {nil}] /\ ret \in [Threads -> Int]
        /\ talt \in [Threads -> Nat]
        /\ pc \in [Threads -> {"idle", "chanlock", "switch"}]
        /\ t \notin runnable /\ alt[t] # nil
    BY Zenon DEF IInv, TypeOK
  <1>3. u \notin runnable /\ pc[u] = "switch" /\ u # t /\ alt[u] # nil
    BY <1>1, Zenon DEF Waiting, IInv
  <1>4. t \notin Waiting /\ Waiting' = Waiting \ {t, u}
    BY <1>1, <1>2, <1>3, Zenon DEF Waiting
  <1>5. Offers' = [Offers EXCEPT ![t] = nil, ![u] = nil] /\ Offers[t] # nil /\ Offers[u] # nil
    BY <1>1, <1>2, <1>3, Zenon DEF Offers
  <1>6. Index' = [Index EXCEPT ![t] = k, ![u] = j - 1]
    BY <1>1, <1>2, <1>3, Zenon DEF Index
  <1>7. got[t] = nil /\ got[u] = nil
    BY <1>1, Zenon DEF IInv
  <1>. QED  BY <1>1, <1>2, <1>3, <1>4, <1>5, <1>6, <1>7, Zenon

\* The actions of Alternation in terms of the mapping.
LEMMA AbstractPut ==
    ASSUME NEW t \in Threads, NEW i \in Abstract!Ops(t), Offers[t] # nil,
           t \notin Waiting, Abstract!NoPartner(t, i),
           Abstract!Op(t, i).op = "CHANSND",
           Len(Queue[Abstract!Op(t, i).c]) < bufsize[Abstract!Op(t, i).c],
           Queue' = [Queue EXCEPT ![Abstract!Op(t, i).c] = Append(@, Abstract!Op(t, i).v)],
           Offers' = [Offers EXCEPT ![t] = nil], Index' = [Index EXCEPT ![t] = i - 1],
           got' = [got EXCEPT ![t] = nil], Waiting' = Waiting
    PROVE  Abstract!Next
  <1>1. Abstract!Put(t, i)
    BY Zenon DEF Abstract!Put, Abstract!HasRoom, Abstract!Done, Queue, Ring, Offers, Index
  <1>2. t \in Abstract!Offering
    BY Zenon DEF Abstract!Offering, Offers
  <1>. QED  BY <1>1, <1>2, Zenon DEF Abstract!Next

LEMMA AbstractTake ==
    ASSUME NEW t \in Threads, NEW i \in Abstract!Ops(t), Offers[t] # nil,
           t \notin Waiting, Abstract!NoPartner(t, i),
           Abstract!Op(t, i).op = "CHANRCV",
           Queue[Abstract!Op(t, i).c] # <<>>,
           Queue' = [Queue EXCEPT ![Abstract!Op(t, i).c] = Tail(@)],
           Offers' = [Offers EXCEPT ![t] = nil], Index' = [Index EXCEPT ![t] = i - 1],
           got' = [got EXCEPT ![t] = Head(Queue[Abstract!Op(t, i).c])], Waiting' = Waiting
    PROVE  Abstract!Next
  <1>1. Abstract!Take(t, i)
    BY Zenon DEF Abstract!Take, Abstract!HasValue, Abstract!Done, Queue, Ring, Offers, Index
  <1>2. t \in Abstract!Offering
    BY Zenon DEF Abstract!Offering, Offers
  <1>. QED  BY <1>1, <1>2, Zenon DEF Abstract!Next

LEMMA AbstractTransfer ==
    ASSUME NEW t \in Threads, NEW i \in Abstract!Ops(t), Offers[t] # nil,
           NEW u \in Threads, NEW j \in Abstract!Ops(u), Offers[u] # nil,
           Abstract!Opposite(t, i, u, j), Abstract!Op(t, i).op = "CHANSND",
           {t, u} \cap Waiting # {}, ~({t, u} \subseteq Waiting), u # t,
           Queue' = [Queue EXCEPT ![Abstract!Op(t, i).c] =
                        Tail(Append(@, Abstract!Op(t, i).v))],
           Offers' = [Offers EXCEPT ![t] = nil, ![u] = nil],
           Index' = [Index EXCEPT ![t] = i - 1, ![u] = j - 1],
           got' = [got EXCEPT ![t] = nil, ![u] =
                        Head(Append(Queue[Abstract!Op(t, i).c], Abstract!Op(t, i).v))],
           Waiting' = Waiting \ {t, u}
    PROVE  Abstract!Next
  <1>2. Abstract!Transfer(t, i, u, j)
    BY Zenon DEF Abstract!Transfer, Abstract!BothDone, Queue, Ring, Offers, Index
  <1>3. t \in Abstract!Offering /\ u \in Abstract!Offering \ {t}
    BY Zenon DEF Abstract!Offering, Offers
  <1>. QED  BY <1>2, <1>3, Zenon DEF Abstract!Next

LEMMA AbstractTurnDown ==
    ASSUME NEW t \in Threads, Offers[t] # nil, ~Offers[t].canblock,
           \A i \in Abstract!Ops(t) : ~Abstract!CanProceed(t, i),
           Queue' = Queue, Offers' = [Offers EXCEPT ![t] = nil],
           Index' = [Index EXCEPT ![t] = 0 - 1], got' = [got EXCEPT ![t] = nil],
           Waiting' = Waiting
    PROVE  Abstract!Next
  <1>1. Abstract!TurnDown(t)
    <2>1. -1 + 1 - 1 = 0 - 1
      OBVIOUS
    <2>2. Abstract!Done(t, -1 + 1, nil)
      BY <2>1, SMT DEF Abstract!Done, Queue, Ring, Offers, Index
    <2>. QED  BY <2>2, Zenon DEF Abstract!TurnDown, Queue, Ring, Offers, Index
  <1>2. t \in Abstract!Offering
    BY Zenon DEF Abstract!Offering, Offers
  <1>. QED  BY <1>1, <1>2, Zenon DEF Abstract!Next

LEMMA AbstractWait ==
    ASSUME NEW t \in Threads, Offers[t] # nil, Offers[t].canblock, t \notin Waiting,
           \A i \in Abstract!Ops(t) : ~Abstract!CanProceed(t, i),
           Queue' = Queue, Offers' = Offers, Index' = Index, got' = got,
           Waiting' = Waiting \cup {t}
    PROVE  Abstract!Next
  <1>1. Abstract!Wait(t)
    BY Zenon DEF Abstract!Wait, Queue, Ring, Offers, Index
  <1>2. t \in Abstract!Offering
    BY Zenon DEF Abstract!Offering, Offers
  <1>. QED  BY <1>1, <1>2, Zenon DEF Abstract!Next

LEMMA AbstractOffer ==
    ASSUME NEW t \in Threads, NEW a \in Alts, Offers[t] = nil,
           Queue' = Queue, Offers' = [Offers EXCEPT ![t] = a],
           Index' = [Index EXCEPT ![t] = 0], got' = [got EXCEPT ![t] = nil],
           Waiting' = Waiting
    PROVE  Abstract!Next
  <1>1. Abstract!Offer(t, a)
    BY Zenon DEF Abstract!Offer, Queue, Ring, Offers, Index
  <1>. QED  BY <1>1, Zenon DEF Abstract!Next

LEMMA AbstractStutter ==
    ASSUME Queue' = Queue, Offers' = Offers, Index' = Index, got' = got, Waiting' = Waiting
    PROVE  UNCHANGED Abstract!vars
  BY Zenon DEF Abstract!vars, Queue, Ring, Offers, Index

\* None of the operations of a thread that may not execute can proceed.
LEMMA Stuck ==
    ASSUME IInv, NEW t \in Threads, pc[t] = "chanlock", can(t) = {}
    PROVE  \A i \in Abstract!Ops(t) : ~Abstract!CanProceed(t, i)
  <1>1. t \notin runnable
    BY Zenon DEF IInv, TypeOK
  <1>. SUFFICES ASSUME NEW i \in Ops(t) PROVE ~Abstract!CanProceed(t, i)
    BY <1>1, AbstractOp, Zenon
  <1>. DEFINE c == Op(t, i).c
  <1>2. Abstract!Op(t, i) = Op(t, i)
    BY <1>1, AbstractOp, Zenon
  <1>3. /\ c \in Channels
        /\ Op(t, i).op = "CHANSND" => nbuf[c] = bufsize[c] /\ arecv[c] = {}
        /\ Op(t, i).op = "CHANRCV" => nbuf[c] = 0 /\ asend[c] = {}
    BY Cannot, Zenon
  <1>4. Buffers
    BY Parts, Zenon
  <1>5. /\ Queue[c] \in Seq(Values \cup {nil}) /\ Len(Queue[c]) = nbuf[c]
        /\ nbuf[c] \in 0..bufsize[c] /\ bufsize[c] \in Nat
    BY <1>3, <1>4, QueueLen, Zenon
  <1>6. Abstract!NoPartner(t, i)
    BY <1>3, Partnerless, Zenon
  <1>7. /\ Abstract!HasRoom(c) <=> Len(Queue[c]) < bufsize[c]
        /\ Abstract!HasValue(c) <=> Queue[c] # <<>>
    BY Zenon DEF Abstract!HasRoom, Abstract!HasValue, Queue, Ring
  <1>. HIDE DEF c
  <1>8. Op(t, i).op = "CHANSND" => ~Abstract!HasRoom(c)
    BY <1>3, <1>5, <1>7
  <1>9. Op(t, i).op = "CHANRCV" => ~Abstract!HasValue(c)
    BY <1>3, <1>5, <1>7
  <1>. QED  BY <1>2, <1>6, <1>8, <1>9, Zenon DEF Abstract!CanProceed, c

\* Every step of a channel is a step of Alternation or changes nothing there.
LEMMA StepExec ==
    ASSUME Units, IInv, NEW t \in Threads, chanaltexec(t)
    PROVE  Abstract!Next
  <1>1. pc[t] = "chanlock"
    BY Executes, Zenon
  <1>2. PICK i \in Ops(t) :
            /\ return(t, i - 1)
            /\ \/ Put(t, i) \/ Take(t, i)
               \/ \E u \in Threads, j \in Nat :
                     Give(t, i, u, j) \/ Get(t, i, u, j) \/ Shift(t, i, u, j)
    BY Executes, Zenon
  <1>. DEFINE c == Op(t, i).c
  <1>3. /\ i \in Nat /\ i - 1 \in Int /\ c \in Channels
        /\ Op(t, i).op = "CHANSND" => Op(t, i).v \in Values
    BY <1>1, <1>2, Offered
  <1>4. /\ Buffers /\ t \notin runnable /\ got[t] = nil /\ got \in [Threads -> Values \cup {nil}]
    BY <1>1, Parts, Zenon DEF IInv, TypeOK
  <1>5. i \in Abstract!Ops(t) /\ Abstract!Op(t, i) = Op(t, i)
    BY <1>4, AbstractOp, Zenon
  <1>6. /\ Queue[c] \in Seq(Values \cup {nil}) /\ Len(Queue[c]) = nbuf[c]
        /\ nbuf[c] \in 0..bufsize[c] /\ bufsize[c] \in Nat
    BY <1>3, <1>4, QueueLen, Zenon
  <1>. HIDE DEF c
  <1>7. CASE Put(t, i)
    <2>1. /\ Alone /\ Op(t, i).op = "CHANSND" /\ arecv[c] = {} /\ nbuf[c] < bufsize[c]
          /\ buf' = [buf EXCEPT ![c][(off[c] + nbuf[c]) % bufsize[c]] = Op(t, i).v]
          /\ nbuf' = [nbuf EXCEPT ![c] = @ + 1]
          /\ off' = off /\ got' = got
      BY <1>7, Zenon DEF Put, c
    <2>2. Queue' = [Queue EXCEPT ![c] = Append(@, Op(t, i).v)]
      BY <1>3, <1>4, <2>1, PutQueue, Zenon
    <2>3. Abstract!NoPartner(t, i)
      BY <1>1, <2>1, Partnerless, Zenon DEF c
    <2>4. got' = [got EXCEPT ![t] = nil]
      BY <1>4, <2>1, Zenon
    <2>5. /\ t \notin Waiting /\ Waiting' = Waiting
          /\ Offers[t] # nil /\ Offers' = [Offers EXCEPT ![t] = nil]
          /\ Index' = [Index EXCEPT ![t] = i - 1]
      BY <1>1, <1>2, <1>3, <2>1, AbstractReturnAlone, Zenon
    <2>. QED  BY <1>5, <1>6, <2>1, <2>2, <2>3, <2>4, <2>5, AbstractPut, Zenon DEF c
  <1>8. CASE Take(t, i)
    <2>1. /\ Alone /\ Op(t, i).op = "CHANRCV" /\ asend[c] = {} /\ nbuf[c] > 0
          /\ off' = [off EXCEPT ![c] = after(c)]
          /\ nbuf' = [nbuf EXCEPT ![c] = @ - 1]
          /\ got' = [got EXCEPT ![t] = buf[c][off[c]]]
          /\ buf' = buf
      BY <1>8, Zenon DEF Take, c
    <2>2. /\ Queue' = [Queue EXCEPT ![c] = Tail(@)]
          /\ Queue[c] # <<>> /\ Head(Queue[c]) = buf[c][off[c]]
      BY <1>3, <1>4, <2>1, TakeQueue, Zenon
    <2>3. Abstract!NoPartner(t, i)
      BY <1>1, <2>1, Partnerless, Zenon DEF c
    <2>5. /\ t \notin Waiting /\ Waiting' = Waiting
          /\ Offers[t] # nil /\ Offers' = [Offers EXCEPT ![t] = nil]
          /\ Index' = [Index EXCEPT ![t] = i - 1]
      BY <1>1, <1>2, <1>3, <2>1, AbstractReturnAlone, Zenon
    <2>. QED  BY <1>5, <2>1, <2>2, <2>3, <2>5, AbstractTake, Zenon DEF c
  <1>9. ASSUME NEW u \in Threads, NEW j \in Nat, With(u, j), Op(u, j).c = c,
               NEW v, {Op(t, i).op, Op(u, j).op} = {"CHANSND", "CHANRCV"},
               Op(t, i).op = "CHANSND" => v = Op(t, i).v,
               Op(t, i).op = "CHANRCV" => v = Op(u, j).v,
               Queue' = [Queue EXCEPT ![c] = Tail(Append(@, v))],
               Op(t, i).op = "CHANSND" => got' = [got EXCEPT ![u] = Head(Append(Queue[c], v))],
               Op(t, i).op = "CHANRCV" => got' = [got EXCEPT ![t] = Head(Append(Queue[c], v))]
        PROVE  Abstract!Next
    <2>1. /\ t \notin Waiting /\ u \in Waiting /\ u \notin runnable /\ u # t
          /\ Waiting' = Waiting \ {t, u}
          /\ Offers[t] # nil /\ Offers[u] # nil
          /\ Offers' = [Offers EXCEPT ![t] = nil, ![u] = nil]
          /\ Index' = [Index EXCEPT ![t] = i - 1, ![u] = j - 1]
          /\ got[t] = nil /\ got[u] = nil
      BY <1>1, <1>2, <1>3, <1>9, AbstractReturnWith
    <2>2. j \in Abstract!Ops(u) /\ Abstract!Op(u, j) = Op(u, j)
      BY <1>9, <2>1, AbstractOp, Zenon DEF With
    <2>3. Op(t, i).c = c
      BY Zenon DEF c
    <2>4. Abstract!Opposite(t, i, u, j) /\ Abstract!Opposite(u, j, t, i)
      BY <1>5, <1>9, <2>2, <2>3, Zenon DEF Abstract!Opposite
    <2>5. CASE Op(t, i).op = "CHANSND"
      <3>1. got' = [got EXCEPT ![t] = nil, ![u] = Head(Append(Queue[c], v))]
        BY <1>4, <1>9, <2>1, <2>5, Zenon
      <3>. QED  BY <1>5, <1>9, <2>1, <2>2, <2>3, <2>4, <2>5, <3>1, AbstractTransfer, Zenon
    <2>6. CASE Op(t, i).op = "CHANRCV"
      <3>1. got' = [got EXCEPT ![u] = nil, ![t] = Head(Append(Queue[c], v))]
        BY <1>4, <1>9, <2>1, <2>6, Zenon
      <3>2. Op(u, j).op = "CHANSND"
        BY <1>9, <2>6, Zenon
      <3>3. /\ Waiting' = Waiting \ {u, t}
            /\ Offers' = [Offers EXCEPT ![u] = nil, ![t] = nil]
            /\ Index' = [Index EXCEPT ![u] = j - 1, ![t] = i - 1]
        BY <2>1, Zenon DEF Offers, Index
      <3>. QED  BY <1>5, <1>9, <2>1, <2>2, <2>4, <2>6, <3>1, <3>2, <3>3, AbstractTransfer, Zenon
    <2>. QED  BY <1>9, <2>5, <2>6, Zenon
  <1>10. ASSUME NEW v \in Values, nbuf[c] = 0, buf' = buf, off' = off, nbuf' = nbuf
         PROVE  /\ Queue' = [Queue EXCEPT ![c] = Tail(Append(@, v))]
                /\ Head(Append(Queue[c], v)) = v
    <2>1. Queue[c] = <<>>
      BY <1>6, <1>10
    <2>2. Tail(Append(<<>>, v)) = <<>> /\ Head(Append(<<>>, v)) = v
      OBVIOUS
    <2>3. Queue' = Queue /\ Queue = [d \in Channels |-> Queue[d]]
      BY <1>10, Zenon DEF Queue
    <2>. QED  BY <1>3, <2>1, <2>2, <2>3, Zenon
  <1>11. ASSUME NEW u \in Threads, NEW j \in Nat, Give(t, i, u, j)
         PROVE  Abstract!Next
    <2>1. /\ With(u, j) /\ Op(t, i).op = "CHANSND" /\ Op(u, j).op = "CHANRCV"
          /\ Op(u, j).c = c /\ nbuf[c] = 0
          /\ got' = [got EXCEPT ![u] = Op(t, i).v]
          /\ buf' = buf /\ off' = off /\ nbuf' = nbuf
      BY <1>11, Zenon DEF Give, c
    <2>. QED  BY <1>3, <1>9, <1>10, <2>1, Zenon
  <1>12. ASSUME NEW u \in Threads, NEW j \in Nat, Get(t, i, u, j)
         PROVE  Abstract!Next
    <2>1. /\ With(u, j) /\ Op(t, i).op = "CHANRCV" /\ Op(u, j).op = "CHANSND"
          /\ Op(u, j).c = c /\ nbuf[c] = 0
          /\ got' = [got EXCEPT ![t] = Op(u, j).v]
          /\ buf' = buf /\ off' = off /\ nbuf' = nbuf
      BY <1>12, Zenon DEF Get, c
    <2>2. Op(u, j).v \in Values
      BY <2>1, Offered, Zenon DEF With, Waiting
    <2>3. {Op(t, i).op, Op(u, j).op} = {"CHANSND", "CHANRCV"} /\ Op(t, i).op # "CHANSND"
      BY <2>1, Zenon
    <2>4. /\ Queue' = [Queue EXCEPT ![c] = Tail(Append(@, Op(u, j).v))]
          /\ got' = [got EXCEPT ![t] = Head(Append(Queue[c], Op(u, j).v))]
      BY <1>10, <2>1, <2>2, Zenon
    <2>. QED  BY <1>9, <2>1, <2>3, <2>4, Zenon
  <1>13. ASSUME NEW u \in Threads, NEW j \in Nat, Shift(t, i, u, j)
         PROVE  Abstract!Next
    <2>1. /\ With(u, j) /\ Op(t, i).op = "CHANRCV" /\ Op(u, j).op = "CHANSND"
          /\ Op(u, j).c = c /\ nbuf[c] > 0 /\ nbuf[c] = bufsize[c]
          /\ got' = [got EXCEPT ![t] = buf[c][off[c]]]
          /\ off' = [off EXCEPT ![c] = after(c)]
          /\ buf' = [buf EXCEPT ![c][(after(c) + (nbuf[c] - 1)) % bufsize[c]] = Op(u, j).v]
          /\ nbuf' = nbuf
      BY <1>13, Zenon DEF Shift, c
    <2>2. Op(u, j).v \in Values
      BY <2>1, Offered, Zenon DEF With, Waiting
    <2>3. /\ Queue' = [Queue EXCEPT ![c] = Tail(Append(@, Op(u, j).v))]
          /\ Head(Append(Queue[c], Op(u, j).v)) = buf[c][off[c]]
      BY <1>3, <1>4, <2>1, <2>2, ShiftQueue, Zenon
    <2>4. {Op(t, i).op, Op(u, j).op} = {"CHANSND", "CHANRCV"} /\ Op(t, i).op # "CHANSND"
      BY <2>1, Zenon
    <2>5. got' = [got EXCEPT ![t] = Head(Append(Queue[c], Op(u, j).v))]
      BY <2>1, <2>3, Zenon
    <2>. QED  BY <1>9, <2>1, <2>3, <2>4, <2>5, Zenon
  <1>. QED  BY <1>2, <1>7, <1>8, <1>11, <1>12, <1>13, Zenon

LEMMA StepOther ==
    ASSUME IInv, NEW t \in Threads,
           (\E a \in Alts : chanalt(t, a)) \/ chanaltnoblk(t) \/ chanaltblock(t) \/ chanaltreturn(t)
    PROVE  Abstract!Next \/ UNCHANGED Abstract!vars
  <1>1. /\ alt \in [Threads -> Alts \cup {nil}] /\ ret \in [Threads -> Int]
        /\ talt \in [Threads -> Nat] /\ got \in [Threads -> Values \cup {nil}]
        /\ pc \in [Threads -> {"idle", "chanlock", "switch"}]
        /\ t \in runnable => pc[t] = "switch"
        /\ alt[t] = nil <=> pc[t] = "idle"
        /\ pc[t] = "chanlock" => got[t] = nil
    BY Zenon DEF IInv, TypeOK
  <1>2. ASSUME NEW a \in Alts, chanalt(t, a)
        PROVE  Abstract!Next
    <2>1. /\ pc[t] = "idle"
          /\ alt' = [alt EXCEPT ![t] = a] /\ talt' = [talt EXCEPT ![t] = 1]
          /\ ret' = [ret EXCEPT ![t] = 0] /\ got' = [got EXCEPT ![t] = nil]
          /\ pc' = [pc EXCEPT ![t] = "chanlock"]
          /\ UNCHANGED <<buf, off, nbuf, runnable>>
      BY <1>2, Zenon DEF chanalt, chanvars, at
    <2>2. Queue' = Queue
      BY <2>1, Zenon DEF Queue
    <2>3. Offers[t] = nil /\ Offers' = [Offers EXCEPT ![t] = a]
      BY <1>1, <2>1, Zenon DEF Offers
    <2>4. Index' = [Index EXCEPT ![t] = 0]
      BY <1>1, <2>1, Zenon DEF Index
    <2>5. Waiting' = Waiting
      BY <1>1, <2>1, Zenon DEF Waiting
    <2>. QED  BY <2>1, <2>2, <2>3, <2>4, <2>5, AbstractOffer, Zenon
  <1>3. CASE chanaltnoblk(t)
    <2>1. /\ pc[t] = "chanlock" /\ can(t) = {} /\ ~alt[t].canblock /\ return(t, 0 - 1) /\ Alone
          /\ UNCHANGED <<buf, off, nbuf, got>>
      BY <1>3 DEF chanaltnoblk, chanvars, at, Alone, return
    <2>2. Queue' = Queue
      BY <2>1, Zenon DEF Queue
    <2>3. /\ Waiting' = Waiting /\ t \notin runnable
          /\ Offers[t] # nil /\ Offers' = [Offers EXCEPT ![t] = nil]
          /\ Index' = [Index EXCEPT ![t] = 0 - 1]
      BY <2>1, AbstractReturnAlone
    <2>4. ~Offers[t].canblock
      BY <2>1, <2>3, Zenon DEF Offers
    <2>5. got' = [got EXCEPT ![t] = nil]
      BY <1>1, <2>1, Zenon
    <2>. QED  BY <2>1, <2>2, <2>3, <2>4, <2>5, Stuck, AbstractTurnDown, Zenon
  <1>4. CASE chanaltblock(t)
    <2>1. /\ pc[t] = "chanlock" /\ can(t) = {} /\ alt[t].canblock
          /\ pc' = [pc EXCEPT ![t] = "switch"]
          /\ UNCHANGED <<buf, off, nbuf, alt, talt, got, ret, runnable>>
      BY <1>4, Zenon DEF chanaltblock, at
    <2>2. Queue' = Queue /\ Offers' = Offers /\ Index' = Index
      BY <2>1, Zenon DEF Queue, Offers, Index
    <2>3. Offers[t] # nil /\ Offers[t].canblock
      BY <1>1, <2>1, Zenon DEF Offers
    <2>4. t \notin Waiting /\ Waiting' = Waiting \cup {t}
      BY <1>1, <2>1, Zenon DEF Waiting
    <2>. QED  BY <2>1, <2>2, <2>3, <2>4, Stuck, AbstractWait, Zenon
  <1>5. CASE chanaltreturn(t)
    <2>1. /\ pc[t] = "switch" /\ t \in runnable /\ runnable' = runnable \ {t}
          /\ ret' = [ret EXCEPT ![t] = talt[t] - 1]
          /\ alt' = [alt EXCEPT ![t] = nil] /\ pc' = [pc EXCEPT ![t] = "idle"]
          /\ UNCHANGED <<buf, off, nbuf, talt, got>>
      BY <1>5, Zenon DEF chanaltreturn, chanvars, at, return
    <2>2. Queue' = Queue
      BY <2>1, Zenon DEF Queue
    <2>3. Offers' = Offers
      BY <1>1, <2>1, Zenon DEF Offers
    <2>4. Index' = Index
      BY <1>1, <2>1, Zenon DEF Index
    <2>5. Waiting' = Waiting
      BY <1>1, <2>1, Zenon DEF Waiting
    <2>. QED  BY <2>1, <2>2, <2>3, <2>4, <2>5, AbstractStutter, Zenon
  <1>. QED  BY <1>2, <1>3, <1>4, <1>5, Zenon

----------------------------------------------------------------------------
(* The sizes, from the library, and the theorems.                          *)
INSTANCE FiniteSetTheorems

LEMMA Library == Units
  BY FS_EmptySet, FS_Singleton, Zenon DEF Units

\* IInv is inductive.
LEMMA Inductive == Spec => []IInv
  <1>1. IInv /\ Next => IInv'
    BY Library, OfferPreserves, ExecPreserves, NoblkPreserves, BlockPreserves, ReturnPreserves,
       Zenon DEF Next
  <1>. QED  BY <1>1, InitIInv, Stutter, PTL DEF Spec

\* The arrays of the channels hold exactly the operations of the threads that
\* wait: altexec never picks the entry of a thread that was already served,
\* and altdequeue's "cannot find self" and chanalt's abort are unreachable.
THEOREM ChannelArraysExact == Spec => []ArraysExact
  <1>1. IInv => ArraysExact
    <2>. SUFFICES ASSUME IInv, NEW c \in Channels, NEW op \in {"CHANSND", "CHANRCV"}, NEW x
                  PROVE  x \in chanarray(c, op) <=>
                             x \in {y \in UNION {ops(t) : t \in Waiting} :
                                      entry(y).c = c /\ entry(y).op = op}
      BY DEF ArraysExact, IInv
    <2>1. ASSUME x \in chanarray(c, op)
          PROVE  \E t \in Waiting : x \in ops(t) /\ entry(x).c = c /\ entry(x).op = op
      <3>1. PICK u \in Threads, j \in Nat : x = <<u, j>> /\ Waits(u, j, c, op)
        BY <2>1, Member, Zenon
      <3>2. entry(x) = Op(u, j) /\ x \in entries(u)
        BY <3>1, Zenon DEF entry, Op, entries, Waits, Ops
      <3>. QED  BY <3>1, <3>2, Zenon DEF Waits, ops
    <2>2. ASSUME NEW t \in Waiting, x \in ops(t), entry(x).c = c, entry(x).op = op
          PROVE  x \in chanarray(c, op)
      <3>1. PICK i \in Ops(t) : x = <<t, i>>
        BY <2>2, Zenon DEF ops, entries, Ops
      <3>2. t \in Threads /\ pc[t] = "switch"
        BY Zenon DEF Waiting
      <3>3. i \in Nat /\ Waits(t, i, c, op)
        BY <2>2, <3>1, <3>2, Offered, Zenon DEF Waits, entry, Op
      <3>. QED  BY <3>1, <3>2, <3>3, Zenon DEF IInv, chanarray
    <2>. QED  BY <2>1, <2>2, Zenon
  <1>. QED  BY <1>1, Inductive, PTL

\* No thread waits while one of its operations could proceed: whatever
\* chanalt, altexec and altcopy have done, receivers wait only at an empty
\* channel and senders at a full one, and no two threads wait for each other.
THEOREM ChannelNoMissedMatch == Spec => []NoMissedMatch
  <1>1. IInv => NoMissedMatch
    BY Zenon DEF IInv
  <1>. QED  BY <1>1, Inductive, PTL

\* Channels implement Alternation for any threads, channels, buffer sizes and
\* arrays of Alts: each chanalt carries out exactly one of its operations,
\* values are received once and in the order they were sent, and the index
\* that chanalt returns is that of the operation carried out.
THEOREM ChannelRefines == Spec => ImplementsAlternation
  <1>1. Init => Abstract!Init
    <2>. SUFFICES ASSUME Init PROVE Abstract!Init
      BY Zenon
    <2>1. Waiting = {}
      BY Zenon DEF Init, Waiting
    <2>2. \A c \in Channels : [i \in 1..nbuf[c] |-> buf[c][(off[c] + i - 1) % bufsize[c]]] = <<>>
      BY DEF Init
    <2>. QED  BY <2>1, <2>2, Zenon DEF Init, Abstract!Init
  <1>2. IInv /\ [Next]_vars => [Abstract!Next]_Abstract!vars
    <2>. SUFFICES ASSUME IInv, [Next]_vars PROVE Abstract!Next \/ UNCHANGED Abstract!vars
      BY Zenon DEF Abstract!vars
    <2>1. CASE Next
      BY <2>1, Library, StepExec, StepOther, Zenon DEF Next
    <2>2. CASE UNCHANGED vars
      <3>1. UNCHANGED <<buf, off, nbuf, alt, talt, got, ret, pc, runnable>>
        BY <2>2, Zenon DEF vars, chanvars
      <3>2. Queue' = Queue /\ Offers' = Offers /\ Index' = Index /\ Waiting' = Waiting
        BY <3>1, Zenon DEF Queue, Offers, Index, Waiting
      <3>. QED  BY <3>1, <3>2, AbstractStutter, Zenon
    <2>. QED  BY <2>1, <2>2, Zenon
  <1>. QED  BY <1>1, <1>2, Inductive, PTL DEF Spec, ImplementsAlternation, Abstract!Spec
=============================================================================
