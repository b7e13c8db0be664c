------------------------------ MODULE MuxProofs ------------------------------
(***************************************************************************)
(* Proofs about the multiplexor of Mux, for any calls and any number of    *)
(* tags.                                                                   *)
(*                                                                         *)
(* The table of tags is exact because a call gives its tag back once, and  *)
(* it does so after the one reply to its request has been handed to it, or *)
(* when no reply can come any more.  So the invariant follows the messages:*)
(* a request that can still be answered, and a reply that is still on its  *)
(* way, belong to a call that waits for it under that tag, and there is    *)
(* only one of them for each call.                                         *)
(***************************************************************************)
EXTENDS Mux, TLAPS

Receiving == {"recv", "inlk", "recving", "received"}
Sent == {"wait", "asleep", "started"} \cup Receiving

Answers == [tag : Nat, of : Rpcs]

\* A reply that its call waits for.
Live(m) == m \in Answers /\ pc[m.of] \in Sent /\ p[m.of] = nil /\ m = Reply(m.of)

Types ==
    /\ TypeOK
    /\ hand \in [Rpcs -> Answers \cup {stray, eofmsg, nopacket}]
    /\ reqs \subseteq Answers
    /\ replies \in Seq(Answers \cup {stray})

Tags ==
    /\ ~aborted
    /\ \A r \in holders : tag[r] < mwait /\ wait[tag[r] + 1] = r
    /\ \A i \in 1..mwait : wait[i] # nil => wait[i] \in holders /\ tag[wait[i]] = i - 1
    /\ nwait = Cardinality(holders)

Listed ==
    /\ Range(sleep) = {r \in holders : p[r] = nil}
    /\ IsInjective(sleep)
    /\ \A r \in Rpcs : p[r] # nil => p[r] = r /\ pc[r] \in Sent

Muxes ==
    /\ \A r \in Rpcs : pc[r] \in Receiving => muxer = r
    /\ muxer # nil => p[muxer] = nil
    /\ inlk # nil => pc[inlk] = "recving"
    /\ \A r \in Rpcs :
          /\ pc[r] # "inlk"
          /\ hand[r] # nopacket => pc[r] = "received"

Messages ==
    /\ ~eof => \A m \in reqs :
           /\ Live(m)
           /\ \A i \in DOMAIN replies : replies[i] # m
           /\ \A r \in Rpcs : hand[r] # m
    /\ \A i \in DOMAIN replies : replies[i] # stray =>
           /\ Live(replies[i])
           /\ \A j \in DOMAIN replies : replies[i] = replies[j] => i = j
           /\ \A r \in Rpcs : hand[r] # replies[i]
    /\ \A r \in Rpcs :
           /\ hand[r] \notin {stray, eofmsg, nopacket} => Live(hand[r])
           /\ hand[r] = eofmsg => eof /\ replies = <<>>
           /\ got[r] \in {nil, r, "eof", "none"}

Waiters ==
    /\ Range(tagrend) = {r \in Rpcs : pc[r] = "tagwait" /\ r \notin woken}
    /\ IsInjective(tagrend)
    /\ tagrend # <<>> => mwait >= NTags
    /\ \A r \in woken : pc[r] \in {"asleep", "tagwait"}
    /\ NoLostTag

Sleepers ==
    /\ \A r \in Rpcs :
          /\ pc[r] = "asleep" => ~async[r] /\ (p[r] # nil => r \in woken)
          /\ pc[r] = "wait" => ~async[r]
          /\ pc[r] = "started" => async[r]
          /\ pc[r] = "sendfailed" => async[r] \in SendMayFail
    /\ FALSE \notin SendMayFail => MuxerAlive

\* Facts about numbers and finite sets, proved from the library's theorems at
\* the end (lemma Library); until then the lemmas take them as assumptions.
Minima == \A T \in SUBSET Nat : T # {} => Min(T) \in T

Counting ==
    \A T \in SUBSET Rpcs :
       /\ Cardinality(T) \in Nat
       /\ \A r \in Rpcs \ T : Cardinality(T \cup {r}) = Cardinality(T) + 1
       /\ \A r \in T : Cardinality(T \ {r}) = Cardinality(T) - 1

Pigeons ==
    \A T \in SUBSET Rpcs, n \in Nat : Cardinality(T) < n =>
       \A f \in [1..n -> T] : \E i, j \in 1..n : i # j /\ f[i] = f[j]

Facts == Minima /\ Counting /\ Pigeons

IInv == Facts /\ Types /\ Tags /\ Listed /\ Muxes /\ Messages /\ Waiters /\ Sleepers

----------------------------------------------------------------------------
(* Lists, free tags, and the candidate for muxer.                          *)

\* The elements of a sequence.
LEMMA Elements ==
    ASSUME NEW S, NEW s \in Seq(S)
    PROVE  /\ Len(s) \in Nat /\ DOMAIN s = 1..Len(s)
           /\ \A i \in DOMAIN s : s[i] \in S
           /\ Range(s) \subseteq S
           /\ \A x : x \in Range(s) <=> \E i \in DOMAIN s : s[i] = x
           /\ s # <<>> => 1 \in DOMAIN s /\ Head(s) = s[1] /\ Head(s) \in Range(s) /\ Head(s) \in S
  <1>1. Len(s) \in Nat /\ DOMAIN s = 1..Len(s)
    OBVIOUS
  <1>2. \A i \in DOMAIN s : s[i] \in S
    BY <1>1
  <1>3. s # <<>> => 1 \in DOMAIN s /\ Head(s) = s[1]
    BY <1>1
  <1>. QED  BY <1>1, <1>2, <1>3, Zenon DEF Range

LEMMA Enqueued ==
    ASSUME NEW S, NEW s \in Seq(S), NEW r \in S, r \notin Range(s), IsInjective(s)
    PROVE  /\ <<r>> \o s \in Seq(S)
           /\ Range(<<r>> \o s) = Range(s) \cup {r}
           /\ IsInjective(<<r>> \o s)
  <1>. DEFINE l == <<r>> \o s
  <1>1. /\ Len(s) \in Nat /\ DOMAIN s = 1..Len(s)
        /\ \A x : x \in Range(s) <=> \E i \in DOMAIN s : s[i] = x
    BY Elements, Zenon
  <1>2. /\ l \in Seq(S) /\ Len(l) = Len(s) + 1 /\ DOMAIN l = 1..(Len(s) + 1)
        /\ l[1] = r /\ \A i \in DOMAIN s : l[i + 1] = s[i]
    BY <1>1
  <1>. HIDE DEF l
  <1>3. \A x : x \in Range(l) <=> \E i \in DOMAIN l : l[i] = x
    BY <1>2, Elements, Zenon
  <1>4. \A i \in DOMAIN l : i = 1 \/ (i - 1 \in DOMAIN s /\ l[i] = s[i - 1])
    BY <1>1, <1>2
  <1>5. Range(l) = Range(s) \cup {r}
    <2>1. \A x \in Range(l) : x \in Range(s) \cup {r}
      BY <1>1, <1>2, <1>3, <1>4
    <2>2. \A i \in DOMAIN s : i + 1 \in DOMAIN l
      BY <1>1, <1>2
    <2>3. \A x \in Range(s) \cup {r} : x \in Range(l)
      BY <1>1, <1>2, <1>3, <2>2
    <2>. QED  BY <2>1, <2>3, Zenon
  <1>6. IsInjective(l)
    BY <1>1, <1>2, <1>4 DEF IsInjective
  <1>. QED  BY <1>2, <1>5, <1>6, Zenon DEF l

LEMMA Appended ==
    ASSUME NEW S, NEW s \in Seq(S), NEW r \in S
    PROVE  /\ Append(s, r) \in Seq(S) /\ Append(s, r) # <<>>
           /\ Range(Append(s, r)) = Range(s) \cup {r}
           /\ DOMAIN Append(s, r) = (DOMAIN s) \cup {Len(s) + 1} /\ Len(s) + 1 \notin DOMAIN s
           /\ \A i \in DOMAIN s : Append(s, r)[i] = s[i]
           /\ Append(s, r)[Len(s) + 1] = r
           /\ r \notin Range(s) /\ IsInjective(s) => IsInjective(Append(s, r))
  <1>. DEFINE l == Append(s, r)
  <1>1. /\ Len(s) \in Nat /\ DOMAIN s = 1..Len(s)
        /\ \A x : x \in Range(s) <=> \E i \in DOMAIN s : s[i] = x
    BY Elements, Zenon
  <1>2. /\ l \in Seq(S) /\ l # <<>> /\ DOMAIN l = 1..(Len(s) + 1)
        /\ \A i \in DOMAIN s : l[i] = s[i]
        /\ l[Len(s) + 1] = r
    BY <1>1
  <1>. HIDE DEF l
  <1>3. DOMAIN l = (DOMAIN s) \cup {Len(s) + 1} /\ Len(s) + 1 \notin DOMAIN s
    BY <1>1, <1>2
  <1>4. \A x : x \in Range(l) <=> \E i \in DOMAIN l : l[i] = x
    BY <1>2, Elements, Zenon
  <1>5. Range(l) = Range(s) \cup {r}
    BY <1>1, <1>2, <1>3, <1>4
  <1>6. r \notin Range(s) /\ IsInjective(s) => IsInjective(l)
    BY <1>1, <1>2, <1>3, Zenon DEF IsInjective
  <1>. QED  BY <1>2, <1>3, <1>5, <1>6, Zenon DEF l

LEMMA Tailed ==
    ASSUME NEW S, NEW s \in Seq(S), s # <<>>
    PROVE  /\ Tail(s) \in Seq(S) /\ Head(s) \in Range(s)
           /\ \A i \in DOMAIN Tail(s) : i + 1 \in DOMAIN s /\ i + 1 # 1 /\ Tail(s)[i] = s[i + 1]
           /\ IsInjective(s) => IsInjective(Tail(s)) /\ Range(Tail(s)) = Range(s) \ {Head(s)}
  <1>. DEFINE l == Tail(s)
  <1>1. /\ Len(s) \in Nat \ {0} /\ DOMAIN s = 1..Len(s) /\ Head(s) = s[1] /\ Head(s) \in Range(s)
        /\ \A x : x \in Range(s) <=> \E i \in DOMAIN s : s[i] = x
    BY Elements
  <1>2. /\ l \in Seq(S) /\ DOMAIN l = 1..(Len(s) - 1)
        /\ \A i \in DOMAIN l : l[i] = s[i + 1]
    BY <1>1
  <1>. HIDE DEF l
  <1>3. \A i \in DOMAIN l : i + 1 \in DOMAIN s /\ i + 1 # 1
    BY <1>1, <1>2
  <1>4. \A x : x \in Range(l) <=> \E i \in DOMAIN l : l[i] = x
    BY <1>2, Elements, Zenon
  <1>5. ASSUME IsInjective(s) PROVE IsInjective(l) /\ Range(l) = Range(s) \ {Head(s)}
    <2>1. IsInjective(l)
      BY <1>1, <1>2, <1>3, <1>5 DEF IsInjective
    <2>2. \A x \in Range(l) : x \in Range(s) /\ x # Head(s)
      BY <1>1, <1>2, <1>3, <1>4, <1>5 DEF IsInjective
    <2>3. ASSUME NEW x \in Range(s), x # Head(s) PROVE x \in Range(l)
      <3>1. PICK i \in DOMAIN s : s[i] = x
        BY <1>1, Zenon
      <3>2. i - 1 \in DOMAIN l /\ i - 1 + 1 = i
        BY <1>1, <1>2, <2>3, <3>1
      <3>. QED  BY <1>2, <1>4, <3>1, <3>2, Zenon
    <2>. QED  BY <2>1, <2>2, <2>3, Zenon
  <1>. QED  BY <1>1, <1>2, <1>3, <1>5, Zenon DEF l

LEMMA Joined ==
    ASSUME NEW S, NEW s \in Seq(S), NEW l \in Seq(S)
    PROVE  /\ s \o l \in Seq(S) /\ Len(s \o l) = Len(s) + Len(l)
           /\ \A i \in 1..(Len(s) + Len(l)) :
                 (s \o l)[i] = IF i <= Len(s) THEN s[i] ELSE l[i - Len(s)]
  OBVIOUS

LEMMA Dequeued ==
    ASSUME sleep \in Seq(Rpcs), IsInjective(sleep), NEW r \in Range(sleep)
    PROVE  /\ dequeued(r) \in Seq(Rpcs)
           /\ Range(dequeued(r)) = Range(sleep) \ {r}
           /\ IsInjective(dequeued(r))
  <1>. DEFINE k == CHOOSE i \in DOMAIN sleep : sleep[i] = r
              s1 == SubSeq(sleep, 1, k - 1)
              s2 == SubSeq(sleep, k + 1, Len(sleep))
              l == s1 \o s2
              n == Len(sleep)
  <1>1. /\ n \in Nat /\ DOMAIN sleep = 1..n
        /\ \A i \in 1..n : sleep[i] \in Rpcs
        /\ \A x : x \in Range(sleep) <=> \E i \in DOMAIN sleep : sleep[i] = x
    BY Elements, Zenon
  <1>2. k \in 1..n /\ sleep[k] = r
    BY <1>1, Zenon
  <1>. HIDE DEF k, n
  <1>3. /\ s1 \in Seq(Rpcs) /\ Len(s1) = k - 1 /\ \A i \in 1..(k - 1) : s1[i] = sleep[i]
    BY <1>1, <1>2 DEF n
  <1>4. /\ s2 \in Seq(Rpcs) /\ Len(s2) = n - k /\ \A i \in 1..(n - k) : s2[i] = sleep[k + i]
    <2>1. /\ s2 \in Seq(Rpcs)
          /\ Len(s2) = IF k + 1 <= n THEN n - (k + 1) + 1 ELSE 0
          /\ \A i \in 1..(n - (k + 1) + 1) : s2[i] = sleep[k + 1 + i - 1]
      BY <1>1, <1>2 DEF n
    <2>2. Len(s2) = n - k
      BY <1>1, <1>2, <2>1
    <2>3. n - (k + 1) + 1 = n - k /\ \A i \in 1..(n - k) : k + 1 + i - 1 = k + i
      BY <1>1, <1>2
    <2>. QED  BY <2>1, <2>2, <2>3, Zenon
  <1>. HIDE DEF s1, s2
  <1>5. /\ l \in Seq(Rpcs) /\ Len(l) = n - 1 /\ DOMAIN l = 1..(n - 1)
        /\ \A i \in 1..(n - 1) : l[i] = IF i < k THEN sleep[i] ELSE sleep[i + 1]
    <2>1. /\ l \in Seq(Rpcs) /\ Len(l) = (k - 1) + (n - k)
          /\ \A i \in 1..((k - 1) + (n - k)) : l[i] = IF i <= k - 1 THEN s1[i] ELSE s2[i - (k - 1)]
      <3>1. /\ l \in Seq(Rpcs) /\ Len(l) = Len(s1) + Len(s2)
            /\ \A i \in 1..(Len(s1) + Len(s2)) :
                  l[i] = IF i <= Len(s1) THEN s1[i] ELSE s2[i - Len(s1)]
        BY <1>3, <1>4, Joined, Zenon
      <3>. QED  BY <1>3, <1>4, <3>1, Zenon
    <2>2. (k - 1) + (n - k) = n - 1
      BY <1>1, <1>2
    <2>3. ASSUME NEW i \in 1..(n - 1)
          PROVE  l[i] = IF i < k THEN sleep[i] ELSE sleep[i + 1]
      <3>1. CASE i < k
        BY <1>1, <1>2, <1>3, <2>1, <2>2, <3>1
      <3>2. CASE ~(i < k)
        <4>1. i - (k - 1) \in 1..(n - k) /\ k + (i - (k - 1)) = i + 1 /\ ~(i <= k - 1)
          BY <1>1, <1>2, <3>2
        <4>. QED  BY <1>4, <2>1, <2>2, <3>2, <4>1, Zenon
      <3>. QED  BY <3>1, <3>2, Zenon
    <2>. QED  BY <2>1, <2>2, <2>3
  <1>6. dequeued(r) = l
    BY Zenon DEF dequeued, k, s1, s2
  <1>. HIDE DEF l
  <1>7. \A x : x \in Range(l) <=> \E i \in DOMAIN l : l[i] = x
    BY <1>5, Elements, Zenon
  <1>. DEFINE from(i) == IF i < k THEN i ELSE i + 1
  <1>11. \A i \in DOMAIN l : from(i) \in DOMAIN sleep /\ from(i) # k /\ l[i] = sleep[from(i)]
    BY <1>1, <1>2, <1>5
  <1>8. IsInjective(l)
    <2>1. \A i, j \in DOMAIN l : from(i) = from(j) => i = j
      BY <1>1, <1>2, <1>5
    <2>. HIDE DEF from
    <2>. QED  BY <1>11, <2>1, Zenon DEF IsInjective
  <1>9. \A x \in Range(l) : x \in Range(sleep) /\ x # r
    <2>. HIDE DEF from
    <2>. QED  BY <1>1, <1>2, <1>7, <1>11 DEF IsInjective
  <1>10. ASSUME NEW x \in Range(sleep), x # r PROVE x \in Range(l)
    <2>1. PICK i \in 1..n : sleep[i] = x
      BY <1>1, Zenon
    <2>2. CASE i < k
      BY <1>1, <1>2, <1>5, <1>7, <2>1, <2>2, SMTT(30)
    <2>3. CASE i > k
      <3>1. i - 1 \in 1..(n - 1) /\ ~(i - 1 < k) /\ i - 1 + 1 = i
        BY <1>1, <1>2, <2>1, <2>3
      <3>. QED  BY <1>5, <1>7, <2>1, <3>1, Zenon
    <2>. QED  BY <1>1, <1>2, <1>10, <2>1, <2>2, <2>3
  <1>. QED  BY <1>5, <1>6, <1>8, <1>9, <1>10, Zenon

\* electmuxer's loop finds a call that is not async, if there is one.
LEMMA Candidate ==
    ASSUME Facts, NEW list \in Seq(Rpcs)
    PROVE  /\ candidate(list) = 0 => \A s \in Range(list) : async[s]
           /\ candidate(list) # 0 =>
                 LET s == list[candidate(list)] IN s \in Range(list) /\ ~async[s]
  <1>. DEFINE I == {i \in 1..Len(list) : ~async[list[i]]}
  <1>1. /\ Len(list) \in Nat /\ DOMAIN list = 1..Len(list)
        /\ \A x : x \in Range(list) <=> \E i \in DOMAIN list : list[i] = x
    BY Elements, Zenon
  <1>2. candidate(list) = IF I = {} THEN 0 ELSE Min(I)
    BY <1>1, Zenon DEF candidate
  <1>3. I \in SUBSET Nat /\ \A i \in I : i \in 1..Len(list) /\ ~async[list[i]]
    BY <1>1
  <1>4. CASE I = {}
    BY <1>1, <1>2, <1>4
  <1>5. CASE I # {}
    <2>1. Min(I) \in I
      <3>. HIDE DEF I
      <3>. QED  BY <1>3, <1>5, Zenon DEF Facts, Minima
    <2>2. candidate(list) = Min(I)
      BY <1>2, <1>5, Zenon
    <2>3. Min(I) \in 1..Len(list) /\ ~async[list[Min(I)]]
      BY <1>3, <2>1, Zenon
    <2>. HIDE DEF I
    <2>4. Min(I) # 0 /\ list[Min(I)] \in Range(list)
      BY <1>1, <2>3
    <2>. QED  BY <2>2, <2>3, <2>4, Zenon
  <1>. QED  BY <1>4, <1>5, Zenon

\* gettag's search finds a free tag, if there is one.
LEMMA FreeSlot ==
    ASSUME Facts, NEW w \in Seq(Rpcs \cup {nil}), NEW f \in Nat, NEW k \in 1..Len(w), w[k] = nil
    PROVE  freeslot(w, f) \in 0..(Len(w) - 1) /\ w[freeslot(w, f) + 1] = nil
  <1>. DEFINE free == {i \in 0..(Len(w) - 1) : w[i + 1] = nil}
              up == {i \in free : i >= f}
  <1>1. Len(w) \in Nat
    OBVIOUS
  <1>2. k - 1 \in free
    BY <1>1
  <1>3. free \in SUBSET Nat /\ up \in SUBSET free
    BY <1>1
  <1>4. freeslot(w, f) = IF up # {} THEN Min(up) ELSE Min(free)
    BY Zenon DEF freeslot
  <1>5. \A i \in free : i \in 0..(Len(w) - 1) /\ w[i + 1] = nil
    BY Zenon
  <1>. HIDE DEF free, up
  <1>6. freeslot(w, f) \in free
    <2>1. Min(free) \in free
      BY <1>2, <1>3, Zenon DEF Facts, Minima
    <2>2. up # {} => Min(up) \in up
      BY <1>3, Zenon DEF Facts, Minima
    <2>. QED  BY <1>3, <1>4, <2>1, <2>2, Zenon
  <1>. QED  BY <1>5, <1>6, Zenon

----------------------------------------------------------------------------
(* Steps that move a call that has a tag, and leave the tags alone.        *)

\* No call comes to wait for a tag, or stops waiting for one.
LEMMA WaitersKept ==
    ASSUME Waiters, UNCHANGED <<tagrend, wait, nwait>>,
           \A s \in Rpcs : pc'[s] = "tagwait" <=> pc[s] = "tagwait",
           \A s \in Rpcs : pc[s] = "tagwait" => (s \in woken' <=> s \in woken),
           woken \subseteq Rpcs, woken' \subseteq Rpcs,
           \A s \in woken' : pc'[s] \in {"asleep", "tagwait"}
    PROVE  Waiters'
  <1>1. {s \in Rpcs : pc'[s] = "tagwait" /\ s \notin woken'} = {s \in Rpcs : pc[s] = "tagwait" /\ s \notin woken}
    BY Zenon
  <1>2. {s \in woken' : pc'[s] = "tagwait"} = {s \in woken : pc[s] = "tagwait"}
    BY Zenon
  <1>. QED  BY <1>1, <1>2, Zenon DEF Waiters, NoLostTag, mwait

LEMMA TagsKept ==
    ASSUME Tags, holders' = holders, UNCHANGED <<wait, nwait, tag, aborted>>
    PROVE  Tags'
  BY Zenon DEF Tags, mwait

\* r, which has a tag, goes to l and keeps it; calls in rsleep may be woken.
LEMMA Moved ==
    ASSUME Types, Tags, Waiters, NEW r \in Rpcs, pc[r] \notin {"idle", "tagwait"},
           NEW l \in PC, l \notin {"idle", "tagwait"}, pc' = [pc EXCEPT ![r] = l],
           UNCHANGED <<wait, nwait, tagrend, tag, aborted>>,
           \A s \in woken : s \in woken' \/ s = r,
           \A s \in woken' : s \in woken \/ (s \in Rpcs /\ pc[s] = "asleep"),
           pc[r] = "asleep" => r \notin woken'
    PROVE  /\ r \in holders /\ holders' = holders /\ Tags' /\ Waiters'
           /\ woken' \subseteq Rpcs /\ pc' \in [Rpcs -> PC] /\ pc'[r] = l
           /\ \A s \in Rpcs : s # r => pc'[s] = pc[s]
  <1>1. pc \in [Rpcs -> PC] /\ woken \subseteq Rpcs
    BY Zenon DEF Types, TypeOK
  <1>2. /\ pc' \in [Rpcs -> PC] /\ pc'[r] = l
        /\ \A s \in Rpcs : s # r => pc'[s] = pc[s]
    BY <1>1, Zenon
  <1>3. holders' = holders /\ r \in holders
    BY <1>2, Zenon DEF holders
  <1>4. woken' \subseteq Rpcs /\ \A s \in woken' : s # r /\ pc[s] \in {"asleep", "tagwait"}
    BY <1>1, Zenon DEF Waiters
  <1>5. Waiters'
    BY <1>1, <1>2, <1>4, WaitersKept, Zenon
  <1>. QED  BY <1>2, <1>3, <1>4, <1>5, TagsKept, Zenon

LEMMA ListedKept ==
    ASSUME Listed, holders' = holders, UNCHANGED <<sleep, p>>,
           \A s \in Rpcs : p[s] # nil => pc'[s] \in Sent
    PROVE  Listed'
  BY Zenon DEF Listed

\* A call that does not receive before or after the step, and has no reply.
LEMMA MuxesKept ==
    ASSUME Types, Muxes, NEW r \in Rpcs, NEW l, pc' = [pc EXCEPT ![r] = l],
           pc[r] \notin Receiving, l \notin Receiving, UNCHANGED <<muxer, p, inlk, hand>>
    PROVE  Muxes'
  BY Zenon DEF Types, TypeOK, Muxes, Receiving

LEMMA LiveKept ==
    ASSUME NEW m, Live(m), tag' = tag, p'[m.of] = p[m.of], pc'[m.of] \in Sent
    PROVE  Live(m)'
  BY Zenon DEF Live, Reply

\* No reply is handed out, and the calls that wait for one go on waiting.
LEMMA AllLive ==
    ASSUME UNCHANGED <<tag, p>>, \A s \in Rpcs : pc[s] \in Sent => pc'[s] \in Sent,
           NEW m, Live(m)
    PROVE  Live(m)'
  <1>1. m.of \in Rpcs /\ pc[m.of] \in Sent
    BY Zenon DEF Live, Answers
  <1>. QED  BY <1>1, LiveKept, Zenon

\* The messages are different from each other.
LEMMA Distinct ==
    /\ stray # eofmsg /\ stray # nopacket /\ eofmsg # nopacket
    /\ \A m \in Answers : m \notin {stray, eofmsg, nopacket} /\ m.of \in Rpcs /\ m.tag \in Nat
    /\ stray.tag = -1 /\ eofmsg.tag = -1 /\ nopacket.tag = -1
    /\ stray.of = nil /\ eofmsg.of = "eof" /\ nopacket.of = "none"
  <1>1. nil \notin {"eof", "none"} /\ \A r \in Rpcs : r \notin {nil, "eof", "none"}
    BY MuxAssumption, Zenon
  <1>. QED  BY <1>1 DEF stray, eofmsg, nopacket, Answers

LEMMA Fixed == stray' = stray /\ eofmsg' = eofmsg /\ nopacket' = nopacket
  BY Zenon DEF stray, eofmsg, nopacket

LEMMA MessagesKept ==
    ASSUME Messages, UNCHANGED <<reqs, replies, eof, hand, got, tag, p>>,
           \A s \in Rpcs : pc[s] \in Sent => pc'[s] \in Sent
    PROVE  Messages'
  <1>1. ASSUME NEW m, Live(m) PROVE Live(m)'
    BY <1>1, AllLive, Zenon
  <1>. QED  BY <1>1, Fixed, Zenon DEF Messages

\* A message that somebody has yet to receive.
Pending(m) ==
    \/ ~eof /\ m \in reqs
    \/ m # stray /\ \E i \in DOMAIN replies : replies[i] = m

\* What is still under way stays live, and so does what is left in a hand.
LEMMA MessagesLeft ==
    ASSUME Types, Messages, UNCHANGED <<reqs, replies, eof>>,
           \A m : Pending(m) => Live(m)',
           \A s \in Rpcs : \/ hand'[s] = nopacket
                           \/ /\ hand'[s] = hand[s]
                              /\ \A m : m = hand[s] /\ m \notin {stray, eofmsg, nopacket} => Live(m)',
           \A s \in Rpcs : got'[s] \in {nil, s, "eof", "none"}
    PROVE  Messages'
  <1>1. \A m : Pending(m) => m # nopacket
    <2>1. replies \in Seq(Answers \cup {stray}) /\ reqs \subseteq Answers
      BY Zenon DEF Types
    <2>2. \A i \in DOMAIN replies : replies[i] \in Answers \cup {stray}
      BY <2>1, Elements, Zenon
    <2>. QED  BY <2>1, <2>2, Distinct, Zenon DEF Pending
  <1>2. \A m : Pending(m) => Live(m)' /\ \A s \in Rpcs : hand'[s] # m
    BY <1>1 DEF Pending, Messages
  <1>3. (~eof => \A m \in reqs :
           /\ Live(m)
           /\ \A i \in DOMAIN replies : replies[i] # m
           /\ \A s \in Rpcs : hand[s] # m)'
    BY <1>2, Zenon DEF Pending, Messages
  <1>4. (\A i \in DOMAIN replies : replies[i] # stray =>
           /\ Live(replies[i])
           /\ \A j \in DOMAIN replies : replies[i] = replies[j] => i = j
           /\ \A s \in Rpcs : hand[s] # replies[i])'
    BY <1>2, Fixed, Zenon DEF Pending, Messages
  <1>5. (\A s \in Rpcs :
           /\ hand[s] \notin {stray, eofmsg, nopacket} => Live(hand[s])
           /\ hand[s] = eofmsg => eof /\ replies = <<>>
           /\ got[s] \in {nil, s, "eof", "none"})'
    BY Distinct, Fixed, Zenon DEF Messages
  <1>. QED  BY <1>3, <1>4, <1>5, Zenon DEF Messages

LEMMA SendPreserves ==
    ASSUME IInv, NEW r \in Rpcs, _muxsend(r)
    PROVE  IInv'
  <1>1. PICK l \in {"sending", "outlk"} :
            /\ pc[r] \in {"send", "outlk"} /\ pc' = [pc EXCEPT ![r] = l]
            /\ lk' \in {nil, r} /\ outlk' \in {outlk, r}
            /\ UNCHANGED <<tagvars, muxer, sleep, inlk, tag, async, p, woken, hand, got,
                           connvars, aborted>>
    BY Zenon DEF _muxsend, at, goto
  <1>2. /\ holders' = holders /\ Tags' /\ Waiters' /\ pc'[r] = l
        /\ \A s \in Rpcs : s # r => pc'[s] = pc[s]
    BY <1>1, Moved, Zenon DEF PC, IInv, tagvars
  <1>3. Types'
    BY <1>1, Zenon DEF Types, TypeOK, PC, mwait, Answers, stray, eofmsg, nopacket, IInv, tagvars,
       connvars
  <1>4. Listed'
    BY <1>1, <1>2, ListedKept, Zenon DEF Listed, Sent, Receiving, IInv
  <1>5. Muxes'
    BY <1>1, MuxesKept, Zenon DEF Receiving, IInv
  <1>6. Messages'
    BY <1>1, <1>2, MessagesKept, Zenon DEF Sent, Receiving, IInv, connvars
  <1>7. Sleepers'
    <2>1. ASSUME FALSE \notin SendMayFail PROVE MuxerAlive'
      BY <1>1, <1>2, <2>1 DEF Sleepers, MuxerAlive, muxing, IInv
    <2>. QED  BY <1>1, <1>2, <2>1, Zenon DEF Sleepers, IInv
  <1>. QED  BY <1>2, <1>3, <1>4, <1>5, <1>6, <1>7, Zenon DEF IInv

LEMMA WritePreserves ==
    ASSUME IInv, NEW r \in Rpcs, send(r)
    PROVE  IInv'
  <1>2. /\ pc[r] = "sending" /\ outlk' = nil
        /\ UNCHANGED <<tagvars, muxer, sleep, lk, inlk, tag, async, p, woken, hand,
                       got, replies, eof, aborted>>
    BY Zenon DEF send, at
  <1>3. PICK l \in {"started", "wait", "sendfailed"} :
            /\ pc' = [pc EXCEPT ![r] = l]
            /\ \/ /\ l = IF async[r] THEN "started" ELSE "wait"
                  /\ reqs' = IF eof THEN reqs ELSE reqs \cup {Reply(r)}
               \/ l = "sendfailed" /\ async[r] \in SendMayFail /\ reqs' = reqs
    BY Zenon DEF send, goto
  <1>5. /\ holders' = holders /\ Tags' /\ Waiters' /\ pc'[r] = l
        /\ \A s \in Rpcs : s # r => pc'[s] = pc[s]
    BY <1>2, <1>3, Moved, Zenon DEF PC, IInv, tagvars
  <1>6. p[r] = nil /\ Reply(r) \in Answers /\ Reply(r).of = r
    BY <1>2, Zenon DEF Listed, Sent, Receiving, Types, TypeOK, Reply, Answers, IInv
  <1>7. Types'
    <2>1. reqs' \subseteq Answers
      BY <1>3, <1>6, Zenon DEF Types, IInv
    <2>2. \A m \in reqs' : m.of \in Rpcs
      BY <2>1, Zenon DEF Answers
    <2>. QED  BY <1>2, <1>3, <2>1, <2>2, Zenon DEF Types, TypeOK, PC, mwait, stray, eofmsg,
                 nopacket, Answers, IInv, tagvars
  <1>9. Listed'
    BY <1>2, <1>5, <1>6, ListedKept, Zenon DEF Listed, IInv
  <1>10. Muxes'
    BY <1>2, <1>3, MuxesKept, Zenon DEF Receiving, IInv
  <1>11. Messages'
    <2>1. ASSUME NEW m, Live(m) PROVE Live(m)' /\ m # Reply(r)
      <3>1. m.of \in Rpcs /\ pc[m.of] \in Sent
        BY <2>1, Zenon DEF Live, Answers
      <3>2. m.of # r
        BY <1>2, <3>1, Zenon DEF Sent, Receiving
      <3>3. Live(m)'
        BY <1>2, <1>5, <2>1, <3>1, <3>2, LiveKept, Zenon
      <3>. QED  BY <1>6, <3>2, <3>3, Zenon
    <2>3. CASE reqs' = reqs
      BY <1>2, <2>1, <2>3, Fixed, Zenon DEF Messages, IInv
    <2>4. CASE reqs' = reqs \cup {Reply(r)} /\ l \in {"started", "wait"}
      <3>1. \A m : m = Reply(r) => Live(m)'
        BY <1>2, <1>5, <1>6, <2>4, Zenon DEF Live, Reply, Sent
      <3>2. \A i \in DOMAIN replies : replies[i] # Reply(r)
        BY <1>6, <2>1, Distinct, Zenon DEF Messages, IInv
      <3>3. \A s \in Rpcs : hand[s] # Reply(r)
        BY <1>6, <2>1, Distinct, Zenon DEF Messages, IInv
      <3>4. (~eof => \A m \in reqs :
               /\ Live(m)
               /\ \A i \in DOMAIN replies : replies[i] # m
               /\ \A s \in Rpcs : hand[s] # m)'
        <4>1. \A m \in reqs : ~eof =>
                 /\ Live(m)
                 /\ \A i \in DOMAIN replies : replies[i] # m
                 /\ \A s \in Rpcs : hand[s] # m
          BY Zenon DEF Messages, IInv
        <4>2. \A m \in reqs' : m \in reqs \/ m = Reply(r)
          BY <2>4, Zenon
        <4>3. UNCHANGED <<eof, replies, hand>>
          BY <1>2, Zenon
        <4>4. ASSUME NEW m \in reqs', ~eof
              PROVE  /\ Live(m)'
                     /\ \A i \in DOMAIN replies : replies[i] # m
                     /\ \A s \in Rpcs : hand[s] # m
          <5>1. CASE m \in reqs
            BY <2>1, <4>1, <4>4, <5>1, Zenon
          <5>2. CASE m = Reply(r)
            BY <3>1, <3>2, <3>3, <5>2, Zenon
          <5>. QED  BY <4>2, <5>1, <5>2, Zenon
        <4>. QED  BY <4>3, <4>4, Zenon
      <3>. QED  BY <1>2, <2>1, <3>4, Fixed, Zenon DEF Messages, IInv
    <2>. QED  BY <1>3, <2>3, <2>4, Zenon
  <1>13. Sleepers'
    <2>1. ASSUME FALSE \notin SendMayFail PROVE MuxerAlive'
      <3>1. ~async[r] => l = "wait"
        <4>1. async[r] \in BOOLEAN
          BY Zenon DEF Types, TypeOK, IInv
        <4>. QED  BY <1>3, <2>1, <4>1, Zenon
      <3>2. MuxerAlive
        BY <2>1, Zenon DEF Sleepers, IInv
      <3>3. l # "asleep" /\ nil' = nil /\ \A s \in Rpcs : s # r => (s \in muxing' <=> s \in muxing)
        BY <1>5, Zenon DEF muxing
      <3>4. muxer \in Rpcs \cup {nil} /\ r \notin muxing
        BY <1>2, Zenon DEF Types, TypeOK, muxing, IInv
      <3>5. CASE muxer = r
        <4>1. r # nil /\ ~async[r]
          BY <1>2, <3>2, <3>4, <3>5, MuxAssumption, Zenon DEF MuxerAlive
        <4>. QED  BY <1>2, <1>5, <3>1, <3>5, <4>1, Zenon DEF MuxerAlive
      <3>6. CASE muxer # r
        BY <1>2, <1>5, <3>2, <3>3, <3>4, <3>6, Zenon DEF MuxerAlive
      <3>. QED  BY <3>5, <3>6, Zenon
    <2>2. (l = "started" => async[r]) /\ (l = "wait" => ~async[r])
          /\ (l = "sendfailed" => async[r] \in SendMayFail)
      BY <1>3, Zenon
    <2>. QED  BY <1>2, <1>5, <2>1, <2>2, Zenon DEF Sleepers, IInv
  <1>. QED  BY <1>5, <1>7, <1>9, <1>10, <1>11, <1>13, Zenon DEF IInv

\* Nobody but the muxer r has a message in hand.
LEMMA OneHand ==
    ASSUME Muxes, NEW r \in Rpcs, pc[r] \in Receiving
    PROVE  \A s \in Rpcs : s # r => hand[s] = nopacket /\ pc[s] \notin Receiving
  BY Zenon DEF Muxes, Receiving

LEMMA RecvLockPreserves ==
    ASSUME IInv, NEW r \in Rpcs, _muxrecv(r)
    PROVE  IInv'
  <1>2. pc[r] = "recv" /\ inlk = nil
    <2>1. pc[r] = "recv"
      BY Zenon DEF _muxrecv, at, Muxes, IInv
    <2>2. inlk # nil => inlk \in Rpcs /\ pc[inlk] = "recving"
      BY Zenon DEF Muxes, Types, TypeOK, IInv
    <2>3. inlk # nil => muxer = inlk /\ muxer = r
      BY <2>1, <2>2, Zenon DEF Muxes, Receiving, IInv
    <2>. QED  BY <2>1, <2>2, <2>3, Zenon
  <1>3. /\ inlk' = r /\ lk' = nil /\ pc' = [pc EXCEPT ![r] = "recving"]
        /\ UNCHANGED <<tagvars, muxer, sleep, outlk, tag, async, p, woken, hand, got,
                       connvars, aborted>>
    BY <1>2, Zenon DEF _muxrecv, goto
  <1>5. /\ holders' = holders /\ Tags' /\ Waiters' /\ pc'[r] = "recving"
        /\ \A s \in Rpcs : s # r => pc'[s] = pc[s]
    BY <1>2, <1>3, Moved, Zenon DEF PC, IInv, tagvars
  <1>6. Types'
    BY <1>3, Zenon DEF Types, TypeOK, PC, mwait, Answers, stray, eofmsg, nopacket, IInv, tagvars,
       connvars
  <1>8. Listed'
    BY <1>3, <1>5, ListedKept, Zenon DEF Listed, Sent, Receiving, IInv
  <1>9. Muxes'
    BY <1>2, <1>3, <1>5, Zenon DEF Muxes, Receiving, nopacket, IInv
  <1>10. Messages'
    BY <1>3, <1>5, MessagesKept, Zenon DEF Sent, Receiving, IInv, connvars
  <1>12. Sleepers'
    <2>1. muxer = r
      BY <1>2, Zenon DEF Muxes, Receiving, IInv
    <2>2. MuxerAlive'
      BY <1>3, <1>5, <2>1, MuxAssumption, Zenon DEF MuxerAlive, muxing
    <2>. QED  BY <1>3, <1>5, <2>2, Zenon DEF Sleepers, IInv
  <1>. QED  BY <1>5, <1>6, <1>8, <1>9, <1>10, <1>12, Zenon DEF IInv

LEMMA ReadPreserves ==
    ASSUME IInv, NEW r \in Rpcs, recv(r)
    PROVE  IInv'
  <1>2. /\ pc[r] = "recving" /\ inlk' = nil /\ pc' = [pc EXCEPT ![r] = "received"]
        /\ UNCHANGED <<tagvars, muxer, sleep, lk, outlk, tag, async, p, woken, got,
                       reqs, eof, aborted>>
    BY Zenon DEF recv, at, goto
  <1>3. PICK h : /\ hand' = [hand EXCEPT ![r] = h]
                 /\ \/ replies # <<>> /\ h = Head(replies) /\ replies' = Tail(replies)
                    \/ replies = <<>> /\ eof /\ h = eofmsg /\ replies' = replies
                    \/ replies = <<>> /\ h = nopacket /\ replies' = replies
    BY Zenon DEF recv
  <1>5. /\ holders' = holders /\ Tags' /\ Waiters' /\ pc'[r] = "received"
        /\ \A s \in Rpcs : s # r => pc'[s] = pc[s]
    BY <1>2, Moved, Zenon DEF PC, IInv, tagvars
  <1>6. /\ \A s \in Rpcs : s # r => hand'[s] = nopacket /\ pc[s] \notin Receiving
        /\ hand'[r] = h /\ \A s \in Rpcs : hand[s] = nopacket
    BY <1>2, <1>3, OneHand, Zenon DEF Types, Muxes, Receiving, IInv
  <1>7. muxer = r
    BY <1>2, Zenon DEF Muxes, Receiving, IInv
  <1>. DEFINE M == Answers \cup {stray}
  <1>8. replies \in Seq(M) /\ reqs \subseteq Answers
    BY Zenon DEF Types, IInv
  <1>9. replies' \in Seq(M) /\ h \in M \cup {eofmsg, nopacket}
    <2>. HIDE DEF M
    <2>1. CASE replies # <<>>
      <3>1. Tail(replies) \in Seq(M) /\ Head(replies) \in M
        BY <1>8, <2>1
      <3>. QED  BY <1>3, <2>1, <3>1, Zenon
    <2>2. CASE replies = <<>>
      BY <1>3, <1>8, <2>2, Zenon
    <2>. QED  BY <2>1, <2>2, Zenon
  <1>10. Types'
    BY <1>2, <1>3, <1>9, Zenon DEF Types, TypeOK, PC, mwait, Answers, stray, eofmsg, nopacket,
       IInv, tagvars
  <1>12. Listed'
    BY <1>2, <1>5, ListedKept, Zenon DEF Listed, Sent, Receiving, IInv
  <1>13. Muxes'
    BY <1>2, <1>5, <1>6, <1>7, Fixed, Zenon DEF Muxes, Receiving, IInv
  <1>14. Messages'
    <2>1. ASSUME NEW m, Live(m) PROVE Live(m)'
      BY <1>2, <1>5, <2>1, AllLive, Zenon DEF Sent, Receiving
    <2>3. CASE replies = <<>>
      <3>1. replies' = <<>> /\ h \in {eofmsg, nopacket} /\ (h = eofmsg => eof)
        BY <1>3, <2>3, Distinct, Zenon
      <3>2. \A m \in reqs : m \notin {stray, eofmsg, nopacket}
        BY <1>8, Distinct, Zenon
      <3>3. DOMAIN replies' = {}
        BY <3>1
      <3>. QED  BY <1>2, <1>6, <2>1, <3>1, <3>2, <3>3, Distinct, Fixed, Zenon DEF Messages, IInv
    <2>4. CASE replies # <<>>
      <3>1. h = replies[1] /\ 1 \in DOMAIN replies /\ h \in M
        <4>. HIDE DEF M
        <4>. QED  BY <1>3, <1>8, <2>4, Elements, Zenon
      <3>2. /\ replies' = Tail(replies)
            /\ \A i \in DOMAIN replies' : i + 1 \in DOMAIN replies /\ i + 1 # 1 /\ replies'[i] = replies[i + 1]
        <4>. HIDE DEF M
        <4>. QED  BY <1>3, <1>8, <2>4, Tailed, Zenon DEF IInv
      <3>3. h \notin {eofmsg, nopacket}
        BY <3>1, Distinct, Zenon
      <3>4. h # stray => Live(h)
        BY <3>1, Zenon DEF Messages, IInv
      <3>5. ~eof => \A m \in reqs : Live(m) /\ m # h /\ m # nopacket /\
                        \A i \in DOMAIN replies' : replies'[i] # m
        BY <1>8, <3>1, <3>2, Distinct DEF Messages, IInv
      <3>6. \A i \in DOMAIN replies' : replies'[i] # stray =>
               /\ Live(replies'[i]) /\ replies'[i] # h /\ replies'[i] # nopacket
               /\ \A j \in DOMAIN replies' : replies'[i] = replies'[j] => i + 1 = j + 1
        BY <1>6, <3>1, <3>2 DEF Messages, IInv
      <3>7. \A i, j \in DOMAIN replies' : i + 1 = j + 1 => i = j
        <4>1. DOMAIN replies' \subseteq Nat
          <5>. HIDE DEF M
          <5>. QED  BY <1>9, Elements
        <4>. QED  BY <4>1
      <3>8. \A s \in Rpcs : hand'[s] = h \/ hand'[s] = nopacket
        BY <1>6, Zenon
      <3>9. (~eof => \A m \in reqs :
                /\ Live(m)
                /\ \A i \in DOMAIN replies : replies[i] # m
                /\ \A s \in Rpcs : hand[s] # m)'
        BY <1>2, <2>1, <3>5, <3>8, Zenon
      <3>10. (\A i \in DOMAIN replies : replies[i] # stray =>
                /\ Live(replies[i])
                /\ \A j \in DOMAIN replies : replies[i] = replies[j] => i = j
                /\ \A s \in Rpcs : hand[s] # replies[i])'
        BY <2>1, <3>6, <3>7, <3>8, Fixed, Zenon
      <3>11. (\A s \in Rpcs :
                /\ hand[s] \notin {stray, eofmsg, nopacket} => Live(hand[s])
                /\ hand[s] = eofmsg => eof /\ replies = <<>>
                /\ got[s] \in {nil, s, "eof", "none"})'
        BY <1>2, <2>1, <3>3, <3>4, <3>8, Distinct, Fixed, Zenon DEF Messages, IInv
      <3>. QED  BY <3>9, <3>10, <3>11, Zenon DEF Messages
    <2>. QED  BY <2>3, <2>4, Zenon
  <1>16. Sleepers'
    <2>1. MuxerAlive'
      BY <1>2, <1>5, <1>7, MuxAssumption, Zenon DEF MuxerAlive, muxing
    <2>. QED  BY <1>2, <1>5, <2>1, Zenon DEF Sleepers, IInv
  <1>. QED  BY <1>5, <1>10, <1>12, <1>13, <1>14, <1>16, Zenon DEF IInv

\* muxrpc goes to sleep: somebody else is the muxer.
LEMMA SleepPreserves ==
    ASSUME IInv, NEW r \in Rpcs, pc[r] \in {"wait", "asleep"}, p[r] = nil, muxer \notin {nil, r},
           pc' = [pc EXCEPT ![r] = "asleep"], woken' = woken \ {r},
           UNCHANGED <<tagvars, muxer, tag, async, p, got, aborted>>,
           UNCHANGED <<sleep, lk, inlk, outlk, hand, connvars>>
    PROVE  IInv'
  <1>3. /\ holders' = holders /\ Tags' /\ Waiters' /\ pc'[r] = "asleep"
        /\ \A s \in Rpcs : s # r => pc'[s] = pc[s]
    BY Moved, Zenon DEF PC, IInv, tagvars
  <1>4. Types'
    BY Zenon DEF Types, TypeOK, PC, mwait, Answers, stray, eofmsg, nopacket, IInv, tagvars,
       connvars
  <1>6. Listed'
    BY <1>3, ListedKept, Zenon DEF Listed, Sent, IInv
  <1>7. Muxes'
    BY MuxesKept, Zenon DEF Receiving, IInv
  <1>8. Messages'
    BY <1>3, MessagesKept, Zenon DEF Sent, Receiving, IInv, connvars
  <1>10. Sleepers'
    <2>1. ASSUME FALSE \notin SendMayFail PROVE MuxerAlive'
      <3>1. MuxerAlive /\ muxer \in Rpcs
        BY <2>1, Zenon DEF Sleepers, Types, TypeOK, IInv
      <3>. QED  BY <1>3, <3>1, Zenon DEF MuxerAlive, muxing
    <2>. QED  BY <1>3, <2>1, Zenon DEF Sleepers, IInv
  <1>. QED  BY <1>3, <1>4, <1>6, <1>7, <1>8, <1>10, Zenon DEF IInv

\* muxrpc and muxrpccanfinish become the muxer.
LEMMA TakeOverPreserves ==
    ASSUME IInv, NEW r \in Rpcs, pc[r] \in {"wait", "asleep", "started"}, p[r] = nil,
           muxer \in {nil, r}, muxer' = r,
           pc' = [pc EXCEPT ![r] = "recv"], woken' = woken \ {r},
           UNCHANGED <<tagvars, tag, async, p, got, aborted>>,
           UNCHANGED <<sleep, lk, inlk, outlk, hand, connvars>>
    PROVE  IInv'
  <1>3. /\ holders' = holders /\ Tags' /\ Waiters' /\ pc'[r] = "recv"
        /\ \A s \in Rpcs : s # r => pc'[s] = pc[s]
    BY Moved, Zenon DEF PC, IInv, tagvars
  <1>4. Types'
    BY Zenon DEF Types, TypeOK, PC, mwait, Answers, stray, eofmsg, nopacket, IInv, tagvars,
       connvars
  <1>6. Listed'
    BY <1>3, ListedKept, Zenon DEF Listed, Sent, Receiving, IInv
  <1>7. Muxes'
    <2>1. \A s \in Rpcs : s # nil
      BY MuxAssumption, Zenon
    <2>2. \A s \in Rpcs : pc[s] \notin Receiving
      BY <2>1, Zenon DEF Muxes, Receiving, IInv
    <2>3. inlk = nil
      BY <2>2, Zenon DEF Muxes, Receiving, Types, TypeOK, IInv
    <2>. QED  BY <1>3, <2>2, <2>3, Fixed, Zenon DEF Muxes, Receiving, IInv
  <1>8. Messages'
    BY <1>3, MessagesKept, Zenon DEF Sent, Receiving, IInv, connvars
  <1>10. Sleepers'
    <2>1. MuxerAlive'
      BY <1>3, MuxAssumption, Zenon DEF MuxerAlive, muxing
    <2>. QED  BY <1>3, <2>1, Zenon DEF Sleepers, IInv
  <1>. QED  BY <1>3, <1>4, <1>6, <1>7, <1>8, <1>10, Zenon DEF IInv

\* muxrpccanfinish finds another muxer and goes away.
LEMMA PollPreserves ==
    ASSUME IInv, NEW r \in Rpcs, got' = [got EXCEPT ![r] = "eof"],
           UNCHANGED <<tagvars, tag, async, p, woken, pc, muxer, aborted>>,
           UNCHANGED <<sleep, lk, inlk, outlk, hand, connvars>>
    PROVE  IInv'
  <1>2. holders' = holders /\ muxing' = muxing
    BY Zenon DEF holders, muxing
  <1>3. Types'
    BY Zenon DEF Types, TypeOK, PC, mwait, Answers, stray, eofmsg, nopacket, IInv, tagvars,
       connvars
  <1>4. Tags' /\ Listed'
    BY <1>2, Zenon DEF Tags, Listed, mwait, IInv, tagvars
  <1>5. Muxes'
    BY Zenon DEF Muxes, nopacket, IInv
  <1>6. Messages'
    <2>1. \A m : Live(m)' <=> Live(m)
      BY Zenon DEF Live, Reply
    <2>2. stray' = stray /\ eofmsg' = eofmsg /\ nopacket' = nopacket
      BY Zenon DEF stray, eofmsg, nopacket
    <2>3. \A s \in Rpcs : got'[s] \in {nil, s, "eof", "none"}
      BY Zenon DEF Messages, Types, TypeOK, IInv
    <2>. QED  BY <2>1, <2>2, <2>3, Zenon DEF Messages, IInv, connvars
  <1>7. Waiters'
    BY WaitersKept, Zenon DEF Types, TypeOK, Waiters, IInv, tagvars, connvars
  <1>8. Sleepers'
    BY <1>2, Zenon DEF Sleepers, MuxerAlive, IInv
  <1>. QED  BY <1>3, <1>4, <1>5, <1>6, <1>7, <1>8, Zenon DEF IInv

\* muxmsgandqlock takes a reply that a call waits for to that call, and no
\* other message to anybody.
LEMMA Addressed ==
    ASSUME IInv, NEW m
    PROVE  /\ m \in {stray, eofmsg, nopacket} => addressee(m) = nil
           /\ Live(m) => addressee(m) = m.of
  <1>2. mwait \in Nat
    BY DEF Types, TypeOK, mwait
  <1>3. m \in {stray, eofmsg, nopacket} => addressee(m) = nil
    BY <1>2, Distinct DEF addressee
  <1>4. ASSUME Live(m) PROVE addressee(m) = m.of
    <2>1. m.of \in Rpcs /\ m.of \in holders /\ p[m.of] = nil /\ m.tag = tag[m.of]
      BY <1>4 DEF Live, Answers, Reply, holders, Sent, Receiving
    <2>2. m.tag \in Nat /\ m.tag < mwait /\ wait[m.tag + 1] = m.of
      BY <2>1, Zenon DEF Tags, Types, TypeOK, IInv
    <2>3. m.of \in Range(sleep)
      BY <2>1, Zenon DEF Listed, IInv
    <2>. QED  BY <1>2, <2>2, <2>3 DEF addressee
  <1>. QED  BY <1>3, <1>4, Zenon

\* The muxer with a message for another call, or for nobody.
LEMMA HandOnPreserves ==
    ASSUME IInv, NEW r \in Rpcs, muxmsgandqlock(r)
    PROVE  IInv'
  <1>. DEFINE m == hand[r]
              r2 == m.of
  <1>2. /\ pc[r] = "received" /\ m \notin {eofmsg, nopacket} /\ addressee(m) # r
        /\ hand' = [hand EXCEPT ![r] = nopacket] /\ pc' = [pc EXCEPT ![r] = "recv"]
        /\ UNCHANGED <<tagvars, muxer, lk, inlk, outlk, tag, async, got, connvars, aborted>>
    BY Zenon DEF muxmsgandqlock, locked, at, goto
  <1>3. \/ addressee(m) = nil /\ UNCHANGED <<p, sleep, woken>>
        \/ /\ addressee(m) # nil /\ p' = [p EXCEPT ![addressee(m)] = r2]
           /\ sleep' = dequeued(addressee(m)) /\ woken' = woken \cup rwakeup(addressee(m))
    BY Zenon DEF muxmsgandqlock
  <1>4. m = stray \/ Live(m)
    BY <1>2, Zenon DEF Messages, IInv
  <1>5. \/ m = stray /\ UNCHANGED <<p, sleep, woken>>
        \/ /\ Live(m) /\ r2 \in Rpcs /\ r2 # r /\ p' = [p EXCEPT ![r2] = r2]
           /\ sleep' = dequeued(r2) /\ woken' = woken \cup rwakeup(r2)
    <2>1. Live(m) => r2 \in Rpcs /\ r2 # nil
      BY MuxAssumption, Zenon DEF Live, Answers
    <2>. HIDE DEF m
    <2>. QED  BY <1>2, <1>3, <1>4, <2>1, Addressed, Zenon
  <1>8. /\ \A s \in Rpcs : hand'[s] = nopacket
        /\ \A s \in Rpcs : s # r => hand[s] = nopacket
        /\ muxer = r
    BY <1>2, OneHand, Zenon DEF Types, Receiving, Muxes, IInv
  <1>. HIDE DEF m
  <1>9. /\ sleep' \in Seq(Rpcs) /\ IsInjective(sleep') /\ p' \in [Rpcs -> Rpcs \cup {nil}]
        /\ Range(sleep') = {s \in holders : p'[s] = nil}
        /\ \A s \in Rpcs : p'[s] # nil => p'[s] = s /\ pc[s] \in Sent
        /\ woken \subseteq woken' /\ woken' \subseteq Rpcs
        /\ \A s \in woken' : s \in woken \/ pc[s] = "asleep"
        /\ \A s \in Rpcs : pc[s] = "asleep" /\ p'[s] # nil => s \in woken'
        /\ p'[r] = p[r]
    <2>1. CASE UNCHANGED <<p, sleep, woken>>
      BY <2>1, Zenon DEF Types, TypeOK, Listed, Sleepers, IInv
    <2>2. CASE /\ Live(m) /\ r2 \in Rpcs /\ r2 # r /\ p' = [p EXCEPT ![r2] = r2]
               /\ sleep' = dequeued(r2) /\ woken' = woken \cup rwakeup(r2)
      <3>. HIDE DEF r2
      <3>1. r2 \in Range(sleep) /\ pc[r2] \in Sent /\ r2 # nil
        BY <2>2, MuxAssumption, Zenon DEF Live, Listed, holders, Sent, Receiving, r2, IInv
      <3>2. sleep' \in Seq(Rpcs) /\ IsInjective(sleep') /\ Range(sleep') = Range(sleep) \ {r2}
        BY <2>2, <3>1, Dequeued, Zenon DEF Types, TypeOK, Listed, IInv
      <3>3. p \in [Rpcs -> Rpcs \cup {nil}] /\ woken \subseteq Rpcs
        BY Zenon DEF Types, TypeOK, IInv
      <3>4. Range(sleep') = {s \in holders : p'[s] = nil}
        BY <2>2, <3>1, <3>2, <3>3, Zenon DEF Listed, holders, IInv
      <3>5. \A s \in Rpcs : p'[s] # nil => p'[s] = s /\ pc[s] \in Sent
        BY <2>2, <3>1, <3>3, Zenon DEF Listed, IInv
      <3>6. \A s : s \in woken' <=> s \in woken \/ (s = r2 /\ pc[r2] = "asleep")
        BY <2>2, Zenon DEF rwakeup
      <3>. QED  BY <2>2, <3>2, <3>3, <3>4, <3>5, <3>6, Zenon DEF Sleepers, IInv
    <2>. QED  BY <1>5, <2>1, <2>2, Zenon
  <1>7. /\ holders' = holders /\ Tags' /\ Waiters' /\ pc'[r] = "recv"
        /\ \A s \in Rpcs : s # r => pc'[s] = pc[s]
    BY <1>2, <1>9, Moved, Zenon DEF PC, IInv, tagvars
  <1>10. Types'
    BY <1>2, <1>9, Zenon DEF Types, TypeOK, PC, mwait, Answers, stray, eofmsg, nopacket, IInv,
       tagvars, connvars
  <1>12. Listed'
    BY <1>7, <1>9, Zenon DEF Listed, Sent, Receiving
  <1>13. Muxes'
    <2>1. p'[r] = p[r]
      BY <1>9, Zenon
    <2>. QED  BY <1>2, <1>7, <1>8, <2>1, Fixed DEF Muxes, Receiving, IInv
  <1>14. Messages'
    <2>1. ASSUME NEW x, Live(x), x # m PROVE Live(x)'
      <3>1. x.of \in Rpcs /\ pc[x.of] \in Sent /\ x = Reply(x.of)
        BY <2>1, Zenon DEF Live, Answers
      <3>2. pc'[x.of] \in Sent
        BY <1>7, <3>1, Zenon DEF Sent, Receiving
      <3>3. p'[x.of] = p[x.of]
        <4>1. Live(m) => x.of # r2
          BY <2>1, <3>1, Zenon DEF Live
        <4>2. p \in [Rpcs -> Rpcs \cup {nil}]
          BY Zenon DEF Types, TypeOK, IInv
        <4>. HIDE DEF r2
        <4>. QED  BY <1>5, <3>1, <4>1, <4>2, Zenon
      <3>. QED  BY <1>2, <2>1, <3>2, <3>3, LiveKept, Zenon
    <2>2. \A x : Pending(x) => Live(x) /\ x # m
      BY Zenon DEF Pending, Messages, m, IInv
    <2>3. \A s \in Rpcs : got'[s] \in {nil, s, "eof", "none"}
      BY <1>2, Zenon DEF Messages, IInv
    <2>. QED  BY <1>2, <1>8, <2>1, <2>2, <2>3, MessagesLeft, Zenon DEF IInv, connvars
  <1>16. Sleepers'
    <2>1. MuxerAlive'
      BY <1>2, <1>7, <1>8, MuxAssumption, Zenon DEF MuxerAlive, muxing
    <2>. QED  BY <1>2, <1>7, <1>9, <2>1, Zenon DEF Sleepers, IInv
  <1>. QED  BY <1>7, <1>10, <1>12, <1>13, <1>14, <1>16, Zenon DEF IInv

----------------------------------------------------------------------------
(* Election.  The muxer r leaves; list is what it leaves on mux->sleep.    *)

LEMMA Elected ==
    ASSUME IInv, NEW r \in Rpcs, pc[r] = "received", NEW list \in Seq(Rpcs),
           Range(list) \subseteq Range(sleep), Range(sleep) \subseteq Range(list) \cup {r},
           r \in Range(list) => async[r], electmuxer(list)
    PROVE  /\ elected(list) \subseteq {s \in Rpcs : pc[s] = "asleep"}
           /\ muxer' \in Rpcs \cup {nil} /\ muxer' # r
           /\ IF muxer' = nil
              THEN \A s \in Rpcs : pc[s] = "asleep" => s \in woken
              ELSE /\ p[muxer'] = nil /\ ~async[muxer']
                   /\ \/ pc[muxer'] \in {"send", "outlk", "sending", "sendfailed", "wait"}
                      \/ pc[muxer'] = "asleep" /\ muxer' \in elected(list)
  <1>. DEFINE c == candidate(list)
              e == list[c]
  <1>2. /\ muxer' = IF c = 0 THEN nil ELSE e
        /\ elected(list) = IF c = 0 THEN {} ELSE {e} \cap {s \in Rpcs : pc[s] = "asleep"}
    BY Zenon DEF electmuxer, elected, rwakeup
  <1>3. /\ c = 0 => \A s \in Range(list) : async[s]
        /\ c # 0 => e \in Range(list) /\ ~async[e]
    BY Candidate, Zenon DEF IInv
  <1>4. nil \notin Rpcs /\ Range(list) \subseteq Rpcs
    BY MuxAssumption, Elements, Zenon
  <1>. HIDE DEF c, e
  <1>5. CASE c = 0
    <2>1. \A s \in Rpcs : pc[s] = "asleep" => s \in woken
      <3>. SUFFICES ASSUME NEW s \in Rpcs, pc[s] = "asleep", p[s] = nil PROVE FALSE
        BY Zenon DEF Sleepers, IInv
      <3>1. s \in Range(list) /\ ~async[s]
        BY Zenon DEF Listed, holders, Sleepers, IInv
      <3>. QED  BY <1>3, <1>5, <3>1, Zenon
    <2>. QED  BY <1>2, <1>4, <1>5, <2>1, Zenon
  <1>6. CASE c # 0
    <2>1. e \in Rpcs /\ e # r /\ e # nil /\ e \in holders /\ p[e] = nil /\ ~async[e]
      BY <1>3, <1>4, <1>6, Zenon DEF Listed, IInv
    <2>2. pc[e] \notin Receiving /\ pc[e] # "started" /\ pc[e] \in PC /\ pc[e] \notin {"idle", "tagwait"}
      BY <2>1, OneHand, Zenon DEF Sleepers, Types, TypeOK, holders, Receiving, IInv
    <2>. QED  BY <1>2, <1>6, <2>1, <2>2, Zenon DEF PC, Receiving
  <1>. QED  BY <1>5, <1>6, Zenon

\* muxrpccanfinish got no packet: r stays on the list.
LEMMA CannotPreserves ==
    ASSUME IInv, NEW r \in Rpcs, cannotfinish(r)
    PROVE  IInv'
  <1>2. /\ pc[r] = "received" /\ async[r] /\ hand[r] \in {eofmsg, nopacket} /\ electmuxer(sleep)
        /\ woken' = woken \cup elected(sleep) /\ got' = [got EXCEPT ![r] = hand[r].of]
        /\ hand' = [hand EXCEPT ![r] = nopacket] /\ pc' = [pc EXCEPT ![r] = "started"]
        /\ UNCHANGED <<tagvars, sleep, lk, inlk, outlk, tag, async, p, connvars, aborted>>
    BY Zenon DEF cannotfinish, locked, at, goto
  <1>. DEFINE E == elected(sleep)
  <1>3. /\ E \subseteq {s \in Rpcs : pc[s] = "asleep"}
        /\ muxer' \in Rpcs \cup {nil} /\ muxer' # r
        /\ IF muxer' = nil
           THEN \A s \in Rpcs : pc[s] = "asleep" => s \in woken
           ELSE /\ p[muxer'] = nil /\ ~async[muxer']
                /\ \/ pc[muxer'] \in {"send", "outlk", "sending", "sendfailed", "wait"}
                   \/ pc[muxer'] = "asleep" /\ muxer' \in E
    BY <1>2, Elected, Zenon DEF Types, TypeOK, IInv
  <1>. HIDE DEF E
  <1>5. /\ holders' = holders /\ Tags' /\ Waiters' /\ pc'[r] = "started"
        /\ \A s \in Rpcs : s # r => pc'[s] = pc[s]
    BY <1>2, <1>3, Moved, Zenon DEF PC, E, IInv, tagvars
  <1>6. /\ \A s \in Rpcs : hand'[s] = nopacket
        /\ \A s \in Rpcs : s # r => hand[s] = nopacket /\ pc[s] \notin Receiving
    BY <1>2, OneHand, Zenon DEF Types, Receiving, IInv
  <1>7. woken' = woken \cup E
    BY <1>2, Zenon DEF E
  <1>8. \A s \in Rpcs : got'[s] \in {nil, s, "eof", "none"}
    BY <1>2, Distinct, Zenon DEF Messages, Types, TypeOK, IInv
  <1>9. Types'
    <2>1. got' \in [Rpcs -> Rpcs \cup {nil, "eof", "none"}]
      BY <1>2, Distinct, Zenon DEF Types, TypeOK, IInv, tagvars
    <2>2. hand' \in [Rpcs -> {nopacket}]
      BY <1>2, <1>6, Zenon DEF Types, IInv
    <2>. QED  BY <1>2, <1>3, <1>7, <2>1, <2>2, Zenon DEF Types, TypeOK, PC, mwait, Answers, stray,
                 eofmsg, nopacket, IInv, tagvars, connvars
  <1>11. Listed'
    BY <1>2, <1>5, ListedKept, Zenon DEF Listed, Sent, IInv
  <1>12. Muxes'
    <2>2. \A s \in Rpcs : pc'[s] \notin Receiving
      BY <1>5, <1>6, Zenon DEF Receiving
    <2>3. inlk = nil
      BY <1>2, <1>6, Zenon DEF Muxes, Receiving, Types, TypeOK, IInv
    <2>. QED  BY <1>2, <1>3, <1>6, <2>2, <2>3, Fixed, Zenon DEF Muxes, Receiving
  <1>13. Messages'
    <2>1. \A m : Pending(m) => Live(m)
      BY Zenon DEF Pending, Messages, IInv
    <2>2. ASSUME NEW m, Live(m) PROVE Live(m)'
      BY <1>2, <1>5, <2>2, AllLive, Zenon DEF Sent
    <2>. QED  BY <1>2, <1>6, <1>8, <2>1, <2>2, MessagesLeft, Zenon DEF IInv, connvars
  <1>15. Sleepers'
    <2>1. MuxerAlive'
      BY <1>2, <1>3, <1>5, <1>7, Zenon DEF MuxerAlive
    <2>. QED  BY <1>2, <1>5, <1>7, <2>1, Zenon DEF Sleepers, IInv
  <1>. QED  BY <1>5, <1>9, <1>11, <1>12, <1>13, <1>15, Zenon DEF IInv

----------------------------------------------------------------------------
(* The server.                                                             *)

\* A step of the connection alone.
LEMMA ServerKeeps ==
    ASSUME IInv, UNCHANGED <<tagvars, muxer, sleep, lk, inlk, outlk, tag, async, p, woken, pc,
                             hand, got, aborted>>,
           reqs' \subseteq reqs, replies' \in Seq(Answers \cup {stray}), eof' \in BOOLEAN
    PROVE  /\ Types' /\ Tags' /\ Listed' /\ Muxes' /\ Waiters' /\ Sleepers'
           /\ \A m : Live(m)' <=> Live(m)
           /\ stray' = stray /\ eofmsg' = eofmsg /\ nopacket' = nopacket
  <1>2. holders' = holders /\ muxing' = muxing
    BY Zenon DEF holders, muxing
  <1>3. Types'
    BY Zenon DEF Types, TypeOK, PC, mwait, Answers, stray, eofmsg, nopacket, IInv, tagvars
  <1>4. Tags' /\ Listed'
    BY <1>2, Zenon DEF Tags, Listed, mwait, IInv, tagvars
  <1>5. Muxes'
    BY Zenon DEF Muxes, nopacket, IInv
  <1>6. Waiters'
    BY WaitersKept, Zenon DEF Types, TypeOK, Waiters, IInv, tagvars
  <1>7. Sleepers'
    BY <1>2, Zenon DEF Sleepers, MuxerAlive, IInv
  <1>8. \A m : Live(m)' <=> Live(m)
    BY Zenon DEF Live, Reply
  <1>. QED  BY <1>3, <1>4, <1>5, <1>6, <1>7, <1>8, Zenon DEF stray, eofmsg, nopacket

LEMMA ServerPreserves ==
    ASSUME IInv, (\E m \in reqs : answer(m)) \/ misanswer \/ close
    PROVE  IInv'
  <1>. DEFINE M == Answers \cup {stray}
  <1>2. replies \in Seq(M) /\ reqs \subseteq Answers /\ eof \in BOOLEAN
    BY Zenon DEF Types, TypeOK, IInv
  <1>3. /\ UNCHANGED <<tagvars, muxer, sleep, lk, inlk, outlk, tag, async, p, woken, pc,
                       hand, got, aborted>>
        /\ ~eof
    BY Zenon DEF answer, misanswer, close
  <1>4. \A s \in Rpcs : hand[s] # eofmsg
    BY <1>3, Zenon DEF Messages, IInv
  <1>5. ASSUME NEW m \in M, replies' = Append(replies, m), eof' = eof,
               \/ m = stray /\ reqs' = reqs
               \/ m \in reqs /\ m # stray /\ reqs' = reqs \ {m}
        PROVE  IInv'
    <2>. DEFINE n == Len(replies) + 1
    <2>1. /\ replies' \in Seq(M)
          /\ DOMAIN replies' = DOMAIN replies \cup {n} /\ n \notin DOMAIN replies
          /\ \A i \in DOMAIN replies : replies'[i] = replies[i]
          /\ replies'[n] = m
      <3>. HIDE DEF M
      <3>. QED  BY <1>2, <1>5, Appended
    <2>. HIDE DEF n
    <2>2. /\ Types' /\ Tags' /\ Listed' /\ Muxes' /\ Waiters' /\ Sleepers'
          /\ \A x : Live(x)' <=> Live(x)
          /\ stray' = stray /\ eofmsg' = eofmsg /\ nopacket' = nopacket
      BY <1>2, <1>3, <1>5, <2>1, ServerKeeps, Zenon
    <2>3. \A x \in reqs : x # stray
      BY <1>2, Distinct, Zenon
    <2>4. \A x \in reqs' : x \in reqs /\ x # m
      BY <1>5, <2>3, Zenon
    <2>5. m # stray => /\ Live(m) /\ \A i \in DOMAIN replies : replies[i] # m
                       /\ \A s \in Rpcs : hand[s] # m
      BY <1>3, <1>5, Zenon DEF Messages, IInv
    <2>6. (~eof => \A x \in reqs :
             /\ Live(x)
             /\ \A i \in DOMAIN replies : replies[i] # x
             /\ \A s \in Rpcs : hand[s] # x)'
      BY <1>3, <1>5, <2>1, <2>2, <2>4 DEF Messages, IInv
    <2>7. (\A i \in DOMAIN replies : replies[i] # stray =>
             /\ Live(replies[i])
             /\ \A j \in DOMAIN replies : replies[i] = replies[j] => i = j
             /\ \A s \in Rpcs : hand[s] # replies[i])'
      <3>1. \A i \in DOMAIN replies : replies[i] # stray =>
               /\ Live(replies[i])
               /\ \A j \in DOMAIN replies : replies[i] = replies[j] => i = j
               /\ \A s \in Rpcs : hand[s] # replies[i]
        BY Zenon DEF Messages, IInv
      <3>. QED  BY <1>3, <2>1, <2>2, <2>5, <3>1
    <2>8. Messages'
      BY <1>3, <1>4, <2>2, <2>6, <2>7, Zenon DEF Messages, IInv
    <2>. QED  BY <2>2, <2>8, Zenon DEF IInv
  <1>6. CASE \E m \in reqs : answer(m)
    <2>1. PICK m \in reqs : answer(m)
      BY <1>6, Zenon
    <2>2. m \in M /\ m # stray
      BY <1>2, Distinct, Zenon
    <2>. QED  BY <1>5, <2>1, <2>2, Zenon DEF answer
  <1>7. CASE misanswer
    BY <1>5, <1>7, Zenon DEF misanswer
  <1>8. CASE close
    <2>1. eof' = TRUE /\ UNCHANGED <<reqs, replies>>
      BY <1>8, Zenon DEF close
    <2>2. /\ Types' /\ Tags' /\ Listed' /\ Muxes' /\ Waiters' /\ Sleepers'
          /\ \A x : Live(x)' <=> Live(x)
          /\ stray' = stray /\ eofmsg' = eofmsg /\ nopacket' = nopacket
      BY <1>2, <1>3, <2>1, ServerKeeps, Zenon
    <2>3. Messages'
      BY <1>3, <1>4, <2>1, <2>2, Zenon DEF Messages, IInv
    <2>. QED  BY <2>2, <2>3, Zenon DEF IInv
  <1>. QED  BY <1>6, <1>7, <1>8, Zenon

----------------------------------------------------------------------------
(* Giving a tag back.                                                      *)

\* r finishes: it was handed its reply, or it never sent its request, or it
\* is the muxer with its own reply or with the end of the connection in hand.
Done(r) ==
    \/ p[r] # nil
    \/ pc[r] = "sendfailed"
    \/ pc[r] = "received" /\ (hand[r] = Reply(r) \/ (eof /\ replies = <<>>))

\* Then no message for it is left.
LEMMA NoneLeft ==
    ASSUME IInv, NEW r \in holders, Done(r)
    PROVE  /\ ~eof => \A m \in reqs : m.of # r
           /\ \A i \in DOMAIN replies : replies[i] # stray => replies[i].of # r
           /\ \A s \in Rpcs : s # r /\ hand[s] \notin {stray, eofmsg, nopacket} => hand[s].of # r
  <1>1. Muxes /\ Messages /\ r \in Rpcs
    BY Zenon DEF IInv, holders
  <1>2. CASE p[r] # nil \/ pc[r] = "sendfailed"
    <2>1. \A m : Live(m) => m.of # r
      BY <1>2, Zenon DEF Live, Sent, Receiving
    <2>. QED  BY <1>1, <2>1, Zenon DEF Messages
  <1>3. CASE pc[r] = "received" /\ hand[r] = Reply(r)
    <2>1. \A m : Live(m) /\ m.of = r => m = hand[r]
      BY <1>3, Zenon DEF Live
    <2>. QED  BY <1>1, <1>3, <2>1, OneHand DEF Messages, Receiving
  <1>4. CASE pc[r] = "received" /\ eof /\ replies = <<>>
    <2>1. DOMAIN replies = {}
      BY <1>4
    <2>. QED  BY <1>1, <1>4, <2>1, OneHand, Zenon DEF Receiving
  <1>. QED  BY <1>2, <1>3, <1>4, Zenon DEF Done

LEMMA PutTags ==
    ASSUME Facts, Types, Tags, NEW r \in holders, NEW S, puttag(r, S), holders' = holders \ {r}
    PROVE  Tags' /\ wait' \in Seq(Rpcs \cup {nil}) /\ Len(wait') = Len(wait) /\ nwait' \in 0..Len(wait)
  <1>. DEFINE k == tag[r] + 1
  <1>1. /\ wait' = [wait EXCEPT ![k] = nil] /\ nwait' = nwait - 1
        /\ tag' = [tag EXCEPT ![r] = 0] /\ aborted' = (wait[k] # r)
    BY Zenon DEF puttag
  <1>2. /\ wait \in Seq(Rpcs \cup {nil}) /\ nwait \in 0..Len(wait) /\ tag \in [Rpcs -> Nat]
        /\ r \in Rpcs /\ nil \notin Rpcs
    BY MuxAssumption, Zenon DEF Types, TypeOK, mwait, holders
  <1>3. k \in 1..Len(wait) /\ wait[k] = r
    BY <1>2 DEF Tags, mwait
  <1>. HIDE DEF k
  <1>4. /\ Len(wait) \in Nat /\ wait' \in Seq(Rpcs \cup {nil}) /\ Len(wait') = Len(wait)
        /\ wait'[k] = nil /\ \A i \in 1..Len(wait) : i # k => wait'[i] = wait[i]
    BY <1>1, <1>2, <1>3
  <1>5. /\ nwait' = Cardinality(holders') /\ nwait' \in Nat
    <2>1. holders \in SUBSET Rpcs /\ holders' \in SUBSET Rpcs
      BY Zenon DEF holders
    <2>2. Cardinality(holders') = Cardinality(holders) - 1 /\ Cardinality(holders') \in Nat
      BY <2>1, Zenon DEF Facts, Counting
    <2>. QED  BY <1>1, <2>2, Zenon DEF Tags
  <1>6. ~aborted'
    BY <1>1, <1>3, Zenon
  <1>7. ASSUME NEW s \in holders' PROVE tag'[s] < Len(wait) /\ wait'[tag'[s] + 1] = s
    <2>1. s \in holders /\ s \in Rpcs /\ s # r
      BY <1>7, Zenon DEF holders
    <2>2. tag'[s] = tag[s] /\ tag[s] \in Nat /\ tag[s] < Len(wait) /\ wait[tag[s] + 1] = s
      BY <1>1, <1>2, <2>1, Zenon DEF Tags, mwait
    <2>3. tag[s] + 1 \in 1..Len(wait) /\ tag[s] + 1 # k
      BY <1>3, <1>4, <2>1, <2>2
    <2>. QED  BY <1>4, <2>2, <2>3, Zenon
  <1>8. ASSUME NEW i \in 1..Len(wait), wait'[i] # nil
        PROVE  wait'[i] \in holders' /\ tag'[wait'[i]] = i - 1
    <2>1. i # k /\ wait'[i] = wait[i]
      BY <1>4, <1>8, Zenon
    <2>2. wait[i] \in holders /\ tag[wait[i]] = i - 1 /\ wait[i] \in Rpcs
      BY <1>8, <2>1, Zenon DEF Tags, mwait, holders
    <2>3. wait[i] # r
      BY <1>2, <2>1, <2>2 DEF k
    <2>. QED  BY <1>1, <1>2, <2>1, <2>2, <2>3
  <1>9. Tags'
    BY <1>4, <1>5, <1>6, <1>7, <1>8, Zenon DEF Tags, mwait
  <1>. QED  BY <1>1, <1>2, <1>4, <1>5, <1>9

\* A waiter for each tag that becomes free.
LEMMA PutWaiters ==
    ASSUME Facts, Types, Waiters, NEW r \in holders, NEW S, puttag(r, S), Len(wait') = Len(wait),
           \A s \in S : s \in Rpcs /\ s # r /\ pc[s] = "asleep",
           pc' = [pc EXCEPT ![r] = "idle"]
    PROVE  /\ Waiters' /\ tagrend' \in Seq(Rpcs) /\ woken' \subseteq Rpcs
           /\ \A s \in Rpcs : s # r /\ s \in woken \cup S => s \in woken'
  <1>. DEFINE W == {s \in woken : pc[s] = "tagwait"}
              h == Head(tagrend)
  <1>1. /\ tagrend \in Seq(Rpcs) /\ woken \subseteq Rpcs /\ r \in Rpcs /\ nwait \in Nat
        /\ Len(wait) \in Nat
        /\ pc \in [Rpcs -> PC] /\ pc[r] \notin {"idle", "tagwait"}
    BY DEF Types, TypeOK, holders, mwait
  <1>2. /\ \A s \in Rpcs : s # r => pc'[s] = pc[s]
        /\ pc'[r] = "idle"
    BY <1>1, Zenon
  <1>3. nwait' = nwait - 1
    BY Zenon DEF puttag
  <1>4. /\ Range(tagrend) = {s \in Rpcs : pc[s] = "tagwait" /\ s \notin woken}
        /\ IsInjective(tagrend) /\ (tagrend # <<>> => mwait >= NTags)
        /\ \A s \in woken : pc[s] \in {"asleep", "tagwait"}
        /\ tagrend # <<>> => Len(wait) - nwait <= Cardinality(W)
    BY Zenon DEF Waiters, NoLostTag, mwait
  <1>5. CASE tagrend = <<>>
    <2>1. tagrend' = <<>> /\ woken' = (woken \ {r}) \cup S
      BY <1>5, Zenon DEF puttag
    <2>2. Range(tagrend') = Range(tagrend) /\ IsInjective(tagrend')
      BY <1>4, <1>5, <2>1, Zenon
    <2>3. {s \in Rpcs : pc'[s] = "tagwait" /\ s \notin woken'} = {s \in Rpcs : pc[s] = "tagwait" /\ s \notin woken}
      BY <1>1, <1>2, <2>1, Zenon
    <2>4. \A s \in woken' : pc'[s] \in {"asleep", "tagwait"}
      BY <1>1, <1>2, <1>4, <2>1, Zenon
    <2>5. Waiters'
      BY <1>4, <2>1, <2>2, <2>3, <2>4, Zenon DEF Waiters, NoLostTag
    <2>. QED  BY <1>1, <2>1, <2>5
  <1>6. CASE tagrend # <<>>
    <2>1. tagrend' = Tail(tagrend) /\ woken' = (woken \ {r}) \cup S \cup {h}
      BY <1>6, Zenon DEF puttag
    <2>2. /\ tagrend' \in Seq(Rpcs) /\ h \in Range(tagrend)
          /\ IsInjective(tagrend') /\ Range(tagrend') = Range(tagrend) \ {h}
      BY <1>1, <1>4, <1>6, <2>1, Tailed, Zenon
    <2>. HIDE DEF h
    <2>3. h \in Rpcs /\ pc[h] = "tagwait" /\ h \notin woken /\ h # r
      BY <1>1, <1>4, <2>2, Zenon
    <2>4. {s \in Rpcs : pc'[s] = "tagwait" /\ s \notin woken'}
             = {s \in Rpcs : pc[s] = "tagwait" /\ s \notin woken} \ {h}
      BY <1>1, <1>2, <2>1, Zenon
    <2>5. \A s \in woken' : s \in Rpcs /\ pc'[s] \in {"asleep", "tagwait"}
      BY <1>1, <1>2, <1>4, <2>1, <2>3, Zenon
    <2>6. {s \in woken' : pc'[s] = "tagwait"} = W \cup {h}
      BY <1>1, <1>2, <2>1, <2>3, Zenon
    <2>7. Cardinality(W \cup {h}) = Cardinality(W) + 1 /\ Cardinality(W) \in Nat
      <3>1. W \in SUBSET Rpcs /\ h \in Rpcs \ W
        BY <1>1, <2>3, Zenon
      <3>. HIDE DEF W
      <3>. QED  BY <3>1, Zenon DEF Facts, Counting
    <2>8. Len(wait') - nwait' <= Cardinality({s \in woken' : pc'[s] = "tagwait"})
      <3>. DEFINE k == Cardinality(W)
                  n == Len(wait)
      <3>1. Cardinality({s \in woken' : pc'[s] = "tagwait"}) = k + 1 /\ k \in Nat
        BY <2>6, <2>7, Zenon
      <3>2. n - nwait <= k /\ n \in Nat /\ Len(wait') = n
        BY <1>1, <1>4, <1>6, Zenon
      <3>. HIDE DEF W, k, n
      <3>3. n - (nwait - 1) <= k + 1
        BY <1>1, <3>1, <3>2
      <3>. QED  BY <1>3, <3>1, <3>2, <3>3, Zenon
    <2>9. mwait' >= NTags
      BY <1>4, <1>6, Zenon DEF mwait
    <2>10. Waiters'
      BY <1>4, <2>2, <2>4, <2>5, <2>8, <2>9, Zenon DEF Waiters, NoLostTag, mwait
    <2>. QED  BY <2>1, <2>2, <2>5, <2>10, Zenon
  <1>. QED  BY <1>5, <1>6, Zenon

LEMMA Finished ==
    ASSUME IInv, NEW r \in holders, Done(r), NEW S, puttag(r, S), pc' = [pc EXCEPT ![r] = "idle"],
           \A s \in S : s \in Rpcs /\ s # r /\ pc[s] = "asleep",
           sleep' \in Seq(Rpcs), IsInjective(sleep'), Range(sleep') = Range(sleep) \ {r},
           hand' = [hand EXCEPT ![r] = nopacket],
           got' \in [Rpcs -> Rpcs \cup {nil, "eof", "none"}],
           \A s \in Rpcs : got'[s] \in {nil, s, "eof", "none"},
           muxer' \in Rpcs \cup {nil}, muxer' # nil => p'[muxer'] = nil,
           \A s \in Rpcs : s # r /\ pc[s] \in Receiving => muxer' = s,
           FALSE \notin SendMayFail => MuxerAlive',
           UNCHANGED <<lk, inlk, outlk, connvars>>
    PROVE  IInv'
  <1>2. /\ freetag' = tag[r] /\ tag' = [tag EXCEPT ![r] = 0]
        /\ async' = [async EXCEPT ![r] = FALSE] /\ p' = [p EXCEPT ![r] = nil]
    BY Zenon DEF puttag
  <1>3. r \in Rpcs /\ holders' = holders \ {r}
    BY Zenon DEF holders, Types, TypeOK, IInv, connvars
  <1>4. /\ \A s \in Rpcs : s # r => /\ pc'[s] = pc[s] /\ p'[s] = p[s] /\ tag'[s] = tag[s]
                                    /\ async'[s] = async[s] /\ hand'[s] = hand[s]
        /\ pc'[r] = "idle" /\ p'[r] = nil /\ hand'[r] = nopacket
    BY <1>2, <1>3, Zenon DEF Types, TypeOK, IInv
  <1>5. Tags' /\ wait' \in Seq(Rpcs \cup {nil}) /\ Len(wait') = Len(wait) /\ nwait' \in 0..Len(wait)
    BY <1>3, PutTags, Zenon DEF IInv
  <1>6. /\ Waiters' /\ tagrend' \in Seq(Rpcs) /\ woken' \subseteq Rpcs
        /\ \A s \in Rpcs : s # r /\ s \in woken \cup S => s \in woken'
    BY <1>3, <1>5, PutWaiters, Zenon DEF IInv
  <1>7. Types'
    <2>1. /\ aborted' = FALSE
          /\ tag' \in [Rpcs -> Nat] /\ async' \in [Rpcs -> BOOLEAN]
          /\ p' \in [Rpcs -> Rpcs \cup {nil}] /\ pc' \in [Rpcs -> PC] /\ freetag' \in Nat
      <3>1. aborted' = FALSE
        BY <1>3, Zenon DEF puttag, Tags, IInv
      <3>. QED  BY <1>2, <1>3, <3>1, Zenon DEF Types, TypeOK, PC, IInv, connvars
    <2>2. hand' \in [Rpcs -> Answers \cup {stray, eofmsg, nopacket}]
      BY Zenon DEF Types, IInv
    <2>3. mwait' < 2 * NTags /\ nwait' \in 0..mwait'
      BY <1>5, Zenon DEF Types, TypeOK, mwait, IInv
    <2>4. TypeOK'
      BY <1>5, <1>6, <2>1, <2>3, Zenon DEF Types, TypeOK, PC, IInv, connvars
    <2>. QED  BY <2>2, <2>4, Zenon DEF Types, Answers, stray, eofmsg, nopacket, IInv, connvars
  <1>8. Listed'
    <2>1. Range(sleep') = {s \in holders' : p'[s] = nil}
      <3>1. \A s \in holders : s \in Rpcs
        BY Zenon DEF holders
      <3>2. Range(sleep') = {s \in holders : p[s] = nil} \ {r}
        BY Zenon DEF Listed, IInv
      <3>. QED  BY <1>3, <1>4, <3>1, <3>2, Zenon
    <2>. QED  BY <1>3, <1>4, <2>1, Zenon DEF Listed, IInv
  <1>9. Muxes'
    <2>1. inlk \in Rpcs \cup {nil}
      BY Zenon DEF Types, TypeOK, IInv
    <2>2. pc[r] # "recving"
      BY <1>3, MuxAssumption, Zenon DEF Done, Muxes, Receiving, IInv
    <2>. QED  BY <1>3, <1>4, <2>1, <2>2, Fixed DEF Muxes, Receiving, IInv
  <1>10. Messages'
    <2>1. ASSUME NEW m, Live(m), m.of # r PROVE Live(m)'
      BY <1>4, <2>1, Zenon DEF Live, Reply, Answers
    <2>2. /\ ~eof => \A m \in reqs : m.of # r
          /\ \A i \in DOMAIN replies : replies[i] # stray => replies[i].of # r
          /\ \A s \in Rpcs : s # r /\ hand[s] \notin {stray, eofmsg, nopacket} => hand[s].of # r
      BY NoneLeft, Zenon
    <2>3. \A m : Pending(m) => Live(m)'
      BY <2>1, <2>2, Zenon DEF Pending, Messages, IInv
    <2>4. \A s \in Rpcs : \/ hand'[s] = nopacket
                         \/ /\ hand'[s] = hand[s]
                            /\ \A m : m = hand[s] /\ m \notin {stray, eofmsg, nopacket} => Live(m)'
      BY <1>4, <2>1, <2>2 DEF Messages, IInv
    <2>. QED  BY <2>3, <2>4, MessagesLeft, Zenon DEF IInv, connvars
  <1>11. Sleepers'
    <2>1. ASSUME NEW s \in Rpcs
          PROVE  /\ pc'[s] = "asleep" => ~async'[s] /\ (p'[s] # nil => s \in woken')
                 /\ pc'[s] = "wait" => ~async'[s]
                 /\ pc'[s] = "started" => async'[s]
                 /\ pc'[s] = "sendfailed" => async'[s] \in SendMayFail
      <3>1. CASE s = r
        BY <1>4, <3>1, Zenon
      <3>2. CASE s # r
        <4>1. /\ pc'[s] = pc[s] /\ async'[s] = async[s] /\ p'[s] = p[s]
              /\ s \in woken => s \in woken'
          BY <1>4, <1>6, <3>2, Zenon
        <4>2. Sleepers
          BY Zenon DEF IInv
        <4>. QED  BY ONLY <4>1, <4>2, Zenon DEF Sleepers
      <3>. QED  BY <3>1, <3>2, Zenon
    <2>. QED  BY <2>1, Zenon DEF Sleepers
  <1>. QED  BY <1>5, <1>6, <1>7, <1>8, <1>9, <1>10, <1>11, Zenon DEF IInv

LEMMA FailedPreserves ==
    ASSUME IInv, NEW r \in Rpcs, sendfailed(r)
    PROVE  IInv'
  <1>2. /\ pc[r] = "sendfailed" /\ sleep' = dequeued(r) /\ puttag(r, {})
        /\ pc' = [pc EXCEPT ![r] = "idle"]
        /\ UNCHANGED <<muxer, lk, inlk, outlk, hand, got, connvars>>
    BY Zenon DEF sendfailed, locked, at, goto
  <1>3. r \in holders /\ Done(r) /\ async[r] \in SendMayFail
    BY <1>2, Zenon DEF holders, Done, Sleepers, IInv
  <1>4. r \in Range(sleep)
    BY <1>2, <1>3, Zenon DEF Listed, Sent, Receiving, IInv
  <1>5. sleep' \in Seq(Rpcs) /\ IsInjective(sleep') /\ Range(sleep') = Range(sleep) \ {r}
    BY <1>2, <1>4, Dequeued, Zenon DEF Types, TypeOK, Listed, IInv
  <1>6. hand' = [hand EXCEPT ![r] = nopacket]
    BY <1>2, Zenon DEF Types, Muxes, IInv
  <1>7. /\ muxer' \in Rpcs \cup {nil} /\ (muxer' # nil => p'[muxer'] = nil)
        /\ \A s \in Rpcs : s # r /\ pc[s] \in Receiving => muxer' = s
    BY <1>2, Zenon DEF Types, TypeOK, Muxes, puttag, IInv
  <1>8. /\ got' \in [Rpcs -> Rpcs \cup {nil, "eof", "none"}]
        /\ \A s \in Rpcs : got'[s] \in {nil, s, "eof", "none"}
    BY <1>2, Zenon DEF Types, TypeOK, Messages, IInv
  <1>10. ASSUME FALSE \notin SendMayFail PROVE MuxerAlive'
    <2>1. MuxerAlive /\ muxer \in Rpcs \cup {nil} /\ async[r] \in BOOLEAN
      BY <1>10, Zenon DEF Sleepers, Types, TypeOK, IInv
    <2>2. async[r] /\ r # nil
      BY <1>3, <1>10, <2>1, MuxAssumption, Zenon
    <2>3. muxer # r
      BY <1>2, <2>1, <2>2, Zenon DEF MuxerAlive, muxing
    <2>4. /\ \A s \in Rpcs : s # r => /\ pc'[s] = pc[s] /\ async'[s] = async[s]
                                      /\ s \in woken => s \in woken'
          /\ pc'[r] = "idle"
      BY <1>2, Zenon DEF Types, TypeOK, puttag, IInv
    <2>. QED  BY <1>2, <2>1, <2>3, <2>4, Zenon DEF MuxerAlive, muxing
  <1>. DEFINE S == {}
  <1>9. puttag(r, S) /\ \A s \in S : s \in Rpcs /\ s # r /\ pc[s] = "asleep"
    BY <1>2, Zenon
  <1>. HIDE DEF S
  <1>. QED  BY <1>2, <1>3, <1>5, <1>6, <1>7, <1>8, <1>9, <1>10, Finished, Zenon

\* muxrpc and muxrpccanfinish find that the reply has been handed to r.
LEMMA CollectPreserves ==
    ASSUME IInv, NEW r \in Rpcs, pc[r] \in {"wait", "asleep", "started"}, p[r] # nil,
           finish(r, p[r], {}), UNCHANGED muxer,
           UNCHANGED <<sleep, lk, inlk, outlk, hand, connvars>>
    PROVE  IInv'
  <1>2. /\ puttag(r, {}) /\ got' = [got EXCEPT ![r] = r] /\ pc' = [pc EXCEPT ![r] = "idle"]
    BY Zenon DEF finish, goto, Listed, IInv
  <1>3. r \in holders /\ Done(r) /\ muxer # r /\ nil \notin Rpcs
    BY MuxAssumption, Zenon DEF holders, Done, Muxes, IInv
  <1>4. sleep' \in Seq(Rpcs) /\ IsInjective(sleep') /\ Range(sleep') = Range(sleep) \ {r}
    BY <1>3 DEF Types, TypeOK, Listed, IInv
  <1>5. hand' = [hand EXCEPT ![r] = nopacket]
    BY Zenon DEF Types, Muxes, IInv
  <1>6. /\ muxer' \in Rpcs \cup {nil} /\ (muxer' # nil => p'[muxer'] = nil)
        /\ \A s \in Rpcs : s # r /\ pc[s] \in Receiving => muxer' = s
    BY <1>2, <1>3, Zenon DEF Types, TypeOK, Muxes, puttag, IInv
  <1>7. /\ got' \in [Rpcs -> Rpcs \cup {nil, "eof", "none"}]
        /\ \A s \in Rpcs : got'[s] \in {nil, s, "eof", "none"}
    BY <1>2, Zenon DEF Types, TypeOK, Messages, IInv
  <1>8. ASSUME FALSE \notin SendMayFail PROVE MuxerAlive'
    <2>1. MuxerAlive /\ muxer \in Rpcs \cup {nil}
      BY <1>8, Zenon DEF Sleepers, Types, TypeOK, IInv
    <2>2. /\ \A s \in Rpcs : s # r => /\ pc'[s] = pc[s] /\ async'[s] = async[s]
                                      /\ s \in woken => s \in woken'
          /\ pc'[r] = "idle"
      BY <1>2, Zenon DEF Types, TypeOK, puttag, IInv
    <2>. QED  BY <1>3, <2>1, <2>2, Zenon DEF MuxerAlive, muxing
  <1>. DEFINE S == {}
  <1>9. puttag(r, S) /\ \A s \in S : s \in Rpcs /\ s # r /\ pc[s] = "asleep"
    BY <1>2, Zenon
  <1>. HIDE DEF S
  <1>. QED  BY <1>2, <1>3, <1>4, <1>5, <1>6, <1>7, <1>8, <1>9, Finished, Zenon

\* The muxer leaves, and elects another.
LEMMA LeavePreserves ==
    ASSUME IInv, NEW r \in Rpcs, pc[r] = "received", Done(r), NEW v \in {r, "eof"},
           sleep' = dequeued(r), electmuxer(sleep'), finish(r, v, elected(sleep')),
           hand' = [hand EXCEPT ![r] = nopacket], UNCHANGED <<lk, inlk, outlk, connvars>>
    PROVE  IInv'
  <1>. DEFINE list == dequeued(r)
              E == elected(list)
  <1>2. /\ puttag(r, E) /\ got' = [got EXCEPT ![r] = v] /\ pc' = [pc EXCEPT ![r] = "idle"]
        /\ electmuxer(list)
    BY Zenon DEF finish, goto
  <1>3. r \in holders /\ p[r] = nil
    BY MuxAssumption, Zenon DEF holders, Muxes, Receiving, IInv
  <1>4. /\ list \in Seq(Rpcs) /\ IsInjective(list) /\ Range(list) = Range(sleep) \ {r}
    BY <1>3, Dequeued, Zenon DEF Types, TypeOK, Listed, IInv
  <1>. HIDE DEF list
  <1>5. /\ E \subseteq {s \in Rpcs : pc[s] = "asleep"}
        /\ muxer' \in Rpcs \cup {nil} /\ muxer' # r
        /\ IF muxer' = nil
           THEN \A s \in Rpcs : pc[s] = "asleep" => s \in woken
           ELSE /\ p[muxer'] = nil /\ ~async[muxer']
                /\ \/ pc[muxer'] \in {"send", "outlk", "sending", "sendfailed", "wait"}
                   \/ pc[muxer'] = "asleep" /\ muxer' \in E
    BY <1>2, <1>4, Elected, Zenon DEF IInv
  <1>. HIDE DEF E
  <1>6. /\ \A s \in Rpcs : s # r => /\ pc'[s] = pc[s] /\ async'[s] = async[s] /\ p'[s] = p[s]
                                    /\ s \in woken \cup E => s \in woken'
        /\ pc'[r] = "idle"
    BY <1>2, Zenon DEF Types, TypeOK, puttag, IInv
  <1>7. \A s \in Rpcs : s # r => pc[s] \notin Receiving
    BY OneHand, Zenon DEF Receiving, IInv
  <1>8. MuxerAlive' /\ (muxer' # nil => p'[muxer'] = nil)
    BY <1>5, <1>6, Zenon DEF MuxerAlive
  <1>9. /\ got' \in [Rpcs -> Rpcs \cup {nil, "eof", "none"}]
        /\ \A s \in Rpcs : got'[s] \in {nil, s, "eof", "none"}
    BY <1>2, Zenon DEF Types, TypeOK, Messages, IInv
  <1>10. sleep' \in Seq(Rpcs) /\ IsInjective(sleep') /\ Range(sleep') = Range(sleep) \ {r}
    BY <1>4, Zenon DEF list
  <1>11. \A s \in E : s \in Rpcs /\ s # r /\ pc[s] = "asleep"
    BY <1>5, Zenon
  <1>. QED  BY <1>2, <1>3, <1>5, <1>7, <1>8, <1>9, <1>10, <1>11, Finished, Zenon DEF IInv

LEMMA MuxedPreserves ==
    ASSUME IInv, NEW r \in Rpcs, muxed(r) \/ muxeof(r)
    PROVE  IInv'
  <1>1. Messages /\ nil \notin Rpcs
    BY MuxAssumption, Zenon DEF IInv
  <1>2. CASE muxed(r)
    <2>1. /\ pc[r] = "received" /\ addressee(hand[r]) = r /\ sleep' = dequeued(r)
          /\ electmuxer(sleep') /\ finish(r, hand[r].of, elected(sleep'))
          /\ hand' = [hand EXCEPT ![r] = nopacket] /\ UNCHANGED <<lk, inlk, outlk, connvars>>
      BY <1>2, Zenon DEF muxed, locked, at
    <2>2. hand[r] \notin {stray, eofmsg, nopacket}
      BY <1>1, <2>1, Addressed, Zenon
    <2>3. Live(hand[r]) /\ hand[r].of = r
      BY <1>1, <2>1, <2>2, Addressed, Zenon DEF Messages
    <2>4. Done(r)
      BY <2>1, <2>3, Zenon DEF Done, Live
    <2>. QED  BY <2>1, <2>3, <2>4, LeavePreserves, Zenon
  <1>3. CASE muxeof(r)
    <2>1. /\ pc[r] = "received" /\ hand[r] = eofmsg /\ sleep' = dequeued(r)
          /\ electmuxer(sleep') /\ finish(r, "eof", elected(sleep'))
          /\ hand' = [hand EXCEPT ![r] = nopacket] /\ UNCHANGED <<lk, inlk, outlk, connvars>>
      BY <1>3, Zenon DEF muxeof, locked, at
    <2>2. Done(r)
      BY <1>1, <2>1, Zenon DEF Done, Messages
    <2>. QED  BY <2>1, <2>2, LeavePreserves, Zenon
  <1>. QED  BY <1>2, <1>3, Zenon

----------------------------------------------------------------------------
(* Taking a tag.                                                           *)

\* gettag's "nwait botch" is unreachable: while nwait < mwait a tag is free.
LEMMA SomeFree ==
    ASSUME Facts, Types, Tags, nwait < mwait
    PROVE  \E k \in 1..mwait : wait[k] = nil
  <1>1. wait \in Seq(Rpcs \cup {nil}) /\ mwait = Len(wait) /\ mwait \in Nat
    BY DEF Types, TypeOK, mwait
  <1>2. SUFFICES ASSUME \A k \in 1..mwait : wait[k] # nil PROVE FALSE
    BY Zenon
  <1>3. \A k \in 1..mwait : wait[k] \in holders /\ tag[wait[k]] = k - 1
    BY <1>2, Zenon DEF Tags
  <1>. DEFINE f == [k \in 1..mwait |-> wait[k]]
  <1>4. f \in [1..mwait -> holders] /\ \A x, y \in 1..mwait : f[x] = f[y] => x = y
    BY <1>1, <1>3
  <1>5. holders \in SUBSET Rpcs /\ Cardinality(holders) < mwait
    BY Zenon DEF Tags, holders
  <1>. HIDE DEF f
  <1>. QED  BY <1>1, <1>4, <1>5 DEF Facts, Pigeons

\* The table w is as exact as wait, and has a free tag.
Room(w) ==
    /\ w \in Seq(Rpcs \cup {nil}) /\ Len(w) < 2 * NTags /\ nwait < Len(w)
    /\ \E k \in 1..Len(w) : w[k] = nil
    /\ \A r \in holders : tag[r] < Len(w) /\ w[tag[r] + 1] = r
    /\ \A i \in 1..Len(w) : w[i] # nil => w[i] \in holders /\ tag[w[i]] = i - 1

LEMMA RoomInTable == IInv /\ nwait < mwait => Room(wait)
  <1>. SUFFICES ASSUME IInv, nwait < mwait PROVE Room(wait)
    BY Zenon
  <1>2. \E k \in 1..mwait : wait[k] = nil
    BY SomeFree, Zenon DEF IInv
  <1>. QED  BY <1>2, Zenon DEF Types, TypeOK, Tags, Room, mwait, IInv

\* gettag makes the table larger.
LEMMA RoomDoubled == IInv /\ nwait = mwait /\ mwait < NTags => Room(doubled)
  <1>. SUFFICES ASSUME IInv, nwait = mwait, mwait < NTags PROVE Room(doubled)
    BY Zenon
  <1>. DEFINE k == IF mwait = 0 THEN 1 ELSE mwait
              more == [i \in 1..k |-> nil]
              N == Rpcs \cup {nil}
  <1>2. /\ wait \in Seq(N) /\ Len(wait) = mwait /\ mwait \in Nat /\ NTags \in Nat
        /\ tag \in [Rpcs -> Nat]
    BY MuxAssumption DEF Types, TypeOK, mwait, IInv
  <1>3. k \in Nat \ {0} /\ mwait + k < 2 * NTags
    BY <1>2
  <1>. HIDE DEF k
  <1>4. more \in [1..k -> N] /\ \A i \in 1..k : more[i] = nil
    BY Zenon
  <1>5. more \in Seq(N) /\ Len(more) = k
    <2>. HIDE DEF more, N
    <2>. QED  BY <1>3, <1>4
  <1>. HIDE DEF more, N
  <1>6. /\ doubled \in Seq(N) /\ Len(doubled) = mwait + k
        /\ \A i \in 1..(mwait + k) : doubled[i] = IF i <= mwait THEN wait[i] ELSE more[i - mwait]
    <2>1. doubled = wait \o more
      BY Zenon DEF doubled, more, k
    <2>2. /\ wait \o more \in Seq(N) /\ Len(wait \o more) = Len(wait) + Len(more)
          /\ \A i \in 1..(Len(wait) + Len(more)) :
                (wait \o more)[i] = IF i <= Len(wait) THEN wait[i] ELSE more[i - Len(wait)]
      BY <1>2, <1>5 DEF IInv
    <2>. QED  BY <1>2, <1>5, <2>1, <2>2, Zenon DEF IInv
  <1>. DEFINE d == doubled
  <1>. HIDE DEF d
  <1>7. /\ \A i \in 1..mwait : i \in 1..(mwait + k) /\ d[i] = wait[i]
        /\ \A i \in 1..(mwait + k) : i \in 1..mwait \/ d[i] = nil
        /\ d[mwait + 1] = nil /\ mwait + 1 \in 1..(mwait + k)
    BY <1>2, <1>3, <1>4, <1>6 DEF d
  <1>8. \A r \in holders : tag[r] < mwait + k /\ d[tag[r] + 1] = r
    <2>. TAKE r \in holders
    <2>1. tag[r] \in Nat /\ tag[r] < mwait /\ wait[tag[r] + 1] = r
      BY <1>2, Zenon DEF Tags, holders, IInv
    <2>2. tag[r] + 1 \in 1..mwait /\ tag[r] < mwait + k
      BY <1>2, <1>3, <2>1
    <2>. QED  BY <1>7, <2>1, <2>2, Zenon
  <1>9. \A i \in 1..(mwait + k) : d[i] # nil => d[i] \in holders /\ tag[d[i]] = i - 1
    BY <1>7, Zenon DEF Tags, IInv
  <1>10. nwait < mwait + k
    BY <1>2, <1>3
  <1>11. Len(d) = mwait + k /\ d \in Seq(N)
    BY <1>6, Zenon DEF d
  <1>12. Room(d)
    BY <1>3, <1>7, <1>8, <1>9, <1>10, <1>11, Zenon DEF Room, N
  <1>. QED  BY <1>12, Zenon DEF d

LEMMA TakeTags ==
    ASSUME Facts, Types, Tags, NEW r \in Rpcs, r \notin holders, NEW w, Room(w), NEW f \in Nat,
           taketag(r, w, f), UNCHANGED aborted, holders' = holders \cup {r}
    PROVE  /\ Tags' /\ wait' \in Seq(Rpcs \cup {nil}) /\ Len(wait') = Len(w)
           /\ nwait' \in 0..Len(w) /\ tag' \in [Rpcs -> Nat]
  <1>. DEFINE k == freeslot(w, f)
  <1>1. /\ wait' = [w EXCEPT ![k + 1] = r] /\ nwait' = nwait + 1 /\ tag' = [tag EXCEPT ![r] = k]
    BY Zenon DEF taketag
  <1>2. /\ w \in Seq(Rpcs \cup {nil}) /\ nwait < Len(w) /\ nwait \in Nat
        /\ tag \in [Rpcs -> Nat] /\ nil \notin Rpcs /\ Len(w) \in Nat
    BY MuxAssumption, SMTT(30) DEF Room, Types, TypeOK, mwait
  <1>3. k \in 0..(Len(w) - 1) /\ w[k + 1] = nil
    BY <1>2, FreeSlot, Zenon DEF Room
  <1>. HIDE DEF k
  <1>4. /\ wait' \in Seq(Rpcs \cup {nil}) /\ Len(wait') = Len(w) /\ k + 1 \in 1..Len(w)
        /\ wait'[k + 1] = r /\ \A i \in 1..Len(w) : i # k + 1 => wait'[i] = w[i]
    BY <1>1, <1>2, <1>3
  <1>5. nwait' = Cardinality(holders')
    <2>1. holders \in SUBSET Rpcs
      BY Zenon DEF holders
    <2>2. Cardinality(holders') = Cardinality(holders) + 1
      BY <2>1, Zenon DEF Facts, Counting
    <2>. QED  BY <1>1, <2>2, Zenon DEF Tags
  <1>6. \A s \in holders : s \in Rpcs /\ s # r
    BY Zenon DEF holders
  <1>7. ASSUME NEW s \in holders' PROVE tag'[s] < Len(w) /\ wait'[tag'[s] + 1] = s
    <2>1. CASE s = r
      BY <1>1, <1>2, <1>3, <1>4, <2>1
    <2>2. CASE s # r
      <3>1. s \in holders /\ s \in Rpcs
        BY <1>6, <2>2, Zenon
      <3>2. tag'[s] = tag[s] /\ tag[s] \in Nat /\ tag[s] < Len(w) /\ w[tag[s] + 1] = s
        BY <1>1, <1>2, <2>2, <3>1, Zenon DEF Room
      <3>3. tag[s] + 1 # k + 1 /\ tag[s] + 1 \in 1..Len(w)
        BY <1>2, <1>3, <3>1, <3>2
      <3>. QED  BY <1>4, <3>2, <3>3, Zenon
    <2>. QED  BY <2>1, <2>2, Zenon
  <1>8. ASSUME NEW i \in 1..Len(w), wait'[i] # nil
        PROVE  wait'[i] \in holders' /\ tag'[wait'[i]] = i - 1
    <2>1. CASE i = k + 1
      BY <1>1, <1>2, <1>3, <1>4, <2>1
    <2>2. CASE i # k + 1
      <3>1. w[i] \in holders /\ tag[w[i]] = i - 1 /\ wait'[i] = w[i]
        BY <1>4, <1>8, <2>2, Zenon DEF Room
      <3>. QED  BY <1>1, <1>2, <1>6, <3>1
    <2>. QED  BY <2>1, <2>2, Zenon
  <1>9. Tags'
    BY <1>4, <1>5, <1>7, <1>8, Zenon DEF Tags, mwait
  <1>10. nwait' \in 0..Len(w) /\ tag' \in [Rpcs -> Nat]
    BY <1>1, <1>2, <1>3
  <1>. QED  BY <1>4, <1>9, <1>10, Zenon

\* What the steps of r that end in gettag do besides.
Asks(r) ==
    /\ pc[r] \in {"idle", "tagwait"} /\ (pc[r] = "tagwait" => r \in woken)
    /\ woken' = woken \ {r}
    /\ async' \in [Rpcs -> BOOLEAN] /\ \A s \in Rpcs : s # r => async'[s] = async[s]
    /\ got' \in [Rpcs -> Rpcs \cup {nil, "eof", "none"}]
    /\ \A s \in Rpcs : got'[s] \in {nil, s, "eof", "none"}
    /\ UNCHANGED <<muxer, lk, inlk, outlk, p, hand, connvars, aborted>>

\* What holds of a call that has no tag.
LEMMA NoTag ==
    ASSUME IInv, NEW r \in Rpcs, pc[r] \in {"idle", "tagwait"}
    PROVE  /\ p[r] = nil /\ hand[r] = nopacket /\ r \notin Range(sleep) /\ inlk # r
           /\ r \notin holders /\ pc[r] \notin Sent
           /\ FALSE \notin SendMayFail => muxer # r
  <1>1. Listed /\ Muxes /\ Sleepers /\ pc[r] \notin Sent
    BY Zenon DEF IInv, Sent, Receiving
  <1>2. nil \notin Rpcs /\ r \notin holders
    BY MuxAssumption, Zenon DEF holders
  <1>3. FALSE \notin SendMayFail => muxer # r
    BY <1>1, <1>2, Zenon DEF Sleepers, MuxerAlive, muxing
  <1>. QED  BY <1>1, <1>2, <1>3, Zenon DEF Listed, Muxes

\* The parts that a step of gettag to label l leaves alone.
LEMMA AsksKeeps ==
    ASSUME IInv, NEW r \in Rpcs, Asks(r), NEW l \in {"send", "tagwait"},
           pc' = [pc EXCEPT ![r] = l], \A s \in Rpcs : s # r => tag'[s] = tag[s]
    PROVE  Muxes' /\ Messages' /\ Sleepers'
  <1>2. /\ p[r] = nil /\ hand[r] = nopacket /\ inlk # r /\ pc[r] \notin Sent
        /\ FALSE \notin SendMayFail => muxer # r
    BY NoTag, Zenon DEF Asks
  <1>3. /\ \A s \in Rpcs : s # r => pc'[s] = pc[s]
        /\ pc'[r] = l /\ pc[r] \in {"idle", "tagwait"}
    BY Zenon DEF Types, TypeOK, Asks, IInv
  <1>4. /\ UNCHANGED <<muxer, lk, inlk, outlk, p, hand, connvars, aborted>>
        /\ woken' = woken \ {r} /\ \A s \in Rpcs : s # r => async'[s] = async[s]
        /\ \A s \in Rpcs : got'[s] \in {nil, s, "eof", "none"}
    BY Zenon DEF Asks
  <1>5. Muxes'
    <2>1. nopacket' = nopacket /\ inlk \in Rpcs \cup {nil}
      BY Zenon DEF nopacket, Types, TypeOK, IInv
    <2>. QED  BY <1>2, <1>3, <1>4, <2>1 DEF Muxes, Receiving, IInv
  <1>6. Messages'
    <2>1. ASSUME NEW m, Live(m) PROVE Live(m)'
      <3>1. m.of \in Rpcs /\ m.of # r
        BY <1>2, <2>1, Zenon DEF Live, Answers
      <3>. QED  BY <1>3, <1>4, <2>1, <3>1, Zenon DEF Live, Reply
    <2>2. stray' = stray /\ eofmsg' = eofmsg /\ nopacket' = nopacket
      BY Zenon DEF stray, eofmsg, nopacket
    <2>. QED  BY <1>4, <2>1, <2>2, Zenon DEF Messages, IInv, connvars
  <1>7. Sleepers'
    <2>1. ASSUME FALSE \notin SendMayFail PROVE MuxerAlive'
      <3>1. MuxerAlive /\ muxer # r /\ muxer \in Rpcs \cup {nil}
        BY <1>2, <2>1, Zenon DEF Sleepers, Types, TypeOK, IInv
      <3>2. \A s \in Rpcs : pc'[s] = "asleep" => s # r
        BY <1>3, Zenon
      <3>. QED  BY <1>3, <1>4, <3>1, <3>2, Zenon DEF MuxerAlive, muxing
    <2>. QED  BY <1>3, <1>4, <2>1 DEF Sleepers, IInv
  <1>. QED  BY <1>5, <1>6, <1>7, Zenon

\* gettag finds a free tag in w, which is wait or the enlarged table.
LEMMA TakePreserves ==
    ASSUME IInv, NEW r \in Rpcs, Asks(r), NEW w, Room(w), NEW f \in Nat, taketag(r, w, f),
           UNCHANGED tagrend, tagrend # <<>> => Len(w) = Len(wait)
    PROVE  IInv'
  <1>2. /\ nwait' = nwait + 1 /\ freetag' = f /\ sleep' = <<r>> \o sleep
        /\ pc' = [pc EXCEPT ![r] = "send"] /\ tag' = [tag EXCEPT ![r] = freeslot(w, f)]
    BY Zenon DEF taketag, enqueue, goto
  <1>3. /\ UNCHANGED <<muxer, lk, inlk, outlk, p, hand, connvars, aborted>>
        /\ woken' = woken \ {r} /\ async' \in [Rpcs -> BOOLEAN]
        /\ got' \in [Rpcs -> Rpcs \cup {nil, "eof", "none"}]
        /\ pc[r] \in {"idle", "tagwait"} /\ (pc[r] = "tagwait" => r \in woken)
    BY Zenon DEF Asks
  <1>4. p[r] = nil /\ r \notin Range(sleep) /\ r \notin holders
    BY <1>3, NoTag, Zenon
  <1>5. /\ \A s \in Rpcs : s # r => pc'[s] = pc[s] /\ tag'[s] = tag[s]
        /\ pc'[r] = "send"
    BY <1>2, Zenon DEF Types, TypeOK, IInv
  <1>6. holders' = holders \cup {r}
    BY <1>5, Zenon DEF holders
  <1>7. /\ Tags' /\ wait' \in Seq(Rpcs \cup {nil}) /\ Len(wait') = Len(w)
        /\ nwait' \in 0..Len(w) /\ tag' \in [Rpcs -> Nat]
    BY <1>3, <1>4, <1>6, TakeTags, Zenon DEF IInv
  <1>8. Muxes' /\ Messages' /\ Sleepers'
    BY <1>2, <1>5, AsksKeeps, Zenon
  <1>9. sleep' \in Seq(Rpcs) /\ Range(sleep') = Range(sleep) \cup {r} /\ IsInjective(sleep')
    BY <1>2, <1>4, Enqueued, SMTT(30) DEF Types, TypeOK, Listed, IInv, connvars
  <1>10. Listed'
    <2>1. Range(sleep') = {s \in holders' : p'[s] = nil}
      BY <1>3, <1>4, <1>6, <1>9, Zenon DEF Listed, IInv
    <2>2. \A s \in Rpcs : p'[s] # nil => p'[s] = s /\ pc'[s] \in Sent
      BY <1>3, <1>4, <1>5, Zenon DEF Listed, IInv
    <2>. QED  BY <1>9, <2>1, <2>2, Zenon DEF Listed
  <1>11. Types'
    <2>1. pc' \in [Rpcs -> PC]
      BY <1>2, Zenon DEF Types, TypeOK, PC, IInv
    <2>2. mwait' < 2 * NTags /\ nwait' \in 0..mwait'
      BY <1>7, Zenon DEF Room, mwait
    <2>3. TypeOK'
      BY <1>2, <1>3, <1>7, <1>9, <2>1, <2>2, Zenon DEF Types, TypeOK, PC, IInv, connvars
    <2>. QED  BY <1>3, <2>3, Zenon DEF Types, Answers, stray, eofmsg, nopacket, IInv, connvars
  <1>12. Waiters'
    <2>. DEFINE W == {s \in woken : pc[s] = "tagwait"}
                n == Len(wait)
    <2>1. {s \in Rpcs : pc'[s] = "tagwait" /\ s \notin woken'} = {s \in Rpcs : pc[s] = "tagwait" /\ s \notin woken}
      BY <1>3, <1>5, Zenon
    <2>2. woken \subseteq Rpcs /\ \A s \in woken' : pc'[s] \in {"asleep", "tagwait"}
      BY <1>3, <1>5, Zenon DEF Types, TypeOK, Waiters, IInv, connvars
    <2>3. {s \in woken' : pc'[s] = "tagwait"} = W \ {r}
      BY <1>3, <1>5, <2>2, Zenon
    <2>4. ASSUME tagrend # <<>>
          PROVE  mwait' >= NTags /\ mwait' - nwait' <= Cardinality(W \ {r})
      <3>1. mwait' = n /\ n >= NTags /\ n - nwait <= Cardinality(W)
        BY <1>7, <2>4, Zenon DEF Waiters, NoLostTag, mwait, IInv
      <3>2. n \in Nat /\ nwait \in Nat
        BY DEF Types, TypeOK, mwait, IInv
      <3>3. W \in SUBSET Rpcs
        BY <2>2, Zenon
      <3>. HIDE DEF W, n
      <3>4. Cardinality(W) \in Nat /\ Cardinality(W \ {r}) \in {Cardinality(W), Cardinality(W) - 1}
        <4>1. CASE r \in W
          BY <3>3, <4>1, Zenon DEF Facts, Counting, IInv
        <4>2. CASE r \notin W
          <5>1. W \ {r} = W
            BY <4>2, Zenon
          <5>. QED  BY <3>3, <5>1, Zenon DEF Facts, Counting, IInv
        <4>. QED  BY <4>1, <4>2, Zenon
      <3>. QED  BY <1>2, <3>1, <3>2, <3>4
    <2>5. NoLostTag' /\ (tagrend' # <<>> => mwait' >= NTags)
      <3>. HIDE DEF W
      <3>. QED  BY <2>3, <2>4, Zenon DEF NoLostTag
    <2>. QED  BY <2>1, <2>2, <2>5, Zenon DEF Waiters, IInv
  <1>. QED  BY <1>7, <1>8, <1>10, <1>11, <1>12, Zenon DEF IInv

\* gettag finds none and waits for one.
LEMMA WaitPreserves ==
    ASSUME IInv, NEW r \in Rpcs, Asks(r), nwait = mwait, mwait >= NTags,
           tagrend' = Append(tagrend, r), pc' = [pc EXCEPT ![r] = "tagwait"],
           UNCHANGED <<wait, nwait, freetag, tag, sleep>>
    PROVE  IInv'
  <1>2. /\ UNCHANGED <<muxer, lk, inlk, outlk, p, hand, connvars, aborted>>
        /\ woken' = woken \ {r} /\ async' \in [Rpcs -> BOOLEAN]
        /\ got' \in [Rpcs -> Rpcs \cup {nil, "eof", "none"}]
        /\ pc[r] \in {"idle", "tagwait"} /\ (pc[r] = "tagwait" => r \in woken)
    BY Zenon DEF Asks
  <1>3. p[r] = nil /\ r \notin holders
    BY <1>2, NoTag, Zenon
  <1>4. /\ \A s \in Rpcs : s # r => pc'[s] = pc[s]
        /\ pc'[r] = "tagwait"
    BY Zenon DEF Types, TypeOK, IInv
  <1>5. holders' = holders
    BY <1>3, <1>4, Zenon DEF holders
  <1>6. Tags'
    BY <1>2, <1>5, TagsKept, Zenon DEF IInv
  <1>7. Listed'
    BY <1>2, <1>3, <1>4, <1>5, ListedKept, Zenon DEF Listed, IInv
  <1>8. Muxes' /\ Messages' /\ Sleepers'
    BY AsksKeeps, Zenon
  <1>9. r \notin Range(tagrend) /\ tagrend \in Seq(Rpcs) /\ IsInjective(tagrend)
    BY <1>2, Zenon DEF Waiters, Types, TypeOK, IInv
  <1>10. tagrend' \in Seq(Rpcs) /\ Range(tagrend') = Range(tagrend) \cup {r} /\ IsInjective(tagrend')
    BY <1>9, Appended
  <1>11. Types'
    <2>1. TypeOK'
      BY <1>2, <1>10, Zenon DEF Types, TypeOK, PC, mwait, IInv, connvars
    <2>. QED  BY <1>2, <2>1, Zenon DEF Types, Answers, stray, eofmsg, nopacket, IInv, connvars
  <1>12. Waiters'
    <2>1. woken \subseteq Rpcs /\ nwait \in Nat
      BY DEF Types, TypeOK, IInv
    <2>2. {s \in Rpcs : pc'[s] = "tagwait" /\ s \notin woken'}
             = {s \in Rpcs : pc[s] = "tagwait" /\ s \notin woken} \cup {r}
      BY <1>2, <1>4, Zenon
    <2>3. \A s \in woken' : pc'[s] \in {"asleep", "tagwait"}
      BY <1>2, <1>4, <2>1, Zenon DEF Waiters, IInv
    <2>. DEFINE W == {s \in woken' : pc'[s] = "tagwait"}
    <2>4. W \in SUBSET Rpcs
      BY <1>2, <2>1, Zenon
    <2>5. mwait' = mwait /\ mwait - nwait = 0
      BY <2>1 DEF mwait
    <2>6. NoLostTag'
      <3>1. Cardinality(W) >= 0
        <4>. HIDE DEF W
        <4>. QED  BY <2>4 DEF Facts, Counting, IInv
      <3>. QED  BY <2>5, <3>1, Zenon DEF NoLostTag
    <2>. QED  BY <1>10, <2>2, <2>3, <2>5, <2>6, Zenon DEF Waiters, IInv
  <1>. QED  BY <1>6, <1>7, <1>8, <1>11, <1>12, Zenon DEF IInv

LEMMA AskPreserves ==
    ASSUME IInv, NEW r \in Rpcs, tagwake(r) \/ \E a \in BOOLEAN : muxrpcstart(r, a)
    PROVE  IInv'
  <1>2. Asks(r) /\ gettag(r)
    <2>1. CASE tagwake(r)
      BY <2>1, Zenon DEF tagwake, locked, at, Asks, Types, TypeOK, Messages, IInv
    <2>2. CASE \E a \in BOOLEAN : muxrpcstart(r, a)
      <3>1. PICK a \in BOOLEAN : muxrpcstart(r, a)
        BY <2>2, Zenon
      <3>2. /\ pc[r] = "idle" /\ gettag(r)
            /\ async' = [async EXCEPT ![r] = a] /\ got' = [got EXCEPT ![r] = nil]
            /\ UNCHANGED <<muxer, lk, inlk, outlk, p, woken, hand, connvars, aborted>>
        BY <3>1, Zenon DEF muxrpcstart, locked, at
      <3>3. woken' = woken \ {r}
        BY <3>2, Zenon DEF Waiters, IInv
      <3>. QED  BY <3>2, <3>3, Zenon DEF Asks, Types, TypeOK, Messages, IInv
    <2>. QED  BY <2>1, <2>2, Zenon
  <1>3. wait \in Seq(Rpcs \cup {nil}) /\ freetag \in Nat /\ mwait \in Nat /\ NTags \in Nat
    BY MuxAssumption DEF Types, TypeOK, mwait, IInv
  <1>4. CASE nwait < mwait /\ taketag(r, wait, freetag) /\ UNCHANGED tagrend
    BY <1>2, <1>3, <1>4, RoomInTable, TakePreserves, Zenon
  <1>5. CASE nwait = mwait /\ mwait < NTags /\ taketag(r, doubled, mwait) /\ UNCHANGED tagrend
    <2>1. tagrend = <<>>
      BY <1>3, <1>5 DEF Waiters, IInv
    <2>. QED  BY <1>2, <1>3, <1>5, <2>1, RoomDoubled, TakePreserves, Zenon
  <1>6. CASE /\ nwait = mwait /\ mwait >= NTags /\ tagrend' = Append(tagrend, r)
             /\ goto(r, "tagwait") /\ UNCHANGED <<wait, nwait, freetag, tag, sleep>>
    BY <1>2, <1>6, WaitPreserves, Zenon DEF goto
  <1>. QED  BY <1>2, <1>4, <1>5, <1>6, Zenon DEF gettag

----------------------------------------------------------------------------
(* The invariant, and what follows from it.                                *)

LEMMA RpcPreserves == IInv /\ (\E r \in Rpcs : muxrpc(r) \/ muxrpccanfinish(r)) => IInv'
  <1>. SUFFICES ASSUME IInv, NEW r \in Rpcs, muxrpc(r) \/ muxrpccanfinish(r) PROVE IInv'
    BY Zenon
  <1>1. CASE muxrpc(r)
    <2>1. pc[r] \in {"wait", "asleep"} /\ UNCHANGED <<sleep, lk, inlk, outlk, hand, connvars>>
      BY <1>1, Zenon DEF muxrpc, locked, at
    <2>2. \/ /\ p[r] = nil /\ muxer \notin {nil, r}
             /\ pc' = [pc EXCEPT ![r] = "asleep"] /\ woken' = woken \ {r}
             /\ UNCHANGED <<tagvars, muxer, tag, async, p, got, aborted>>
          \/ /\ p[r] = nil /\ muxer \in {nil, r} /\ muxer' = r
             /\ pc' = [pc EXCEPT ![r] = "recv"] /\ woken' = woken \ {r}
             /\ UNCHANGED <<tagvars, tag, async, p, got, aborted>>
          \/ p[r] # nil /\ finish(r, p[r], {}) /\ UNCHANGED muxer
      BY <1>1, Zenon DEF muxrpc, goto
    <2>. QED  BY <2>1, <2>2, SleepPreserves, TakeOverPreserves, CollectPreserves, Zenon
  <1>2. CASE muxrpccanfinish(r)
    <2>1. pc[r] = "started" /\ UNCHANGED <<sleep, lk, inlk, outlk, hand, connvars>>
      BY <1>2, Zenon DEF muxrpccanfinish, locked, at
    <2>2. woken = woken \ {r}
      BY <2>1, Zenon DEF IInv, Waiters
    <2>3. \/ p[r] # nil /\ finish(r, p[r], {}) /\ UNCHANGED muxer
          \/ /\ p[r] = nil /\ muxer \in {nil, r} /\ muxer' = r
             /\ pc' = [pc EXCEPT ![r] = "recv"] /\ woken' = woken \ {r}
             /\ UNCHANGED <<tagvars, tag, async, p, got, aborted>>
          \/ /\ got' = [got EXCEPT ![r] = "eof"]
             /\ UNCHANGED <<tagvars, tag, async, p, woken, pc, muxer, aborted>>
      BY <1>2, <2>2, Zenon DEF muxrpccanfinish, goto
    <2>. QED  BY <2>1, <2>3, CollectPreserves, TakeOverPreserves, PollPreserves, Zenon
  <1>. QED  BY <1>1, <1>2, Zenon

----------------------------------------------------------------------------
(* The facts, from the library.                                            *)
INSTANCE FiniteSetTheorems

\* A nonempty set of numbers has a minimum.
LEMMA NatMin == Minima
  <1>. SUFFICES ASSUME NEW T \in SUBSET Nat, T # {} PROVE Min(T) \in T
    BY Zenon DEF Minima
  <1>. DEFINE R == OpToRel(<, Nat)
  <1>1. IsWellFoundedOn(R, Nat)
    BY NatLessThanWellFounded, Zenon
  <1>2. \A x, y \in Nat : <<y, x>> \in R <=> y < x
    BY Zenon DEF OpToRel
  <1>. HIDE DEF R
  <1>3. PICK x \in T : \A y \in T : ~(<<y, x>> \in R)
    BY <1>1, WFMin, Zenon
  <1>4. \A y \in T : x <= y
    <2>. TAKE y \in T
    <2>1. x \in Nat /\ y \in Nat /\ ~(y < x)
      BY <1>2, <1>3, Zenon
    <2>. QED  BY <2>1
  <1>. QED  BY <1>4, Zenon DEF Min

LEMMA Library == Facts
  <1>1. Counting
    <2>. SUFFICES ASSUME NEW T \in SUBSET Rpcs
                  PROVE  /\ Cardinality(T) \in Nat
                         /\ \A r \in Rpcs \ T : Cardinality(T \cup {r}) = Cardinality(T) + 1
                         /\ \A r \in T : Cardinality(T \ {r}) = Cardinality(T) - 1
      BY Zenon DEF Counting
    <2>1. IsFiniteSet(T)
      BY MuxAssumption, FS_Subset, Zenon
    <2>. QED  BY <2>1, FS_CardinalityType, FS_AddElement, FS_RemoveElement, Zenon
  <1>2. Pigeons
    <2>. SUFFICES ASSUME NEW T \in SUBSET Rpcs, NEW n \in Nat, Cardinality(T) < n, NEW f \in [1..n -> T]
                  PROVE  \E i, j \in 1..n : i # j /\ f[i] = f[j]
      BY Zenon DEF Pigeons
    <2>1. IsFiniteSet(T)
      BY MuxAssumption, FS_Subset, Zenon
    <2>2. IsFiniteSet(1..n) /\ Cardinality(1..n) = IF 1 > n THEN 0 ELSE n - 1 + 1
      BY FS_Interval
    <2>3. Cardinality(1..n) = n
      BY <2>2
    <2>. QED  BY <2>1, <2>2, <2>3, FS_PigeonHole, Zenon
  <1>. QED  BY <1>1, <1>2, NatMin, Zenon DEF Facts

LEMMA InitIInv == Init => IInv
  <1>. SUFFICES ASSUME Init PROVE IInv
    BY Zenon
  <1>1. /\ \A S : <<>> \in Seq(S)
        /\ Range(sleep) = {} /\ Range(tagrend) = {} /\ IsInjective(sleep) /\ IsInjective(tagrend)
        /\ Len(wait) = 0 /\ DOMAIN replies = {}
    BY DEF Range, IsInjective, Init
  <1>2. holders = {} /\ mwait = 0
    BY <1>1, Zenon DEF holders, mwait, Init
  <1>3. Types
    <2>1. NTags \in Nat \ {0}
      BY MuxAssumption, Zenon DEF Init
    <2>2. /\ mwait < 2 * NTags /\ nwait \in 0..mwait /\ freetag \in Nat
          /\ wait \in Seq(Rpcs \cup {nil}) /\ sleep \in Seq(Rpcs) /\ tagrend \in Seq(Rpcs)
          /\ replies \in Seq(Answers \cup {stray})
      BY <1>1, <1>2, <2>1 DEF Init
    <2>3. TypeOK
      BY <2>2, Zenon DEF TypeOK, PC, Init
    <2>. QED  BY <2>2, <2>3, Zenon DEF Types, Init
  <1>4. Tags
    BY <1>2, FS_EmptySet DEF Tags, Init
  <1>5. Listed
    BY <1>1, <1>2, Zenon DEF Listed, Init
  <1>6. Muxes
    BY Zenon DEF Muxes, Receiving, Init
  <1>7. Messages
    BY <1>1, Distinct, Zenon DEF Messages, Init
  <1>8. Waiters
    BY <1>1, Zenon DEF Waiters, NoLostTag, Init
  <1>9. Sleepers
    BY Zenon DEF Sleepers, MuxerAlive, Init
  <1>. QED  BY <1>3, <1>4, <1>5, <1>6, <1>7, <1>8, <1>9, Library, ZenonT(30) DEF IInv, Init

LEMMA Inductive == Spec => []IInv
  <1>1. IInv /\ UNCHANGED vars => IInv'
    <2>. SUFFICES ASSUME IInv, UNCHANGED vars PROVE IInv'
      BY Zenon
    <2>1. UNCHANGED <<tagvars, muxer, sleep, lk, inlk, outlk, tag, async, p, woken, pc, hand, got,
                      reqs, replies, eof, aborted>>
      BY Zenon DEF vars, connvars
    <2>2. Types /\ Messages
      BY Zenon DEF IInv
    <2>3. /\ Types' /\ Tags' /\ Listed' /\ Muxes' /\ Waiters' /\ Sleepers'
          /\ \A m : Live(m)' <=> Live(m)
          /\ stray' = stray /\ eofmsg' = eofmsg /\ nopacket' = nopacket
      BY <2>1, <2>2, ServerKeeps, Zenon DEF Types, TypeOK
    <2>4. Messages'
      BY <2>1, <2>2, <2>3, Zenon DEF Messages
    <2>. QED  BY <2>3, <2>4, Zenon DEF IInv
  <1>2. IInv /\ Next => IInv'
    BY AskPreserves, SendPreserves, FailedPreserves, RpcPreserves, RecvLockPreserves,
       HandOnPreserves, MuxedPreserves, CannotPreserves, WritePreserves, ReadPreserves,
       ServerPreserves, Zenon DEF Next, Section
  <1>. QED  BY <1>1, <1>2, InitIInv, PTL DEF Spec

\* The table of tags and the list of waiting calls are exact, whatever the
\* calls and however many tags the connection has: gettag, puttag, enqueue
\* and dequeue keep mux->wait, nwait and mux->sleep in agreement with the
\* calls in progress.
THEOREM MuxTagsExact == Spec => []TagsExact
  <1>1. IInv => TagsExact
    BY Zenon DEF IInv, Types, Tags, Listed, TagsExact
  <1>. QED  BY <1>1, Inductive, PTL

\* muxmsgandqlock gives a call only the reply to its own request, whichever
\* call received it, and one call receives at a time.
THEOREM MuxOwnReply == Spec => []OwnReply
  <1>1. IInv => OwnReply
    BY Zenon DEF IInv, Listed, Muxes, Messages, OwnReply, muxing, holders, Receiving
  <1>. QED  BY <1>1, Inductive, PTL

\* No free tag is forgotten while calls wait for one: each puttag wakes a
\* waiter, and a waiter that has been woken takes its tag.
THEOREM MuxNoLostTag == Spec => []NoLostTag
  <1>1. IInv => NoLostTag
    BY Zenon DEF IInv, Waiters
  <1>. QED  BY <1>1, Inductive, PTL

\* As long as mux->send does not fail for a call of muxrpc, electmuxer and
\* muxrpc leave the role of muxer with a call that receives or is on its way to,
\* and with no muxer nobody sleeps.  (A call of muxrpcstart may fail to send: it
\* is not the muxer.  A call of muxrpc that fails may be, and breaks this.)
THEOREM MuxMuxerAlive ==
    ASSUME FALSE \notin SendMayFail
    PROVE  Spec => []MuxerAlive
  <1>1. IInv => MuxerAlive
    BY Zenon DEF IInv, Sleepers
  <1>. QED  BY <1>1, Inductive, PTL
=============================================================================
