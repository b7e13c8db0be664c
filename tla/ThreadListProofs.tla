-------------------------- MODULE ThreadListProofs --------------------------
(***************************************************************************)
(* Facts about the thread lists of ThreadList, for lists of any length.    *)
(***************************************************************************)
EXTENDS ThreadList, TLAPS

\* The empty list holds nobody.
LEMMA EmptyList ==
    /\ InList(<<>>) = {}
    /\ NoDup(<<>>)
    /\ \A S : \A l \in Seq(S) : InList(l) = {} <=> l = <<>>
    /\ \A S : \A l \in Seq(S) : InList(l) \subseteq S
  <1>1. InList(<<>>) = {} /\ NoDup(<<>>)
    BY DEF InList, NoDup
  <1>2. ASSUME NEW S, NEW l \in Seq(S), InList(l) = {} PROVE l = <<>>
    <2>1. Len(l) \in Nat
      BY <1>2
    <2>2. ~(1 \in 1..Len(l))
      BY <1>2 DEF InList
    <2>3. Len(l) = 0
      BY <2>1, <2>2
    <2>. QED  BY <2>3
  <1>3. ASSUME NEW S, NEW l \in Seq(S) PROVE InList(l) \subseteq S
    BY DEF InList
  <1>. QED  BY <1>1, <1>2, <1>3

\* addthread puts t, and nobody else, on the list.
LEMMA AddThread ==
    ASSUME NEW S, NEW l \in Seq(S), NEW t \in S
    PROVE  /\ addthread(l, t) \in Seq(S)
           /\ addthread(l, t) # <<>>
           /\ Len(addthread(l, t)) = Len(l) + 1
           /\ InList(addthread(l, t)) = InList(l) \cup {t}
           /\ NoDup(l) /\ t \notin InList(l) => NoDup(addthread(l, t))
  <1>. DEFINE m == addthread(l, t)
  <1>1. /\ m \in Seq(S) /\ m # <<>> /\ Len(m) = Len(l) + 1
        /\ \A i \in 1..Len(l) : m[i] = l[i]
        /\ m[Len(l) + 1] = t
    BY DEF addthread
  <1>2. Len(l) \in Nat
    OBVIOUS
  <1>3. InList(m) = InList(l) \cup {t}
    BY <1>1, <1>2 DEF InList
  <1>4. ASSUME NoDup(l), t \notin InList(l) PROVE NoDup(m)
    BY <1>1, <1>2, <1>4 DEF InList, NoDup
  <1>. QED  BY <1>1, <1>3, <1>4

\* delthread takes t, and nobody else, off a list without duplicates.
LEMMA DelThread ==
    ASSUME NEW S, NEW l \in Seq(S), NEW t \in InList(l), NoDup(l)
    PROVE  /\ delthread(l, t) \in Seq(S)
           /\ Len(delthread(l, t)) = Len(l) - 1
           /\ InList(delthread(l, t)) = InList(l) \ {t}
           /\ NoDup(delthread(l, t))
  <1>. DEFINE m == delthread(l, t)
              p == position(l, t)
  <1>1. Len(l) \in Nat /\ l \in [1..Len(l) -> S]
    OBVIOUS
  <1>2. p \in 1..Len(l) /\ l[p] = t
    BY DEF InList, position
  <1>3. Len(l) - 1 \in Nat
    BY <1>1, <1>2
  <1>4. m \in [1..(Len(l) - 1) -> S]
    BY <1>1, <1>2 DEF delthread
  <1>5. m \in Seq(S) /\ Len(m) = Len(l) - 1
    BY <1>3, <1>4
  <1>6. \A i \in 1..Len(m) : m[i] = IF i < p THEN l[i] ELSE l[i + 1]
    BY <1>5 DEF delthread
  <1>7. InList(m) \subseteq InList(l) \ {t}
    BY <1>1, <1>2, <1>5, <1>6 DEF InList, NoDup
  <1>8. ASSUME NEW i \in 1..Len(l), l[i] # t PROVE l[i] \in InList(m)
    <2>1. CASE i < p
      BY <2>1, <1>1, <1>2, <1>5, <1>6, <1>8, SMTT(30) DEF InList
    <2>2. CASE i > p
      <3>1. i - 1 \in 1..Len(m) /\ ~(i - 1 < p)
        BY <2>2, <1>1, <1>2, <1>5, <1>8
      <3>2. m[i - 1] = l[i]
        BY <3>1, <1>1, <1>2, <1>6, <1>8
      <3>. QED  BY <3>1, <3>2 DEF InList
    <2>. QED  BY <1>1, <1>2, <1>8, <2>1, <2>2
  <1>9. NoDup(m)
    BY <1>1, <1>2, <1>5, <1>6 DEF NoDup
  <1>. QED  BY <1>5, <1>7, <1>8, <1>9 DEF InList

\* The head of a list is on it.
LEMMA HeadInList ==
    ASSUME NEW S, NEW l \in Seq(S), l # <<>>
    PROVE  Head(l) \in InList(l) /\ Head(l) \in S
  <1>1. Len(l) \in Nat \ {0}
    OBVIOUS
  <1>2. Head(l) = l[1] /\ 1 \in 1..Len(l)
    BY <1>1
  <1>. QED  BY <1>2 DEF InList
=============================================================================
