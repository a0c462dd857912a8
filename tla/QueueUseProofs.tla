---------------------------- MODULE QueueUseProofs ----------------------------
(***************************************************************************)
(* Proofs about QueueUse: for every set of PCBs or envelopes, every set of *)
(* queues, every assignment of senders and every caller, the memory stays  *)
(* a store and the links stay acyclic; and with careful callers every      *)
(* queue is the sequence they believe in.                                  *)
(***************************************************************************)
EXTENDS QueueUse, LinkQueueProofs

(* LinksAcyclic is not inductive alone: that the nodes a call redirects    *)
(* are nodes at all is part of the type of the store.                      *)
StoreInv ==
    /\ store \in Store(Node, Queue)
    /\ LinksAcyclic

LEMMA InitStoreInv == Init => StoreInv
BY EmptyStoreType, EmptyStoreAcyclic, NullAssumption DEF Init, StoreInv, LinksAcyclic

LEMMA NextStoreInv == StoreInv /\ [Next]_vars => StoreInv'
<1> SUFFICES ASSUME StoreInv, [Next]_vars
             PROVE  StoreInv'
    OBVIOUS
<1> USE NullAssumption
<1>1. store \in Store(Node, Queue) /\ Acyclic(store.p)
    BY DEF StoreInv, LinksAcyclic
<1>2. ASSUME NEW q \in Queue, NEW n \in Node, Enqueue(q, n)
      PROVE  StoreInv'
    <2>1. store' = PCB_ENQ(store, q, n) \/ store' = env_ENQ(store, q, n)
        BY <1>2 DEF Enqueue
    <2> QED
        BY <1>1, <2>1, ENQType, ENQAcyclic DEF StoreInv, LinksAcyclic
<1>3. ASSUME NEW q \in Queue, Dequeue(q)
      PROVE  StoreInv'
    <2>1. store' = PCB_DEQ(store, q) \/ store' = env_DEQ(store, q)
        BY <1>3 DEF Dequeue
    <2> QED
        BY <1>1, <2>1, DEQType, DEQAcyclic DEF StoreInv, LinksAcyclic
<1>4. ASSUME NEW q \in Queue, NEW k \in Node, Remove(q, k)
      PROVE  StoreInv'
    <2>1. \/ store' = PCB_REMOVE(store, q, k)
          \/ store' = env_REMOVE(store, q, Matching(k))
        BY <1>4 DEF Remove
    <2>2. CASE store' = PCB_REMOVE(store, q, k)
        BY <1>1, <2>2, REMOVEType, REMOVEAcyclic DEF StoreInv, LinksAcyclic
    <2>3. CASE store' = env_REMOVE(store, q, Matching(k))
        BY <1>1, <2>3, envREMOVE DEF StoreInv, LinksAcyclic
    <2> QED
        BY <2>1, <2>2, <2>3
<1>5. CASE UNCHANGED vars
    BY <1>5 DEF vars, StoreInv, LinksAcyclic
<1> QED
    BY <1>2, <1>3, <1>4, <1>5 DEF Next

(* Whatever the callers do, no call of the queue operations ever leaves    *)
(* links that form a cycle: the traversals of PCB_REMOVE, env_REMOVE and   *)
(* timer_iproc end.                                                        *)
THEOREM LinksStayAcyclic == Spec => []LinksAcyclic
<1>1. StoreInv => LinksAcyclic
    BY DEF StoreInv
<1> QED
    BY <1>1, InitStoreInv, NextStoreInv, PTL DEF Spec

-----------------------------------------------------------------------------
(* What Represents needs to be inductive.  Holds(s, q, c): queue q of the  *)
(* store s is exactly the sequence c.  Apart(cc): no node is believed to   *)
(* be at two places.  LooseClear(s, cc): what is nowhere has a NULL link.  *)
Holds(s, q, c) ==
    /\ Len(c) = 0 => s.head[q] = NULL
    /\ Len(c) # 0 => /\ s.head[q] = c[1]
                     /\ s.tail[q] = c[Len(c)]
                     /\ s.p[c[Len(c)]] = NULL
                     /\ \A i \in 1 .. Len(c) - 1 : s.p[c[i]] = c[i + 1]

Places(cc) == { x \in Queue \X Nat : x[2] \in 1 .. Len(cc[x[1]]) }

Apart(cc) ==
    \A x \in Places(cc), y \in Places(cc) : cc[x[1]][x[2]] = cc[y[1]][y[2]] => x = y

LooseClear(s, cc) ==
    \A n \in Node : (\A x \in Places(cc) : cc[x[1]][x[2]] # n) => s.p[n] = NULL

AsBelieved(s, cc) ==
    /\ s \in Store(Node, Queue)
    /\ cc \in [Queue -> Seq(Node)]
    /\ \A q \in Queue : Holds(s, q, cc[q])
    /\ Apart(cc)
    /\ LooseClear(s, cc)

LEMMA ApartAt ==
    ASSUME NEW cc, Apart(cc), NEW q \in Queue, NEW r \in Queue,
           NEW i \in 1 .. Len(cc[q]), NEW j \in 1 .. Len(cc[r]),
           cc[q][i] = cc[r][j]
    PROVE  q = r /\ i = j
<1>1. <<q, i>> \in Places(cc) /\ <<r, j>> \in Places(cc)
    BY DEF Places
<1>2. <<q, i>> = <<r, j>>
    BY <1>1 DEF Apart
<1> QED
    BY <1>2

LEMMA ElementIn ==
    ASSUME NEW S, NEW c \in Seq(S), NEW i \in 1 .. Len(c)
    PROVE  c[i] \in S
OBVIOUS

LEMMA PlaceIn ==
    ASSUME NEW cc, NEW x \in Places(cc)
    PROVE  /\ x[1] \in Queue
           /\ x[2] \in 1 .. Len(cc[x[1]])
           /\ x = <<x[1], x[2]>>
BY DEF Places

(* A node appended to one queue.                                           *)
LEMMA EnqueueHolds ==
    ASSUME NEW s, NEW cc, AsBelieved(s, cc), NEW q \in Queue, NEW n \in Node,
           \A x \in Places(cc) : cc[x[1]][x[2]] # n
    PROVE  /\ AsBelieved(PCB_ENQ(s, q, n), [cc EXCEPT ![q] = Append(cc[q], n)])
           /\ AsBelieved(env_ENQ(s, q, n), [cc EXCEPT ![q] = Append(cc[q], n)])
<1> DEFINE s1 == PCB_ENQ(s, q, n)
           c  == cc[q]
           d  == Append(c, n)
           dd == [cc EXCEPT ![q] = d]
           L  == Len(c)
<1> USE NullAssumption
<1>1. /\ s \in Store(Node, Queue)
      /\ cc \in [Queue -> Seq(Node)]
      /\ \A r \in Queue : Holds(s, r, cc[r])
      /\ Apart(cc)
      /\ LooseClear(s, cc)
    BY DEF AsBelieved
<1>2. c \in Seq(Node) /\ L \in Nat
    BY <1>1
<1>3. d \in Seq(Node) /\ Len(d) = L + 1 /\ d[L + 1] = n
      /\ \A i \in 1 .. L : d[i] = c[i]
    BY <1>2
<1>4. dd \in [Queue -> Seq(Node)] /\ dd[q] = d /\ \A r \in Queue \ {q} : dd[r] = cc[r]
    BY <1>1, <1>3
<1>5. s1 \in Store(Node, Queue)
    BY <1>1, ENQType
<1>6. s.p[n] = NULL
    BY <1>1 DEF LooseClear
<1>7. \A r \in Queue, i \in Nat : i \in 1 .. Len(cc[r]) => cc[r][i] # n /\ cc[r][i] \in Node
    <2> SUFFICES ASSUME NEW r \in Queue, NEW i \in Nat, i \in 1 .. Len(cc[r])
                 PROVE  cc[r][i] # n /\ cc[r][i] \in Node
        OBVIOUS
    <2>1. <<r, i>> \in Places(cc)
        BY DEF Places
    <2>2. cc[r][i] # n
        BY <2>1
    <2>3. cc[r] \in Seq(Node)
        BY <1>1
    <2> QED
        BY <2>2, <2>3, ElementIn
<1>8. L = 0 => /\ s1.head = [s.head EXCEPT ![q] = n]
               /\ s1.tail = [s.tail EXCEPT ![q] = n]
               /\ s1.p = s.p
    <2> SUFFICES ASSUME L = 0
                 PROVE  /\ s1.head = [s.head EXCEPT ![q] = n]
                        /\ s1.tail = [s.tail EXCEPT ![q] = n]
                        /\ s1.p = s.p
        OBVIOUS
    <2>1. s.head[q] = NULL /\ n # NULL
        BY <1>1 DEF Holds
    <2> QED
        BY <1>1, <2>1 DEF PCB_ENQ, Store
<1>9. L # 0 => /\ s1.head = s.head
               /\ s1.tail = [s.tail EXCEPT ![q] = n]
               /\ s1.p = [s.p EXCEPT ![c[L]] = n, ![n] = NULL]
    <2> SUFFICES ASSUME L # 0
                 PROVE  /\ s1.head = s.head
                        /\ s1.tail = [s.tail EXCEPT ![q] = n]
                        /\ s1.p = [s.p EXCEPT ![c[L]] = n, ![n] = NULL]
        OBVIOUS
    <2>1. s.head[q] = c[1] /\ s.tail[q] = c[L] /\ n # NULL
        BY <1>1 DEF Holds
    <2>2. c[1] # NULL
        BY <1>2, <1>7
    <2> QED
        BY <1>1, <2>1, <2>2 DEF PCB_ENQ, Store
<1> HIDE DEF s1, d, dd, L
<1>10. \A r \in Queue : Holds(s1, r, dd[r])
    <2> SUFFICES ASSUME NEW r \in Queue PROVE Holds(s1, r, dd[r])
        OBVIOUS
    <2>0. Holds(s, r, cc[r]) /\ cc[r] \in Seq(Node)
        BY <1>1
    <2>1. CASE r # q
        <3>1. s1.head[r] = s.head[r] /\ s1.tail[r] = s.tail[r] /\ dd[r] = cc[r]
            BY <1>1, <1>4, <1>8, <1>9, <2>1 DEF Store
        <3>2. ASSUME NEW i \in 1 .. Len(cc[r])
              PROVE  s1.p[cc[r][i]] = s.p[cc[r][i]]
            <4>1. cc[r][i] # n /\ cc[r][i] \in Node
                BY <1>7, <3>2
            <4>2. ASSUME L # 0
                  PROVE  cc[r][i] # c[L]
                <5>1. L \in 1 .. Len(cc[q])
                    BY <1>2, <4>2 DEF L
                <5> QED
                    BY <1>1, <2>1, <5>1, <3>2, ApartAt
            <4>3. s.p \in [Node -> Node \cup {NULL}]
                BY <1>1 DEF Store
            <4> QED
                BY <1>8, <1>9, <4>1, <4>2, <4>3
        <3>3. Len(cc[r]) \in Nat
            BY <2>0
        <3>4. Holds(s1, r, cc[r])
            BY <2>0, <3>1, <3>2, <3>3 DEF Holds
        <3> QED
            BY <3>1, <3>4
    <2>2. CASE r = q /\ L = 0
        <3>1. Len(d) = 1 /\ d[1] = n
            BY <1>3, <2>2
        <3>2. s1.head[q] = n /\ s1.tail[q] = n /\ s1.p[n] = NULL
            BY <1>1, <1>6, <1>8, <2>2 DEF Store
        <3>3. Holds(s1, q, d)
            BY <3>1, <3>2 DEF Holds
        <3> QED
            BY <1>4, <2>2, <3>3
    <2>3. CASE r = q /\ L # 0
        <3>0. 1 \in 1 .. L /\ L \in 1 .. L /\ L + 1 # 0 /\ L + 1 - 1 = L
            BY <1>2, <2>3
        <3>1. s1.head[q] = d[1] /\ s1.tail[q] = d[L + 1] /\ s1.p[d[L + 1]] = NULL
            <4>1. d[1] = c[1] /\ s.head[q] = c[1]
                BY <1>2, <1>3, <2>3, <2>0, <3>0 DEF Holds, L
            <4> QED
                BY <1>1, <1>3, <1>9, <2>3, <4>1 DEF Store
        <3>2. ASSUME NEW i \in 1 .. L
              PROVE  s1.p[d[i]] = d[i + 1]
            <4>0. s.p \in [Node -> Node \cup {NULL}]
                BY <1>1 DEF Store
            <4>1. c[i] # n /\ c[i] \in Node /\ c[L] \in Node /\ d[i] = c[i]
                BY <1>2, <1>3, <1>7, <3>0, <3>2 DEF L
            <4>2. CASE i = L
                <5>1. s1.p[c[L]] = n
                    BY <1>9, <2>3, <4>0, <4>1, <4>2
                <5> QED
                    BY <1>3, <4>1, <4>2, <5>1
            <4>3. CASE i # L
                <5>1. c[i] # c[L]
                    <6>1. i \in 1 .. Len(cc[q]) /\ L \in 1 .. Len(cc[q])
                        BY <3>0, <3>2 DEF L
                    <6> QED
                        BY <1>1, <4>3, <6>1, ApartAt
                <5>2. s1.p[c[i]] = s.p[c[i]]
                    BY <1>9, <2>3, <4>0, <4>1, <5>1
                <5>3. i \in 1 .. L - 1 /\ i + 1 \in 1 .. L
                    BY <1>2, <4>3, <3>2
                <5>4. s.p[c[i]] = c[i + 1]
                    BY <2>3, <2>0, <5>3 DEF Holds, L
                <5>5. d[i + 1] = c[i + 1]
                    BY <1>3, <5>3
                <5> QED
                    BY <4>1, <5>2, <5>4, <5>5
            <4> QED
                BY <4>2, <4>3
        <3>3. Holds(s1, q, d)
            BY <1>3, <3>0, <3>1, <3>2 DEF Holds
        <3> QED
            BY <1>4, <2>3, <3>3
    <2> QED
        BY <2>1, <2>2, <2>3
<1>11. ASSUME NEW x \in Places(dd)
       PROVE  \/ x \in Places(cc) /\ dd[x[1]][x[2]] = cc[x[1]][x[2]]
              \/ x = <<q, L + 1>> /\ dd[x[1]][x[2]] = n
    <2>1. x[1] \in Queue /\ x[2] \in 1 .. Len(dd[x[1]]) /\ x = <<x[1], x[2]>>
          /\ x \in Queue \X Nat
        BY <1>11, PlaceIn DEF Places
    <2>2. CASE x[1] # q
        <3>1. dd[x[1]] = cc[x[1]]
            BY <1>4, <2>1, <2>2
        <3> QED
            BY <2>1, <3>1 DEF Places
    <2>3. CASE x[1] = q
        <3>1. x[2] \in 1 .. L + 1
            BY <1>3, <1>4, <2>1, <2>3
        <3>2. CASE x[2] = L + 1
            BY <1>3, <1>4, <2>1, <2>3, <3>2
        <3>3. CASE x[2] # L + 1
            <4>1. x[2] \in 1 .. L
                BY <1>2, <3>1, <3>3
            <4>2. x \in Places(cc)
                BY <2>1, <2>3, <4>1 DEF Places, L
            <4> QED
                BY <1>3, <1>4, <2>3, <4>1, <4>2
        <3> QED
            BY <3>2, <3>3
    <2> QED
        BY <2>2, <2>3
<1>12. Apart(dd)
    <2> SUFFICES ASSUME NEW x \in Places(dd), NEW y \in Places(dd),
                        dd[x[1]][x[2]] = dd[y[1]][y[2]]
                 PROVE  x = y
        BY DEF Apart
    <2>1. CASE x \in Places(cc) /\ y \in Places(cc)
        <3>1. cc[x[1]][x[2]] = cc[y[1]][y[2]]
            <4>1. x # <<q, L + 1>> /\ y # <<q, L + 1>>
                <5>1. x[2] \in 1 .. Len(cc[x[1]]) /\ y[2] \in 1 .. Len(cc[y[1]])
                    BY <2>1, PlaceIn
                <5>2. L + 1 \notin 1 .. Len(cc[q])
                    BY <1>2 DEF L
                <5> QED
                    BY <5>1, <5>2
            <4> QED
                BY <1>11, <4>1
        <3> QED
            BY <1>1, <2>1, <3>1 DEF Apart
    <2>2. CASE ~ (x \in Places(cc) /\ y \in Places(cc))
        BY <1>11, <2>2
    <2> QED
        BY <2>1, <2>2
<1>13. LooseClear(s1, dd)
    <2> SUFFICES ASSUME NEW m \in Node, \A x \in Places(dd) : dd[x[1]][x[2]] # m
                 PROVE  s1.p[m] = NULL
        BY DEF LooseClear
    <2>1. m # n
        <3>1. <<q, L + 1>> \in Places(dd)
            BY <1>2, <1>3, <1>4 DEF Places
        <3>2. dd[q][L + 1] = n
            BY <1>3, <1>4
        <3> QED
            BY <3>1, <3>2
    <2>2. ASSUME NEW x \in Places(cc)
          PROVE  cc[x[1]][x[2]] # m
        <3>1. x[1] \in Queue /\ x[2] \in 1 .. Len(cc[x[1]]) /\ x \in Queue \X Nat
            BY <2>2, PlaceIn DEF Places
        <3>2. x[2] \in 1 .. Len(dd[x[1]]) /\ dd[x[1]][x[2]] = cc[x[1]][x[2]]
            <4>1. CASE x[1] = q
                <5>1. x[2] \in 1 .. L
                    BY <3>1, <4>1 DEF L
                <5>2. x[2] \in 1 .. L + 1
                    BY <1>2, <5>1
                <5> QED
                    BY <1>3, <1>4, <4>1, <5>1, <5>2
            <4>2. CASE x[1] # q
                BY <1>4, <3>1, <4>2
            <4> QED
                BY <4>1, <4>2
        <3>3. x \in Places(dd)
            BY <3>1, <3>2 DEF Places
        <3> QED
            BY <3>2, <3>3
    <2>3. s.p[m] = NULL
        BY <1>1, <2>2 DEF LooseClear
    <2>4. ASSUME L # 0
          PROVE  m # c[L]
        <3>1. <<q, L>> \in Places(cc)
            BY <1>2, <2>4 DEF Places, L
        <3> QED
            BY <2>2, <3>1
    <2>5. s.p \in [Node -> Node \cup {NULL}]
        BY <1>1 DEF Store
    <2> QED
        BY <1>8, <1>9, <2>1, <2>3, <2>4, <2>5
<1>14. AsBelieved(s1, dd)
    BY <1>4, <1>5, <1>10, <1>12, <1>13 DEF AsBelieved
<1> QED
    BY <1>14 DEF s1, dd, d, env_ENQ

-----------------------------------------------------------------------------
(* d is c with its element number a taken out.                             *)
Without(c, d, a) ==
    /\ d \in Seq(Node)
    /\ Len(d) = Len(c) - 1
    /\ \A i \in 1 .. Len(d) : d[i] = IF i < a THEN c[i] ELSE c[i + 1]

LEMMA TailWithout ==
    ASSUME NEW c \in Seq(Node), Len(c) # 0
    PROVE  Without(c, Tail(c), 1)
<1>1. c # <<>>
    OBVIOUS
<1>2. Tail(c) \in Seq(Node) /\ Len(Tail(c)) = Len(c) - 1
      /\ \A i \in 1 .. Len(Tail(c)) : Tail(c)[i] = c[i + 1]
    BY <1>1
<1>3. \A i \in 1 .. Len(Tail(c)) : ~ (i < 1)
    OBVIOUS
<1> QED
    BY <1>2, <1>3 DEF Without

LEMMA CutWithout ==
    ASSUME NEW c \in Seq(Node), NEW a \in 1 .. Len(c)
    PROVE  Without(c, SubSeq(c, 1, a - 1) \o SubSeq(c, a + 1, Len(c)), a)
<1> DEFINE u == SubSeq(c, 1, a - 1)
           v == SubSeq(c, a + 1, Len(c))
           n == Len(c)
<1>1. n \in Nat /\ a \in 1 .. n
    OBVIOUS
<1>2. u \in Seq(Node) /\ Len(u) = a - 1 /\ \A i \in 1 .. a - 1 : u[i] = c[i]
    OBVIOUS
<1>3. v \in Seq(Node) /\ Len(v) = n - a /\ \A i \in 1 .. n - a : v[i] = c[a + i]
    OBVIOUS
<1> HIDE DEF u, v, n
<1>4. u \o v \in Seq(Node) /\ Len(u \o v) = n - 1
    BY <1>1, <1>2, <1>3
<1>5. ASSUME NEW i \in 1 .. n - 1
      PROVE  (u \o v)[i] = IF i < a THEN c[i] ELSE c[i + 1]
    <2>1. CASE i < a
        BY <1>1, <1>2, <1>3, <2>1
    <2>2. CASE ~ (i < a)
        <3>1. i - (a - 1) \in 1 .. n - a /\ a + (i - (a - 1)) = i + 1
              /\ i - Len(u) = i - (a - 1)
            BY <1>1, <1>2, <2>2
        <3>2. (u \o v)[i] = v[i - (a - 1)]
            BY <1>1, <1>2, <1>3, <2>2
        <3> QED
            BY <1>3, <2>2, <3>1, <3>2
    <2> QED
        BY <2>1, <2>2
<1> QED
    BY <1>4, <1>5 DEF Without, u, v, n

(* Taking one element out leaves every other one where no other is.        *)
AllBut(cc, dd, m) ==
    /\ dd \in [Queue -> Seq(Node)]
    /\ Apart(dd)
    /\ \A x \in Places(dd) : dd[x[1]][x[2]] # m
    /\ \A n \in Node : /\ n # m
                       /\ \A x \in Places(dd) : dd[x[1]][x[2]] # n
                       => \A x \in Places(cc) : cc[x[1]][x[2]] # n

LEMMA DropPlaces ==
    ASSUME NEW cc \in [Queue -> Seq(Node)], Apart(cc), NEW q \in Queue, NEW d,
           NEW a \in 1 .. Len(cc[q]), Without(cc[q], d, a), NEW dd,
           dd = [cc EXCEPT ![q] = d]
    PROVE  AllBut(cc, dd, cc[q][a])
<1> DEFINE c == cc[q]
           n == Len(c)
           at(x) == IF x[1] = q /\ x[2] >= a THEN <<q, x[2] + 1>> ELSE x
<1>1. c \in Seq(Node) /\ n \in Nat /\ a \in 1 .. n /\ Len(d) = n - 1 /\ d \in Seq(Node)
      /\ \A i \in 1 .. n - 1 : d[i] = IF i < a THEN c[i] ELSE c[i + 1]
    BY DEF Without
<1>2. dd \in [Queue -> Seq(Node)] /\ dd[q] = d /\ \A r \in Queue \ {q} : dd[r] = cc[r]
    BY <1>1
<1> HIDE DEF n
<1>3. ASSUME NEW x \in Places(dd)
      PROVE  /\ at(x) \in Places(cc)
             /\ dd[x[1]][x[2]] = cc[at(x)[1]][at(x)[2]]
             /\ at(x) # <<q, a>>
             /\ x \in Queue \X Nat
    <2>1. x[1] \in Queue /\ x[2] \in 1 .. Len(dd[x[1]]) /\ x \in Queue \X Nat
        BY <1>3, PlaceIn DEF Places
    <2>2. CASE x[1] # q
        <3>1. dd[x[1]] = cc[x[1]] /\ at(x) = x
            BY <1>2, <2>1, <2>2
        <3> QED
            BY <2>1, <2>2, <3>1 DEF Places
    <2>3. CASE x[1] = q
        <3>1. x[2] \in 1 .. n - 1 /\ x[2] + 1 \in 1 .. n /\ x[2] \in 1 .. n
            BY <1>1, <1>2, <2>1, <2>3
        <3>2. CASE x[2] < a
            <4>1. at(x) = x /\ x[2] # a /\ dd[x[1]][x[2]] = c[x[2]]
                BY <1>1, <1>2, <2>3, <3>1, <3>2
            <4> QED
                BY <2>1, <2>3, <3>1, <4>1 DEF Places, n
        <3>3. CASE ~ (x[2] < a)
            <4>1. at(x) = <<q, x[2] + 1>> /\ x[2] + 1 # a
                BY <1>1, <2>3, <3>1, <3>3
            <4>2. dd[x[1]][x[2]] = c[x[2] + 1]
                BY <1>1, <1>2, <2>3, <3>1, <3>3
            <4>3. <<q, x[2] + 1>> \in Places(cc)
                BY <3>1 DEF Places, n
            <4> QED
                BY <2>1, <4>1, <4>2, <4>3
        <3> QED
            BY <3>2, <3>3
    <2> QED
        BY <2>2, <2>3
<1>4. ASSUME NEW x \in Places(dd), NEW y \in Places(dd), at(x) = at(y)
      PROVE  x = y
    <2>1. x \in Queue \X Nat /\ y \in Queue \X Nat
        BY <1>3
    <2>2. at(x)[1] = x[1] /\ at(y)[1] = y[1]
        BY <2>1
    <2>3. x[1] = y[1] /\ at(x)[2] = at(y)[2]
        BY <1>4, <2>2
    <2>4. x[2] = y[2]
        BY <1>1, <2>1, <2>3
    <2> QED
        BY <2>1, <2>3, <2>4
<1>5. <<q, a>> \in Places(cc)
    BY DEF Places
<1>6. Apart(dd)
    <2> SUFFICES ASSUME NEW x \in Places(dd), NEW y \in Places(dd),
                        dd[x[1]][x[2]] = dd[y[1]][y[2]]
                 PROVE  x = y
        BY DEF Apart
    <2> HIDE DEF at
    <2>1. at(x) = at(y)
        <3>1. at(x) \in Places(cc) /\ dd[x[1]][x[2]] = cc[at(x)[1]][at(x)[2]]
            BY <1>3
        <3>2. at(y) \in Places(cc) /\ dd[y[1]][y[2]] = cc[at(y)[1]][at(y)[2]]
            BY <1>3
        <3>3. cc[at(x)[1]][at(x)[2]] = cc[at(y)[1]][at(y)[2]]
            BY <3>1, <3>2
        <3> QED
            BY <3>1, <3>2, <3>3 DEF Apart
    <2> QED
        BY <1>4, <2>1
<1>7. ASSUME NEW x \in Places(dd)
      PROVE  dd[x[1]][x[2]] # cc[q][a]
    <2> HIDE DEF at
    <2>1. at(x) \in Places(cc) /\ at(x) # <<q, a>> /\ dd[x[1]][x[2]] = cc[at(x)[1]][at(x)[2]]
        BY <1>3, <1>7
    <2>2. <<q, a>>[1] = q /\ <<q, a>>[2] = a
        OBVIOUS
    <2> QED
        BY <1>5, <2>1, <2>2 DEF Apart
<1>8. ASSUME NEW m \in Node, m # cc[q][a], \A x \in Places(dd) : dd[x[1]][x[2]] # m,
             NEW x \in Places(cc)
      PROVE  cc[x[1]][x[2]] # m
    <2>1. x[1] \in Queue /\ x[2] \in 1 .. Len(cc[x[1]]) /\ x \in Queue \X Nat
        BY <1>8, PlaceIn DEF Places
    <2>2. CASE x[1] # q
        <3>1. dd[x[1]] = cc[x[1]]
            BY <1>2, <2>1, <2>2
        <3>2. x \in Places(dd)
            BY <2>1, <3>1 DEF Places
        <3> QED
            BY <1>8, <3>1, <3>2
    <2>3. CASE x[1] = q /\ x[2] < a
        <3>1. x[2] \in 1 .. n - 1
            BY <1>1, <2>1, <2>3 DEF n
        <3>2. dd[x[1]][x[2]] = c[x[2]]
            BY <1>1, <1>2, <2>3, <3>1
        <3>3. x \in Places(dd)
            BY <1>1, <1>2, <2>1, <2>3, <3>1 DEF Places
        <3> QED
            BY <1>8, <2>3, <3>2, <3>3
    <2>4. CASE x[1] = q /\ x[2] = a
        BY <1>8, <2>4
    <2>5. CASE x[1] = q /\ x[2] > a
        <3>1. x[2] - 1 \in 1 .. n - 1 /\ ~ (x[2] - 1 < a) /\ x[2] - 1 + 1 = x[2]
            BY <1>1, <2>1, <2>5 DEF n
        <3>2. d[x[2] - 1] = c[x[2]]
            BY <1>1, <3>1
        <3>3. <<q, x[2] - 1>> \in Places(dd)
            BY <1>1, <1>2, <3>1 DEF Places
        <3>4. dd[q][x[2] - 1] # m
            BY <1>8, <3>3
        <3> QED
            BY <1>2, <2>5, <3>2, <3>4
    <2> QED
        BY <1>1, <2>1, <2>2, <2>3, <2>4, <2>5
<1> QED
    BY <1>2, <1>6, <1>7, <1>8 DEF AllBut

-----------------------------------------------------------------------------
(* A removal changes no link but those it names.                           *)
LEMMA HoldsFrame ==
    ASSUME NEW s, NEW s1, NEW r, NEW c, Holds(s, r, c), Len(c) \in Nat,
           s1.head[r] = s.head[r], s1.tail[r] = s.tail[r],
           \A i \in 1 .. Len(c) : s1.p[c[i]] = s.p[c[i]]
    PROVE  Holds(s1, r, c)
<1>1. CASE Len(c) = 0
    BY <1>1 DEF Holds
<1>2. CASE Len(c) # 0
    <2>1. Len(c) \in 1 .. Len(c) /\ \A i \in 1 .. Len(c) - 1 : i \in 1 .. Len(c)
        BY <1>2
    <2>2. s.head[r] = c[1] /\ s.tail[r] = c[Len(c)] /\ s.p[c[Len(c)]] = NULL
          /\ \A i \in 1 .. Len(c) - 1 : s.p[c[i]] = c[i + 1]
        BY <1>2 DEF Holds
    <2>3. s1.p[c[Len(c)]] = NULL
        BY <2>1, <2>2
    <2>4. \A i \in 1 .. Len(c) - 1 : s1.p[c[i]] = c[i + 1]
        BY <2>1, <2>2
    <2> QED
        BY <1>2, <2>2, <2>3, <2>4 DEF Holds
<1> QED
    BY <1>1, <1>2

(* Both DEQs take the first node out: that env_DEQ leaves a tail standing  *)
(* where PCB_DEQ recomputes it makes no difference.                        *)
LEMMA DequeueHolds ==
    ASSUME NEW s, NEW cc, AsBelieved(s, cc), NEW q \in Queue, Len(cc[q]) # 0,
           NEW d, Without(cc[q], d, 1),
           NEW s1, s1 = PCB_DEQ(s, q) \/ s1 = env_DEQ(s, q)
    PROVE  AsBelieved(s1, [cc EXCEPT ![q] = d])
<1> DEFINE c  == cc[q]
           dd == [cc EXCEPT ![q] = d]
           L  == Len(c)
<1> USE NullAssumption
<1>1. /\ s \in Store(Node, Queue)
      /\ cc \in [Queue -> Seq(Node)]
      /\ \A r \in Queue : Holds(s, r, cc[r])
      /\ Apart(cc)
      /\ LooseClear(s, cc)
    BY DEF AsBelieved
<1>2. c \in Seq(Node) /\ L \in Nat /\ L # 0 /\ 1 \in 1 .. L /\ L \in 1 .. L
    BY <1>1
<1>3. d \in Seq(Node) /\ Len(d) = L - 1 /\ \A i \in 1 .. L - 1 : d[i] = c[i + 1]
    <2>1. d \in Seq(Node) /\ Len(d) = L - 1 /\ \A i \in 1 .. Len(d) : d[i] = IF i < 1 THEN c[i] ELSE c[i + 1]
        BY DEF Without
    <2>2. \A i \in 1 .. L - 1 : ~ (i < 1)
        BY <1>2
    <2> QED
        BY <2>1, <2>2
<1>4. /\ dd \in [Queue -> Seq(Node)]
      /\ Apart(dd)
      /\ \A x \in Places(dd) : dd[x[1]][x[2]] # cc[q][1]
      /\ \A n \in Node : /\ n # cc[q][1]
                         /\ \A x \in Places(dd) : dd[x[1]][x[2]] # n
                         => \A x \in Places(cc) : cc[x[1]][x[2]] # n
    <2> HIDE DEF dd
    <2>1. dd = [cc EXCEPT ![q] = d]
        BY DEF dd
    <2>2. 1 \in 1 .. Len(cc[q])
        BY <1>2
    <2>3. AllBut(cc, dd, cc[q][1])
        BY <1>1, <2>1, <2>2, DropPlaces
    <2> QED
        BY <1>1, <2>1, <2>2, <2>3 DEF AllBut
<1>5. s1 \in Store(Node, Queue)
    BY <1>1, DEQType
<1>6. dd[q] = d /\ \A r \in Queue \ {q} : dd[r] = cc[r]
    BY <1>1
<1>7. c[1] \in Node /\ c[L] \in Node /\ s.head[q] = c[1] /\ s.head[q] # NULL
    BY <1>1, <1>2, ElementIn DEF Holds
<1>8. /\ s1.head = [s.head EXCEPT ![q] = s.p[c[1]]]
      /\ \A r \in Queue \ {q} : s1.tail[r] = s.tail[r]
      /\ s1.p = [s.p EXCEPT ![c[1]] = NULL]
    <2>1. CASE s1 = PCB_DEQ(s, q)
        BY <1>1, <1>7, <2>1 DEF PCB_DEQ, Store
    <2>2. CASE s1 = env_DEQ(s, q)
        BY <1>1, <1>7, <2>2 DEF env_DEQ, Store
    <2> QED
        BY <2>1, <2>2
<1>9. s.p \in [Node -> Node \cup {NULL}] /\ s.head \in [Queue -> Node \cup {NULL}]
      /\ s.tail \in [Queue -> Node \cup {NULL}]
    BY <1>1 DEF Store
<1>10. \A i \in 2 .. L : c[i] # c[1] /\ c[i] \in Node /\ s1.p[c[i]] = s.p[c[i]]
    <2> SUFFICES ASSUME NEW i \in 2 .. L
                 PROVE  c[i] # c[1] /\ c[i] \in Node /\ s1.p[c[i]] = s.p[c[i]]
        OBVIOUS
    <2>1. i \in 1 .. L /\ i # 1
        BY <1>2
    <2>2. c[i] \in Node
        BY <1>2, <2>1, ElementIn
    <2>3. c[i] # c[1]
        BY <1>1, <1>2, <2>1, ApartAt
    <2> QED
        BY <1>8, <1>9, <2>2, <2>3
<1> HIDE DEF dd, L
<1>11. ASSUME NEW r \in Queue
       PROVE  Holds(s1, r, dd[r])
    <2>0. Holds(s, r, cc[r]) /\ cc[r] \in Seq(Node)
        BY <1>1
    <2>1. CASE r # q
        <3>1. s1.head[r] = s.head[r] /\ s1.tail[r] = s.tail[r] /\ dd[r] = cc[r]
            BY <1>6, <1>8, <1>9, <2>1
        <3>2. ASSUME NEW i \in 1 .. Len(cc[r])
              PROVE  s1.p[cc[r][i]] = s.p[cc[r][i]]
            <4>1. cc[r][i] \in Node
                BY <2>0, ElementIn
            <4>2. cc[r][i] # c[1]
                <5>1. 1 \in 1 .. Len(cc[q])
                    BY <1>2 DEF L
                <5> QED
                    BY <1>1, <2>1, <5>1, ApartAt
            <4> QED
                BY <1>8, <1>9, <4>1, <4>2
        <3>3. Len(cc[r]) \in Nat
            BY <2>0
        <3>4. Holds(s1, r, cc[r])
            BY <2>0, <3>1, <3>2, <3>3, HoldsFrame
        <3> QED
            BY <3>1, <3>4
    <2>2. CASE r = q /\ L = 1
        <3>1. Len(d) = 0
            BY <1>3, <2>2
        <3>2. s.p[c[1]] = NULL
            BY <2>0, <2>2 DEF Holds, L
        <3>3. s1.head[q] = NULL
            BY <1>8, <1>9, <3>2
        <3>4. Holds(s1, q, d)
            BY <3>1, <3>3 DEF Holds
        <3> QED
            BY <1>6, <2>2, <3>4
    <2>3. CASE r = q /\ L # 1
        <3>1. /\ 1 \in 1 .. L - 1 /\ L - 1 # 0 /\ L - 1 \in 1 .. L - 1 /\ L - 1 + 1 = L
              /\ 2 \in 2 .. L /\ L \in 2 .. L
            BY <1>2, <2>3
        <3>2. \A i \in 1 .. L - 1 : s.p[c[i]] = c[i + 1]
            BY <1>2, <2>0, <2>3 DEF Holds, L
        <3>3. d[1] = c[2] /\ d[L - 1] = c[L]
            <4>1. d[1] = c[1 + 1]
                BY <1>3, <3>1
            <4>2. d[L - 1] = c[L - 1 + 1]
                BY <1>3, <3>1
            <4>3. 1 + 1 = 2
                OBVIOUS
            <4> QED
                BY <3>1, <4>1, <4>2, <4>3
        <3>4. s.p[c[1]] = c[2]
            <4>1. s.p[c[1]] = c[1 + 1]
                BY <3>1, <3>2
            <4>2. 1 + 1 = 2
                OBVIOUS
            <4> QED
                BY <4>1, <4>2
        <3>5. s1.head[q] = d[1]
            BY <1>8, <1>9, <3>3, <3>4
        <3>6. s.tail[q] = c[L] /\ s.p[c[L]] = NULL
            BY <1>2, <2>0, <2>3 DEF Holds, L
        <3>7. s1.p[d[L - 1]] = NULL
            BY <1>10, <3>1, <3>3, <3>6
        <3>8. s1.tail[q] = d[L - 1]
            <4>1. c[2] \in Node
                BY <1>10, <3>1
            <4>2. s1.tail[q] = s.tail[q] \/ (s1.tail[q] = c[2] /\ s.p[c[2]] = NULL)
                <5>0. /\ s \in Store(Node, Queue) /\ s.head[q] # NULL
                      /\ s.p[s.head[q]] = c[2] /\ c[2] # NULL
                    BY <1>1, <1>7, <3>4, <4>1
                <5>1. CASE s1 = PCB_DEQ(s, q)
                    BY <5>0, <5>1 DEF PCB_DEQ, Store
                <5>2. CASE s1 = env_DEQ(s, q)
                    BY <5>0, <5>2 DEF env_DEQ, Store
                <5> QED
                    BY <5>1, <5>2
            <4>3. CASE s1.tail[q] = c[2] /\ s.p[c[2]] = NULL
                <5>1. CASE L = 2
                    BY <3>3, <4>3, <5>1
                <5>2. CASE L # 2
                    <6>1. 2 \in 1 .. L - 1 /\ 2 + 1 \in 2 .. L
                        BY <1>2, <2>3, <5>2
                    <6>2. s.p[c[2]] = c[2 + 1]
                        BY <3>2, <6>1
                    <6>3. c[2 + 1] \in Node
                        BY <1>10, <6>1
                    <6> QED
                        BY <4>3, <6>2, <6>3
                <5> QED
                    BY <5>1, <5>2
            <4> QED
                BY <3>3, <3>6, <4>2, <4>3
        <3>9. ASSUME NEW i \in 1 .. L - 1 - 1
              PROVE  s1.p[d[i]] = d[i + 1]
            <4>1. i \in 1 .. L - 1 /\ i + 1 \in 1 .. L - 1 /\ i + 1 \in 2 .. L
                BY <1>2, <2>3, <3>9
            <4>2. d[i] = c[i + 1] /\ d[i + 1] = c[i + 1 + 1]
                BY <1>3, <4>1
            <4>3. s.p[c[i + 1]] = c[i + 1 + 1]
                BY <3>2, <4>1
            <4>4. s1.p[c[i + 1]] = s.p[c[i + 1]]
                BY <1>10, <4>1
            <4> QED
                BY <4>2, <4>3, <4>4
        <3>10. Holds(s1, q, d)
            BY <1>3, <3>1, <3>5, <3>7, <3>8, <3>9 DEF Holds
        <3> QED
            BY <1>6, <2>3, <3>10
    <2> QED
        BY <2>1, <2>2, <2>3
<1>12. LooseClear(s1, dd)
    <2> SUFFICES ASSUME NEW m \in Node, \A x \in Places(dd) : dd[x[1]][x[2]] # m
                 PROVE  s1.p[m] = NULL
        BY DEF LooseClear
    <2>1. CASE m = c[1]
        BY <1>8, <1>9, <2>1
    <2>2. CASE m # c[1]
        <3>1. s.p[m] = NULL
            BY <1>1, <1>4, <2>2 DEF LooseClear
        <3> QED
            BY <1>8, <1>9, <2>2, <3>1
    <2> QED
        BY <2>1, <2>2
<1>13. AsBelieved(s1, dd)
    BY <1>4, <1>5, <1>11, <1>12 DEF AsBelieved
<1> QED
    BY <1>13 DEF dd

(* A traversal that starts at element number i meets the elements from     *)
(* there to the end.                                                       *)
Rest(c, i) == { c[j] : j \in i .. Len(c) }

LEMMA FromElement ==
    ASSUME NEW s, NEW cc, AsBelieved(s, cc), NEW q \in Queue,
           NEW i \in 1 .. Len(cc[q])
    PROVE  From(s.p, cc[q][i]) = Rest(cc[q], i)
<1> DEFINE c == cc[q]
           L == Len(c)
           T == { c[j] : j \in i .. L }
<1> USE NullAssumption
<1>1. c \in Seq(Node) /\ L \in Nat /\ i \in 1 .. L
    BY DEF AsBelieved
<1>2. s.p \in [Node -> Node \cup {NULL}] /\ DOMAIN s.p = Node
    BY DEF AsBelieved, Store
<1>3. \A j \in 1 .. L : c[j] \in Node
    BY <1>1, ElementIn
<1>4. s.p[c[L]] = NULL /\ \A j \in 1 .. L - 1 : s.p[c[j]] = c[j + 1]
    <2>1. Holds(s, q, c) /\ L # 0
        BY <1>1 DEF AsBelieved
    <2> QED
        BY <2>1 DEF Holds
<1> HIDE DEF L
<1>5. From(s.p, c[i]) \subseteq T
    <2>1. T \in SUBSET DOMAIN s.p
        <3>1. \A j \in i .. L : j \in 1 .. L
            BY <1>1
        <3> QED
            BY <1>2, <1>3, <3>1
    <2>2. c[i] \in T
        <3>1. i \in i .. L
            BY <1>1
        <3> QED
            BY <3>1
    <2>3. ASSUME NEW k \in T
          PROVE  s.p[k] \in T \cup {NULL}
        <3>1. PICK j \in i .. L : k = c[j]
            BY <2>3
        <3>2. CASE j = L
            BY <1>4, <3>1, <3>2
        <3>3. CASE j # L
            <4>1. j \in 1 .. L - 1 /\ j + 1 \in i .. L
                BY <1>1, <3>3
            <4>2. s.p[k] = c[j + 1]
                BY <1>4, <3>1, <4>1
            <4> QED
                BY <4>1, <4>2
        <3> QED
            BY <3>2, <3>3
    <2> HIDE DEF T
    <2> QED
        BY <2>1, <2>2, <2>3, FromLeast
<1>6. T \subseteq From(s.p, c[i])
    <2> DEFINE B == { j \in i .. L : c[j] \notin From(s.p, c[i]) }
    <2>1. SUFFICES ASSUME B # {}
                   PROVE  FALSE
        OBVIOUS
    <2>2. B \subseteq Nat
        BY <1>1
    <2>3. PICK j \in B : \A k \in B : j <= k
        <3> HIDE DEF B
        <3> QED
            BY <2>1, <2>2, LeastNat
    <2>4. j \in i .. L /\ c[j] \notin From(s.p, c[i])
        OBVIOUS
    <2>5. j # i
        <3>1. c[i] \in DOMAIN s.p
            BY <1>1, <1>2, <1>3
        <3> QED
            BY <2>4, <3>1, FromStart
    <2>6. /\ j - 1 \in i .. L /\ j - 1 \in 1 .. L - 1 /\ j - 1 + 1 = j /\ ~ (j <= j - 1)
          /\ j \in 1 .. L /\ i \in 1 .. L
        BY <1>1, <2>4, <2>5
    <2>7. c[j - 1] \in From(s.p, c[i])
        BY <2>3, <2>6
    <2>8. s.p[c[j - 1]] = c[j]
        BY <1>4, <2>6
    <2>9. s.p[c[j - 1]] \in DOMAIN s.p /\ s.p[c[j - 1]] # NULL /\ c[i] \in DOMAIN s.p
        BY <1>2, <1>3, <2>6, <2>8
    <2> QED
        BY <2>4, <2>7, <2>8, <2>9, FromStep
<1> QED
    BY <1>5, <1>6 DEF L, Rest

(* A node between the head and the tail is skipped by its predecessor.     *)
LEMMA UnlinkHolds ==
    ASSUME NEW s, NEW cc, AsBelieved(s, cc), NEW q \in Queue,
           NEW a \in 1 .. Len(cc[q]), a # 1, a # Len(cc[q]),
           NEW d, Without(cc[q], d, a)
    PROVE  AsBelieved(Unlink(s, q, cc[q][a]), [cc EXCEPT ![q] = d])
<1> DEFINE c  == cc[q]
           dd == [cc EXCEPT ![q] = d]
           L  == Len(c)
           s1 == Unlink(s, q, c[a])
<1> USE NullAssumption
<1>1. /\ s \in Store(Node, Queue)
      /\ cc \in [Queue -> Seq(Node)]
      /\ \A r \in Queue : Holds(s, r, cc[r])
      /\ Apart(cc)
      /\ LooseClear(s, cc)
    BY DEF AsBelieved
<1>2. c \in Seq(Node) /\ L \in Nat /\ a \in 2 .. L - 1 /\ L # 0 /\ 1 \in 1 .. L /\ L \in 1 .. L
      /\ a \in 1 .. L /\ a - 1 \in 1 .. L /\ a + 1 \in 1 .. L
    BY <1>1
<1>3. d \in Seq(Node) /\ Len(d) = L - 1
      /\ \A i \in 1 .. L - 1 : d[i] = IF i < a THEN c[i] ELSE c[i + 1]
    BY DEF Without
<1>4. AllBut(cc, dd, c[a])
    <2> HIDE DEF dd
    <2>1. dd = [cc EXCEPT ![q] = d]
        BY DEF dd
    <2> QED
        BY <1>1, <2>1, DropPlaces
<1>5. \A i \in 1 .. L : c[i] \in Node
    BY <1>2, ElementIn
<1>6. s1 \in Store(Node, Queue)
    BY <1>1, <1>2, <1>5, UnlinkType
<1>7. dd[q] = d /\ \A r \in Queue \ {q} : dd[r] = cc[r]
    BY <1>1
<1>8. s.p \in [Node -> Node \cup {NULL}] /\ DOMAIN s.p = Node
    BY <1>1 DEF Store
<1>9. /\ s.head[q] = c[1] /\ s.tail[q] = c[L] /\ s.p[c[L]] = NULL
      /\ \A i \in 1 .. L - 1 : s.p[c[i]] = c[i + 1]
    BY <1>1, <1>2 DEF Holds
<1>10. /\ s1.head = s.head /\ s1.tail = s.tail
       /\ s1.p = [ m \in Node |-> IF m = c[a] THEN NULL
                                  ELSE IF m \in On(s, q) /\ s.p[m] = c[a] THEN s.p[c[a]]
                                  ELSE s.p[m] ]
    BY <1>1, <1>8 DEF Unlink, Store
<1>11. On(s, q) = { c[j] : j \in 1 .. L }
    <2>1. c[1] \in Node
        BY <1>2, <1>5
    <2>2. From(s.p, cc[q][1]) = Rest(cc[q], 1)
        <3>1. 1 \in 1 .. Len(cc[q])
            BY <1>2
        <3> QED
            BY <3>1, FromElement
    <2> QED
        BY <1>9, <2>1, <2>2 DEF On, Rest
<1> HIDE DEF dd, L, s1
<1>12. ASSUME NEW i \in 1 .. L, i # a
       PROVE  s1.p[c[i]] = IF i = a - 1 THEN c[a + 1] ELSE s.p[c[i]]
    <2>1. c[i] # c[a]
        <3>1. i \in 1 .. Len(cc[q])
            BY DEF L
        <3> QED
            BY <1>1, <1>12, <3>1, ApartAt
    <2>2. s1.p[c[i]] = IF s.p[c[i]] = c[a] THEN s.p[c[a]] ELSE s.p[c[i]]
        BY <1>5, <1>10, <1>11, <2>1
    <2>3. a \in 1 .. L - 1 /\ s.p[c[a]] = c[a + 1]
        BY <1>2, <1>9
    <2>4. CASE i = a - 1
        <3>1. i \in 1 .. L - 1 /\ i + 1 = a
            BY <1>2, <2>4
        <3>2. s.p[c[i]] = c[a]
            <4>1. s.p[c[i]] = c[i + 1]
                BY <1>9, <3>1
            <4> QED
                BY <3>1, <4>1
        <3> QED
            BY <2>2, <2>3, <2>4, <3>2
    <2>5. CASE i # a - 1
        <3>1. s.p[c[i]] # c[a]
            <4>1. CASE i = L
                <5>1. c[a] # NULL
                    BY <1>2, <1>5
                <5> QED
                    BY <1>9, <4>1, <5>1
            <4>2. CASE i # L
                <5>1. i \in 1 .. L - 1 /\ i + 1 \in 1 .. Len(cc[q]) /\ i + 1 # a
                    BY <1>2, <2>5, <4>2 DEF L
                <5>2. s.p[c[i]] = c[i + 1]
                    BY <1>9, <5>1
                <5>3. c[i + 1] # c[a]
                    BY <1>1, <5>1, ApartAt
                <5> QED
                    BY <5>2, <5>3
            <4> QED
                BY <4>1, <4>2
        <3> QED
            BY <2>2, <2>5, <3>1
    <2> QED
        BY <2>4, <2>5
<1>13. ASSUME NEW r \in Queue
       PROVE  Holds(s1, r, dd[r])
    <2>0. Holds(s, r, cc[r]) /\ cc[r] \in Seq(Node)
        BY <1>1
    <2>1. CASE r # q
        <3>1. dd[r] = cc[r]
            BY <1>7, <2>1
        <3>2. ASSUME NEW i \in 1 .. Len(cc[r])
              PROVE  s1.p[cc[r][i]] = s.p[cc[r][i]]
            <4>1. cc[r][i] \in Node
                BY <2>0, ElementIn
            <4>2. ASSUME NEW j \in 1 .. L
                  PROVE  cc[r][i] # c[j]
                <5>1. j \in 1 .. Len(cc[q])
                    BY DEF L
                <5> QED
                    BY <1>1, <2>1, <5>1, ApartAt
            <4>3. cc[r][i] \notin On(s, q) /\ cc[r][i] # c[a]
                BY <1>2, <1>11, <4>2
            <4> QED
                BY <1>10, <4>1, <4>3
        <3>3. Len(cc[r]) \in Nat /\ s1.head[r] = s.head[r] /\ s1.tail[r] = s.tail[r]
            BY <1>10, <2>0
        <3>4. Holds(s1, r, cc[r])
            BY <2>0, <3>2, <3>3, HoldsFrame
        <3> QED
            BY <3>1, <3>4
    <2>2. CASE r = q
        <3>1. /\ 1 \in 1 .. L - 1 /\ 1 < a /\ L - 1 # 0 /\ L - 1 \in 1 .. L - 1
              /\ L - 1 + 1 = L /\ ~ (L - 1 < a) /\ L # a /\ L # a - 1
            BY <1>2
        <3>2. d[1] = c[1] /\ d[L - 1] = c[L]
            BY <1>3, <3>1
        <3>3. s1.p[c[L]] = NULL
            BY <1>2, <1>9, <1>12, <3>1
        <3>4. ASSUME NEW i \in 1 .. L - 1 - 1
              PROVE  s1.p[d[i]] = d[i + 1]
            <4>1. i \in 1 .. L - 1 /\ i + 1 \in 1 .. L - 1 /\ i \in 1 .. L /\ i + 1 \in 1 .. L
                BY <1>2, <3>4
            <4>2. CASE i < a - 1
                <5>1. i < a /\ i + 1 < a /\ i # a /\ i # a - 1
                    BY <1>2, <4>1, <4>2
                <5>2. d[i] = c[i] /\ d[i + 1] = c[i + 1]
                    BY <1>3, <4>1, <5>1
                <5>3. s1.p[c[i]] = s.p[c[i]] /\ s.p[c[i]] = c[i + 1]
                    BY <1>9, <1>12, <4>1, <5>1
                <5> QED
                    BY <5>2, <5>3
            <4>3. CASE i = a - 1
                <5>1. i < a /\ ~ (i + 1 < a) /\ i # a /\ i + 1 + 1 = a + 1
                    BY <1>2, <4>1, <4>3
                <5>2. d[i] = c[i] /\ d[i + 1] = c[i + 1 + 1]
                    BY <1>3, <4>1, <5>1
                <5>3. s1.p[c[i]] = c[a + 1]
                    BY <1>12, <4>1, <4>3, <5>1
                <5> QED
                    BY <5>1, <5>2, <5>3
            <4>4. CASE i > a - 1
                <5>1. ~ (i < a) /\ ~ (i + 1 < a) /\ i + 1 # a /\ i + 1 # a - 1
                    BY <1>2, <4>1, <4>4
                <5>2. d[i] = c[i + 1] /\ d[i + 1] = c[i + 1 + 1]
                    BY <1>3, <4>1, <5>1
                <5>3. s1.p[c[i + 1]] = s.p[c[i + 1]] /\ s.p[c[i + 1]] = c[i + 1 + 1]
                    BY <1>9, <1>12, <4>1, <5>1
                <5> QED
                    BY <5>2, <5>3
            <4> QED
                BY <1>2, <4>1, <4>2, <4>3, <4>4
        <3>5. Holds(s1, q, d)
            BY <1>3, <1>9, <1>10, <3>1, <3>2, <3>3, <3>4 DEF Holds
        <3> QED
            BY <1>7, <2>2, <3>5
    <2> QED
        BY <2>1, <2>2
<1>14. LooseClear(s1, dd)
    <2> SUFFICES ASSUME NEW m \in Node, \A x \in Places(dd) : dd[x[1]][x[2]] # m
                 PROVE  s1.p[m] = NULL
        BY DEF LooseClear
    <2>1. CASE m = c[a]
        BY <1>10, <2>1
    <2>2. CASE m # c[a]
        <3>1. \A x \in Places(cc) : cc[x[1]][x[2]] # m
            BY <1>4, <2>2 DEF AllBut
        <3>2. s.p[m] = NULL
            BY <1>1, <3>1 DEF LooseClear
        <3>3. c[a] # NULL
            BY <1>2, <1>5
        <3> QED
            BY <1>10, <2>2, <3>2, <3>3
    <2> QED
        BY <2>1, <2>2
<1>15. dd \in [Queue -> Seq(Node)] /\ Apart(dd)
    BY <1>4 DEF AllBut
<1>16. AsBelieved(s1, dd)
    BY <1>6, <1>13, <1>14, <1>15 DEF AsBelieved
<1> QED
    BY <1>16 DEF dd, s1

(* The first match of a search is the node env_REMOVE stops at.            *)
First(c, match, a) ==
    /\ a \in 1 .. Len(c)
    /\ c[a] \in match
    /\ \A j \in 1 .. a - 1 : c[j] \notin match

LEMMA FirstMatch ==
    ASSUME NEW s, NEW cc, AsBelieved(s, cc), NEW q \in Queue, NEW match,
           NEW a, First(cc[q], match, a)
    PROVE  /\ cc[q][a] \in On(s, q) \cap match
           /\ FirstOn(s, q, match) = cc[q][a]
<1> DEFINE c == cc[q]
           L == Len(c)
           M == On(s, q) \cap match
<1>1. c \in Seq(Node) /\ L \in Nat /\ a \in 1 .. L /\ 1 \in 1 .. L /\ L # 0
      /\ c[a] \in match /\ \A j \in 1 .. a - 1 : c[j] \notin match
    BY DEF AsBelieved, First
<1>2. On(s, q) = { c[j] : j \in 1 .. L }
    <2>1. s.head[q] = c[1] /\ c[1] # NULL
        <3>1. Holds(s, q, c) /\ c[1] \in Node
            BY <1>1, ElementIn DEF AsBelieved
        <3> QED
            BY <1>1, <3>1, NullAssumption DEF Holds
    <2>2. From(s.p, cc[q][1]) = Rest(cc[q], 1)
        <3>1. 1 \in 1 .. Len(cc[q])
            BY <1>1
        <3> QED
            BY <3>1, FromElement
    <2> QED
        BY <2>1, <2>2 DEF On, Rest
<1>3. \A i \in 1 .. L : From(s.p, c[i]) = { c[j] : j \in i .. L }
    <2> SUFFICES ASSUME NEW i \in 1 .. L
                 PROVE  From(s.p, c[i]) = { c[j] : j \in i .. L }
        OBVIOUS
    <2> QED
        BY FromElement DEF Rest
<1> HIDE DEF L
<1>4. c[a] \in M
    BY <1>1, <1>2
<1>5. M \subseteq From(s.p, c[a])
    <2> SUFFICES ASSUME NEW m \in M PROVE m \in From(s.p, c[a])
        OBVIOUS
    <2>1. PICK j \in 1 .. L : m = c[j]
        BY <1>2
    <2>2. j \notin 1 .. a - 1
        BY <1>1, <2>1
    <2>3. j \in a .. L
        BY <1>1, <2>1, <2>2
    <2> QED
        BY <1>1, <1>3, <2>1, <2>3
<1>6. ASSUME NEW n \in M, M \subseteq From(s.p, n)
      PROVE  n = c[a]
    <2>1. PICK k \in 1 .. L : n = c[k]
        BY <1>2, <1>6
    <2>2. k \notin 1 .. a - 1
        BY <1>1, <1>6, <2>1
    <2>3. PICK j \in k .. L : c[a] = c[j]
        BY <1>3, <1>4, <1>6, <2>1
    <2>4. a = j
        <3>1. a \in 1 .. Len(cc[q]) /\ j \in 1 .. Len(cc[q]) /\ Apart(cc)
            BY <1>1, <2>1, <2>3 DEF L, AsBelieved
        <3> QED
            BY <2>3, <3>1, ApartAt
    <2>5. k = a
        BY <1>1, <2>1, <2>2, <2>3, <2>4
    <2> QED
        BY <2>1, <2>5
<1> QED
    BY <1>4, <1>5, <1>6 DEF FirstOn

-----------------------------------------------------------------------------
(* The inductive invariant: what StoreInv and TypeOK say of every caller,  *)
(* and that a careful caller's queues are what it believes.                *)
QueueInv ==
    /\ TypeOK
    /\ LinksAcyclic
    /\ caller = "careful" => AsBelieved(store, content)

LEMMA LooseElsewhere ==
    ASSUME NEW n \in Loose
    PROVE  \A x \in Places(content) : content[x[1]][x[2]] # n
<1> SUFFICES ASSUME NEW x \in Places(content) PROVE content[x[1]][x[2]] # n
    OBVIOUS
<1>1. x[1] \in Queue /\ x[2] \in 1 .. Len(content[x[1]])
    BY PlaceIn
<1>2. content[x[1]][x[2]] \in Contents(x[1])
    BY <1>1 DEF Contents
<1> QED
    BY <1>1, <1>2 DEF Loose

LEMMA PositionFirst ==
    ASSUME content \in [Queue -> Seq(Node)], NEW q \in Queue, NEW k,
           Contents(q) \cap Matching(k) # {}
    PROVE  First(content[q], Matching(k), Position(q, k))
<1> DEFINE c == content[q]
           M == Matching(k)
           L == Len(c)
           B == { i \in 1 .. L : c[i] \in M }
<1>1. c \in Seq(Node) /\ L \in Nat
    OBVIOUS
<1>2. PICK i \in B : \A j \in B : i <= j
    <2>1. B \subseteq Nat /\ B # {}
        BY <1>1 DEF Contents
    <2> HIDE DEF B
    <2> QED
        BY <2>1, LeastNat
<1>3. i \in 1 .. L /\ c[i] \in M /\ \A j \in 1 .. i - 1 : c[j] \notin M
    <2> SUFFICES ASSUME NEW j \in 1 .. i - 1, c[j] \in M PROVE FALSE
        OBVIOUS
    <2>1. j \in 1 .. L /\ ~ (i <= j)
        BY <1>1
    <2> QED
        BY <1>2, <2>1
<1> HIDE DEF B, M
<1>4. /\ Position(q, k) \in 1 .. L
      /\ c[Position(q, k)] \in M
      /\ \A j \in 1 .. Position(q, k) - 1 : c[j] \notin M
    BY <1>3 DEF Position, M
<1> QED
    BY <1>4 DEF First, M

LEMMA InitQueueInv == Init => QueueInv
<1> SUFFICES ASSUME Init PROVE QueueInv
    OBVIOUS
<1>1. store \in Store(Node, Queue) /\ LinksAcyclic
    BY InitStoreInv DEF StoreInv
<1>2. content \in [Queue -> Seq(Node)] /\ \A q \in Queue : content[q] = <<>>
    BY DEF Init
<1>3. Places(content) = {}
    BY <1>2 DEF Places
<1>4. AsBelieved(store, content)
    <2>1. \A q \in Queue : Holds(store, q, content[q])
        <3> SUFFICES ASSUME NEW q \in Queue PROVE Holds(store, q, content[q])
            OBVIOUS
        <3>1. Len(content[q]) = 0 /\ store.head[q] = NULL
            BY <1>2 DEF Init, EmptyStore
        <3> QED
            BY <3>1 DEF Holds
    <2>2. Apart(content) /\ LooseClear(store, content)
        BY <1>3 DEF Apart, LooseClear, Init, EmptyStore
    <2> QED
        BY <1>1, <1>2, <2>1, <2>2 DEF AsBelieved
<1>5. TypeOK
    BY <1>1, <1>2 DEF TypeOK, Init
<1> QED
    BY <1>1, <1>4, <1>5 DEF QueueInv

LEMMA NextQueueInv == QueueInv /\ [Next]_vars => QueueInv'
<1> SUFFICES ASSUME QueueInv, [Next]_vars
             PROVE  QueueInv'
    OBVIOUS
<1>1. /\ store \in Store(Node, Queue)
      /\ content \in [Queue -> Seq(Node)]
      /\ kind \in {"pcb", "env"}
      /\ caller \in Callers
      /\ caller = "careful" => AsBelieved(store, content)
      /\ StoreInv
    BY DEF QueueInv, TypeOK, StoreInv
<1>2. StoreInv'
    BY <1>1, NextStoreInv
<1>3. CASE UNCHANGED vars
    BY <1>3 DEF vars, QueueInv, TypeOK, LinksAcyclic
<1>4. SUFFICES ASSUME Next, UNCHANGED <<kind, caller>>
               PROVE  /\ content' \in [Queue -> Seq(Node)]
                      /\ caller = "careful" => AsBelieved(store', content')
    <2>1. Next => UNCHANGED <<kind, caller>>
        BY DEF Next, Enqueue, Dequeue, Remove
    <2> QED
        BY <1>1, <1>2, <1>3, <1>4, <2>1 DEF QueueInv, TypeOK, StoreInv, LinksAcyclic
<1>5. CASE caller # "careful"
    <2>1. caller = "any"
        BY <1>1, <1>5, CallersAssumption
    <2>2. content' = content
        BY <1>4, <2>1 DEF Next, Enqueue, Dequeue, Remove, Believe
    <2> QED
        BY <1>1, <1>5, <2>2
<1>6. CASE caller = "careful"
    <2>1. AsBelieved(store, content) /\ caller # "any"
        BY <1>1, <1>6
    <2>2. SUFFICES AsBelieved(store', content')
        BY DEF AsBelieved
    <2>3. ASSUME NEW q \in Queue, NEW n \in Node, Enqueue(q, n)
          PROVE  AsBelieved(store', content')
        <3>1. \A x \in Places(content) : content[x[1]][x[2]] # n
            BY <2>3, LooseElsewhere DEF Enqueue
        <3>2. content' = [content EXCEPT ![q] = Append(content[q], n)]
            BY <2>1, <2>3 DEF Enqueue, Believe
        <3>3. store' = PCB_ENQ(store, q, n) \/ store' = env_ENQ(store, q, n)
            BY <2>3 DEF Enqueue
        <3>4. /\ AsBelieved(PCB_ENQ(store, q, n), [content EXCEPT ![q] = Append(content[q], n)])
              /\ AsBelieved(env_ENQ(store, q, n), [content EXCEPT ![q] = Append(content[q], n)])
            BY <2>1, <3>1, EnqueueHolds
        <3> QED
            BY <3>2, <3>3, <3>4
    <2>4. ASSUME NEW q \in Queue, Dequeue(q)
          PROVE  AsBelieved(store', content')
        <3>1. content[q] \in Seq(Node) /\ Len(content[q]) # 0
            <4>1. Holds(store, q, content[q])
                BY <2>1 DEF AsBelieved
            <4> QED
                BY <1>1, <2>4, <4>1 DEF Dequeue, Holds
        <3>2. Without(content[q], Tail(content[q]), 1)
            BY <3>1, TailWithout
        <3>3. content' = [content EXCEPT ![q] = Tail(content[q])]
            BY <2>1, <2>4 DEF Dequeue, Believe
        <3>4. store' = PCB_DEQ(store, q) \/ store' = env_DEQ(store, q)
            BY <2>4 DEF Dequeue
        <3> QED
            BY <2>1, <3>1, <3>2, <3>3, <3>4, DequeueHolds
    <2>5. ASSUME NEW q \in Queue, NEW k \in Node, Remove(q, k)
          PROVE  AsBelieved(store', content')
        <3> DEFINE c  == content[q]
                   at == Position(q, k)
                   d  == SubSeq(c, 1, at - 1) \o SubSeq(c, at + 1, Len(c))
        <3>1. /\ Contents(q) \cap Matching(k) # {}
              /\ at = 1 \/ at # Len(c)
              /\ content' = [content EXCEPT ![q] = d]
              /\ store' = IF kind = "pcb" THEN PCB_REMOVE(store, q, k)
                                          ELSE env_REMOVE(store, q, Matching(k))
            BY <1>6, <2>1, <2>5 DEF Remove, Believe
        <3>2. First(c, Matching(k), at)
            BY <1>1, <3>1, PositionFirst
        <3>3. c \in Seq(Node) /\ at \in 1 .. Len(c) /\ c[at] \in Matching(k)
            BY <1>1, <3>2 DEF First
        <3>4. Without(c, d, at)
            <4> HIDE DEF at
            <4> QED
                BY <3>3, CutWithout
        <3>5. c[at] \in On(store, q) \cap Matching(k)
              /\ FirstOn(store, q, Matching(k)) = c[at]
            <4> HIDE DEF at
            <4> QED
                BY <2>1, <3>2, FirstMatch
        <3> HIDE DEF at, d
        <3>6. store.head[q] = c[1] /\ Len(c) # 0 /\ 1 \in 1 .. Len(c)
            <4>1. Holds(store, q, c) /\ Len(c) # 0 /\ 1 \in 1 .. Len(c)
                BY <2>1, <3>3 DEF AsBelieved
            <4> QED
                BY <4>1 DEF Holds
        <3>7. c[at] = c[1] <=> at = 1
            <4>1. Apart(content)
                BY <2>1 DEF AsBelieved
            <4> QED
                BY <3>3, <3>6, <4>1, ApartAt
        <3>9. CASE at = 1
            <4>1. store' = PCB_DEQ(store, q) \/ store' = env_DEQ(store, q)
                <5>1. CASE kind = "pcb"
                    <6>1. c[at] = k
                        BY <3>3, <5>1 DEF Matching
                    <6> QED
                        BY <3>1, <3>6, <3>9, <5>1, <6>1 DEF PCB_REMOVE
                <5>2. CASE kind # "pcb"
                    BY <3>1, <3>5, <3>6, <3>9, <5>2 DEF env_REMOVE
                <5> QED
                    BY <5>1, <5>2
            <4> QED
                BY <2>1, <3>1, <3>4, <3>6, <3>9, <4>1, DequeueHolds
        <3>10. CASE at # 1
            <4>1. store' = Unlink(store, q, c[at])
                <5>1. CASE kind = "pcb"
                    <6>1. c[at] = k
                        BY <3>3, <5>1 DEF Matching
                    <6> QED
                        BY <3>1, <3>5, <3>6, <3>7, <3>10, <5>1, <6>1 DEF PCB_REMOVE
                <5>2. CASE kind # "pcb"
                    BY <3>1, <3>5, <3>6, <3>7, <3>10, <5>2 DEF env_REMOVE
                <5> QED
                    BY <5>1, <5>2
            <4>2. at # Len(c)
                BY <3>1, <3>10
            <4>3. AsBelieved(Unlink(store, q, c[at]), [content EXCEPT ![q] = d])
                BY <2>1, <3>3, <3>4, <3>10, <4>2, UnlinkHolds
            <4> QED
                BY <3>1, <4>1, <4>3
        <3> QED
            BY <3>9, <3>10
    <2> QED
        BY <1>4, <2>3, <2>4, <2>5 DEF Next
<1> QED
    BY <1>5, <1>6

LEMMA QueueInvariant == Spec => []QueueInv
BY InitQueueInv, NextQueueInv, PTL DEF Spec

(* After any calls of any caller the memory is a store and every belief a  *)
(* sequence of nodes.                                                      *)
THEOREM TypeCorrect == Spec => []TypeOK
<1>1. QueueInv => TypeOK
    BY DEF QueueInv
<1> QED
    BY <1>1, QueueInvariant, PTL

(* The queues of kernel.c are FIFO queues for callers that take no tail    *)
(* out of the middle: after any calls each queue is, node by node, the     *)
(* sequence its callers believe it is, and a node on no queue is ready to  *)
(* be put on one.                                                          *)
THEOREM QueuesAreBelieved == Spec => []Represents
<1>1. QueueInv => Represents
    <2> SUFFICES ASSUME QueueInv, caller = "careful"
                 PROVE  /\ \A q \in Queue : QueueIs(q)
                        /\ \A n \in Loose : store.p[n] = NULL
        BY DEF Represents
    <2>1. AsBelieved(store, content)
        BY DEF QueueInv
    <2>2. ASSUME NEW q \in Queue
          PROVE  QueueIs(q)
        <3>1. Holds(store, q, content[q])
            BY <2>1 DEF AsBelieved
        <3> QED
            BY <3>1 DEF Holds, QueueIs
    <2>3. ASSUME NEW n \in Loose
          PROVE  store.p[n] = NULL
        <3>1. n \in Node /\ \A x \in Places(content) : content[x[1]][x[2]] # n
            BY LooseElsewhere DEF Loose
        <3> QED
            BY <2>1, <3>1 DEF AsBelieved, LooseClear
    <2> QED
        BY <2>2, <2>3
<1> QED
    BY <1>1, QueueInvariant, PTL
==============================================================================
