--------------------------- MODULE LinkQueueProofs ---------------------------
(***************************************************************************)
(* What the queue operators of LinkQueue preserve, for every set of nodes  *)
(* and of queues: the type of a store, the absence of cycles, and the      *)
(* heads of the queues that a call does not name.                          *)
(***************************************************************************)
EXTENDS LinkQueue, Sequences, FiniteSetTheorems, WellFoundedInduction, TLAPS

(* A nonempty set of naturals has a least and, below a bound, a greatest   *)
(* element: the CHOOSEs over process and queue numbers are defined.        *)
LEMMA LeastNat ==
    ASSUME NEW T, T \subseteq Nat, T # {}
    PROVE  \E x \in T : \A y \in T : x <= y
<1> DEFINE R == { ss \in Nat \X Nat : ss[1] < ss[2] }
<1>1. IsWellFoundedOn(R, Nat)
    BY NatLessThanWellFounded DEF OpToRel
<1>2. PICK x \in T : \A y \in T : ~ (<<y, x>> \in R)
    BY <1>1, WFMin
<1>3. \A y \in T : ~ (y < x)
    BY <1>2
<1> QED
    BY <1>3

LEMMA GreatestNat ==
    ASSUME NEW b \in Nat, NEW T, T \subseteq 0 .. b, T # {}
    PROVE  \E x \in T : \A y \in T : y <= x
<1> DEFINE U == { b - y : y \in T }
<1>1. \A y \in T : y \in Nat /\ b - y \in Nat
    OBVIOUS
<1>2. U \subseteq Nat /\ U # {}
    BY <1>1
<1>3. PICK u \in U : \A v \in U : u <= v
    <2> HIDE DEF U
    <2> QED
        BY <1>2, LeastNat
<1>4. PICK x \in T : u = b - x
    OBVIOUS
<1>5. \A y \in T : b - x <= b - y
    BY <1>3, <1>4
<1> QED
    BY <1>1, <1>5

-----------------------------------------------------------------------------
(* From(p, h) is the least set that contains h and is closed under p.      *)
LEMMA FromStart ==
    ASSUME NEW p, NEW h \in DOMAIN p
    PROVE  h \in From(p, h)
BY DEF From

LEMMA FromStep ==
    ASSUME NEW p, NEW h \in DOMAIN p, NEW m \in From(p, h), p[m] \in DOMAIN p,
           p[m] # NULL
    PROVE  p[m] \in From(p, h)
<1>1. SUFFICES ASSUME NEW S \in SUBSET DOMAIN p, h \in S,
                      \A k \in S : p[k] \in S \cup {NULL}
               PROVE  p[m] \in S
    BY DEF From
<1>2. m \in S
    BY <1>1 DEF From
<1> QED
    BY <1>1, <1>2

LEMMA FromLeast ==
    ASSUME NEW p, NEW h, NEW S \in SUBSET DOMAIN p, h \in S,
           \A k \in S : p[k] \in S \cup {NULL}
    PROVE  From(p, h) \subseteq S
BY DEF From

(* A traversal that starts at h meets h, and what one that starts at p[h]  *)
(* meets.                                                                  *)
LEMMA FromUnfold ==
    ASSUME NEW Node, NULL \notin Node, NEW p \in [Node -> Node \cup {NULL}],
           NEW h \in Node
    PROVE  /\ p[h] = NULL => From(p, h) \subseteq {h}
           /\ p[h] # NULL => From(p, h) \subseteq {h} \cup From(p, p[h])
<1>1. ASSUME p[h] = NULL
      PROVE  From(p, h) \subseteq {h}
    <2>1. {h} \in SUBSET DOMAIN p /\ \A k \in {h} : p[k] \in {h} \cup {NULL}
        BY <1>1
    <2> QED
        BY <2>1, FromLeast
<1>2. ASSUME p[h] # NULL
      PROVE  From(p, h) \subseteq {h} \cup From(p, p[h])
    <2> DEFINE S == {h} \cup From(p, p[h])
    <2>1. p[h] \in Node /\ p[h] \in DOMAIN p
        BY <1>2
    <2>2. S \in SUBSET DOMAIN p
        BY DEF From
    <2>3. p[h] \in From(p, p[h])
        BY <2>1, FromStart
    <2>4. ASSUME NEW k \in From(p, p[h])
          PROVE  p[k] \in S \cup {NULL}
        <3>1. k \in DOMAIN p
            BY DEF From
        <3>2. p[k] = NULL \/ p[k] \in DOMAIN p
            BY <3>1
        <3> QED
            BY <2>1, <3>2, FromStep
    <2>5. \A k \in S : p[k] \in S \cup {NULL}
        BY <2>3, <2>4
    <2> HIDE DEF S
    <2>6. From(p, h) \subseteq S
        <3>1. h \in S
            BY DEF S
        <3> QED
            BY <2>2, <2>5, <3>1, FromLeast
    <2> QED
        BY <2>6 DEF S
<1> QED
    BY <1>1, <1>2

-----------------------------------------------------------------------------
(* The type of a store.  A queue that is not one of Queue changes nothing  *)
(* but links.                                                              *)
LEMMA EmptyStoreType ==
    ASSUME NEW Node, NEW Queue
    PROVE  EmptyStore(Node, Queue) \in Store(Node, Queue)
BY DEF EmptyStore, Store

LEMMA ENQType ==
    ASSUME NEW Node, NEW Queue, NEW s \in Store(Node, Queue), NEW q,
           NEW r \in Node, NULL \notin Node
    PROVE  /\ PCB_ENQ(s, q, r) \in Store(Node, Queue)
           /\ env_ENQ(s, q, r) \in Store(Node, Queue)
<1>1. PCB_ENQ(s, q, r) \in Store(Node, Queue)
    BY DEF PCB_ENQ, Store
<1> QED
    BY <1>1 DEF env_ENQ

LEMMA DEQType ==
    ASSUME NEW Node, NEW Queue, NEW s \in Store(Node, Queue), NEW q \in Queue,
           NULL \notin Node
    PROVE  /\ PCB_DEQ(s, q) \in Store(Node, Queue)
           /\ env_DEQ(s, q) \in Store(Node, Queue)
<1>1. CASE s.head[q] = NULL
    BY <1>1 DEF PCB_DEQ, env_DEQ
<1>2. CASE s.head[q] # NULL
    <2>1. s.head[q] \in Node /\ s.p[s.head[q]] \in Node \cup {NULL}
        BY <1>2 DEF Store
    <2> QED
        BY <1>2, <2>1 DEF PCB_DEQ, env_DEQ, Store
<1> QED
    BY <1>1, <1>2

LEMMA UnlinkType ==
    ASSUME NEW Node, NEW Queue, NEW s \in Store(Node, Queue), NEW q,
           NEW n \in Node
    PROVE  Unlink(s, q, n) \in Store(Node, Queue)
<1> DEFINE p1 == [ m \in DOMAIN s.p |->
                     IF m = n THEN NULL
                     ELSE IF m \in On(s, q) /\ s.p[m] = n THEN s.p[n]
                     ELSE s.p[m] ]
<1>1. s.p \in [Node -> Node \cup {NULL}]
    BY DEF Store
<1>2. p1 \in [Node -> Node \cup {NULL}]
    BY <1>1
<1>3. Unlink(s, q, n) = [s EXCEPT !.p = p1]
    BY DEF Unlink
<1> HIDE DEF p1
<1> QED
    BY <1>2, <1>3 DEF Store

LEMMA REMOVEType ==
    ASSUME NEW Node, NEW Queue, NEW s \in Store(Node, Queue), NEW q \in Queue,
           NEW id \in Node, NULL \notin Node
    PROVE  PCB_REMOVE(s, q, id) \in Store(Node, Queue)
BY DEQType, UnlinkType DEF PCB_REMOVE

-----------------------------------------------------------------------------
(* No operator closes a cycle.                                             *)
LEMMA EmptyStoreAcyclic ==
    ASSUME NEW Node, NEW Queue, NULL \notin Node
    PROVE  Acyclic(EmptyStore(Node, Queue).p)
BY DEF EmptyStore, Acyclic

(* Clearing the link of one node does not.                                 *)
LEMMA ClearAcyclic ==
    ASSUME NEW Node, NULL \notin Node, NEW p \in [Node -> Node \cup {NULL}],
           NEW n \in Node, Acyclic(p)
    PROVE  Acyclic([p EXCEPT ![n] = NULL])
<1> DEFINE p1 == [p EXCEPT ![n] = NULL]
<1>1. SUFFICES ASSUME NEW S \in SUBSET Node, S # {}
               PROVE  \E m \in S : p1[m] \notin S
    BY DEF Acyclic
<1>2. CASE n \in S
    BY <1>2
<1>3. CASE n \notin S
    <2>1. PICK m \in S : p[m] \notin S
        BY <1>1 DEF Acyclic
    <2> QED
        BY <1>3, <2>1
<1> QED
    BY <1>2, <1>3

(* The tail t, whatever node that is, is linked to r, and r to NULL.       *)
LEMMA ENQAcyclic ==
    ASSUME NEW Node, NEW Queue, NEW s \in Store(Node, Queue), NEW q,
           NEW r \in Node, NULL \notin Node, Acyclic(s.p)
    PROVE  Acyclic(PCB_ENQ(s, q, r).p) /\ Acyclic(env_ENQ(s, q, r).p)
<1> DEFINE t  == s.tail[q]
           p1 == [s.p EXCEPT ![t] = r, ![r] = NULL]
<1>1. s.p \in [Node -> Node \cup {NULL}]
    BY DEF Store
<1>2. Acyclic(p1)
    <2>1. SUFFICES ASSUME NEW S \in SUBSET Node, S # {}
                   PROVE  \E m \in S : p1[m] \notin S
        BY <1>1 DEF Acyclic
    <2>2. CASE r \in S
        BY <1>1, <2>2
    <2>3. CASE r \notin S
        <3>1. PICK m \in S : s.p[m] \notin S
            BY <1>1, <2>1 DEF Acyclic
        <3> QED
            BY <1>1, <2>3, <3>1
    <2> QED
        BY <2>2, <2>3
<1>3. PCB_ENQ(s, q, r).p = s.p \/ PCB_ENQ(s, q, r).p = p1
    BY DEF PCB_ENQ, Store
<1> QED
    BY <1>2, <1>3 DEF env_ENQ

LEMMA DEQAcyclic ==
    ASSUME NEW Node, NEW Queue, NEW s \in Store(Node, Queue), NEW q \in Queue,
           NULL \notin Node, Acyclic(s.p)
    PROVE  Acyclic(PCB_DEQ(s, q).p) /\ Acyclic(env_DEQ(s, q).p)
<1>1. CASE s.head[q] = NULL
    BY <1>1 DEF PCB_DEQ, env_DEQ
<1>2. CASE s.head[q] # NULL
    <2>1. s.p \in [Node -> Node \cup {NULL}] /\ s.head[q] \in Node
        BY <1>2 DEF Store
    <2>2. Acyclic([s.p EXCEPT ![s.head[q]] = NULL])
        BY <2>1, ClearAcyclic
    <2>3. /\ PCB_DEQ(s, q).p = [s.p EXCEPT ![s.head[q]] = NULL]
          /\ env_DEQ(s, q).p = [s.p EXCEPT ![s.head[q]] = NULL]
        BY <1>2 DEF PCB_DEQ, env_DEQ, Store
    <2> QED
        BY <2>2, <2>3
<1> QED
    BY <1>1, <1>2

(* Predecessors of n skip it: a set closed under the new links would, with *)
(* or without n, be closed under the old ones.                             *)
LEMMA UnlinkAcyclic ==
    ASSUME NEW Node, NEW Queue, NEW s \in Store(Node, Queue), NEW q,
           NEW n \in Node, NULL \notin Node, Acyclic(s.p)
    PROVE  Acyclic(Unlink(s, q, n).p)
<1> DEFINE p1 == [ m \in DOMAIN s.p |->
                     IF m = n THEN NULL
                     ELSE IF m \in On(s, q) /\ s.p[m] = n THEN s.p[n]
                     ELSE s.p[m] ]
<1>1. s.p \in [Node -> Node \cup {NULL}]
    BY DEF Store
<1>2. Unlink(s, q, n).p = p1
    BY DEF Unlink, Store
<1>3. SUFFICES ASSUME NEW S \in SUBSET Node, S # {}
               PROVE  \E m \in S : p1[m] \notin S
    BY <1>1, <1>2 DEF Acyclic
<1>4. CASE n \in S
    BY <1>1, <1>4
<1>5. CASE n \notin S
    <2> DEFINE Sn == S \cup {n}
    <2>1. PICK m \in Sn : s.p[m] \notin Sn
        <3>1. Sn \in SUBSET DOMAIN s.p /\ Sn # {}
            BY <1>1
        <3> HIDE DEF Sn
        <3> QED
            BY <3>1 DEF Acyclic
    <2>2. CASE m \in S
        BY <1>1, <1>5, <2>1, <2>2
    <2>3. CASE m = n
        <3>1. PICK k \in S : s.p[k] \notin S
            BY <1>1, <1>3 DEF Acyclic
        <3> QED
            BY <1>1, <1>5, <2>1, <2>3, <3>1
    <2> QED
        BY <2>1, <2>2, <2>3
<1> QED
    BY <1>4, <1>5

LEMMA REMOVEAcyclic ==
    ASSUME NEW Node, NEW Queue, NEW s \in Store(Node, Queue), NEW q \in Queue,
           NEW id \in Node, NULL \notin Node, Acyclic(s.p)
    PROVE  Acyclic(PCB_REMOVE(s, q, id).p)
BY DEQAcyclic, UnlinkAcyclic DEF PCB_REMOVE

-----------------------------------------------------------------------------
(* Where a traversal finds a matching node, it finds a first one: the      *)
(* nodes from which all the matches can still be reached would otherwise   *)
(* be a cycle.                                                             *)
LEMMA FirstOnExists ==
    ASSUME NEW Node, NEW Queue, NEW s \in Store(Node, Queue), NEW q \in Queue,
           NULL \notin Node, Acyclic(s.p), NEW match,
           On(s, q) \cap match # {}
    PROVE  FirstOn(s, q, match) \in On(s, q) \cap match
<1> DEFINE T == On(s, q) \cap match
           h == s.head[q]
           G == { m \in On(s, q) : T \subseteq From(s.p, m) }
<1>1. s.p \in [Node -> Node \cup {NULL}] /\ DOMAIN s.p = Node
    BY DEF Store
<1>2. h \in Node /\ On(s, q) = From(s.p, h)
    BY DEF On, Store
<1>3. h \in G /\ G \in SUBSET Node
    BY <1>1, <1>2, FromStart DEF From
<1>4. SUFFICES ASSUME \A m \in T : ~ (T \subseteq From(s.p, m))
               PROVE  FALSE
    BY DEF FirstOn
<1>5. ASSUME NEW m \in G
      PROVE  s.p[m] \in G
    <2>1. m \notin T /\ m \in Node /\ T \subseteq From(s.p, m) /\ m \in From(s.p, h)
        BY <1>2, <1>3, <1>4
    <2>2. s.p[m] # NULL
        BY <1>1, <2>1, FromUnfold
    <2>3. T \subseteq From(s.p, s.p[m])
        BY <1>1, <2>1, <2>2, FromUnfold
    <2>4. s.p[m] \in From(s.p, h)
        BY <1>1, <1>2, <2>1, <2>2, FromStep
    <2> QED
        BY <1>2, <2>3, <2>4
<1> HIDE DEF G
<1> QED
    BY <1>1, <1>3, <1>5 DEF Acyclic

(* env_REMOVE keeps the type of the store and closes no cycle.             *)
LEMMA envREMOVE ==
    ASSUME NEW Node, NEW Queue, NEW s \in Store(Node, Queue), NEW q \in Queue,
           NULL \notin Node, Acyclic(s.p), NEW match
    PROVE  /\ env_REMOVE(s, q, match) \in Store(Node, Queue)
           /\ Acyclic(env_REMOVE(s, q, match).p)
<1>1. CASE On(s, q) \cap match = {}
    BY <1>1 DEF env_REMOVE
<1>2. CASE On(s, q) \cap match # {}
    <2> DEFINE e == FirstOn(s, q, match)
    <2>1. e \in Node
        <3>1. On(s, q) \subseteq Node
            BY DEF On, From, Store
        <3> QED
            BY <1>2, <3>1, FirstOnExists
    <2> HIDE DEF e
    <2>2. env_REMOVE(s, q, match) = IF e = s.head[q] THEN env_DEQ(s, q)
                                    ELSE Unlink(s, q, e)
        BY <1>2 DEF env_REMOVE, e
    <2> QED
        BY <2>1, <2>2, DEQType, DEQAcyclic, UnlinkType, UnlinkAcyclic
<1> QED
    BY <1>1, <1>2

-----------------------------------------------------------------------------
(* A call changes the head of the queue it names only, and an enqueue only *)
(* the head of an empty queue.                                             *)
LEMMA ENQHeads ==
    ASSUME NEW Node, NEW Queue, NEW s \in Store(Node, Queue), NEW q,
           NEW r \in Node, NULL \notin Node, NEW k \in Queue, k # q
    PROVE  /\ PCB_ENQ(s, q, r).head[k] = s.head[k]
           /\ env_ENQ(s, q, r).head[k] = s.head[k]
BY DEF PCB_ENQ, env_ENQ, Store

LEMMA DEQHeads ==
    ASSUME NEW Node, NEW Queue, NEW s \in Store(Node, Queue), NEW q \in Queue,
           NULL \notin Node, NEW k \in Queue, k # q \/ s.head[k] = NULL
    PROVE  /\ PCB_DEQ(s, q).head[k] = s.head[k]
           /\ env_DEQ(s, q).head[k] = s.head[k]
BY DEF PCB_DEQ, env_DEQ, Store
-----------------------------------------------------------------------------
(* Traversals as sets.                                                     *)
LEMMA FromDomain ==
    ASSUME NEW p, NEW h
    PROVE  From(p, h) \subseteq DOMAIN p
BY DEF From

LEMMA FromTrans ==
    ASSUME NEW Node, NULL \notin Node, NEW p \in [Node -> Node \cup {NULL}],
           NEW h \in Node, NEW m \in From(p, h)
    PROVE  From(p, m) \subseteq From(p, h)
<1>1. From(p, h) \in SUBSET DOMAIN p
    BY FromDomain
<1>2. ASSUME NEW k \in From(p, h)
      PROVE  p[k] \in From(p, h) \cup {NULL}
    <2>1. p[k] = NULL \/ p[k] \in DOMAIN p
        BY <1>1
    <2> QED
        BY <2>1, FromStep
<1> QED
    BY <1>1, <1>2, FromLeast

LEMMA FromEqual ==
    ASSUME NEW Node, NULL \notin Node, NEW p \in [Node -> Node \cup {NULL}],
           NEW h \in Node
    PROVE  /\ p[h] = NULL => From(p, h) = {h}
           /\ p[h] # NULL => From(p, h) = {h} \cup From(p, p[h])
<1>1. h \in From(p, h)
    BY FromStart
<1>2. ASSUME p[h] # NULL
      PROVE  From(p, p[h]) \subseteq From(p, h)
    <2>1. p[h] \in From(p, h)
        BY <1>1, <1>2, FromStep
    <2> QED
        BY <2>1, FromTrans
<1> QED
    BY <1>1, <1>2, FromUnfold

(* A traversal depends on the links of the nodes it meets only.            *)
LEMMA FromAgree ==
    ASSUME NEW Node, NULL \notin Node, NEW p \in [Node -> Node \cup {NULL}],
           NEW p1 \in [Node -> Node \cup {NULL}], NEW h \in Node,
           \A m \in From(p, h) : p1[m] = p[m]
    PROVE  From(p1, h) = From(p, h)
<1>1. From(p, h) \in SUBSET Node /\ From(p1, h) \in SUBSET Node
    BY FromDomain
<1>2. From(p1, h) \subseteq From(p, h)
    <2>1. ASSUME NEW k \in From(p, h)
          PROVE  p1[k] \in From(p, h) \cup {NULL}
        <3>1. p[k] = NULL \/ p[k] \in DOMAIN p
            BY <1>1
        <3> QED
            BY <3>1, FromStep
    <2> QED
        BY <1>1, <2>1, FromLeast, FromStart
<1>3. From(p, h) \subseteq From(p1, h)
    <2> DEFINE T == From(p, h) \cap From(p1, h)
    <2>1. ASSUME NEW k \in T
          PROVE  p[k] \in T \cup {NULL}
        <3>1. p[k] = NULL \/ p[k] \in Node
            BY <1>1
        <3>2. p1[k] = p[k]
            OBVIOUS
        <3> QED
            BY <3>1, <3>2, FromStep
    <2>2. T \in SUBSET DOMAIN p /\ h \in T
        BY <1>1, FromStart
    <2> HIDE DEF T
    <2>3. From(p, h) \subseteq T
        BY <2>1, <2>2, FromLeast
    <2> QED
        BY <2>3 DEF T
<1> QED
    BY <1>2, <1>3

(* Without cycles no traversal comes back to a node it has left.           *)
LEMMA NoReturn ==
    ASSUME NEW Node, NULL \notin Node, NEW p \in [Node -> Node \cup {NULL}],
           Acyclic(p), NEW h \in Node, p[h] # NULL
    PROVE  h \notin From(p, p[h])
<1> DEFINE n == p[h]
           G == { m \in From(p, n) : h \in From(p, m) }
<1>1. SUFFICES ASSUME h \in From(p, n)
               PROVE  FALSE
    OBVIOUS
<1>2. n \in Node /\ n \in From(p, n) /\ h \in From(p, h) /\ From(p, n) \subseteq Node
    BY FromStart, FromDomain
<1>3. h \in G /\ G \in SUBSET DOMAIN p
    BY <1>1, <1>2
<1>4. ASSUME NEW m \in G
      PROVE  p[m] \in G
    <2>1. CASE m = h
        BY <1>1, <1>2, <2>1
    <2>2. CASE m # h
        <3>1. p[m] # NULL /\ h \in From(p, p[m])
            BY <1>2, <2>2, FromEqual
        <3>2. p[m] \in From(p, n)
            BY <1>2, <3>1, FromStep
        <3> QED
            BY <3>1, <3>2
    <2> QED
        BY <2>1, <2>2
<1> HIDE DEF G
<1> QED
    BY <1>3, <1>4 DEF Acyclic

-----------------------------------------------------------------------------
(* A store whose queues are in order: no cycle, no node on two queues,     *)
(* each tail the last node of its queue, and no link in a loose node.      *)
OnNone(s, Queue, n) == \A q \in Queue : n \notin On(s, q)

WellFormed(s, Node, Queue) ==
    /\ s \in Store(Node, Queue)
    /\ Acyclic(s.p)
    /\ \A q, k \in Queue : q # k => On(s, q) \cap On(s, k) = {}
    /\ \A q \in Queue : s.head[q] # NULL => /\ s.tail[q] \in On(s, q)
                                            /\ s.p[s.tail[q]] = NULL
    /\ \A n \in Node : OnNone(s, Queue, n) => s.p[n] = NULL

(* The same with exceptions: the nodes of Gone, which nothing refers to,   *)
(* may have kept a link, and a queue may have lost its tail.               *)
Ordered(s, Node, Queue, Gone) ==
    /\ s \in Store(Node, Queue)
    /\ Acyclic(s.p)
    /\ \A q, k \in Queue : q # k => On(s, q) \cap On(s, k) = {}
    /\ \A q \in Queue : s.head[q] # NULL /\ s.tail[q] # NULL
                        => s.tail[q] \in On(s, q) /\ s.p[s.tail[q]] = NULL
    /\ \A n \in Node \ Gone : OnNone(s, Queue, n) => s.p[n] = NULL

HasTail(s, q) == s.head[q] # NULL => s.tail[q] # NULL

LEMMA OnFacts ==
    ASSUME NEW Node, NEW Queue, NEW s \in Store(Node, Queue), NULL \notin Node,
           NEW q \in Queue
    PROVE  /\ On(s, q) \subseteq Node
           /\ s.head[q] = NULL <=> On(s, q) = {}
           /\ s.head[q] # NULL => s.head[q] \in Node /\ s.head[q] \in On(s, q)
                                  /\ On(s, q) = From(s.p, s.head[q])
           /\ \A n \in On(s, q) : s.p[n] # NULL => s.p[n] \in On(s, q)
<1>1. s.p \in [Node -> Node \cup {NULL}] /\ s.head[q] \in Node \cup {NULL}
    BY DEF Store
<1>2. On(s, q) \subseteq Node
    BY <1>1, FromDomain DEF On
<1>3. s.head[q] # NULL => s.head[q] \in Node /\ s.head[q] \in On(s, q)
                          /\ On(s, q) = From(s.p, s.head[q])
    BY <1>1, FromStart DEF On
<1>4. ASSUME NEW n \in On(s, q), s.p[n] # NULL
      PROVE  s.p[n] \in On(s, q)
    <2>1. s.head[q] # NULL
        BY <1>4 DEF On
    <2>2. s.p[n] \in Node
        BY <1>1, <1>2, <1>4
    <2> QED
        BY <1>1, <1>3, <1>4, <2>1, <2>2, FromStep
<1> QED
    BY <1>2, <1>3, <1>4 DEF On

LEMMA WellFormedOrdered ==
    ASSUME NEW Node, NEW Queue, NULL \notin Node, NEW s
    PROVE  WellFormed(s, Node, Queue)
           <=> Ordered(s, Node, Queue, {}) /\ \A q \in Queue : HasTail(s, q)
<1>1. ASSUME WellFormed(s, Node, Queue)
      PROVE  Ordered(s, Node, Queue, {}) /\ \A q \in Queue : HasTail(s, q)
    <2>1. \A q \in Queue : On(s, q) \subseteq Node
        BY <1>1, OnFacts DEF WellFormed
    <2>2. \A q \in Queue : HasTail(s, q)
        BY <1>1, <2>1 DEF WellFormed, HasTail
    <2>3. Ordered(s, Node, Queue, {})
        BY <1>1 DEF WellFormed, Ordered
    <2> QED
        BY <2>2, <2>3
<1>2. ASSUME Ordered(s, Node, Queue, {}), \A q \in Queue : HasTail(s, q)
      PROVE  WellFormed(s, Node, Queue)
    BY <1>2 DEF WellFormed, Ordered, HasTail
<1> QED
    BY <1>1, <1>2

LEMMA EmptyWellFormed ==
    ASSUME NEW Node, NEW Queue, NULL \notin Node
    PROVE  /\ WellFormed(EmptyStore(Node, Queue), Node, Queue)
           /\ \A q \in Queue : On(EmptyStore(Node, Queue), q) = {}
<1> DEFINE s == EmptyStore(Node, Queue)
<1>1. s \in Store(Node, Queue) /\ Acyclic(s.p)
    BY EmptyStoreType, EmptyStoreAcyclic
<1>2. \A q \in Queue : s.head[q] = NULL /\ On(s, q) = {}
    BY DEF EmptyStore, On
<1>3. \A n \in Node : s.p[n] = NULL
    BY DEF EmptyStore
<1>4. WellFormed(s, Node, Queue)
    BY <1>1, <1>2, <1>3 DEF WellFormed
<1> QED
    BY <1>2, <1>4

-----------------------------------------------------------------------------
(* Of two nodes of one traversal one is reached from the other.            *)
LEMMA FromLinear ==
    ASSUME NEW Node, NULL \notin Node, NEW p \in [Node -> Node \cup {NULL}],
           NEW h \in Node, NEW m \in From(p, h), NEW n \in From(p, h)
    PROVE  m \in From(p, n) \/ n \in From(p, m)
<1> DEFINE S == { k \in From(p, h) : m \in From(p, k) \/ k \in From(p, m) }
<1>1. From(p, h) \in SUBSET Node /\ m \in Node
    BY FromDomain
<1>2. h \in S
    BY FromStart
<1>3. ASSUME NEW k \in S
      PROVE  p[k] \in S \cup {NULL}
    <2>1. k \in Node /\ k \in From(p, h)
        BY <1>1
    <2>2. SUFFICES ASSUME p[k] # NULL
                   PROVE  p[k] \in S
        OBVIOUS
    <2>3. p[k] \in Node /\ p[k] \in From(p, h)
        BY <2>1, <2>2, FromStep
    <2>4. CASE k \in From(p, m)
        BY <1>1, <2>1, <2>2, <2>3, <2>4, FromStep
    <2>5. CASE k \notin From(p, m)
        <3>1. m \in From(p, k) /\ m # k
            BY <1>1, <2>5, FromStart
        <3>2. m \in From(p, p[k])
            BY <2>1, <2>2, <3>1, FromEqual
        <3> QED
            BY <2>3, <3>2
    <2> QED
        BY <2>4, <2>5
<1>4. S \in SUBSET DOMAIN p
    BY <1>1
<1> HIDE DEF S
<1>5. n \in S
    BY <1>2, <1>3, <1>4, FromLeast
<1> QED
    BY <1>5 DEF S

(* The last node of a traversal is reached from each of its nodes.         *)
LEMMA FromLast ==
    ASSUME NEW Node, NULL \notin Node, NEW p \in [Node -> Node \cup {NULL}],
           NEW h \in Node, NEW t \in From(p, h), p[t] = NULL,
           NEW n \in From(p, h)
    PROVE  t \in From(p, n)
<1>1. t \in Node /\ n \in Node
    BY FromDomain
<1>2. From(p, t) = {t}
    BY <1>1, FromEqual
<1> QED
    BY <1>1, <1>2, FromLinear, FromStart

(* Linking a loose node r behind the last node t of a traversal adds r to  *)
(* it.                                                                     *)
LEMMA FromLink ==
    ASSUME NEW Node, NULL \notin Node, NEW p \in [Node -> Node \cup {NULL}],
           NEW h \in Node, NEW t \in From(p, h), p[t] = NULL,
           NEW r \in Node, r \notin From(p, h)
    PROVE  From([p EXCEPT ![t] = r, ![r] = NULL], h) = From(p, h) \cup {r}
<1> DEFINE p1 == [p EXCEPT ![t] = r, ![r] = NULL]
           F  == From(p, h)
<1>1. F \in SUBSET Node /\ t \in F /\ r \notin F /\ h \in F
    BY FromDomain, FromStart
<1>2. /\ p1 \in [Node -> Node \cup {NULL}]
      /\ p1[t] = r /\ p1[r] = NULL
      /\ \A k \in F : k # t => p1[k] = p[k]
    BY <1>1
<1>3. ASSUME NEW k \in F
      PROVE  p[k] \in F \cup {NULL}
    <2>1. p[k] = NULL \/ p[k] \in DOMAIN p
        BY <1>1
    <2> QED
        BY <2>1, FromStep
<1> HIDE DEF p1
<1>4. From(p1, h) \subseteq F \cup {r}
    <2>1. \A k \in F \cup {r} : p1[k] \in (F \cup {r}) \cup {NULL}
        BY <1>1, <1>2, <1>3
    <2>2. F \cup {r} \in SUBSET DOMAIN p1 /\ h \in F \cup {r}
        BY <1>1, <1>2
    <2> HIDE DEF F
    <2> QED
        BY <2>1, <2>2, FromLeast
<1>5. F \subseteq From(p1, h)
    <2> DEFINE T == F \cap From(p1, h)
    <2>1. ASSUME NEW k \in T
          PROVE  p[k] \in T \cup {NULL}
        <3>1. CASE p[k] = NULL
            BY <3>1
        <3>2. CASE p[k] # NULL
            <4>1. p1[k] = p[k] /\ p[k] \in F /\ p1[k] \in DOMAIN p1 /\ p1[k] # NULL
                BY <1>1, <1>2, <1>3, <3>2
            <4>2. p1[k] \in From(p1, h)
                BY <1>2, <4>1, FromStep
            <4> QED
                BY <4>1, <4>2
        <3> QED
            BY <3>1, <3>2
    <2>2. T \in SUBSET DOMAIN p /\ h \in T
        BY <1>1, <1>2, FromStart
    <2> HIDE DEF T
    <2>3. From(p, h) \subseteq T
        BY <2>1, <2>2, FromLeast
    <2> QED
        BY <2>3 DEF T
<1>6. r \in From(p1, h)
    <2>1. t \in From(p1, h) /\ p1[t] \in DOMAIN p1 /\ p1[t] # NULL
        BY <1>1, <1>2, <1>5
    <2>2. p1[t] \in From(p1, h)
        BY <1>2, <2>1, FromStep
    <2> QED
        BY <1>2, <2>2
<1> QED
    BY <1>4, <1>5, <1>6 DEF p1

-----------------------------------------------------------------------------
(* What a call does to a store in order: PCB_ENQ and env_ENQ add a loose   *)
(* node to the queue named, PCB_DEQ and env_DEQ take its head off, and     *)
(* neither touches another queue.                                          *)
Dequeued(s, q, s1) == s1 = PCB_DEQ(s, q) \/ s1 = env_DEQ(s, q)

Adds(s, q, r, s1, Queue) ==
    /\ On(s1, q) = On(s, q) \cup {r}
    /\ \A k \in Queue : k # q => On(s1, k) = On(s, k)

Takes(s, q, s1, Queue) ==
    /\ On(s1, q) = On(s, q) \ {s.head[q]}
    /\ s.head[q] \in On(s, q)
    /\ s1.head[q] = s.p[s.head[q]]
    /\ s1.p = [s.p EXCEPT ![s.head[q]] = NULL]
    /\ \A k \in Queue : k # q => On(s1, k) = On(s, k)

LEMMA ENQOrdered ==
    ASSUME NEW Node, NEW Queue, NULL \notin Node, NEW s,
           NEW Gone, Ordered(s, Node, Queue, Gone), NEW q \in Queue,
           NEW r \in Node \ Gone, OnNone(s, Queue, r), HasTail(s, q)
    PROVE  /\ Ordered(PCB_ENQ(s, q, r), Node, Queue, Gone)
           /\ Adds(s, q, r, PCB_ENQ(s, q, r), Queue)
           /\ \A k \in Queue : HasTail(s, k) => HasTail(PCB_ENQ(s, q, r), k)
<1> DEFINE s1 == PCB_ENQ(s, q, r)
           t  == s.tail[q]
           h  == s.head[q]
<1>1. /\ s \in Store(Node, Queue) /\ Acyclic(s.p)
      /\ s.p \in [Node -> Node \cup {NULL}]
      /\ s.p[r] = NULL
    BY DEF Ordered, Store
<1>2. s1 \in Store(Node, Queue) /\ Acyclic(s1.p)
    BY <1>1, ENQType, ENQAcyclic
<1>3. \A k \in Queue : k # q => s1.head[k] = s.head[k] /\ s1.tail[k] = s.tail[k]
    BY <1>1 DEF PCB_ENQ, Store
<1>4. s1.head[q] \in Node /\ s1.tail[q] = r
    BY <1>1, <1>2 DEF PCB_ENQ, Store
<1>5. \A k \in Queue : HasTail(s, k) => HasTail(s1, k)
    <2> HIDE DEF s1
    <2> QED
        BY <1>3, <1>4 DEF HasTail
<1>6. CASE h = NULL
    <2>1. s1.p = s.p /\ s1.head[q] = r /\ s1.tail[q] = r
        BY <1>1, <1>6 DEF PCB_ENQ, Store
    <2>2. On(s, q) = {} /\ On(s1, q) = {r}
        BY <1>1, <1>6, <2>1, FromEqual DEF On
    <2>3. \A k \in Queue : k # q => On(s1, k) = On(s, k)
        BY <1>3, <2>1 DEF On
    <2> HIDE DEF s1
    <2>4. Ordered(s1, Node, Queue, Gone)
        BY <1>1, <1>2, <1>3, <2>1, <2>2, <2>3 DEF Ordered, OnNone
    <2> QED
        BY <1>5, <2>2, <2>3, <2>4 DEF s1, Adds
<1>7. CASE h # NULL
    <2> DEFINE p1 == [s.p EXCEPT ![t] = r, ![r] = NULL]
    <2>1. /\ h \in Node /\ On(s, q) = From(s.p, h)
          /\ t \in From(s.p, h) /\ t \in Node /\ s.p[t] = NULL
          /\ r \notin From(s.p, h) /\ t # r
        BY <1>1, <1>7, OnFacts DEF Ordered, OnNone, HasTail
    <2>2. s1.p = p1 /\ s1.head[q] = h /\ s1.tail[q] = r
        BY <1>1, <1>7 DEF PCB_ENQ, Store
    <2>3. On(s1, q) = On(s, q) \cup {r}
        BY <1>1, <1>7, <2>1, <2>2, FromLink DEF On
    <2>4. /\ p1 \in [Node -> Node \cup {NULL}]
          /\ p1[r] = NULL
          /\ \A m \in Node : m # t /\ m # r => p1[m] = s.p[m]
        BY <1>1, <2>1
    <2> HIDE DEF p1, s1
    <2>5. ASSUME NEW k \in Queue, k # q
          PROVE  On(s1, k) = On(s, k)
        <3>1. CASE s.head[k] = NULL
            BY <1>3, <2>5, <3>1 DEF On
        <3>2. CASE s.head[k] # NULL
            <4>1. /\ s.head[k] \in Node /\ On(s, k) = From(s.p, s.head[k])
                  /\ On(s, k) \subseteq Node
                BY <1>1, <3>2, OnFacts
            <4>2. t \notin On(s, k) /\ r \notin On(s, k)
                BY <2>1, <2>5 DEF Ordered, OnNone
            <4>3. \A m \in From(s.p, s.head[k]) : p1[m] = s.p[m]
                BY <2>4, <4>1, <4>2
            <4>4. From(p1, s.head[k]) = From(s.p, s.head[k])
                BY <1>1, <2>4, <4>1, <4>3, FromAgree
            <4> QED
                BY <1>3, <2>2, <2>5, <3>2, <4>1, <4>4 DEF On
        <3> QED
            BY <3>1, <3>2
    <2>6. \A n \in Node \ Gone : OnNone(s1, Queue, n) => p1[n] = NULL
        <3>1. SUFFICES ASSUME NEW n \in Node \ Gone, OnNone(s1, Queue, n), n # r
                       PROVE  p1[n] = NULL
            BY <2>4
        <3>2. OnNone(s, Queue, n)
            BY <2>3, <2>5, <3>1 DEF OnNone
        <3>3. n # t
            BY <2>1, <3>2 DEF OnNone
        <3> QED
            BY <2>4, <3>1, <3>2, <3>3 DEF Ordered
    <2>7. \A k, j \in Queue : k # j => On(s1, k) \cap On(s1, j) = {}
        BY <2>3, <2>5 DEF Ordered, OnNone
    <2>8. \A k \in Queue : s1.head[k] # NULL /\ s1.tail[k] # NULL
                          => s1.tail[k] \in On(s1, k) /\ s1.p[s1.tail[k]] = NULL
        <3>1. SUFFICES ASSUME NEW k \in Queue, k # q, s.head[k] # NULL, s.tail[k] # NULL
                       PROVE  /\ s.tail[k] \in On(s, k)
                              /\ p1[s.tail[k]] = NULL
            BY <1>3, <2>2, <2>3, <2>4, <2>5
        <3>2. s.tail[k] \in On(s, k) /\ s.p[s.tail[k]] = NULL
            BY <3>1 DEF Ordered
        <3>3. s.tail[k] # t /\ s.tail[k] # r /\ s.tail[k] \in Node
            BY <1>1, <2>1, <3>1, <3>2, OnFacts DEF Ordered, OnNone
        <3> QED
            BY <2>4, <3>2, <3>3
    <2>9. Ordered(s1, Node, Queue, Gone)
        BY <1>2, <2>2, <2>6, <2>7, <2>8 DEF Ordered
    <2> QED
        BY <1>5, <2>3, <2>5, <2>9 DEF s1, Adds
<1> QED
    BY <1>6, <1>7

LEMMA ENQWellFormed ==
    ASSUME NEW Node, NEW Queue, NULL \notin Node, NEW s,
           WellFormed(s, Node, Queue), NEW q \in Queue, NEW r \in Node,
           OnNone(s, Queue, r)
    PROVE  /\ WellFormed(PCB_ENQ(s, q, r), Node, Queue)
           /\ Adds(s, q, r, PCB_ENQ(s, q, r), Queue)
<1>1. Ordered(s, Node, Queue, {}) /\ \A k \in Queue : HasTail(s, k)
    BY WellFormedOrdered
<1>2. r \in Node \ {}
    OBVIOUS
<1>3. /\ Ordered(PCB_ENQ(s, q, r), Node, Queue, {})
      /\ Adds(s, q, r, PCB_ENQ(s, q, r), Queue)
      /\ \A k \in Queue : HasTail(PCB_ENQ(s, q, r), k)
    BY <1>1, <1>2, ENQOrdered
<1> QED
    BY <1>3, WellFormedOrdered

(* PCB_DEQ and env_DEQ compute the tail in different ways; in a store in   *)
(* order both are the last node of what is left.                           *)
LEMMA DEQOrdered ==
    ASSUME NEW Node, NEW Queue, NULL \notin Node, NEW s,
           NEW Gone, Ordered(s, Node, Queue, Gone), NEW q \in Queue,
           s.head[q] # NULL, NEW s1, Dequeued(s, q, s1)
    PROVE  /\ Ordered(s1, Node, Queue, Gone)
           /\ Takes(s, q, s1, Queue)
           /\ \A k \in Queue : HasTail(s, k) => HasTail(s1, k)
<1> DEFINE h    == s.head[q]
           next == s.p[h]
           p1   == [s.p EXCEPT ![h] = NULL]
<1>1. /\ s \in Store(Node, Queue) /\ Acyclic(s.p)
      /\ s.p \in [Node -> Node \cup {NULL}]
    BY DEF Ordered, Store
<1>2. /\ h \in Node /\ h \in On(s, q) /\ On(s, q) = From(s.p, h)
      /\ On(s, q) \subseteq Node
      /\ next \in Node \cup {NULL}
    BY <1>1, OnFacts
<1>3. /\ s1 \in Store(Node, Queue) /\ Acyclic(s1.p)
    BY <1>1, DEQType, DEQAcyclic DEF Dequeued
<1>4. /\ s1.p = p1 /\ s1.head[q] = next
      /\ \A k \in Queue : k # q => s1.head[k] = s.head[k] /\ s1.tail[k] = s.tail[k]
    <2>1. CASE s1 = PCB_DEQ(s, q)
        BY <1>1, <1>2, <2>1 DEF PCB_DEQ, Store
    <2>2. CASE s1 = env_DEQ(s, q)
        BY <1>1, <1>2, <2>2 DEF env_DEQ, Store
    <2> QED
        BY <2>1, <2>2 DEF Dequeued
<1>5. next # NULL => \/ s1.tail[q] = s.tail[q]
                     \/ s1.tail[q] = next /\ s.p[next] = NULL
    <2>1. CASE s1 = PCB_DEQ(s, q)
        BY <1>1, <1>2, <2>1 DEF PCB_DEQ, Store
    <2>2. CASE s1 = env_DEQ(s, q)
        BY <1>1, <1>2, <2>2 DEF env_DEQ, Store
    <2> QED
        BY <2>1, <2>2 DEF Dequeued
<1>6. /\ p1 \in [Node -> Node \cup {NULL}] /\ p1[h] = NULL
      /\ \A m \in Node : m # h => p1[m] = s.p[m]
    BY <1>1, <1>2
<1> HIDE DEF p1
<1>7. On(s1, q) = On(s, q) \ {h}
    <2>1. CASE next = NULL
        BY <1>1, <1>2, <1>4, <2>1, FromEqual DEF On
    <2>2. CASE next # NULL
        <3>1. h \notin From(s.p, next) /\ From(s.p, next) \subseteq Node
            BY <1>1, <1>2, <2>2, NoReturn, FromDomain
        <3>2. \A m \in From(s.p, next) : p1[m] = s.p[m]
            BY <1>6, <3>1
        <3>3. From(p1, next) = From(s.p, next)
            BY <1>1, <1>2, <1>6, <2>2, <3>2, FromAgree
        <3>4. From(s.p, h) = {h} \cup From(s.p, next)
            BY <1>1, <1>2, <2>2, FromEqual
        <3>5. On(s1, q) = From(p1, next)
            BY <1>4, <2>2 DEF On
        <3> QED
            BY <1>2, <3>1, <3>3, <3>4, <3>5
    <2> QED
        BY <2>1, <2>2
<1>8. ASSUME NEW k \in Queue, k # q
      PROVE  On(s1, k) = On(s, k)
    <2>1. CASE s.head[k] = NULL
        BY <1>4, <1>8, <2>1 DEF On
    <2>2. CASE s.head[k] # NULL
        <3>1. /\ s.head[k] \in Node /\ On(s, k) = From(s.p, s.head[k])
              /\ On(s, k) \subseteq Node
            BY <1>1, <2>2, OnFacts
        <3>2. h \notin On(s, k)
            BY <1>2, <1>8 DEF Ordered
        <3>3. \A m \in From(s.p, s.head[k]) : p1[m] = s.p[m]
            BY <1>6, <3>1, <3>2
        <3>4. From(p1, s.head[k]) = From(s.p, s.head[k])
            BY <1>1, <1>6, <3>1, <3>3, FromAgree
        <3> QED
            BY <1>4, <1>8, <2>2, <3>1, <3>4 DEF On
    <2> QED
        BY <2>1, <2>2
<1>9. \A n \in Node \ Gone : OnNone(s1, Queue, n) => p1[n] = NULL
    <2>1. SUFFICES ASSUME NEW n \in Node \ Gone, OnNone(s1, Queue, n), n # h
                   PROVE  p1[n] = NULL
        BY <1>6
    <2>2. OnNone(s, Queue, n)
        BY <1>7, <1>8, <2>1 DEF OnNone
    <2> QED
        BY <1>6, <2>1, <2>2 DEF Ordered
<1>10. \A k \in Queue : s1.head[k] # NULL /\ s1.tail[k] # NULL
                        => s1.tail[k] \in On(s1, k) /\ p1[s1.tail[k]] = NULL
    <2>1. ASSUME NEW k \in Queue, k # q, s1.head[k] # NULL, s1.tail[k] # NULL
          PROVE  s1.tail[k] \in On(s1, k) /\ p1[s1.tail[k]] = NULL
        <3>1. /\ s1.tail[k] = s.tail[k] /\ s.tail[k] \in On(s, k)
              /\ s.p[s.tail[k]] = NULL
            BY <1>4, <2>1 DEF Ordered
        <3>2. s.tail[k] \in Node /\ s.tail[k] # h
            BY <1>1, <1>2, <2>1, <3>1, OnFacts DEF Ordered
        <3> QED
            BY <1>6, <1>8, <2>1, <3>1, <3>2
    <2>2. ASSUME next # NULL, s1.tail[q] # NULL
          PROVE  s1.tail[q] \in On(s1, q) /\ p1[s1.tail[q]] = NULL
        <3>1. s.tail[q] # NULL => s.tail[q] \in On(s, q) /\ s.p[s.tail[q]] = NULL
            BY DEF Ordered
        <3>2. next \in On(s, q) /\ next # h
            <4>1. next \in On(s, q)
                BY <1>1, <1>2, <2>2, OnFacts
            <4>2. h \notin From(s.p, next) /\ next \in From(s.p, next)
                BY <1>1, <1>2, <2>2, NoReturn, FromStart
            <4> QED
                BY <4>1, <4>2
        <3> QED
            BY <1>2, <1>5, <1>6, <1>7, <2>2, <3>1, <3>2
    <2> QED
        BY <1>4, <2>1, <2>2
<1>11. \A k, j \in Queue : k # j => On(s1, k) \cap On(s1, j) = {}
    BY <1>7, <1>8 DEF Ordered
<1>12. Ordered(s1, Node, Queue, Gone)
    BY <1>3, <1>4, <1>9, <1>10, <1>11 DEF Ordered
<1>13. \A k \in Queue : HasTail(s, k) => HasTail(s1, k)
    BY <1>1, <1>2, <1>4, <1>5 DEF HasTail
<1> QED
    BY <1>2, <1>4, <1>7, <1>8, <1>12, <1>13 DEF p1, Takes

LEMMA DEQWellFormed ==
    ASSUME NEW Node, NEW Queue, NULL \notin Node, NEW s,
           WellFormed(s, Node, Queue), NEW q \in Queue, s.head[q] # NULL,
           NEW s1, Dequeued(s, q, s1)
    PROVE  /\ WellFormed(s1, Node, Queue)
           /\ Takes(s, q, s1, Queue)
<1>1. Ordered(s, Node, Queue, {}) /\ \A k \in Queue : HasTail(s, k)
    BY WellFormedOrdered
<1>2. /\ Ordered(s1, Node, Queue, {}) /\ Takes(s, q, s1, Queue)
      /\ \A k \in Queue : HasTail(s1, k)
    BY <1>1, DEQOrdered
<1> QED
    BY <1>2, WellFormedOrdered

-----------------------------------------------------------------------------
(* The store of a NULL head: the first node comes loose, and what is       *)
(* linked behind it is gone.                                               *)
HeadOff(s, q, s1) == s1 = [s EXCEPT !.head[q] = NULL, !.p[s.head[q]] = NULL]

Empties(s, q, s1, Queue) ==
    /\ On(s1, q) = {}
    /\ \A k \in Queue : k # q => /\ s1.head[k] = s.head[k] /\ s1.tail[k] = s.tail[k]
                                /\ On(s1, k) = On(s, k)
                                /\ \A m \in On(s, k) : s1.p[m] = s.p[m]

LEMMA HeadCleared ==
    ASSUME NEW Node, NEW Queue, NULL \notin Node, NEW s, NEW Gone,
           Ordered(s, Node, Queue, Gone), NEW q \in Queue, s.head[q] # NULL, NEW s1,
           HeadOff(s, q, s1)
    PROVE  Ordered(s1, Node, Queue, Gone \cup (On(s, q) \ {s.head[q]})) /\ Empties(s, q, s1, Queue)
<1> DEFINE h == s.head[q]
           L == On(s, q) \ {h}
<1>1. /\ s \in Store(Node, Queue) /\ Acyclic(s.p) /\ s.p \in [Node -> Node \cup {NULL}]
      /\ h \in Node /\ h \in On(s, q) /\ On(s, q) \subseteq Node
    BY OnFacts DEF Ordered, Store
<1>2. /\ s1 \in Store(Node, Queue) /\ s1.p = [s.p EXCEPT ![h] = NULL]
      /\ s1.head[q] = NULL
      /\ \A k \in Queue : k # q => s1.head[k] = s.head[k]
      /\ \A k \in Queue : s1.tail[k] = s.tail[k]
    BY <1>1 DEF Store, HeadOff
<1>3. Acyclic(s1.p)
    BY <1>1, <1>2, ClearAcyclic
<1> HIDE DEF h
<1>4. s1.p[h] = NULL /\ \A m \in Node : m # h => s1.p[m] = s.p[m]
    BY <1>1, <1>2
<1>5. On(s1, q) = {}
    BY <1>2 DEF On
<1>6. ASSUME NEW k \in Queue, k # q
      PROVE  On(s1, k) = On(s, k) /\ \A m \in On(s, k) : m \in Node /\ s1.p[m] = s.p[m]
    <2>1. On(s, k) \subseteq Node /\ h \notin On(s, k)
        BY <1>1, <1>6, OnFacts DEF Ordered
    <2>2. \A m \in On(s, k) : m \in Node /\ s1.p[m] = s.p[m]
        BY <1>4, <2>1
    <2>3. CASE s.head[k] = NULL
        BY <1>2, <1>6, <2>2, <2>3 DEF On
    <2>4. CASE s.head[k] # NULL
        <3>1. s.head[k] \in Node /\ On(s, k) = From(s.p, s.head[k])
            BY <1>1, <2>4, OnFacts
        <3>2. s1.p \in [Node -> Node \cup {NULL}]
            BY <1>2 DEF Store
        <3>3. From(s1.p, s.head[k]) = From(s.p, s.head[k])
            BY <1>1, <2>2, <3>1, <3>2, FromAgree
        <3> QED
            BY <1>2, <1>6, <2>2, <2>4, <3>1, <3>3 DEF On
    <2> QED
        BY <2>3, <2>4
<1>7. \A k, j \in Queue : k # j => On(s1, k) \cap On(s1, j) = {}
    BY <1>5, <1>6 DEF Ordered
<1>8. \A k \in Queue : s1.head[k] # NULL /\ s1.tail[k] # NULL
                      => s1.tail[k] \in On(s1, k) /\ s1.p[s1.tail[k]] = NULL
    BY <1>2, <1>6 DEF Ordered
<1>9. ASSUME NEW n \in Node \ (Gone \cup L), OnNone(s1, Queue, n)
      PROVE  s1.p[n] = NULL
    <2>1. CASE n = h
        BY <1>4, <2>1
    <2>2. CASE n # h
        <3>1. OnNone(s, Queue, n) /\ n \in Node \ Gone
            BY <1>6, <1>9, <2>2 DEF OnNone
        <3> QED
            BY <1>4, <2>2, <3>1 DEF Ordered
    <2> QED
        BY <2>1, <2>2
<1>10. Ordered(s1, Node, Queue, Gone \cup L)
    <2> HIDE DEF L
    <2> QED
        BY <1>2, <1>3, <1>7, <1>8, <1>9 DEF Ordered
<1> QED
    BY <1>2, <1>5, <1>6, <1>10 DEF h, L, Empties

(* The store of a NULL tail.                                               *)
LEMMA TailCleared ==
    ASSUME NEW Node, NEW Queue, NULL \notin Node, NEW s, NEW Gone,
           Ordered(s, Node, Queue, Gone), NEW q \in Queue, NEW s1,
           s1 = [s EXCEPT !.tail[q] = NULL]
    PROVE  /\ Ordered(s1, Node, Queue, Gone)
           /\ s1.p = s.p /\ s1.head = s.head
           /\ \A k \in Queue : k # q => s1.tail[k] = s.tail[k]
           /\ \A k \in Queue : On(s1, k) = On(s, k)
<1>1. s \in Store(Node, Queue)
    BY DEF Ordered
<1>2. /\ s1 \in Store(Node, Queue) /\ s1.p = s.p /\ s1.head = s.head
      /\ s1.tail = [s.tail EXCEPT ![q] = NULL]
    BY <1>1 DEF Store
<1>3. \A k \in Queue : s1.tail[k] = NULL \/ s1.tail[k] = s.tail[k]
    BY <1>1, <1>2 DEF Store
<1>4. \A k \in Queue : k # q => s1.tail[k] = s.tail[k]
    BY <1>1, <1>2 DEF Store
<1>5. \A k \in Queue : On(s1, k) = On(s, k)
    BY <1>2 DEF On
<1>6. Ordered(s1, Node, Queue, Gone)
    BY <1>2, <1>3, <1>5 DEF Ordered, OnNone
<1> QED
    BY <1>2, <1>4, <1>5, <1>6

-----------------------------------------------------------------------------
(* Chain(s, q) is what a traversal meets, in the order it meets it.  How   *)
(* many nodes can be reached from a node tells its place.                  *)
Reach(p, n) == Cardinality(From(p, n))

LEMMA ReachStep ==
    ASSUME NEW Node, IsFiniteSet(Node), NULL \notin Node,
           NEW p \in [Node -> Node \cup {NULL}], Acyclic(p), NEW n \in Node
    PROVE  /\ IsFiniteSet(From(p, n))
           /\ Reach(p, n) \in Nat \ {0}
           /\ p[n] = NULL => Reach(p, n) = 1
           /\ p[n] # NULL => p[n] \in Node /\ Reach(p, n) = Reach(p, p[n]) + 1
<1>1. \A m \in Node : From(p, m) \in SUBSET Node /\ IsFiniteSet(From(p, m))
    BY FromDomain, FS_Subset
<1>2. \A m \in Node : m \in From(p, m)
    BY FromStart
<1>3. \A m \in Node : Reach(p, m) \in Nat \ {0}
    BY <1>1, <1>2, FS_CardinalityType, FS_EmptySet DEF Reach
<1>4. ASSUME p[n] = NULL
      PROVE  Reach(p, n) = 1
    BY <1>4, FromEqual, FS_Singleton DEF Reach
<1>5. ASSUME p[n] # NULL
      PROVE  p[n] \in Node /\ Reach(p, n) = Reach(p, p[n]) + 1
    <2>1. p[n] \in Node
        BY <1>5
    <2>2. From(p, n) = From(p, p[n]) \cup {n} /\ n \notin From(p, p[n])
        BY <1>5, FromEqual, NoReturn
    <2> QED
        BY <1>1, <2>1, <2>2, FS_AddElement DEF Reach
<1> QED
    BY <1>1, <1>3, <1>4, <1>5

(* Two nodes of one traversal from which the same number of nodes can be   *)
(* reached are one node.                                                   *)
LEMMA ReachUnique ==
    ASSUME NEW Node, IsFiniteSet(Node), NULL \notin Node,
           NEW p \in [Node -> Node \cup {NULL}], Acyclic(p), NEW h \in Node,
           NEW m \in From(p, h), NEW n \in From(p, h), Reach(p, m) = Reach(p, n)
    PROVE  m = n
<1>1. m \in Node /\ n \in Node
    BY FromDomain
<1>2. ASSUME NEW a \in Node, NEW b \in Node, b \in From(p, a),
             Reach(p, a) = Reach(p, b)
      PROVE  a = b
    <2>1. From(p, b) \in SUBSET From(p, a) /\ IsFiniteSet(From(p, a))
        BY <1>2, FromTrans, ReachStep
    <2>2. From(p, b) = From(p, a)
        BY <1>2, <2>1, FS_Subset DEF Reach
    <2>3. a \in From(p, b)
        BY <2>2, FromStart
    <2>4. SUFFICES ASSUME a # b
                   PROVE  FALSE
        OBVIOUS
    <2>5. p[a] # NULL /\ b \in From(p, p[a])
        BY <1>2, <2>4, FromEqual
    <2>6. p[a] \in Node
        BY <2>5
    <2>7. a \in From(p, p[a])
        BY <2>3, <2>5, <2>6, FromTrans
    <2> QED
        BY <2>5, <2>7, NoReturn
<1>3. m \in From(p, n) \/ n \in From(p, m)
    BY FromLinear
<1> QED
    BY <1>1, <1>2, <1>3

(* Every place of the traversal is taken.                                  *)
LEMMA ReachEvery ==
    ASSUME NEW Node, IsFiniteSet(Node), NULL \notin Node,
           NEW p \in [Node -> Node \cup {NULL}], Acyclic(p), NEW h \in Node,
           NEW i \in 1 .. Reach(p, h)
    PROVE  \E n \in From(p, h) : Reach(p, n) = i
<1> DEFINE N == Reach(p, h)
           W == { j \in 0 .. N : j > 0 /\ \A n \in From(p, h) : Reach(p, n) # j }
<1>1. N \in Nat \ {0} /\ From(p, h) \subseteq Node /\ h \in From(p, h)
    BY ReachStep, FromDomain, FromStart
<1>2. SUFFICES ASSUME i \in W
               PROVE  FALSE
    BY <1>1
<1>3. PICK x \in W : \A y \in W : y <= x
    <2>1. W \subseteq 0 .. N /\ W # {}
        BY <1>2
    <2> HIDE DEF W, N
    <2> QED
        BY <1>1, <2>1, GreatestNat
<1>4. x \in 1 .. N /\ x # N /\ x + 1 \in 0 .. N /\ x + 1 \notin W
    BY <1>1, <1>3
<1>5. PICK n \in From(p, h) : Reach(p, n) = x + 1
    BY <1>1, <1>4
<1>6. n \in Node
    BY <1>1
<1>7. p[n] # NULL /\ Reach(p, p[n]) = x
    BY <1>1, <1>4, <1>5, <1>6, ReachStep
<1>8. p[n] \in From(p, h)
    BY <1>6, <1>7, FromStep
<1> QED
    BY <1>3, <1>7, <1>8

(* c is the sequence of the nodes of queue q of s in order.                *)
Lists(s, q, c) ==
    /\ c \in Seq(On(s, q))
    /\ Len(c) = Cardinality(On(s, q))
    /\ \A i \in 1 .. Len(c) : Reach(s.p, c[i]) = Len(c) + 1 - i

LEMMA ChainInOrder ==
    ASSUME NEW Node, IsFiniteSet(Node), NEW Queue, NULL \notin Node, NEW s,
           NEW Gone, Ordered(s, Node, Queue, Gone), NEW q \in Queue
    PROVE  Lists(s, q, Chain(s, q))
<1> DEFINE c == Chain(s, q)
           O == On(s, q)
           N == Cardinality(O)
<1>1. s \in Store(Node, Queue) /\ s.p \in [Node -> Node \cup {NULL}] /\ Acyclic(s.p)
    BY DEF Ordered, Store
<1>2. O \subseteq Node /\ IsFiniteSet(O) /\ N \in Nat
    BY <1>1, OnFacts, FS_Subset, FS_CardinalityType
<1>3. ASSUME NEW i \in 1 .. N
      PROVE  \E n \in O : N + 1 - Reach(s.p, n) = i
    <2>1. s.head[q] # NULL
        BY <1>2, <1>3, FS_EmptySet DEF On
    <2>2. s.head[q] \in Node /\ O = From(s.p, s.head[q])
        BY <1>1, <2>1, OnFacts
    <2>3. N = Reach(s.p, s.head[q]) /\ N + 1 - i \in 1 .. N
        BY <1>2, <2>2 DEF Reach
    <2> HIDE DEF N, O
    <2>4. PICK n \in O : Reach(s.p, n) = N + 1 - i
        BY <1>1, <2>2, <2>3, ReachEvery
    <2> QED
        BY <1>2, <2>4
<1>4. c = [i \in 1 .. N |-> CHOOSE n \in O : N + 1 - Reach(s.p, n) = i]
    BY DEF Chain, Reach
<1> HIDE DEF c
<1>5. \A i \in 1 .. N : c[i] \in O /\ N + 1 - Reach(s.p, c[i]) = i
    BY <1>3, <1>4
<1>6. c \in [1 .. N -> O]
    BY <1>4, <1>5
<1>7. c \in Seq(O) /\ Len(c) = N
    BY <1>2, <1>6
<1>8. \A i \in 1 .. N : Reach(s.p, c[i]) \in Nat
    BY <1>1, <1>2, <1>5, ReachStep
<1>9. \A i \in 1 .. N : Reach(s.p, c[i]) = N + 1 - i
    BY <1>2, <1>5, <1>8
<1> HIDE DEF N, O
<1> QED
    BY <1>7, <1>9 DEF Lists, c, N, O

LEMMA InOrderUnique ==
    ASSUME NEW Node, IsFiniteSet(Node), NEW Queue, NULL \notin Node, NEW s,
           NEW Gone, Ordered(s, Node, Queue, Gone), NEW q \in Queue, NEW c, Lists(s, q, c)
    PROVE  Chain(s, q) = c
<1> DEFINE d == Chain(s, q)
           O == On(s, q)
           N == Cardinality(O)
<1>1. s \in Store(Node, Queue) /\ s.p \in [Node -> Node \cup {NULL}] /\ Acyclic(s.p)
    BY DEF Ordered, Store
<1>2. O \subseteq Node /\ IsFiniteSet(O) /\ N \in Nat
    BY <1>1, OnFacts, FS_Subset, FS_CardinalityType
<1>3. Lists(s, q, d)
    BY ChainInOrder
<1> HIDE DEF d
<1>4. /\ c \in Seq(O) /\ Len(c) = N /\ d \in Seq(O) /\ Len(d) = N
      /\ \A i \in 1 .. N : Reach(s.p, c[i]) = Reach(s.p, d[i])
    BY <1>3 DEF Lists
<1>5. ASSUME NEW i \in 1 .. N
      PROVE  d[i] = c[i]
    <2>1. d[i] \in O /\ c[i] \in O
        BY <1>4
    <2>2. s.head[q] \in Node /\ O = From(s.p, s.head[q])
        BY <1>1, <2>1, OnFacts
    <2> HIDE DEF O
    <2> QED
        BY <1>1, <1>4, <2>1, <2>2, ReachUnique
<1> HIDE DEF N, O
<1> QED
    BY <1>2, <1>4, <1>5 DEF d

(* The nodes of a queue and the order of its nodes.                        *)
LEMMA ChainFacts ==
    ASSUME NEW Node, IsFiniteSet(Node), NEW Queue, NULL \notin Node, NEW s,
           NEW Gone, Ordered(s, Node, Queue, Gone), NEW q \in Queue
    PROVE  /\ Chain(s, q) \in Seq(On(s, q))
           /\ Len(Chain(s, q)) = Cardinality(On(s, q))
           /\ Chain(s, q) = <<>> <=> s.head[q] = NULL
<1>1. Lists(s, q, Chain(s, q))
    BY ChainInOrder
<1>2. s \in Store(Node, Queue) /\ On(s, q) \subseteq Node
    BY OnFacts DEF Ordered
<1>3. IsFiniteSet(On(s, q)) /\ (On(s, q) = {} <=> s.head[q] = NULL)
    BY <1>2, FS_Subset, OnFacts
<1>4. Cardinality(On(s, q)) = 0 <=> s.head[q] = NULL
    BY <1>3, FS_EmptySet
<1>5. Chain(s, q) = <<>> <=> Len(Chain(s, q)) = 0
    BY <1>1 DEF Lists
<1> QED
    BY <1>1, <1>4, <1>5 DEF Lists

(* A queue whose head has no link is its head.                            *)
LEMMA ChainOfOne ==
    ASSUME NEW Node, IsFiniteSet(Node), NEW Queue, NULL \notin Node, NEW s,
           NEW Gone, Ordered(s, Node, Queue, Gone), NEW q \in Queue,
           s.head[q] # NULL, s.p[s.head[q]] = NULL
    PROVE  Chain(s, q) = << s.head[q] >>
<1> DEFINE c == Chain(s, q)
           h == s.head[q]
<1>1. s \in Store(Node, Queue) /\ s.p \in [Node -> Node \cup {NULL}]
    BY DEF Ordered, Store
<1>2. On(s, q) = {h}
    <2>1. h \in Node /\ On(s, q) = From(s.p, h)
        BY <1>1, OnFacts
    <2> QED
        BY <1>1, <2>1, FromEqual
<1> DEFINE S == On(s, q)
<1>3. c \in Seq(S) /\ Len(c) = Cardinality(S)
    BY ChainFacts
<1> HIDE DEF c, h, S
<1>4. Len(c) = 1 /\ c \in Seq(S) /\ S = {h}
    BY <1>2, <1>3, FS_Singleton DEF S
<1>5. c[1] = h
    <2>1. c \in Seq(S) /\ 1 \in 1 .. Len(c)
        BY <1>4
    <2>2. \A i \in 1 .. Len(c) : c[i] \in S
        BY ONLY <2>1
    <2> QED
        BY <1>4, <2>1, <2>2
<1>6. c = <<h>>
    BY <1>4, <1>5
<1> QED
    BY <1>6 DEF c, h

(* The order of a queue whose nodes are the same and reach the same nodes. *)
LEMMA ChainSame ==
    ASSUME NEW Node, IsFiniteSet(Node), NEW Queue, NULL \notin Node,
           NEW s, NEW Gone, Ordered(s, Node, Queue, Gone),
           NEW s1, NEW Gone1, Ordered(s1, Node, Queue, Gone1), NEW q \in Queue,
           On(s1, q) = On(s, q),
           \A m \in On(s, q) : s1.p[m] = s.p[m]
    PROVE  Chain(s1, q) = Chain(s, q)
<1> DEFINE c == Chain(s, q)
<1>1. /\ s \in Store(Node, Queue) /\ s1 \in Store(Node, Queue)
      /\ s.p \in [Node -> Node \cup {NULL}] /\ s1.p \in [Node -> Node \cup {NULL}]
    BY DEF Ordered, Store
<1>2. Lists(s, q, c)
    BY ChainInOrder
<1>3. ASSUME NEW m \in On(s, q)
      PROVE  From(s1.p, m) = From(s.p, m)
    <2>1. /\ s.head[q] \in Node /\ On(s, q) = From(s.p, s.head[q])
          /\ On(s, q) \subseteq Node
        BY <1>1, OnFacts
    <2>2. From(s.p, m) \subseteq On(s, q)
        BY <1>1, <2>1, FromTrans
    <2> QED
        BY <1>1, <2>1, <2>2, FromAgree
<1> HIDE DEF c
<1>4. Lists(s1, q, c)
    <2>1. c \in Seq(On(s1, q)) /\ Len(c) = Cardinality(On(s1, q))
        BY <1>2 DEF Lists
    <2>2. \A i \in 1 .. Len(c) : c[i] \in On(s, q)
        BY <1>2 DEF Lists
    <2> QED
        BY <1>2, <1>3, <2>1, <2>2 DEF Lists, Reach
<1> QED
    BY <1>4, InOrderUnique DEF c

(* PCB_ENQ and env_ENQ append, PCB_DEQ and env_DEQ take the first node.    *)
AddsLast(s, q, r, s1, Queue) ==
    /\ Chain(s1, q) = Append(Chain(s, q), r)
    /\ \A k \in Queue : k # q => Chain(s1, k) = Chain(s, k)

TakesFirst(s, q, s1, Queue) ==
    /\ Chain(s, q)[1] = s.head[q]
    /\ Chain(s1, q) = Tail(Chain(s, q))
    /\ \A k \in Queue : k # q => Chain(s1, k) = Chain(s, k)

LEMMA ENQChain ==
    ASSUME NEW Node, IsFiniteSet(Node), NEW Queue, NULL \notin Node, NEW s,
           NEW Gone, Ordered(s, Node, Queue, Gone), NEW q \in Queue,
           NEW r \in Node \ Gone, OnNone(s, Queue, r), HasTail(s, q)
    PROVE  AddsLast(s, q, r, PCB_ENQ(s, q, r), Queue)
<1> DEFINE s1 == PCB_ENQ(s, q, r)
           c  == Chain(s, q)
           t  == s.tail[q]
           h  == s.head[q]
<1>1. /\ s \in Store(Node, Queue) /\ Acyclic(s.p)
      /\ s.p \in [Node -> Node \cup {NULL}]
      /\ s.p[r] = NULL /\ r \notin On(s, q) /\ On(s, q) \subseteq Node
    BY OnFacts DEF Ordered, OnNone, Store
<1>2. /\ Ordered(s1, Node, Queue, Gone)
      /\ On(s1, q) = On(s, q) \cup {r}
      /\ \A k \in Queue : k # q => On(s1, k) = On(s, k)
    <2>1. Ordered(s1, Node, Queue, Gone) /\ Adds(s, q, r, s1, Queue)
        BY ENQOrdered
    <2> QED
        BY <2>1 DEF Adds
<1>3. Lists(s, q, c)
    BY ChainInOrder
<1>4. \/ h = NULL /\ s1.p = s.p
      \/ /\ h \in Node /\ On(s, q) = From(s.p, h)
         /\ t \in From(s.p, h) /\ s.p[t] = NULL
         /\ s1.p = [s.p EXCEPT ![t] = r, ![r] = NULL]
    <2>1. CASE h = NULL
        BY <1>1, <2>1 DEF PCB_ENQ
    <2>2. CASE h # NULL
        <3>1. h \in Node /\ On(s, q) = From(s.p, h)
            BY <1>1, <2>2, OnFacts
        <3>2. t \in On(s, q) /\ s.p[t] = NULL
            BY <2>2 DEF Ordered, HasTail
        <3>3. s1.p = [s.p EXCEPT ![t] = r, ![r] = NULL]
            BY <1>1, <2>2 DEF PCB_ENQ, Store
        <3> HIDE DEF s1, t, h
        <3> QED
            BY <3>1, <3>2, <3>3
    <2> QED
        BY <2>1, <2>2
<1> HIDE DEF s1, c
<1>5. ASSUME NEW k \in Queue, k # q
      PROVE  Chain(s1, k) = Chain(s, k)
    <2>1. \A m \in On(s, k) : m \in Node /\ m # r /\ (h # NULL => m # t)
        BY <1>1, <1>4, <1>5, OnFacts DEF Ordered, OnNone
    <2>2. \A m \in On(s, k) : s1.p[m] = s.p[m]
        <3> HIDE DEF h, t
        <3> QED
            BY <1>1, <1>4, <2>1
    <2> QED
        BY <1>2, <1>5, <2>2, ChainSame
<1>6. s1.p \in [Node -> Node \cup {NULL}] /\ s1.p[r] = NULL
    <2>1. s1.p[r] = NULL
        BY <1>1, <1>4
    <2> QED
        BY <1>2, <2>1 DEF Ordered, Store
<1>7. Reach(s1.p, r) = 1
    BY <1>2, <1>6, ReachStep DEF Ordered
<1>8. ASSUME NEW m \in On(s, q)
      PROVE  Reach(s1.p, m) = Reach(s.p, m) + 1
    <2>1. h # NULL
        BY DEF On
    <2>2. m \in Node /\ m \in From(s.p, h) /\ t \in From(s.p, m)
        BY <1>1, <1>4, <2>1, FromLast
    <2>3. r \notin From(s.p, m)
        BY <1>1, <1>4, <2>1, <2>2, FromTrans
    <2>4. From(s1.p, m) = From(s.p, m) \cup {r}
        BY <1>1, <1>4, <2>1, <2>2, <2>3, FromLink
    <2>5. IsFiniteSet(From(s.p, m))
        BY <1>1, <2>2, ReachStep
    <2> QED
        BY <2>3, <2>4, <2>5, FS_AddElement DEF Reach
<1>9. Lists(s1, q, Append(c, r))
    <2> DEFINE N == Cardinality(On(s, q))
               d == Append(c, r)
    <2>1. IsFiniteSet(On(s, q)) /\ N \in Nat /\ Cardinality(On(s1, q)) = N + 1
        BY <1>1, <1>2, FS_Subset, FS_AddElement, FS_CardinalityType
    <2>2. c \in Seq(On(s, q)) /\ Len(c) = N
        BY <1>3 DEF Lists
    <2> HIDE DEF N
    <2>3. c \in Seq(On(s1, q)) /\ r \in On(s1, q)
        BY <1>2, <2>2
    <2>4. d \in Seq(On(s1, q)) /\ Len(d) = N + 1 /\ d[N + 1] = r
        BY <2>1, <2>2, <2>3
    <2>5. \A i \in 1 .. N : d[i] = c[i] /\ c[i] \in On(s, q)
        BY <2>2
    <2> HIDE DEF d
    <2>6. ASSUME NEW i \in 1 .. N
          PROVE  Reach(s1.p, d[i]) = (N + 1) + 1 - i
        <3>1. Reach(s.p, c[i]) = N + 1 - i
            BY <1>3, <2>2 DEF Lists
        <3>2. Reach(s1.p, d[i]) = Reach(s.p, c[i]) + 1
            BY <1>8, <2>5
        <3> QED
            BY <2>1, <3>1, <3>2
    <2>7. Reach(s1.p, d[N + 1]) = (N + 1) + 1 - (N + 1)
        BY <1>7, <2>1, <2>4
    <2>8. \A i \in 1 .. Len(d) : i = N + 1 \/ i \in 1 .. N
        BY <2>1, <2>4
    <2>9. \A i \in 1 .. Len(d) : Reach(s1.p, d[i]) = Len(d) + 1 - i
        BY <2>4, <2>6, <2>7, <2>8
    <2>10. Lists(s1, q, d)
        BY <2>1, <2>4, <2>9 DEF Lists, N
    <2> QED
        BY <2>10 DEF d
<1>10. Chain(s1, q) = Append(c, r)
    BY <1>2, <1>9, InOrderUnique
<1> QED
    BY <1>5, <1>10 DEF s1, c, AddsLast

LEMMA DEQChain ==
    ASSUME NEW Node, IsFiniteSet(Node), NEW Queue, NULL \notin Node, NEW s,
           NEW Gone, Ordered(s, Node, Queue, Gone), NEW q \in Queue, s.head[q] # NULL,
           NEW s1, Dequeued(s, q, s1)
    PROVE  TakesFirst(s, q, s1, Queue)
<1> DEFINE h == s.head[q]
           c == Chain(s, q)
           N == Cardinality(On(s, q))
<1>1. /\ s \in Store(Node, Queue) /\ Acyclic(s.p)
      /\ s.p \in [Node -> Node \cup {NULL}]
    BY DEF Ordered, Store
<1>2. /\ h \in Node /\ h \in On(s, q) /\ On(s, q) = From(s.p, h)
      /\ On(s, q) \subseteq Node /\ IsFiniteSet(On(s, q))
    BY <1>1, OnFacts, FS_Subset
<1>3. /\ Ordered(s1, Node, Queue, Gone)
      /\ On(s1, q) = On(s, q) \ {h}
      /\ s1.p = [s.p EXCEPT ![h] = NULL]
      /\ \A k \in Queue : k # q => On(s1, k) = On(s, k)
    <2>1. Ordered(s1, Node, Queue, Gone) /\ Takes(s, q, s1, Queue)
        BY DEQOrdered
    <2> QED
        BY <2>1 DEF Takes
<1> HIDE DEF h, c, N
<1>4. /\ c \in Seq(On(s, q)) /\ Len(c) = N
      /\ \A i \in 1 .. N : c[i] \in On(s, q) /\ Reach(s.p, c[i]) = N + 1 - i
    <2>1. Lists(s, q, c)
        BY ChainInOrder DEF c
    <2> QED
        BY <2>1 DEF Lists, N
<1>5. N \in Nat \ {0} /\ Reach(s.p, h) = N /\ Cardinality(On(s1, q)) = N - 1
    <2>1. N \in Nat /\ N # 0
        BY <1>2, FS_EmptySet, FS_CardinalityType DEF N
    <2>2. Cardinality(On(s1, q)) = N - 1
        BY <1>2, <1>3, FS_RemoveElement DEF N
    <2> QED
        BY <1>2, <2>1, <2>2 DEF Reach, N
<1>6. c[1] = h
    <2>1. c[1] \in From(s.p, h) /\ h \in From(s.p, h) /\ Reach(s.p, c[1]) = Reach(s.p, h)
        BY <1>2, <1>4, <1>5
    <2> QED
        BY <1>1, <1>2, <2>1, ReachUnique
<1>7. ASSUME NEW k \in Queue, k # q
      PROVE  Chain(s1, k) = Chain(s, k)
    <2>1. \A m \in On(s, k) : m \in Node /\ m # h
        BY <1>1, <1>2, <1>7, OnFacts DEF Ordered
    <2>2. \A m \in On(s, k) : s1.p[m] = s.p[m]
        BY <1>1, <1>3, <2>1
    <2>3. Ordered(s1, Node, Queue, Gone) /\ On(s1, k) = On(s, k)
        BY <1>3, <1>7
    <2> QED
        BY <2>2, <2>3, ChainSame
<1>8. ASSUME NEW m \in On(s, q), m # h
      PROVE  From(s1.p, m) = From(s.p, m)
    <2>1. s.p[h] # NULL /\ m \in From(s.p, s.p[h]) /\ s.p[h] \in Node
        BY <1>1, <1>2, <1>8, FromEqual
    <2>2. h \notin From(s.p, m) /\ m \in Node /\ From(s.p, m) \subseteq Node
        BY <1>1, <1>2, <2>1, NoReturn, FromTrans, FromDomain
    <2>3. \A k \in From(s.p, m) : s1.p[k] = s.p[k]
        BY <1>1, <1>3, <2>2
    <2>4. s1.p \in [Node -> Node \cup {NULL}]
        BY <1>3 DEF Ordered, Store
    <2> QED
        BY <1>1, <2>2, <2>3, <2>4, FromAgree
<1>9. Lists(s1, q, Tail(c))
    <2> DEFINE d == Tail(c)
    <2>1. d \in Seq(On(s, q)) /\ Len(d) = N - 1 /\ \A i \in 1 .. N - 1 : d[i] = c[i + 1]
        BY <1>4, <1>5
    <2> HIDE DEF d
    <2>2. ASSUME NEW i \in 1 .. N - 1
          PROVE  d[i] \in On(s1, q) /\ Reach(s1.p, d[i]) = (N - 1) + 1 - i
        <3>1. i + 1 \in 1 .. N /\ d[i] = c[i + 1]
            BY <1>5, <2>1
        <3>2. d[i] \in On(s, q) /\ Reach(s.p, d[i]) = N + 1 - (i + 1)
            BY <1>4, <3>1
        <3>3. d[i] # h
            BY <1>5, <3>2
        <3> QED
            BY <1>3, <1>5, <1>8, <3>2, <3>3 DEF Reach
    <2>3. d \in Seq(On(s1, q))
        BY <1>5, <2>1, <2>2
    <2>4. Lists(s1, q, d)
        BY <1>5, <2>1, <2>2, <2>3 DEF Lists
    <2> QED
        BY <2>4 DEF d
<1>10. Chain(s1, q) = Tail(c)
    BY <1>3, <1>9, InOrderUnique
<1> QED
    BY <1>6, <1>7, <1>10 DEF h, c, TakesFirst

(* The head is the first of a queue's nodes, each link leads to the next   *)
(* one, and no node comes twice.                                           *)
Linked(s, q, c) ==
    /\ c \in Seq(On(s, q)) /\ Len(c) = Cardinality(On(s, q))
    /\ s.head[q] # NULL => Len(c) \in Nat \ {0} /\ c[1] = s.head[q]
    /\ s.head[q] = NULL => c = <<>>
    /\ \A i \in 1 .. Len(c) : /\ i < Len(c) => s.p[c[i]] = c[i + 1]
                              /\ i = Len(c) => s.p[c[i]] = NULL
    /\ \A n \in On(s, q) : \E i \in 1 .. Len(c) : c[i] = n
    /\ \A i, j \in 1 .. Len(c) : c[i] = c[j] => i = j

LEMMA ChainLinked ==
    ASSUME NEW Node, IsFiniteSet(Node), NEW Queue, NULL \notin Node, NEW s,
           WellFormed(s, Node, Queue), NEW q \in Queue
    PROVE  Linked(s, q, Chain(s, q))
<1> DEFINE c == Chain(s, q)
           h == s.head[q]
           N == Len(c)
<1>1. s \in Store(Node, Queue) /\ s.p \in [Node -> Node \cup {NULL}] /\ Acyclic(s.p)
    BY DEF WellFormed, Store
<1>2. Lists(s, q, c) /\ (c = <<>> <=> h = NULL)
    <2>1. Ordered(s, Node, Queue, {})
        BY WellFormedOrdered
    <2> QED
        BY <2>1, ChainInOrder, ChainFacts
<1>3. /\ On(s, q) \subseteq Node
      /\ h # NULL => h \in Node /\ h \in On(s, q) /\ On(s, q) = From(s.p, h)
      /\ On(s, q) # {} => h # NULL
      /\ \A n \in On(s, q) : s.p[n] # NULL => s.p[n] \in On(s, q)
    BY <1>1, OnFacts
<1> HIDE DEF c, h
<1>4. /\ c \in Seq(On(s, q)) /\ N = Cardinality(On(s, q)) /\ N \in Nat
      /\ \A i \in 1 .. N : c[i] \in On(s, q) /\ Reach(s.p, c[i]) = N + 1 - i
    BY <1>2 DEF Lists
<1> HIDE DEF N
<1>5. \A m, n \in On(s, q) : Reach(s.p, m) = Reach(s.p, n) => m = n
    BY <1>1, <1>3, ReachUnique
<1>6. \A n \in On(s, q) : /\ Reach(s.p, n) \in Nat \ {0}
                          /\ s.p[n] = NULL => Reach(s.p, n) = 1
                          /\ s.p[n] # NULL => Reach(s.p, n) = Reach(s.p, s.p[n]) + 1
    BY <1>1, <1>3, ReachStep
<1>7. ASSUME h # NULL
      PROVE  N \in Nat \ {0} /\ c[1] = h
    <2>1. Reach(s.p, h) = N /\ h \in On(s, q)
        BY <1>3, <1>4, <1>7 DEF Reach
    <2>2. N # 0
        BY <1>6, <2>1
    <2>3. c[1] \in On(s, q) /\ Reach(s.p, c[1]) = N
        BY <1>4, <2>2
    <2> QED
        BY <1>4, <1>5, <2>1, <2>2, <2>3
<1>8. ASSUME NEW i \in 1 .. N
      PROVE  /\ i < N => s.p[c[i]] = c[i + 1]
             /\ i = N => s.p[c[i]] = NULL
    <2>1. c[i] \in On(s, q) /\ Reach(s.p, c[i]) = N + 1 - i
        BY <1>4
    <2>2. ASSUME i < N
          PROVE  s.p[c[i]] = c[i + 1]
        <3>1. s.p[c[i]] # NULL
            BY <1>4, <1>6, <2>1, <2>2
        <3>2. /\ s.p[c[i]] \in On(s, q) /\ Reach(s.p, s.p[c[i]]) \in Nat
              /\ Reach(s.p, c[i]) = Reach(s.p, s.p[c[i]]) + 1
            BY <1>3, <1>6, <2>1, <3>1
        <3>3. i + 1 \in 1 .. N
            BY <1>4, <2>2
        <3>4. c[i + 1] \in On(s, q) /\ Reach(s.p, c[i + 1]) = N + 1 - (i + 1)
            BY <1>4, <3>3
        <3>5. Reach(s.p, c[i + 1]) = Reach(s.p, s.p[c[i]])
            BY <1>4, <2>1, <3>2, <3>4
        <3> QED
            BY <1>5, <3>2, <3>4, <3>5
    <2>3. ASSUME i = N
          PROVE  s.p[c[i]] = NULL
        <3>1. SUFFICES ASSUME s.p[c[i]] # NULL PROVE FALSE
            OBVIOUS
        <3>2. Reach(s.p, s.p[c[i]]) \in Nat \ {0}
              /\ Reach(s.p, c[i]) = Reach(s.p, s.p[c[i]]) + 1
            BY <1>3, <1>6, <2>1, <3>1
        <3> QED
            BY <1>4, <2>1, <2>3, <3>2
    <2> QED
        BY <2>2, <2>3
<1>9. ASSUME NEW n \in On(s, q)
      PROVE  \E i \in 1 .. N : c[i] = n
    <2> DEFINE r == Reach(s.p, n)
    <2>1. r \in Nat \ {0} /\ r <= N
        <3>1. h # NULL /\ h \in Node /\ On(s, q) = From(s.p, h) /\ n \in Node
            BY <1>3
        <3>2. From(s.p, n) \in SUBSET From(s.p, h) /\ IsFiniteSet(From(s.p, h))
            BY <1>1, <3>1, FromTrans, ReachStep
        <3>3. r <= N
            BY <1>4, <3>1, <3>2, FS_Subset DEF Reach
        <3> QED
            BY <1>6, <3>3
    <2> HIDE DEF r
    <2>2. N + 1 - r \in 1 .. N
        BY <1>4, <2>1
    <2>3. c[N + 1 - r] \in On(s, q) /\ Reach(s.p, c[N + 1 - r]) = N + 1 - (N + 1 - r)
        BY <1>4, <2>2
    <2>4. Reach(s.p, c[N + 1 - r]) = r
        BY <1>4, <2>1, <2>3
    <2> QED
        BY <1>5, <2>2, <2>3, <2>4 DEF r
<1>10. ASSUME NEW i \in 1 .. N, NEW j \in 1 .. N, c[i] = c[j]
       PROVE  i = j
    <2>1. N + 1 - i = N + 1 - j
        BY <1>4, <1>10
    <2> QED
        BY <1>4, <2>1
<1> QED
    BY <1>2, <1>4, <1>7, <1>8, <1>9, <1>10 DEF Linked, c, h, N

(* env_REMOVE takes the first node of the queue as env_DEQ does.           *)
LEMMA REMOVEHead ==
    ASSUME NEW Node, IsFiniteSet(Node), NEW Queue, NULL \notin Node, NEW s,
           WellFormed(s, Node, Queue), NEW q \in Queue, s.head[q] # NULL,
           NEW match, s.head[q] \in match
    PROVE  /\ On(s, q) \cap match # {}
           /\ FirstOn(s, q, match) = s.head[q]
           /\ env_REMOVE(s, q, match) = env_DEQ(s, q)
<1> DEFINE h == s.head[q]
           f == FirstOn(s, q, match)
<1>1. s \in Store(Node, Queue) /\ s.p \in [Node -> Node \cup {NULL}] /\ Acyclic(s.p)
    BY DEF WellFormed, Store
<1>2. h \in Node /\ h \in On(s, q) /\ On(s, q) = From(s.p, h) /\ On(s, q) \subseteq Node
    BY <1>1, OnFacts
<1>3. On(s, q) \cap match # {}
    BY <1>2
<1>4. \A n \in On(s, q) \cap match : On(s, q) \cap match \subseteq From(s.p, h)
    BY <1>2
<1>5. f \in On(s, q) \cap match /\ On(s, q) \cap match \subseteq From(s.p, f)
    BY <1>2, <1>3, <1>4 DEF FirstOn
<1> HIDE DEF f
<1>6. From(s.p, f) = From(s.p, h)
    <2>1. f \in From(s.p, h) /\ h \in From(s.p, f) /\ f \in Node
        BY <1>2, <1>5
    <2>2. h \in Node
        BY <1>2
    <2> HIDE DEF h
    <2>3. From(s.p, f) \subseteq From(s.p, h)
        BY <1>1, <2>1, <2>2, FromTrans
    <2>4. From(s.p, h) \subseteq From(s.p, f)
        BY <1>1, <2>1, <2>2, FromTrans
    <2> QED
        BY <2>3, <2>4
<1>7. f = h
    <2>1. Reach(s.p, f) = Reach(s.p, h) /\ f \in From(s.p, h) /\ h \in From(s.p, h)
        BY <1>2, <1>5, <1>6 DEF Reach
    <2> HIDE DEF h
    <2> QED
        BY <1>1, <1>2, <2>1, ReachUnique
<1> QED
    BY <1>3, <1>7 DEF f, env_REMOVE
==============================================================================
