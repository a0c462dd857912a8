----------------------------- MODULE LinkQueue -----------------------------
(***************************************************************************)
(* The intrusive singly linked queues of kernel.c.  A PCB and an envelope  *)
(* carry one link field p each, so the same node record is threaded        *)
(* through whichever queue it was last put on.  A store is one record      *)
(*                                                                         *)
(*     head, tail : queue -> node or NULL        p : node -> node or NULL  *)
(*                                                                         *)
(* for all the queues that thread one kind of node.  Every operator        *)
(* returns the store the C function leaves behind; the pointer the C       *)
(* function returns is named at its definition.                            *)
(***************************************************************************)
EXTENDS FiniteSets, Naturals

CONSTANT NULL

Store(Node, Queue) ==
    [ head : [Queue -> Node \cup {NULL}],
      tail : [Queue -> Node \cup {NULL}],
      p    : [Node -> Node \cup {NULL}] ]

(* Mutant of EmptyStore: the links are left uninitialized.                 *)
EmptyStore_Garbage(Node, Queue) ==
    [ head |-> [q \in Queue |-> NULL],
      tail |-> [q \in Queue |-> NULL],
      p    |-> [n \in Node |-> "garbage"] ]

(* create_Q and create_env_Q: no queue holds anything yet.                 *)
EmptyStore(Node, Queue) ==
    [ head |-> [q \in Queue |-> NULL],
      tail |-> [q \in Queue |-> NULL],
      p    |-> [n \in Node |-> NULL] ]

-----------------------------------------------------------------------------
(* The nodes a traversal that starts at node h meets: the least set that   *)
(* contains h and is closed under p.                                       *)
From(p, h) ==
    { n \in DOMAIN p :
        \A S \in SUBSET DOMAIN p :
            (h \in S /\ \A m \in S : p[m] \in S \cup {NULL}) => n \in S }

(* The nodes a traversal of queue q meets.                                 *)
On(s, q) == IF s.head[q] = NULL THEN {} ELSE From(s.p, s.head[q])

(* The same nodes in the order the traversal meets them: a node comes      *)
(* before exactly the nodes that can be reached from it.                   *)
Chain(s, q) ==
    LET nodes == On(s, q)
        rank(n) == Cardinality(nodes) + 1 - Cardinality(From(s.p, n))
    IN  [ i \in 1 .. Cardinality(nodes) |-> CHOOSE n \in nodes : rank(n) = i ]

(* No set of nodes is closed under p: every traversal ends.                *)
Acyclic(p) == \A S \in SUBSET DOMAIN p : S # {} => \E n \in S : p[n] \notin S

-----------------------------------------------------------------------------
(* Mutant of PCB_ENQ: the link of the new node is not cleared.             *)
PCB_ENQ_KeepsLink(s, q, r) ==
    IF r = NULL THEN s
    ELSE IF s.head[q] = NULL
         THEN [s EXCEPT !.head[q] = r, !.tail[q] = r]
         ELSE [s EXCEPT !.p[s.tail[q]] = r, !.tail[q] = r]

(* Mutant of PCB_ENQ and of env_ENQ: the new node goes to the head.        *)
ENQ_Push(s, q, r) ==
    [s EXCEPT !.head[q] = r,
              !.tail[q] = IF s.head[q] = NULL THEN r ELSE @,
              !.p[r] = s.head[q]]

(* PCB_ENQ.  Into an empty queue r is stored without touching r's own      *)
(* link; otherwise the link of whatever node q.tail names is redirected.   *)
PCB_ENQ(s, q, r) ==
    IF r = NULL THEN s
    ELSE IF s.head[q] = NULL
         THEN [s EXCEPT !.head[q] = r, !.tail[q] = r]
         ELSE [s EXCEPT !.p = [@ EXCEPT ![s.tail[q]] = r, ![r] = NULL],
                        !.tail[q] = r]

env_ENQ(s, q, e) == PCB_ENQ(s, q, e)

(* Mutant of PCB_DEQ and of env_DEQ: the node taken keeps its link.        *)
DEQ_KeepsLink(s, q) ==
    LET temp == s.head[q]
    IN  IF temp = NULL THEN s
        ELSE [s EXCEPT !.head[q] = s.p[temp],
                       !.tail[q] = IF s.p[temp] = NULL THEN NULL ELSE @]

(* PCB_DEQ, which returns the old s.head[q]; it recomputes the tail when   *)
(* one node is left.                                                       *)
PCB_DEQ(s, q) ==
    LET temp == s.head[q]
        tempNext == s.p[temp]
    IN  IF temp = NULL THEN s
        ELSE [s EXCEPT !.head[q] = tempNext,
                       !.tail[q] = IF tempNext = NULL THEN NULL
                                   ELSE IF s.p[tempNext] = NULL THEN tempNext
                                   ELSE @,
                       !.p[temp] = NULL]

(* env_DEQ, which returns the old s.head[q]; the tail is reset only when   *)
(* the queue becomes empty.                                                *)
env_DEQ(s, q) ==
    LET temp == s.head[q]
    IN  IF temp = NULL THEN s
        ELSE [s EXCEPT !.head[q] = s.p[temp],
                       !.tail[q] = IF s.p[temp] = NULL THEN NULL ELSE @,
                       !.p[temp] = NULL]

-----------------------------------------------------------------------------
(* The traversal shared by PCB_REMOVE and env_REMOVE past the head: the    *)
(* predecessor of n skips n, and the tail of the queue is left as it was.  *)
Unlink(s, q, n) ==
    [s EXCEPT !.p = [ m \in DOMAIN s.p |->
                        IF m = n THEN NULL
                        ELSE IF m \in On(s, q) /\ s.p[m] = n THEN s.p[n]
                        ELSE s.p[m] ]]

(* PCB_REMOVE: pids are unique, so the node looked for is id itself.       *)
PCB_REMOVE(s, q, id) ==
    IF s.head[q] = id THEN PCB_DEQ(s, q)
    ELSE IF id \in On(s, q) THEN Unlink(s, q, id)
    ELSE s

(* The first node of queue q that belongs to the set match.                *)
FirstOn(s, q, match) ==
    CHOOSE n \in On(s, q) \cap match : On(s, q) \cap match \subseteq From(s.p, n)

(* env_REMOVE: match is the set of envelopes whose sender_id is the one    *)
(* looked for.  Returns FirstOn(s, q, match), or NULL if there is none.    *)
env_REMOVE(s, q, match) ==
    IF On(s, q) \cap match = {} THEN s
    ELSE LET e == FirstOn(s, q, match)
         IN  IF e = s.head[q] THEN env_DEQ(s, q) ELSE Unlink(s, q, e)
=============================================================================
