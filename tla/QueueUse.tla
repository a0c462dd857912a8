------------------------------ MODULE QueueUse ------------------------------
(***************************************************************************)
(* The queues of kernel.c in use, next to what their callers believe they  *)
(* hold.  store is the memory the C code works on (see LinkQueue); content *)
(* is the sequence of nodes each queue should hold, the value a reader of  *)
(* the calls would write down.                                             *)
(*                                                                         *)
(* Two choices are made once, in the initial state:                        *)
(*   kind   "pcb" : PCB_DEQ and PCB_REMOVE, which searches for a pid;      *)
(*          "env" : env_DEQ and env_REMOVE, which searches for a sender;   *)
(*   caller "careful" ENQ of a node that is on no queue, DEQ, and REMOVE   *)
(*                    of a node that is the head or not the tail;          *)
(*          "any"     ENQ and REMOVE of any node at any time (a tail taken *)
(*                    out of the middle, an envelope released after it was *)
(*                    sent, a PCB made ready twice).                       *)
(***************************************************************************)
EXTENDS LinkQueue, Sequences

CONSTANTS
    Node,       \* the PCBs, or the envelopes
    Queue,      \* the queues that thread them
    Sender,     \* sender_id of an envelope
    Callers     \* the callers of this instance

ASSUME NullAssumption == NULL \notin Node
ASSUME SenderAssumption == DOMAIN Sender = Node
ASSUME CallersAssumption == Callers \subseteq {"careful", "any"}

VARIABLES store, content, kind, caller

vars == <<store, content, kind, caller>>

Init ==
    /\ store = EmptyStore(Node, Queue)
    /\ content = [q \in Queue |-> <<>>]
    /\ kind \in {"pcb", "env"}
    /\ caller \in Callers

(* What a queue should hold, and the nodes that should be on no queue.     *)
Contents(q) == { content[q][i] : i \in 1 .. Len(content[q]) }

Loose == { n \in Node : \A q \in Queue : n \notin Contents(q) }

(* The nodes a search for the key of node k accepts.                       *)
Matching(k) == IF kind = "pcb" THEN {k} ELSE { n \in Node : Sender[n] = Sender[k] }

-----------------------------------------------------------------------------
(* The belief about queue q becomes c; the caller "any" holds none.        *)
Believe(q, c) ==
    content' = IF caller = "any" THEN content ELSE [content EXCEPT ![q] = c]

Enqueue(q, n) ==
    /\ n \in Loose
    /\ store' = IF kind = "pcb" THEN PCB_ENQ(store, q, n) ELSE env_ENQ(store, q, n)
    /\ Believe(q, Append(content[q], n))
    /\ UNCHANGED <<kind, caller>>

Dequeue(q) ==
    /\ store.head[q] # NULL
    /\ store' = IF kind = "pcb" THEN PCB_DEQ(store, q) ELSE env_DEQ(store, q)
    /\ Believe(q, Tail(content[q]))
    /\ UNCHANGED <<kind, caller>>

(* The position of the first node of content[q] that a search for k finds. *)
Position(q, k) ==
    CHOOSE i \in 1 .. Len(content[q]) :
        /\ content[q][i] \in Matching(k)
        /\ \A j \in 1 .. i - 1 : content[q][j] \notin Matching(k)

Remove(q, k) ==
    LET c  == content[q]
        at == Position(q, k)
    IN  /\ caller = "careful" => /\ Contents(q) \cap Matching(k) # {}
                                 /\ at = 1 \/ at # Len(c)
        /\ store' = IF kind = "pcb" THEN PCB_REMOVE(store, q, k)
                                    ELSE env_REMOVE(store, q, Matching(k))
        /\ Believe(q, SubSeq(c, 1, at - 1) \o SubSeq(c, at + 1, Len(c)))
        /\ UNCHANGED <<kind, caller>>

Next ==
    \E q \in Queue :
        \/ \E n \in Node : Enqueue(q, n)
        \/ Dequeue(q)
        \/ \E k \in Node : Remove(q, k)

Spec == Init /\ [][Next]_vars

-----------------------------------------------------------------------------
(* The memory is always a store, and content a sequence per queue.         *)
TypeOK ==
    /\ store \in Store(Node, Queue)
    /\ content \in [Queue -> Seq(Node)]
    /\ kind \in {"pcb", "env"}
    /\ caller \in Callers

(* Queue q is exactly what its callers believe: head is the oldest node,   *)
(* each node links to the next one and the last to NULL, tail is the       *)
(* newest.                                                                 *)
QueueIs(q) ==
    LET c == content[q]
        n == Len(c)
    IN  IF n = 0 THEN store.head[q] = NULL
        ELSE /\ store.head[q] = c[1]
             /\ store.tail[q] = c[n]
             /\ store.p[c[n]] = NULL
             /\ \A i \in 1 .. n - 1 : store.p[c[i]] = c[i + 1]

(* For callers that never remove a tail every queue is what they believe   *)
(* after any calls, and a node on no queue has a NULL link.  A DEQ that    *)
(* forgot to clear the link or to reset the tail breaks this only some     *)
(* calls later, when the node or the queue is used again.                  *)
Represents ==
    caller = "careful" =>
        /\ \A q \in Queue : QueueIs(q)
        /\ \A n \in Loose : store.p[n] = NULL

(* Whatever the callers do, even if a node is put on a queue twice or      *)
(* while it is on another one, the links never form a cycle: the while     *)
(* loops of PCB_REMOVE, env_REMOVE and timer_iproc always end.             *)
LinksAcyclic == Acyclic(store.p)
=============================================================================
