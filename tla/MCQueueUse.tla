----------------------------- MODULE MCQueueUse -----------------------------
(* QueueUse on two queues and three nodes; as envelopes, two of the nodes  *)
(* have the same sender.                                                   *)
EXTENDS QueueUse

CONSTANTS n1, n2, n3

SenderOf == [n \in Node |-> IF n \in {n1, n3} THEN "A" ELSE "B"]
=============================================================================
