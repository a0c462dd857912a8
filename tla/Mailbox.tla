------------------------------ MODULE Mailbox ------------------------------
(***************************************************************************)
(* What the message passing of the RTX promises, without processes, states *)
(* or pointers: a message waits in the mailbox it was sent to, is received *)
(* once, and the messages of one mailbox are received in the order they    *)
(* were sent, whoever sent them.                                           *)
(***************************************************************************)
EXTENDS Sequences, Naturals

CONSTANTS Owner, Message

VARIABLE box

Init == box = [o \in Owner |-> <<>>]

(* A message is in at most one mailbox at a time.                          *)
Send(o, m) ==
    /\ \A r \in Owner : \A i \in DOMAIN box[r] : box[r][i] # m
    /\ box' = [box EXCEPT ![o] = Append(@, m)]

Receive(o) ==
    /\ box[o] # <<>>
    /\ box' = [box EXCEPT ![o] = Tail(@)]

Next == \E o \in Owner : Receive(o) \/ \E m \in Message : Send(o, m)

Spec == Init /\ [][Next]_box
=============================================================================
