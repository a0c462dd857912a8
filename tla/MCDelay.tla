------------------------------ MODULE MCDelay ------------------------------
(* Delay with two processes and three envelopes.                           *)
EXTENDS Delay, TLC

CONSTANTS p1, p2

TwoAndOne == 1 :> p1 @@ 2 :> p1 @@ 3 :> p2
=============================================================================
