------------------------------- MODULE Alarms -------------------------------
(***************************************************************************)
(* What request_delay promises, without queues, envelopes or a traversal:  *)
(* an alarm that is set rings once, not before as many ticks as were asked *)
(* for, and at most Slack ticks later.                                     *)
(***************************************************************************)
EXTENDS Naturals

CONSTANTS
    Alarm,
    Times,      \* what an alarm may be set for, in ticks
    Slack       \* how many ticks late an alarm may ring

VARIABLES
    status,     \* "off", "set" or "rung"
    asked,      \* the ticks an alarm was set for
    age         \* the ticks since then

avars == <<status, asked, age>>

Init ==
    /\ status = [a \in Alarm |-> "off"]
    /\ asked = [a \in Alarm |-> 0]
    /\ age = [a \in Alarm |-> 0]

Set(a, d) ==
    /\ status[a] = "off"
    /\ status' = [status EXCEPT ![a] = "set"]
    /\ asked' = [asked EXCEPT ![a] = d]
    /\ age' = [age EXCEPT ![a] = 0]

(* Time does not pass an alarm that has to ring.                           *)
Tick ==
    /\ \A a \in Alarm : status[a] = "set" => age[a] < asked[a] + Slack
    /\ age' = [a \in Alarm |-> IF status[a] = "set" THEN age[a] + 1 ELSE age[a]]
    /\ UNCHANGED <<status, asked>>

Ring(a) ==
    /\ status[a] = "set"
    /\ age[a] >= asked[a]
    /\ status' = [status EXCEPT ![a] = "rung"]
    /\ UNCHANGED <<asked, age>>

TurnOff(a) ==
    /\ status[a] = "rung"
    /\ status' = [status EXCEPT ![a] = "off"]
    /\ asked' = [asked EXCEPT ![a] = 0]
    /\ age' = [age EXCEPT ![a] = 0]

Next == Tick \/ \E a \in Alarm : Ring(a) \/ TurnOff(a) \/ \E d \in Times : Set(a, d)

Spec == Init /\ [][Next]_avars
=============================================================================
