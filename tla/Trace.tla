-------------------------------- MODULE Trace --------------------------------
(***************************************************************************)
(* The trace buffers: k_send_message and k_receive_message each record     *)
(* what they do in an array used as a ring, and k_get_trace_buffers prints *)
(* both.  The recorder counts its indices modulo 15, the printer modulo    *)
(* 16.  A record is the number of the event it records, so the arrays say  *)
(* which events are still known.                                           *)
(***************************************************************************)
EXTENDS Integers, Sequences

CONSTANTS
    Slots,      \* length of send_trace and receive_trace (16)
    Ring,       \* modulus of the recorder's indices (15)
    MaxEvents   \* bound: events per trace

NoEvent == -1   \* what init_msg_trace writes

TraceBuffer ==
    [ slot : [0 .. Slots - 1 -> Nat \cup {NoEvent}],
      start : Nat, end : Nat, counter : Nat ]

VARIABLES
    send,       \* send_trace, send_start, send_end, send_counter
    receive,    \* receive_trace, receive_start, receive_end, receive_counter
    printed     \* what the last call of k_get_trace_buffers printed

vars == <<send, receive, printed>>

init_msg_trace ==
    [ slot |-> [i \in 0 .. Slots - 1 |-> NoEvent],
      start |-> 0, end |-> 0, counter |-> 0 ]

Init ==
    /\ send = init_msg_trace
    /\ receive = init_msg_trace
    /\ printed = [send |-> <<>>, receive |-> <<>>]

(* Record the next event.  The counter is tested after it is incremented.  *)
Record(t) ==
    [ slot    |-> [t.slot EXCEPT ![t.end] = t.counter + 1],
      start   |-> IF t.counter + 1 > Ring THEN (t.start + 1) % Ring ELSE t.start,
      end     |-> (t.end + 1) % Ring,
      counter |-> t.counter + 1 ]

RecordSend ==
    /\ send.counter < MaxEvents
    /\ send' = Record(send)
    /\ UNCHANGED <<receive, printed>>

RecordReceive ==
    /\ receive.counter < MaxEvents
    /\ receive' = Record(receive)
    /\ UNCHANGED <<send, printed>>

(* The loop of k_get_trace_buffers: from start until end is reached.       *)
Dump(t) ==
    [ k \in 1 .. (t.end - t.start) % Slots |-> t.slot[(t.start + k - 1) % Slots] ]

k_get_trace_buffers ==
    /\ printed' = [send |-> Dump(send), receive |-> Dump(receive)]
    /\ UNCHANGED <<send, receive>>

Next == RecordSend \/ RecordReceive \/ k_get_trace_buffers

Spec == Init /\ [][Next]_vars

-----------------------------------------------------------------------------
TypeOK ==
    /\ send \in TraceBuffer /\ receive \in TraceBuffer
    /\ printed \in [send : Seq(Nat \cup {NoEvent}), receive : Seq(Nat \cup {NoEvent})]

(* "Send trace-buffer (from oldest to newest)": a dump shows the last      *)
(* events, as many as the ring holds.                                      *)
DumpShowsRecent ==
    \A t \in {send, receive} :
        Len(Dump(t)) >= (IF t.counter < Ring THEN t.counter ELSE Ring - 1)
=============================================================================
