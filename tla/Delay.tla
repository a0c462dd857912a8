------------------------------- MODULE Delay -------------------------------
(***************************************************************************)
(* Delays: request_delay of kernel.c sends an envelope to the timer        *)
(* i-process, which keeps it on sleep_Q, counts it down on every tick and  *)
(* sends it back.  timer_iproc calls receive_message before it touches     *)
(* sleep_Q; from then on nothing is blocked, and a tick that comes before  *)
(* the handler has returned starts a second traversal inside the first.    *)
(***************************************************************************)
EXTENDS Integers, Sequences, LinkQueue

CONSTANTS
    Proc,       \* the processes that ask for delays
    Env,        \* their envelopes
    Holder,     \* the process that has taken an envelope from the pool
    Delays,     \* the delays they ask for, in ticks of 100 ms
    InOrder,    \* TRUE: no delay is to end before one asked for earlier
    MaxNest     \* bound: timer handlers on the signal stack at once

Timer == "timer"        \* receive_msg_Q of process 2, and its pid
Sleep == "sleep_Q"
Queue == Proc \cup {Timer, Sleep}

ASSUME DelayAssumption ==
    /\ IsFiniteSet(Env)
    /\ Holder \in [Env -> Proc]
    /\ Delays \subseteq Nat
    /\ InOrder \in BOOLEAN
    /\ MaxNest \in Nat \ {0}
    /\ NULL \notin Env \cup Proc
    /\ {Timer, Sleep} \cap Proc = {}

VARIABLES
    envs,       \* the store of the envelope queues
    sender_id,
    msg_type,   \* WAKEUP, or another wakeup code
    msg_text,   \* the ticks that are left
    held,       \* the envelopes a process has
    frames,     \* the stack of timer handlers
    fault,      \* a handler has dereferenced NULL
    alarm       \* status, asked and age of each envelope's delay (history);
                \* bound: ages are counted until the delay is overdue

vars == <<envs, sender_id, msg_type, msg_text, held, frames, fault, alarm>>

Init ==
    /\ envs = EmptyStore(Env, Queue)
    /\ sender_id = [e \in Env |-> NULL]
    /\ msg_type = [e \in Env |-> "NO_TYPE"]
    /\ msg_text = [e \in Env |-> 0]
    /\ held = [p \in Proc |-> { e \in Env : Holder[e] = p }]
    /\ frames = <<>>
    /\ fault = FALSE
    /\ alarm = [ status |-> [e \in Env |-> "off"],
                 asked |-> [e \in Env |-> 0], age |-> [e \in Env |-> 0] ]

-----------------------------------------------------------------------------
(* The first tick that sees a request counts it down, so a delay of 0 ends *)
(* with the same tick as a delay of 1.                                     *)
Ticks(d) == IF d = 0 THEN 1 ELSE d

Waiting == { e \in Env : alarm.status[e] = "set" }

(* request_delay sends its envelope to the timer and returns: the process  *)
(* goes on, and may ask for more.  No handler runs while a process does.   *)
request_delay(p, e, d, wakeup_code) ==
    /\ frames = <<>> /\ ~fault
    /\ e \in held[p]
    /\ InOrder => \A w \in Waiting : Ticks(msg_text[w]) <= Ticks(d)
    /\ sender_id' = [sender_id EXCEPT ![e] = p]
    /\ msg_type' = [msg_type EXCEPT ![e] = wakeup_code]
    /\ msg_text' = [msg_text EXCEPT ![e] = d]
    /\ envs' = env_ENQ(envs, Timer, e)
    /\ held' = [held EXCEPT ![p] = @ \ {e}]
    /\ alarm' = IF wakeup_code # "WAKEUP" THEN alarm
                ELSE [alarm EXCEPT !.status[e] = "set", !.asked[e] = Ticks(d), !.age[e] = 0]
    /\ UNCHANGED <<frames, fault>>

receive_message(p) ==
    /\ frames = <<>> /\ ~fault
    /\ LET e == envs.head[p]
       IN  /\ e # NULL
           /\ held' = [held EXCEPT ![p] = @ \cup {e}]
           /\ alarm' = [alarm EXCEPT !.status[e] = "off", !.asked[e] = 0, !.age[e] = 0]
    /\ envs' = env_DEQ(envs, p)
    /\ UNCHANGED <<sender_id, msg_type, msg_text, frames, fault>>

-----------------------------------------------------------------------------
Depth == Len(frames)
Top   == frames[Depth]
At(pc) == ~fault /\ frames # <<>> /\ Top.pc = pc

(* The handler up to the end of receive_message: it takes one request, and *)
(* has no further use for an envelope that is not of type WAKEUP.          *)
Tick ==
    /\ ~fault
    /\ Depth < MaxNest
    /\ LET e == envs.head[Timer]
           request == e # NULL /\ msg_type[e] = "WAKEUP"
       IN frames' = Append(frames, [ pc |-> IF request THEN "enqueue" ELSE "start",
                                     env |-> IF request THEN e ELSE NULL,
                                     sleeptraverse |-> NULL, removeid |-> NULL ])
    /\ envs' = env_DEQ(envs, Timer)
    /\ alarm' = [alarm EXCEPT !.age = [ e \in Env |->
                    IF e \in Waiting /\ @[e] < alarm.asked[e] + Cardinality(Env)
                    THEN @[e] + 1 ELSE @[e] ]]
    /\ UNCHANGED <<sender_id, msg_type, msg_text, held, fault>>

EnqueueRequest ==
    /\ At("enqueue")
    /\ envs' = env_ENQ(envs, Sleep, Top.env)
    /\ frames' = [frames EXCEPT ![Depth].pc = "start", ![Depth].env = NULL]
    /\ UNCHANGED <<sender_id, msg_type, msg_text, held, fault, alarm>>

(* The traversal goes to envelope e, or ends.                              *)
Visiting(e) == [ pc |-> IF e = NULL THEN "return" ELSE "visit",
                 env |-> NULL, sleeptraverse |-> e, removeid |-> NULL ]

(* Envelope e is due; the traversal goes on at next.                       *)
Removing(e, next) == [ pc |-> "remove", env |-> e, sleeptraverse |-> next,
                       removeid |-> sender_id[e] ]

StartTraversal ==
    /\ At("start")
    /\ frames' = [frames EXCEPT ![Depth] = Visiting(envs.head[Sleep])]
    /\ UNCHANGED <<envs, sender_id, msg_type, msg_text, held, fault, alarm>>

(* Mutants of Visit: the time is stored before it is tested, or not at     *)
(* all; or the traversal does not save where to go on.                     *)
Visit_StoresFirst ==
    /\ At("visit")
    /\ LET e == Top.sleeptraverse
           sleeptime == msg_text[e] - 1
       IN  /\ msg_text' = [msg_text EXCEPT ![e] = sleeptime]
           /\ frames' = [frames EXCEPT ![Depth] =
                           IF sleeptime > 0 THEN Visiting(envs.p[e])
                           ELSE Removing(e, envs.p[e])]
    /\ UNCHANGED <<envs, sender_id, msg_type, held, fault, alarm>>

Visit_NotStored ==
    /\ At("visit")
    /\ LET e == Top.sleeptraverse
       IN  frames' = [frames EXCEPT ![Depth] =
                        IF msg_text[e] - 1 > 0 THEN Visiting(envs.p[e])
                        ELSE Removing(e, envs.p[e])]
    /\ UNCHANGED <<envs, sender_id, msg_type, msg_text, held, fault, alarm>>

Visit_LosesPlace ==
    /\ At("visit")
    /\ LET e == Top.sleeptraverse
           sleeptime == msg_text[e] - 1
       IN  IF sleeptime > 0
           THEN /\ msg_text' = [msg_text EXCEPT ![e] = sleeptime]
                /\ frames' = [frames EXCEPT ![Depth] = Visiting(envs.p[e])]
           ELSE /\ frames' = [frames EXCEPT ![Depth] =
                                Removing(e, NULL)]
                /\ UNCHANGED msg_text
    /\ UNCHANGED <<envs, sender_id, msg_type, held, fault, alarm>>

(* An envelope that is not due gets its new time back.  Else the traversal *)
(* moves on before the envelope is removed, and removeid keeps its sender. *)
Visit ==
    /\ At("visit")
    /\ LET e == Top.sleeptraverse
           sleeptime == msg_text[e] - 1
       IN  IF sleeptime > 0
           THEN /\ msg_text' = [msg_text EXCEPT ![e] = sleeptime]
                /\ frames' = [frames EXCEPT ![Depth] = Visiting(envs.p[e])]
           ELSE /\ frames' = [frames EXCEPT ![Depth] =
                                Removing(e, envs.p[e])]
                /\ UNCHANGED msg_text
    /\ UNCHANGED <<envs, sender_id, msg_type, held, fault, alarm>>

(* Mutant of Remove: the envelope visited is sent and stays on sleep_Q.    *)
Remove_Skipped ==
    /\ At("remove")
    /\ frames' = [frames EXCEPT ![Depth].pc = "wake"]
    /\ UNCHANGED <<envs, sender_id, msg_type, msg_text, held, fault, alarm>>

(* env_REMOVE takes the first envelope on sleep_Q that has this sender.    *)
Remove ==
    /\ At("remove")
    /\ LET match == { e \in Env : sender_id[e] = Top.removeid }
       IN  /\ envs' = env_REMOVE(envs, Sleep, match)
           /\ frames' = [frames EXCEPT ![Depth].pc = "wake",
                           ![Depth].env = IF On(envs, Sleep) \cap match = {} THEN NULL
                                          ELSE FirstOn(envs, Sleep, match)]
    /\ UNCHANGED <<sender_id, msg_type, msg_text, held, fault, alarm>>

(* send_message to the sender of the envelope that was removed.            *)
Wake ==
    /\ At("wake")
    /\ LET awakened == Top.env
       IN IF awakened = NULL
          THEN /\ fault' = TRUE
               /\ UNCHANGED <<envs, sender_id, frames, alarm>>
          ELSE /\ envs' = env_ENQ(envs, sender_id[awakened], awakened)
               /\ sender_id' = [sender_id EXCEPT ![awakened] = Timer]
               /\ frames' = [frames EXCEPT ![Depth] = Visiting(Top.sleeptraverse)]
               /\ alarm' = [alarm EXCEPT !.status[awakened] = "rung"]
               /\ UNCHANGED fault
    /\ UNCHANGED <<msg_type, msg_text, held>>

Return ==
    /\ At("return")
    /\ frames' = SubSeq(frames, 1, Depth - 1)
    /\ UNCHANGED <<envs, sender_id, msg_type, msg_text, held, fault, alarm>>

-----------------------------------------------------------------------------
timer_iproc == EnqueueRequest \/ StartTraversal \/ Visit \/ Remove \/ Wake \/ Return

Process(p) ==
    \/ receive_message(p)
    \/ \E e \in Env, d \in Delays, code \in {"WAKEUP", "COUNT_REPORT"} :
          request_delay(p, e, d, code)

Next == Tick \/ timer_iproc \/ \E p \in Proc : Process(p)

(* ualarm keeps ticking, and a handler that was started goes on.           *)
Spec == Init /\ [][Next]_vars /\ WF_vars(Tick) /\ WF_vars(timer_iproc)

-----------------------------------------------------------------------------
TypeOK ==
    /\ envs \in Store(Env, Queue)
    /\ sender_id \in [Env -> Proc \cup {Timer, NULL}]
    /\ msg_type \in [Env -> {"NO_TYPE", "WAKEUP", "COUNT_REPORT"}]
    /\ msg_text \in [Env -> Nat]
    /\ held \in [Proc -> SUBSET Env]
    /\ \A k \in DOMAIN frames :
          /\ frames[k].pc \in {"enqueue", "start", "visit", "remove", "wake", "return"}
          /\ {frames[k].env, frames[k].sleeptraverse} \subseteq Env \cup {NULL}
          /\ frames[k].removeid \in Proc \cup {Timer, NULL}
    /\ fault \in BOOLEAN

(* A delay is not forgotten: until it rings its envelope is in the timer's *)
(* queue, on sleep_Q or in the hand of a handler, and in one place only.   *)
DelaysKept ==
    \A e \in Waiting :
        Cardinality({ q \in Queue : e \in On(envs, q) })
        + Cardinality({ k \in DOMAIN frames : frames[k].pc \in {"enqueue", "wake"}
                                              /\ frames[k].env = e }) = 1

(* Delays ring when they are due: not early, and late by at most one tick  *)
(* for every other envelope, because the timer takes one request per tick. *)
Promise == INSTANCE Alarms WITH
              Alarm <- Env, Times <- { Ticks(d) : d \in Delays },
              Slack <- Cardinality(Env) - 1,
              status <- alarm.status, asked <- alarm.asked, age <- alarm.age

AlarmsSpec == Promise!Spec

(* Who sleeps is woken.                                                    *)
SleepersWake == \A e \in Env : alarm.status[e] = "set" ~> alarm.status[e] = "rung"
=============================================================================
