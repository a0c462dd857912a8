-------------------------------- MODULE RTX --------------------------------
(***************************************************************************)
(* The closed system: the processes main creates, with the programs they   *)
(* run, on the kernel of module Kernel, and the three i-processes of       *)
(* iproc.c with what they do to the messages.  Outside are only the lines  *)
(* that are typed and the passing of seconds.                              *)
(*                                                                         *)
(* Process 6 runs the CCI, 3 and 4 run ProcessA and ProcessB, 5 and 7 run  *)
(* null_process.  A program is a sequence of kernel primitives, so pc[p]   *)
(* names the call that comes next; env[p] is the pointer variable it is    *)
(* made with (env, envA and tempEnv, envB).                                *)
(*                                                                         *)
(* A signal whose handler would find nothing to do (no typed line, no text *)
(* to print, no message and no displayed second) is left out: the handler  *)
(* then leaves behind what it found.                                       *)
(***************************************************************************)
EXTENDS Kernel

CONSTANTS
    Commands,       \* the kinds of line that are typed
    MaxShown,       \* bound: seconds displayed by the clock
    MaxLines        \* bound: lines typed                             

A   == 3
B   == 4
C   == 5
CCI == BootPid

(* What is typed: "cd", "ct", "c", "n" and "s" are themselves, "print"     *)
(* stands for ps, b, e and any text that is no command.                    *)
ASSUME RTXAssumption ==
    /\ Commands \subseteq {"cd", "ct", "c", "n", "s", "print"} /\ NULL \notin Commands
    /\ MaxShown \in Nat /\ MaxLines \in Nat
    /\ {A, B, C} \subseteq User \ {BootPid}
    /\ Client = {A, B, CCI}
    /\ 0 .. 2 \subseteq Iproc

Content == Commands \cup {"blank", "ack"}

VARIABLES
    pc,             \* the call a program makes next
    env,            \* its envelope variable
    first,          \* the CCI's second variable, which it never uses
    content,        \* a command in a CONSOLE_INPUT, or "ack" for a DISPLAY_ACK
    line,           \* the line in the keyboard's buffer, or NULL
    wallClockOut,
    hpc,            \* what the handlers on the stack do next
    shown,          \* seconds sent to the CRT (history)
    posted,         \* envelopes taken by s, and by ps, b, e (history)
    typed,          \* lines typed (history)
    ahead           \* a line was signalled before the text of the last one
                    \* was acknowledged (history)

rtx == <<pc, env, first, content, line, wallClockOut, hpc, shown, posted, typed, ahead>>
all == <<vars, rtx>>

RTXInit ==
    /\ Init
    /\ pc = [p \in Client |-> IF p = CCI THEN "env" ELSE "receive"]
    /\ env = [p \in Client |-> NULL]
    /\ first = NULL
    /\ content = [e \in Env |-> "blank"]
    /\ line = NULL
    /\ wallClockOut = FALSE
    /\ hpc = <<>>
    /\ shown = 0
    /\ posted = [c \in {"s", "print"} |-> 0]
    /\ typed = 0
    /\ ahead = FALSE

-----------------------------------------------------------------------------
(* Calls of the kernel by a program                                        *)

Goto(p, next) == pc' = [pc EXCEPT ![p] = next]

(* A call that returns an envelope: the program goes on once it has it.    *)
(* q is the queue it is taken from.                                        *)
Obtains(p, q, next) ==
    IF at'[p] = "user"
    THEN env' = [env EXCEPT ![p] = envs.head[q]] /\ Goto(p, next)
    ELSE UNCHANGED <<env, pc>>

Requests(p, here, next) ==
    /\ pc[p] = here
    /\ RequestEnv(p)
    /\ Obtains(p, envelope_q, next)
    /\ UNCHANGED <<first, content, line, wallClockOut, hpc, shown, posted, typed, ahead>>

Sends(p, here, dest_id, next) ==
    /\ pc[p] = here
    /\ SendMessage(p, dest_id, env[p])
    /\ Goto(p, next)
    /\ UNCHANGED <<env, first, content, line, wallClockOut, hpc, shown, posted, typed, ahead>>

(* Inside a dequeue that is not atomic it has it with the store of head.   *)
Receives(p, next) ==
    /\ pc[p] = "receive"
    /\ \/ (ReceiveMessage(p) \/ ResumeReceive(p)) /\ Obtains(p, p, next)
       \/ StoreHead(p) /\ env' = [env EXCEPT ![p] = envs.head[p]] /\ UNCHANGED pc
       \/ StoreTail(p) /\ Goto(p, next) /\ UNCHANGED env
    /\ UNCHANGED <<first, content, line, wallClockOut, hpc, shown, posted, typed, ahead>>

Yields(p, next) ==
    /\ pc[p] = "yield"
    /\ ReleaseProcessor(p)
    /\ Goto(p, next)
    /\ UNCHANGED <<env, first, content, line, wallClockOut, hpc, shown, posted, typed, ahead>>

-----------------------------------------------------------------------------
(* The console command interpreter                                         *)

(* The two envelopes it begins with.                                       *)
CCIFirst ==
    /\ pc[CCI] = "first"
    /\ RequestEnv(CCI)
    /\ IF at'[CCI] = "user"
       THEN first' = envs.head[envelope_q] /\ Goto(CCI, "ask")
       ELSE UNCHANGED <<first, pc>>
    /\ UNCHANGED <<env, content, line, wallClockOut, hpc, shown, posted, typed, ahead>>

(* The loop that receives until the message is console input: any other    *)
(* envelope is forgotten.                                                  *)
CCIReceive ==
    LET e == IF at[CCI] = "emptied" THEN env[CCI] ELSE envs.head[CCI]
    IN  Receives(CCI, IF e \in Env /\ content[e] \in Commands THEN "execute" ELSE "receive")

(* cd and ct; c sets the wall clock, which is module Clock's business.     *)
CCIClock ==
    /\ pc[CCI] = "execute" /\ Runs(CCI)
    /\ content[env[CCI]] \in {"cd", "ct", "c"}
    /\ wallClockOut' = CASE content[env[CCI]] = "cd" -> TRUE
                         [] content[env[CCI]] = "ct" -> FALSE
                         [] OTHER -> wallClockOut
    /\ Goto(CCI, "release")
    /\ UNCHANGED <<vars, env, first, content, line, hpc, shown, posted, typed, ahead>>

(* n: an accepted change, or one that changes nothing.                     *)
CCIChange ==
    /\ pc[CCI] = "execute" /\ Runs(CCI)
    /\ content[env[CCI]] = "n"
    /\ \E c \in ChangesAllowed :
          IF priority[c[2]] = c[1] THEN UNCHANGED vars
          ELSE ChangePriority(CCI, c[1], c[2])
    /\ Goto(CCI, "release")
    /\ UNCHANGED <<env, first, content, line, wallClockOut, hpc, shown, posted, typed, ahead>>

(* s, ps, b, e and lines that are no command overwrite env, the only       *)
(* reference to the envelope of the line, with a new envelope.             *)
CCIRenew(command, next) ==
    /\ pc[CCI] = "execute"
    /\ content[env[CCI]] = command
    /\ RequestEnv(CCI)
    /\ Obtains(CCI, envelope_q, next)
    /\ posted' = IF at'[CCI] = "user" THEN [posted EXCEPT ![command] = @ + 1] ELSE posted
    /\ UNCHANGED <<first, content, line, wallClockOut, hpc, shown, typed, ahead>>

(* Mutant of CCIRelease: the envelope of the line is not given back.       *)
CCIRelease_Skipped ==
    /\ pc[CCI] = "release" /\ Runs(CCI)
    /\ Goto(CCI, "renew")
    /\ UNCHANGED <<vars, env, first, content, line, wallClockOut, hpc, shown, posted, typed, ahead>>

(* release_msg_env(env), whatever env points to: after s, ps, b and e it   *)
(* is an envelope that has just been sent.                                 *)
CCIRelease ==
    /\ pc[CCI] = "release" /\ Runs(CCI)
    /\ k_release_msg_env(env[CCI])
    /\ held' = [held EXCEPT ![CCI] = @ \ {env[CCI]}]
    /\ Goto(CCI, "renew")
    /\ UNCHANGED <<curr_process, priority, sender_id, at, frames, lost, fault,
                   env, first, content, line, wallClockOut, hpc, shown, posted, typed, ahead>>

CCIStep ==
    \/ Requests(CCI, "env", "first")
    \/ CCIFirst
    \/ Sends(CCI, "ask", 0, "receive")
    \/ CCIReceive
    \/ CCIClock
    \/ CCIChange
    \/ CCIRenew("s", "start")
    \/ CCIRenew("print", "print")
    \/ Sends(CCI, "start", A, "release")
    \/ Sends(CCI, "print", 1, "release")
    \/ CCIRelease
    \/ Requests(CCI, "renew", "yield")
    \/ Yields(CCI, "ask")

-----------------------------------------------------------------------------
(* Processes A and B and the null processes                                *)

(* A sends the envelope it was started with to the keyboard, as a request, *)
(* and then takes the head off its own queue, outside any atomic section.  *)
(* The envelope found there is forgotten, with or without another behind.  *)
ADequeue ==
    /\ pc[A] = "dequeue"
    /\ \/ /\ Runs(A) /\ at[A] = "user"
          /\ IF envs.head[A] # NULL /\ envs.p[envs.head[A]] = NULL
             THEN at' = [at EXCEPT ![A] = "taking"] /\ UNCHANGED <<envs, env, pc>>
             ELSE /\ envs' = env_DEQ(envs, A)
                  /\ env' = [env EXCEPT ![A] = envs.head[A]]
                  /\ Goto(A, "request")
                  /\ UNCHANGED at
          /\ UNCHANGED <<curr_process, state, priority, pcbs, sender_id, held, frames, lost, fault>>
       \/ StoreHead(A) /\ env' = [env EXCEPT ![A] = envs.head[A]] /\ UNCHANGED pc
       \/ StoreTail(A) /\ Goto(A, "request") /\ UNCHANGED env
    /\ UNCHANGED <<first, content, line, wallClockOut, hpc, shown, posted, typed, ahead>>

AStep ==
    \/ Receives(A, "console")
    \/ Sends(A, "console", 0, "dequeue")
    \/ ADequeue
    \/ Requests(A, "request", "send")
    \/ Sends(A, "send", B, "yield")
    \/ Yields(A, "request")

BStep ==
    \/ Receives(B, "send")
    \/ Sends(B, "send", C, "yield")
    \/ Yields(B, "receive")

(* Nothing is ever sent to process 7, so the drain loop finds nothing.     *)
NullStep == \E p \in NullProcs : (NullDrain(p) \/ ReleaseProcessor(p)) /\ UNCHANGED rtx

Program == CCIStep \/ AStep \/ BStep \/ NullStep

-----------------------------------------------------------------------------
(* The i-processes                                                         *)

Calls(next) == hpc' = [hpc EXCEPT ![Len(hpc)] = next]
Doing(i, here) == frames # <<>> /\ Top.pid = i /\ hpc[Len(hpc)] = here
Idle(i) == \A k \in DOMAIN frames : frames[k].pid # i

(* What the CCI had to print for the last line has been printed, and it    *)
(* has taken the acknowledgement.                                          *)
LastTextAcknowledged ==
    /\ \A e \in On(envs, 1) : sender_id[e] # CCI
    /\ \A k \in DOMAIN frames : frames[k].pid = 1 /\ frames[k].env # NULL
                               => sender_id[frames[k].env] # CCI
    /\ \A e \in On(envs, CCI) : content[e] # "ack"
    /\ at[CCI] = "emptied" => content[env[CCI]] # "ack"

(* kbd_iproc: signalled once for each line, whatever the CCI is doing.     *)
KbdSignal ==
    /\ line # NULL /\ Idle(0)
    /\ Interrupt(0)
    /\ hpc' = Append(hpc, "transfer")
    /\ ahead' = (ahead \/ ~ LastTextAcknowledged)
    /\ UNCHANGED <<pc, env, first, content, line, wallClockOut, shown, posted, typed>>

(* Mutant of KbdTransfer: msg_type is not set to CONSOLE_INPUT.            *)
KbdTransfer_Untyped ==
    /\ Doing(0, "transfer") /\ Top.env # NULL
    /\ line' = NULL
    /\ Reply
    /\ Calls("return")
    /\ UNCHANGED <<pc, env, first, content, wallClockOut, shown, posted, typed, ahead>>

KbdTransfer ==
    /\ Doing(0, "transfer") /\ Top.env # NULL
    /\ content' = [content EXCEPT ![Top.env] = line]
    /\ line' = NULL
    /\ Reply
    /\ Calls("return")
    /\ UNCHANGED <<pc, env, first, wallClockOut, shown, posted, typed, ahead>>

(* Without a request the flag is cleared, and the line is gone.            *)
KbdDrop ==
    /\ Doing(0, "transfer") /\ Top.env = NULL
    /\ line' = NULL
    /\ Return
    /\ hpc' = SubSeq(hpc, 1, Len(hpc) - 1)
    /\ UNCHANGED <<pc, env, first, content, wallClockOut, shown, posted, typed, ahead>>

(* crt_iproc: the child signals every 100 ms while its flag is down, and   *)
(* does not test the flag again between its sleep and its kill.  When the  *)
(* flag is up is the business of module Devices: here every signal may     *)
(* find it up or down.                                                     *)
CrtSignal ==
    /\ envs.head[1] # NULL /\ Idle(1)
    /\ Interrupt(1)
    /\ hpc' = Append(hpc, "transfer")
    /\ UNCHANGED <<pc, env, first, content, line, wallClockOut, shown, posted, typed, ahead>>

CrtTransfer ==
    /\ Doing(1, "transfer") /\ Top.env # NULL
    /\ content' = [content EXCEPT ![Top.env] = "ack"]
    /\ Reply
    /\ Calls("return")
    /\ UNCHANGED <<pc, env, first, line, wallClockOut, shown, posted, typed, ahead>>

(* With the flag up the handler returns with the envelope: the text and    *)
(* its acknowledgement are gone.                                           *)
CrtDrop ==
    /\ Doing(1, "transfer") /\ Top.env # NULL
    /\ Return
    /\ hpc' = SubSeq(hpc, 1, Len(hpc) - 1)
    /\ UNCHANGED <<pc, env, first, content, line, wallClockOut, shown, posted, typed, ahead>>

(* timer_iproc with something to do: a second to display, or a message.    *)
TimerSignal ==
    /\ fault = "none" /\ Len(frames) < MaxNest /\ Idle(2)
    /\ frames' = Append(frames, [ pid |-> 2, interrupted |-> curr_process, env |-> NULL ])
    /\ curr_process' = 2
    /\ \/ wallClockOut /\ shown < MaxShown /\ hpc' = Append(hpc, "clock_out")
       \/ envs.head[2] # NULL /\ hpc' = Append(hpc, "receive")
    /\ UNCHANGED <<state, priority, pcbs, envs, sender_id, held, at, lost, fault,
                   pc, env, first, content, line, wallClockOut, shown, posted, typed, ahead>>

(* Mutant of ClockRequest: clock_out gives up behind request_msg_env, as   *)
(* it does without memory, each time.                                      *)
ClockRequest_GivesUp ==
    /\ fault = "none" /\ Doing(2, "clock_out")
    /\ envs' = env_DEQ(envs, envelope_q)
    /\ Calls("receive")
    /\ UNCHANGED <<curr_process, state, priority, pcbs, sender_id, held, at, frames, lost, fault,
                   pc, env, first, content, line, wallClockOut, shown, posted, typed, ahead>>

(* clock_out asks for an envelope.  k_request_msg_env does not ask who     *)
(* called: with an empty pool it blocks the i-process, whose priority is   *)
(* -1, and switches to a user process inside the signal handler.           *)
ClockRequest ==
    /\ fault = "none" /\ Doing(2, "clock_out")
    /\ LET e == envs.head[envelope_q]
       IN IF e = NULL THEN fault' = "iproc_blocked" /\ UNCHANGED <<envs, frames, hpc>>
          ELSE /\ envs' = env_DEQ(envs, envelope_q)
               /\ frames' = [frames EXCEPT ![Len(frames)].env = e]
               /\ Calls("display")
               /\ UNCHANGED fault
    /\ UNCHANGED <<curr_process, state, priority, pcbs, sender_id, held, at, lost,
                   pc, env, first, content, line, wallClockOut, shown, posted, typed, ahead>>

ClockSend ==
    /\ fault = "none" /\ Doing(2, "display")
    /\ k_send_message(1, Top.env)
    /\ frames' = [frames EXCEPT ![Len(frames)].env = NULL]
    /\ shown' = shown + 1
    /\ Calls("receive")
    /\ UNCHANGED <<curr_process, priority, held, at, lost, fault,
                   pc, env, first, content, line, wallClockOut, posted, typed, ahead>>

(* A message that is no delay request, as every acknowledgement of a       *)
(* displayed second, is forgotten.                                         *)
TimerReceive ==
    /\ fault = "none" /\ Doing(2, "receive")
    /\ frames' = [frames EXCEPT ![Len(frames)].env = envs.head[2]]
    /\ envs' = env_DEQ(envs, 2)
    /\ Calls("return")
    /\ UNCHANGED <<curr_process, state, priority, pcbs, sender_id, held, at, lost, fault,
                   pc, env, first, content, line, wallClockOut, shown, posted, typed, ahead>>

HandlerReturn ==
    /\ frames # <<>> /\ hpc[Len(hpc)] = "return"
    /\ Return
    /\ hpc' = SubSeq(hpc, 1, Len(hpc) - 1)
    /\ UNCHANGED <<pc, env, first, content, line, wallClockOut, shown, posted, typed, ahead>>

HandlerStep ==
    \/ KbdTransfer \/ KbdDrop \/ CrtTransfer \/ CrtDrop
    \/ ClockRequest \/ ClockSend \/ TimerReceive
    \/ HandlerReturn

Signal == KbdSignal \/ CrtSignal \/ TimerSignal

(* A send to a queue without a tail, by the program that runs or by the    *)
(* handler on top.                                                         *)
SendsNowhere ==
    /\ \/ \E s \in { <<CCI, "ask", 0>>, <<CCI, "start", A>>, <<CCI, "print", 1>>,
                     <<A, "console", 0>>, <<A, "send", B>>, <<B, "send", C>> } :
             Runs(s[1]) /\ at[s[1]] = "user" /\ pc[s[1]] = s[2] /\ NullTail(s[3])
       \/ /\ Doing(0, "transfer") \/ Doing(1, "transfer")
          /\ Top.env # NULL /\ NullTail(sender_id[Top.env])
    /\ SendFaults
    /\ UNCHANGED rtx

(* Somebody types a line.                                                  *)
Type(c) ==
    /\ fault = "none" /\ line = NULL
    /\ typed < MaxLines
    /\ typed' = typed + 1
    /\ line' = c
    /\ UNCHANGED <<vars, pc, env, first, content, wallClockOut, hpc, shown, posted, ahead>>

RTXNext ==
    \/ Program \/ HandlerStep \/ Signal \/ SendsNowhere
    \/ \E c \in Commands : Type(c)

RTXSpec == RTXInit /\ [][RTXNext]_all

-----------------------------------------------------------------------------
(* The program goes on when no handler is on the stack, handlers come to   *)
(* their end, and the signals of the children arrive: a child repeats its  *)
(* signal or has sent it, and handlers take far less than the 100 ms       *)
(* between two ticks.  That lines are typed and seconds pass is not        *)
(* assumed.                                                                *)
Fairness ==
    /\ SF_all(Program)
    /\ WF_all(HandlerStep)
    /\ SF_all(KbdSignal)
    /\ SF_all(CrtSignal)

FairSpec == RTXSpec /\ Fairness

-----------------------------------------------------------------------------
Point == {"env", "first", "ask", "receive", "execute", "start", "print", "release",
          "renew", "yield", "console", "dequeue", "request", "send"}
Call == {"transfer", "clock_out", "display", "receive", "return"}

RTXTypeOK ==
    /\ TypeOK
    /\ pc \in [Client -> Point]
    /\ env \in [Client -> Env \cup {NULL}]
    /\ first \in Env \cup {NULL}
    /\ content \in [Env -> Content]
    /\ line \in Commands \cup {NULL}
    /\ ahead \in BOOLEAN
    /\ wallClockOut \in BOOLEAN
    /\ hpc \in Seq(Call) /\ Len(hpc) = Len(frames)
    /\ shown \in 0 .. MaxShown
    /\ posted \in [{"s", "print"} -> Nat]
    /\ typed \in 0 .. MaxLines

(* The envelopes something in the RTX still points to.                     *)
Referenced ==
    (UNION { On(envs, q) : q \in EnvQueue })
    \cup { env[p] : p \in Client } \cup {first} \cup { frames[k].env : k \in DOMAIN frames }

(* Process A has been sent two envelopes, or takes one.  The second one is *)
(* linked behind the first, which is in the pool again by then, and cuts   *)
(* the pool there.  Once A runs it sends envelopes to process B as long as *)
(* there are any, and nothing comes back.                                  *)
Flooded == pc[A] # "receive" \/ at[A] \in {"taking", "emptied"} \/ posted["s"] > 1

(* A line typed ahead, while the text of the last command is on its way:   *)
(* the envelope of the text, which is in the pool again, may be taken and  *)
(* linked behind another, and a line or an acknowledgement may be sent     *)
(* into the dequeue of the CCI.  Nothing in the code prevents that; what   *)
(* the RTX promises about its envelopes it promises without it.            *)
Excused == Flooded \/ ahead

Spent == shown + posted["s"] + posted["print"]

(* Only two things cost an envelope for good, and each costs one: a second *)
(* on its way to the CRT, whose acknowledgement the timer forgets, and a   *)
(* command that overwrites the CCI's pointer.  cd, ct, c, n, lines that    *)
(* find no request, texts that crt_iproc drops and every interleaving of   *)
(* the handlers are free, as long as no line is typed ahead.               *)
EnvelopeBudget == Excused \/ Cardinality(Env \ Referenced) <= Spent

(* The pool is not empty when the timer or the CCI needs an envelope,      *)
(* unless all envelopes but the two of the CCI are spent.                  *)
PoolLasts ==
    fault = "iproc_blocked" \/ state[CCI] = "BLK_ON_ENV" => Excused \/ Spent >= NUM_ENV - 2

(* That is the only way in which the RTX comes to a stop, the timer        *)
(* blocked in its handler or the CCI blocked on an envelope, as long as    *)
(* the null processes stay on the ready queues: with the priorities of the *)
(* table, and after the change of MCRTX.  No receiver reads NULL whatever  *)
(* is typed; a send to a queue without a tail takes a line typed ahead, or *)
(* process A.                                                              *)
StopsOnlyWhenSpent ==
    /\ fault \notin {"null_env", "spin"}
    /\ fault = "null_tail" => Excused \/ Spent >= NUM_ENV - 2
    /\ PoolLasts

(* The console is never deaf: while the CCI waits for a line, a request of *)
(* its is at the keyboard or in the hands of kbd_iproc.  Acknowledgements  *)
(* of what it printed pass through the same queue in between, or are lost  *)
(* with a text that is dropped.                                            *)
ConsoleHasRequest ==
    state[CCI] = "BLK_ON_RCV" /\ ~Excused /\ Spent < NUM_ENV - 2
    => \/ \E e \in On(envs, 0) : sender_id[e] = CCI
       \/ \E k \in DOMAIN frames : frames[k].pid = 0 /\ frames[k].env # NULL

(* With the priorities of the table, processes 3, 4 and 7 never get the    *)
(* processor, whatever is typed: process 5 runs null_process at level 1    *)
(* and is always ready.                                                    *)
LowLevelsStarve == priority = Priority => Interrupted \in {CCI, C}

(* A line that is typed while the CCI waits is executed.                   *)
ConsoleAnswers ==
    (state[CCI] = "BLK_ON_RCV" /\ line # NULL)
    ~> (pc[CCI] = "execute" \/ Excused \/ Spent >= NUM_ENV - 2)

(* After each command the console waits for a line again.                  *)
ConsoleReturns ==
    (pc[CCI] = "execute") ~> (state[CCI] = "BLK_ON_RCV" \/ Excused \/ Spent >= NUM_ENV - 2)
=============================================================================
