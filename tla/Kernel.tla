------------------------------- MODULE Kernel -------------------------------
(***************************************************************************)
(* The RTX kernel: the scheduler and the messaging primitives of kernel.c  *)
(* and ProcessSwitch.c, called by any well-behaved user processes and      *)
(* interrupted by the i-processes of iproc.c.                              *)
(*                                                                         *)
(* A user primitive brackets its kernel primitive with atomic(ON) and      *)
(* atomic(OFF), so one kernel section is one action here; process_switch   *)
(* ends a section, and a process it suspends goes on in an action of its   *)
(* own when it is dispatched again.  An i-process runs in a signal handler *)
(* on top of whatever it interrupted.  Its own calls of receive_message    *)
(* and send_message turn atomicity off, so from its first kernel call on   *)
(* it can be interrupted again: a handler is one action per kernel call.   *)
(* Behind process_switch the section is over although the primitive is     *)
(* not: a process that was suspended in k_receive_message dequeues with no *)
(* signal blocked, while a handler may send to its queue.  That dequeue is *)
(* taken apart here (ResumeReceive, StoreHead, StoreTail); how atomic and  *)
(* the handlers share their flags is the subject of module Atomic.         *)
(***************************************************************************)
EXTENDS Integers, Sequences, LinkQueue

CONSTANTS
    TOTAL_NUM_PROC,     \* user processes, the null process included
    TOTAL_NUM_IPROC,    \* i-processes
    NUM_ENV,            \* envelopes allocated by init_env (1024)
    Priority,           \* priority column of the initialization table
    BootPid,            \* the process main starts (6)
    NullProcs,          \* the processes whose program is null_process
    ChangesAllowed,     \* the <<priority, pid>> change_priority is called with
    MaxNest             \* bound: handlers on the signal stack at once

PID     == 0 .. TOTAL_NUM_PROC + TOTAL_NUM_IPROC - 1
Iproc   == 0 .. TOTAL_NUM_IPROC - 1
User    == TOTAL_NUM_IPROC .. TOTAL_NUM_PROC + TOTAL_NUM_IPROC - 1
NULLPID == TOTAL_NUM_PROC + TOTAL_NUM_IPROC - 1
Client  == User \ NullProcs
Env     == 1 .. NUM_ENV

(* The PCB queues: the ready queues pointer_2_RPQ[0..3] by their index.    *)
Level               == 0 .. 3
blocked_on_envelope == 4
PcbQueue            == Level \cup {blocked_on_envelope}

(* The envelope queues: receive_msg_Q by the pid of its process.           *)
envelope_q == TOTAL_NUM_PROC + TOTAL_NUM_IPROC
EnvQueue   == PID \cup {envelope_q}

ASSUME SizeAssumption ==
    /\ TOTAL_NUM_PROC \in Nat \ {0}
    /\ TOTAL_NUM_IPROC \in Nat
    /\ NUM_ENV \in Nat \ {0}
    /\ MaxNest \in Nat
ASSUME NullAssumption == NULL \notin Int
ASSUME TableAssumption ==
    /\ Priority \in [User -> Level]
    /\ NullProcs \subseteq User
    /\ NULLPID \in NullProcs
    /\ ChangesAllowed \subseteq Level \X (User \ {NULLPID})
    /\ BootPid \in User
    /\ \A p \in User : Priority[p] = Priority[BootPid] => BootPid <= p

VARIABLES
    curr_process,   \* pid of the PCB curr_process points to
    state,          \* PCB.state of the user processes
    priority,       \* PCB.priority of the user processes
    pcbs,           \* the store of the PCB queues
    envs,           \* the store of the envelope queues
    sender_id,      \* msg_env.sender_id
    held,           \* the envelopes a user program has and may use
    at,             \* where the program of a user process is
    frames,         \* the stack of signal handlers
    lost,           \* envelopes dropped by a handler, or sent to a process
                    \* in the middle of its dequeue (history)
    fault           \* "none", or how the RTX stopped

vars == <<curr_process, state, priority, pcbs, envs, sender_id, held, at,
          frames, lost, fault>>

(* at[p]: "user" in its own code, "receive" or "request" behind the call   *)
(* of process_switch in k_receive_message or k_request_msg_env, "taking"   *)
(* and "emptied" inside the dequeue that follows the first of them,        *)
(* "drained" in null_process between its drain loop and release_processor. *)
Place == {"user", "receive", "request", "taking", "emptied", "drained"}

Frame == [ pid : Iproc, interrupted : PID, env : Env \cup {NULL} ]

-----------------------------------------------------------------------------
First(S) == IF S = {} THEN NULL ELSE CHOOSE n \in S : \A m \in S : n <= m
Last(S)  == IF S = {} THEN NULL ELSE CHOOSE n \in S : \A m \in S : m <= n

(* init_processes puts every user process on its ready queue in the order  *)
(* of the pids, and main takes the one it starts off the head again.       *)
Waiting(q) == { p \in User \ {BootPid} : q \in Level /\ Priority[p] = q }

InitPcbs ==
    [ head |-> [q \in PcbQueue |-> First(Waiting(q))],
      tail |-> [q \in PcbQueue |-> Last(Waiting(q))],
      p    |-> [n \in User |-> First({ m \in Waiting(Priority[n]) : m > n /\ n # BootPid })] ]

(* init_env links all envelopes into envelope_q.                           *)
InitEnvs ==
    [ head |-> [q \in EnvQueue |-> IF q = envelope_q THEN 1 ELSE NULL],
      tail |-> [q \in EnvQueue |-> IF q = envelope_q THEN NUM_ENV ELSE NULL],
      p    |-> [e \in Env |-> IF e = NUM_ENV THEN NULL ELSE e + 1] ]

Init ==
    /\ curr_process = BootPid
    /\ state = [p \in User |-> IF p = BootPid THEN "RUNNING" ELSE "READY"]
    /\ priority = Priority
    /\ pcbs = InitPcbs
    /\ envs = InitEnvs
    /\ sender_id = [e \in Env |-> -1]
    /\ held = [p \in User |-> {}]
    /\ at = [p \in User |-> "user"]
    /\ frames = <<>>
    /\ lost = {}
    /\ fault = "none"

-----------------------------------------------------------------------------
(* Process switching                                                       *)

(* Mutant of process_switch: the new process is not marked RUNNING.        *)
process_switch_Unmarked(st, q, resume, otherwise) ==
    LET ready == { l \in Level : q.head[l] # NULL }
    IN  /\ at' = [at EXCEPT ![curr_process] = resume]
        /\ ready # {}
        /\ state' = st
        /\ pcbs' = PCB_DEQ(q, First(ready))
        /\ curr_process' = q.head[First(ready)]
        /\ UNCHANGED fault

(* Mutant of process_switch: the levels are tried from 3 to 0.             *)
process_switch_Lowest(st, q, resume, otherwise) ==
    LET ready == { l \in Level : q.head[l] # NULL }
        new   == q.head[Last(ready)]
        old   == IF st[curr_process] = "RUNNING" THEN "READY" ELSE st[curr_process]
    IN  /\ at' = [at EXCEPT ![curr_process] = resume]
        /\ ready # {}
        /\ state' = [st EXCEPT ![curr_process] = old, ![new] = "RUNNING"]
        /\ pcbs' = PCB_DEQ(q, Last(ready))
        /\ curr_process' = new
        /\ UNCHANGED fault

(* process_switch, called when the process states are st and the ready     *)
(* queues q: dispatch the head of the first ready queue that is not empty. *)
(* With nothing ready it returns to its caller, whose fate is otherwise;   *)
(* if the caller goes on behind the switch it is at resume.                *)
process_switch(st, q, resume, otherwise) ==
    LET ready == { l \in Level : q.head[l] # NULL }
        level == First(ready)
        new   == q.head[level]
        old   == IF st[curr_process] = "RUNNING" THEN "READY" ELSE st[curr_process]
    IN  /\ at' = [at EXCEPT ![curr_process] = resume]
        /\ IF ready = {}
           THEN /\ state' = st
                /\ pcbs' = q
                /\ fault' = otherwise
                /\ UNCHANGED curr_process
           ELSE /\ state' = [st EXCEPT ![curr_process] = old, ![new] = "RUNNING"]
                /\ pcbs' = PCB_DEQ(q, level)
                /\ curr_process' = new
                /\ UNCHANGED fault

(* A user program executes: no handler is on the stack.                    *)
Runs(p) == fault = "none" /\ frames = <<>> /\ curr_process = p

-----------------------------------------------------------------------------
(* Envelopes                                                               *)

(* k_request_msg_env.  Its loop tests the pool again each time the process *)
(* is dispatched after being blocked.                                      *)
RequestEnv(p) ==
    /\ Runs(p)
    /\ at[p] = "request" \/ (at[p] = "user" /\ p \in Client)
    /\ LET e == envs.head[envelope_q]
       IN IF e # NULL
          THEN /\ envs' = env_DEQ(envs, envelope_q)
               /\ held' = [held EXCEPT ![p] = @ \cup {e}]
               /\ at' = [at EXCEPT ![p] = "user"]
               /\ UNCHANGED <<curr_process, state, pcbs, fault>>
          ELSE /\ process_switch([state EXCEPT ![p] = "BLK_ON_ENV"],
                                 PCB_ENQ(pcbs, blocked_on_envelope, p),
                                 "request", "spin")
               /\ UNCHANGED <<envs, held>>
    /\ UNCHANGED <<priority, sender_id, frames, lost>>

(* Mutant of ReleaseEnv: no process is woken.                              *)
ReleaseEnv_Silent(p, e) ==
    /\ Runs(p) /\ at[p] = "user"
    /\ e \in held[p]
    /\ held' = [held EXCEPT ![p] = @ \ {e}]
    /\ envs' = env_ENQ(envs, envelope_q, e)
    /\ UNCHANGED <<curr_process, state, pcbs, priority, sender_id, at, frames,
                   lost, fault>>

(* k_release_msg_env: the first blocked process is made ready.  It is not  *)
(* given the envelope.                                                     *)
k_release_msg_env(e) ==
    /\ envs' = env_ENQ(envs, envelope_q, e)
    /\ LET temp == pcbs.head[blocked_on_envelope]
       IN IF temp # NULL
          THEN /\ state' = [state EXCEPT ![temp] = "READY"]
               /\ pcbs' = PCB_ENQ(PCB_DEQ(pcbs, blocked_on_envelope), priority[temp], temp)
          ELSE UNCHANGED <<state, pcbs>>

ReleaseEnv(p, e) ==
    /\ Runs(p) /\ at[p] = "user"
    /\ e \in held[p]
    /\ held' = [held EXCEPT ![p] = @ \ {e}]
    /\ k_release_msg_env(e)
    /\ UNCHANGED <<curr_process, priority, sender_id, at, frames, lost, fault>>

-----------------------------------------------------------------------------
(* Messages                                                                *)

(* Mutant of k_send_message: the target is not woken.                      *)
k_send_message_Silent(dest_id, e) ==
    /\ sender_id' = [sender_id EXCEPT ![e] = curr_process]
    /\ envs' = env_ENQ(envs, dest_id, e)
    /\ UNCHANGED <<pcbs, state>>

(* Mutant of k_send_message: the envelope goes to the queue of the sender. *)
k_send_message_ToSender(dest_id, e) ==
    /\ sender_id' = [sender_id EXCEPT ![e] = curr_process]
    /\ envs' = env_ENQ(envs, curr_process, e)
    /\ IF dest_id \in User /\ state[dest_id] = "BLK_ON_RCV"
       THEN /\ pcbs' = PCB_ENQ(pcbs, priority[dest_id], dest_id)
            /\ state' = [state EXCEPT ![dest_id] = "READY"]
       ELSE UNCHANGED <<pcbs, state>>

(* k_send_message, called by whatever curr_process points to.              *)
k_send_message(dest_id, e) ==
    /\ sender_id' = [sender_id EXCEPT ![e] = curr_process]
    /\ envs' = env_ENQ(envs, dest_id, e)
    /\ IF dest_id \in User /\ state[dest_id] = "BLK_ON_RCV"
       THEN /\ pcbs' = PCB_ENQ(pcbs, priority[dest_id], dest_id)
            /\ state' = [state EXCEPT ![dest_id] = "READY"]
       ELSE UNCHANGED <<pcbs, state>>

(* A queue with messages and without a tail, which env_ENQ dereferences.   *)
NullTail(q) == envs.head[q] # NULL /\ envs.tail[q] = NULL

SendMessage(p, dest_id, e) ==
    /\ Runs(p) /\ at[p] = "user" /\ p \in Client
    /\ e \in held[p]
    /\ ~ NullTail(dest_id)
    /\ k_send_message(dest_id, e)
    /\ held' = [held EXCEPT ![p] = @ \ {e}]
    /\ UNCHANGED <<curr_process, priority, at, frames, lost, fault>>

(* The end of k_receive_message: p takes its oldest message.               *)
TakeMessage(p) ==
    /\ envs' = env_DEQ(envs, p)
    /\ held' = [held EXCEPT ![p] = @ \cup {envs.head[p]}]
    /\ at' = [at EXCEPT ![p] = "user"]
    /\ UNCHANGED <<curr_process, state, pcbs, fault>>

(* Mutant of ReceiveMessage: the queue is not tested.                      *)
ReceiveMessage_Untested(p) ==
    /\ Runs(p) /\ at[p] = "user" /\ p \in Client
    /\ TakeMessage(p)
    /\ UNCHANGED <<priority, sender_id, frames, lost>>

(* k_receive_message called by a user process.  Before it blocks it takes  *)
(* the head off the ready queue of its own priority.                       *)
ReceiveMessage(p) ==
    /\ Runs(p) /\ at[p] = "user" /\ p \in Client
    /\ IF envs.head[p] # NULL
       THEN TakeMessage(p)
       ELSE /\ process_switch([state EXCEPT ![p] = "BLK_ON_RCV"],
                              PCB_DEQ(pcbs, priority[p]), "receive", "null_env")
            /\ UNCHANGED <<envs, held>>
    /\ UNCHANGED <<priority, sender_id, frames, lost>>

(* k_receive_message behind process_switch: it does not test the queue     *)
(* again, and reads the envelope it has dequeued.  No signal is blocked,   *)
(* but a handler only appends: with a second message behind the head the   *)
(* order of its stores and those of env_DEQ does not matter.  Without one  *)
(* env_DEQ has now read the NULL link of the head into tempNext.           *)
ResumeReceive(p) ==
    /\ Runs(p) /\ at[p] = "receive"
    /\ CASE envs.head[p] = NULL ->
               /\ fault' = "null_env"
               /\ UNCHANGED <<curr_process, state, pcbs, envs, held, at>>
         [] envs.head[p] # NULL /\ envs.p[envs.head[p]] # NULL ->
               TakeMessage(p)
         [] OTHER ->
               /\ at' = [at EXCEPT ![p] = "taking"]
               /\ UNCHANGED <<curr_process, state, pcbs, envs, held, fault>>
    /\ UNCHANGED <<priority, sender_id, frames, lost>>

(* queue->head = tempNext: the queue is empty now, whatever was appended   *)
(* to it since tempNext was read.  The test of the new head is part of     *)
(* this step, because a message that arrives between the store and the     *)
(* test is kept, as one that arrives behind the whole dequeue is.          *)
StoreHead(p) ==
    /\ Runs(p) /\ at[p] = "taking"
    /\ LET temp == envs.head[p]
       IN /\ envs' = [envs EXCEPT !.head[p] = NULL, !.p[temp] = NULL]
          /\ held' = [held EXCEPT ![p] = @ \cup {temp}]
          /\ lost' = lost \cup (On(envs, p) \ {temp})
    /\ at' = [at EXCEPT ![p] = "emptied"]
    /\ UNCHANGED <<curr_process, state, priority, pcbs, sender_id, frames, fault>>

(* queue->tail = NULL, which is wrong for a message that has arrived since *)
(* the head was found to be NULL: NullTail.                                *)
StoreTail(p) ==
    /\ Runs(p) /\ at[p] = "emptied"
    /\ envs' = [envs EXCEPT !.tail[p] = NULL]
    /\ at' = [at EXCEPT ![p] = "user"]
    /\ UNCHANGED <<curr_process, state, priority, pcbs, sender_id, held, frames, lost, fault>>

-----------------------------------------------------------------------------
(* The processor                                                           *)

(* Mutant of ReleaseProcessor: the process is not put on a ready queue.    *)
ReleaseProcessor_Unqueued(p) ==
    /\ Runs(p)
    /\ at[p] = "drained" \/ (at[p] = "user" /\ p \in Client)
    /\ process_switch([state EXCEPT ![p] = "READY"], pcbs, "user", "none")
    /\ UNCHANGED <<priority, envs, sender_id, held, frames, lost>>

(* k_release_processor, called by a client or by the null process.         *)
ReleaseProcessor(p) ==
    /\ Runs(p)
    /\ at[p] = "drained" \/ (at[p] = "user" /\ p \in Client)
    /\ process_switch([state EXCEPT ![p] = "READY"],
                      PCB_ENQ(pcbs, priority[p], p), "user", "none")
    /\ UNCHANGED <<priority, envs, sender_id, held, frames, lost>>

(* Mutant of ChangePriority: the process stays on its old ready queue.     *)
ChangePriority_NoRemove(p, new_priority, target) ==
    /\ Runs(p) /\ at[p] = "user" /\ p \in Client
    /\ <<new_priority, target>> \in ChangesAllowed
    /\ priority[target] # new_priority
    /\ priority' = [priority EXCEPT ![target] = new_priority]
    /\ pcbs' = IF state[target] = "READY" THEN PCB_ENQ(pcbs, new_priority, target)
               ELSE pcbs
    /\ UNCHANGED <<curr_process, state, envs, sender_id, held, at, frames, lost, fault>>

(* k_change_priority, past the tests of its arguments.  A process that is  *)
(* not ready only gets its new priority.                                   *)
ChangePriority(p, new_priority, target) ==
    /\ Runs(p) /\ at[p] = "user" /\ p \in Client
    /\ <<new_priority, target>> \in ChangesAllowed
    /\ priority[target] # new_priority
    /\ priority' = [priority EXCEPT ![target] = new_priority]
    /\ pcbs' = IF state[target] = "READY"
               THEN PCB_ENQ(PCB_REMOVE(pcbs, priority[target], target), new_priority, target)
               ELSE pcbs
    /\ UNCHANGED <<curr_process, state, envs, sender_id, held, at, frames, lost, fault>>

(* The drain loop of null_process.  It names process 7 whoever runs it,    *)
(* and its env_DEQ is outside every atomic section.                        *)
NullDrain(p) ==
    /\ Runs(p) /\ at[p] = "user" /\ p \in NullProcs
    /\ held[p] = {}
    /\ LET e == envs.head[NULLPID]
       IN IF e # NULL
          THEN /\ envs' = env_DEQ(envs, NULLPID)
               /\ held' = [held EXCEPT ![p] = {e}]
               /\ UNCHANGED at
          ELSE /\ at' = [at EXCEPT ![p] = "drained"]
               /\ UNCHANGED <<envs, held>>
    /\ UNCHANGED <<curr_process, state, priority, pcbs, sender_id, frames, lost, fault>>

-----------------------------------------------------------------------------
(* I-processes                                                             *)

Top == frames[Len(frames)]

(* A signal starts an i-process, which makes itself curr_process and       *)
(* receives; an i-process is never blocked, so it may get no envelope.     *)
Interrupt(i) ==
    /\ fault = "none"
    /\ Len(frames) < MaxNest
    /\ frames' = Append(frames, [ pid |-> i, interrupted |-> curr_process,
                                  env |-> envs.head[i] ])
    /\ envs' = env_DEQ(envs, i)
    /\ curr_process' = i
    /\ UNCHANGED <<state, priority, pcbs, sender_id, held, at, lost, fault>>

(* kbd_iproc and crt_iproc send the envelope back where it came from.      *)
Reply ==
    /\ fault = "none" /\ frames # <<>>
    /\ Top.env # NULL
    /\ ~ NullTail(sender_id[Top.env])
    /\ k_send_message(sender_id[Top.env], Top.env)
    /\ frames' = [frames EXCEPT ![Len(frames)].env = NULL]
    /\ UNCHANGED <<curr_process, priority, held, at, lost, fault>>

(* The handler restores curr_process and returns.  If the flag of the      *)
(* shared buffer did not allow a transfer the envelope is still there, and *)
(* nothing refers to it any more.                                          *)
Return ==
    /\ fault = "none" /\ frames # <<>>
    /\ curr_process' = Top.interrupted
    /\ lost' = lost \cup ({Top.env} \ {NULL})
    /\ frames' = SubSeq(frames, 1, Len(frames) - 1)
    /\ UNCHANGED <<state, priority, pcbs, envs, sender_id, held, at, fault>>

(* Whoever sends to a queue without a tail writes through a NULL pointer:  *)
(* a client that has an envelope, or the i-process on top of the stack.    *)
SendFaults ==
    /\ fault = "none"
    /\ \/ \E p \in Client, dest_id \in PID :
             Runs(p) /\ at[p] = "user" /\ held[p] # {} /\ NullTail(dest_id)
       \/ frames # <<>> /\ Top.env # NULL /\ NullTail(sender_id[Top.env])
    /\ fault' = "null_tail"
    /\ UNCHANGED <<curr_process, state, priority, pcbs, envs, sender_id, held, at,
                   frames, lost>>

-----------------------------------------------------------------------------
Primitive(p) ==
    \/ RequestEnv(p)
    \/ \E e \in Env : ReleaseEnv(p, e)
    \/ \E e \in Env, dest_id \in PID : SendMessage(p, dest_id, e)
    \/ ReceiveMessage(p)
    \/ ResumeReceive(p) \/ StoreHead(p) \/ StoreTail(p)
    \/ ReleaseProcessor(p)
    \/ \E l \in Level, target \in User : ChangePriority(p, l, target)
    \/ NullDrain(p)

Handler == (\E i \in Iproc : Interrupt(i)) \/ Reply \/ Return

Next == (\E p \in User : Primitive(p)) \/ Handler \/ SendFaults

Spec == Init /\ [][Next]_vars

-----------------------------------------------------------------------------
TypeOK ==
    /\ curr_process \in PID
    /\ state \in [User -> {"RUNNING", "READY", "BLK_ON_ENV", "BLK_ON_RCV"}]
    /\ priority \in [User -> Level]
    /\ pcbs \in Store(User, PcbQueue)
    /\ envs \in Store(Env, EnvQueue)
    /\ sender_id \in [Env -> PID \cup {-1}]
    /\ held \in [User -> SUBSET Env]
    /\ at \in [User -> Place]
    /\ frames \in Seq(Frame)
    /\ lost \subseteq Env
    /\ fault \in {"none", "null_env", "null_tail", "spin", "iproc_blocked"}

(* The user process whose program is running or was interrupted.           *)
Interrupted == IF frames = <<>> THEN curr_process ELSE frames[1].interrupted

(* curr_process survives nested handlers: each handler runs as its own     *)
(* i-process and holds the process it interrupted, down to a user process. *)
FramesNest ==
    /\ Interrupted \in User
    /\ frames # <<>> => curr_process = Top.pid
    /\ \A k \in 2 .. Len(frames) : frames[k].interrupted = frames[k - 1].pid

(* Exactly the interrupted process is RUNNING, however handlers and        *)
(* switches interleave; once the RTX has stopped nothing is claimed.       *)
OneRunning ==
    fault = "none" => \A p \in User : state[p] = "RUNNING" <=> p = Interrupted

(* No lost wakeup: a process blocked on receive has an empty queue.        *)
BlockedHasNoMail ==
    \A p \in User : state[p] = "BLK_ON_RCV" => envs.head[p] = NULL

(* The converse, which env_DEQ behind process_switch relies on: a process  *)
(* that was woken from receive finds a message when it is dispatched.      *)
WokenHasMail ==
    \A p \in User :
        at[p] = "receive" /\ state[p] # "BLK_ON_RCV" => envs.head[p] # NULL

(* The queues and the states agree: a process is on the ready queue of its *)
(* priority, and on no other, exactly while it is READY, and waits on      *)
(* blocked_on_envelope exactly while it is BLK_ON_ENV.                     *)
QueuesMatchStates ==
    /\ \A p \in User, l \in Level :
          p \in On(pcbs, l) <=> state[p] = "READY" /\ priority[p] = l
    /\ On(pcbs, blocked_on_envelope) = { p \in User : state[p] = "BLK_ON_ENV" }

(* While a process waits for an envelope without having been woken, every  *)
(* free envelope is owed to a process that has been: the pool never holds  *)
(* an envelope that nobody will come for.                                  *)
NoEnvelopeIdles ==
    LET woken == { p \in User : at[p] = "request" /\ state[p] # "BLK_ON_ENV" }
    IN  pcbs.head[blocked_on_envelope] # NULL =>
            Cardinality(On(envs, envelope_q)) <= Cardinality(woken)

(* Envelopes are conserved: each is on one queue, in one program or in one *)
(* handler, or is counted as lost, and never in two of these places.  The  *)
(* two losses of the code are the handler that returns with its envelope   *)
(* and the message that meets the unprotected dequeue of its receiver.     *)
Places(e) ==
    { <<"queue", q>> : q \in { r \in EnvQueue : e \in On(envs, r) } }
    \cup { <<"held", p>> : p \in { r \in User : e \in held[r] } }
    \cup { <<"frame", k>> : k \in { j \in DOMAIN frames : frames[j].env = e } }
    \cup { <<"lost", 0>> : l \in { f \in lost : f = e } }

EnvelopesConserved == \A e \in Env : Cardinality(Places(e)) = 1

(* No receiver reads a NULL envelope, and none spins for a ready process.  *)
(* A send to a queue without a tail is not excluded: StoreTail makes such  *)
(* queues.                                                                 *)
NoFault == fault \notin {"null_env", "spin"}

(* The links of the PCB and of the envelope queues form no cycle.          *)
LinksAcyclic == Acyclic(pcbs.p) /\ Acyclic(envs.p)

-----------------------------------------------------------------------------
(* A ready process whose priority is changed is on the ready queue of its  *)
(* new priority afterwards.                                                *)
ChangeRequeues ==
    [][ \A p \in User :
          state[p] = "READY" /\ priority'[p] # priority[p]
          => p \in On(pcbs', priority'[p])
      ]_vars

(* A switch gives the processor to a process of the highest priority that  *)
(* is ready, the process that gives it up included.                        *)
DispatchesHighest ==
    [][ (frames = <<>> /\ frames' = <<>> /\ curr_process' # curr_process)
        => \A p \in User : state'[p] = "READY" => priority[curr_process'] <= priority[p]
      ]_vars

(* A process leaves BLK_ON_RCV only when a message for it is queued, and   *)
(* then it is put behind the processes of its priority that wait already.  *)
WakesBehind ==
    [][ \A p \in User :
          state[p] = "BLK_ON_RCV" /\ state'[p] # "BLK_ON_RCV"
          => /\ state'[p] = "READY"
             /\ envs'.head[p] # NULL
             /\ Chain(pcbs', priority[p]) = Append(Chain(pcbs, priority[p]), p)
      ]_vars

(* Seen through its receive queues alone, the kernel is a Mailbox.  Once   *)
(* env_DEQ has read the link of the last message, what is sent to the      *)
(* process before the head is stored never gets into its mailbox.          *)
Delivered(o) ==
    IF o \in User /\ at[o] = "taking" THEN <<envs.head[o]>> ELSE Chain(envs, o)

Mail == INSTANCE Mailbox WITH
            Owner <- PID, Message <- Env, box <- [o \in PID |-> Delivered(o)]

MailboxSpec == Mail!Spec
=============================================================================
