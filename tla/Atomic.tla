------------------------------- MODULE Atomic -------------------------------
(***************************************************************************)
(* atomic(ON) and atomic(OFF) of kernel.c, at the grain of their system    *)
(* calls: the flag Atom, the signal mask, and the stack of contexts that   *)
(* signals build.  The first context is the user process that has the      *)
(* processor; the others are the handlers kbd_iproc, crt_iproc and         *)
(* timer_iproc.  atomic is a flag and not a counter, so a handler's own    *)
(* calls of user primitives end the section the handler had begun.         *)
(***************************************************************************)
EXTENDS Naturals, Sequences

CONSTANTS
    Signal,     \* SIGUSR1, SIGUSR2, SIGALRM: each names its i-process too
    User,       \* curr_process when it is a user process
    MaxNest     \* bound: handlers on the stack at once

ASSUME UserAssumption == User \notin Signal
ASSUME NestAssumption == MaxNest \in Nat

VARIABLES
    Atom,           \* the flag
    mask,           \* the signals blocked for the RTX process
    curr_process,   \* User, or the i-process that made itself current
    stack           \* the contexts, the one that executes last

vars == <<Atom, mask, curr_process, stack>>

(* pc is a step of atomic ("on_..." and "off_..."; then says where it      *)
(* returns to), or a place in the program:                                 *)
(*   "own"     a user process outside the kernel                           *)
(*   "kernel"  in a kernel primitive                                       *)
(*   "tail"    in a kernel primitive, behind process_switch                *)
(*   "entry", "save", "set", "body", "restore", "exit"   in a handler      *)
Atomics == {"on_test", "on_block", "on_set", "off_test", "off_unblock", "off_set"}
Places  == {"own", "kernel", "tail", "entry", "save", "set", "body", "restore", "exit"}

(* saved is the mask that returning from the handler restores; interrupted *)
(* is the handler's local copy of curr_process.                            *)
Context ==
    [ sig : Signal \cup {User}, pc : Atomics \cup Places, then : Places,
      saved : SUBSET Signal, interrupted : Signal \cup {User} ]

Init ==
    /\ Atom = 0
    /\ mask = {}
    /\ curr_process = User
    /\ stack = << [ sig |-> User, pc |-> "own", then |-> "own",
                    saved |-> {}, interrupted |-> User ] >>

Top == stack[Len(stack)]

At(pc) == Top.pc = pc

Goto(pc) == stack' = [stack EXCEPT ![Len(stack)].pc = pc]

Call(pc, then) ==
    stack' = [stack EXCEPT ![Len(stack)].pc = pc, ![Len(stack)].then = then]

-----------------------------------------------------------------------------
(* Mutant of OnTest: the signals are not blocked.                          *)
OnTest_Unblocked ==
    /\ At("on_test")
    /\ Goto(IF Atom = 0 THEN "on_set" ELSE Top.then)
    /\ UNCHANGED <<Atom, mask, curr_process>>

(* atomic(ON): nothing if Atom is 1; else block the three signals, and     *)
(* then set Atom.                                                          *)
OnTest ==
    /\ At("on_test")
    /\ Goto(IF Atom = 0 THEN "on_block" ELSE Top.then)
    /\ UNCHANGED <<Atom, mask, curr_process>>

OnBlock ==
    /\ At("on_block")
    /\ mask' = mask \cup Signal
    /\ Goto("on_set")
    /\ UNCHANGED <<Atom, curr_process>>

OnSet ==
    /\ At("on_set")
    /\ Atom' = 1
    /\ Goto(Top.then)
    /\ UNCHANGED <<mask, curr_process>>

(* atomic(OFF): nothing if Atom is 0; else set the mask to the empty set,  *)
(* and then clear Atom.                                                    *)
OffTest ==
    /\ At("off_test")
    /\ Goto(IF Atom = 1 THEN "off_unblock" ELSE Top.then)
    /\ UNCHANGED <<Atom, mask, curr_process>>

OffUnblock ==
    /\ At("off_unblock")
    /\ mask' = {}
    /\ Goto("off_set")
    /\ UNCHANGED <<Atom, curr_process>>

(* Mutant of OffSet: Atom counts down, as in the line commented out.       *)
OffSet_Decrement ==
    /\ At("off_set")
    /\ Atom' = Atom - 1
    /\ Goto(Top.then)
    /\ UNCHANGED <<mask, curr_process>>

OffSet ==
    /\ At("off_set")
    /\ Atom' = 0
    /\ Goto(Top.then)
    /\ UNCHANGED <<mask, curr_process>>

-----------------------------------------------------------------------------
(* A user process calls a primitive.                                       *)
UserCall ==
    /\ At("own")
    /\ Call("on_test", "kernel")
    /\ UNCHANGED <<Atom, mask, curr_process>>

(* The kernel primitive returns to the user primitive, which turns         *)
(* atomicity off.  A handler is then behind one of its calls.              *)
KernelReturn ==
    /\ At("kernel") \/ At("tail")
    /\ Call("off_test", IF Top.sig = User THEN "own" ELSE "body")
    /\ UNCHANGED <<Atom, mask, curr_process>>

(* k_receive_message turns atomicity off itself when a handler finds no    *)
(* message, before receive_message does so again.                          *)
ReceiveNothing ==
    /\ At("kernel") /\ Top.sig # User
    /\ Call("off_test", "tail")
    /\ UNCHANGED <<Atom, mask, curr_process>>

(* process_switch turns atomicity off before swapcontext.  The process it  *)
(* dispatches goes on in its own code, or behind its own process_switch.   *)
ProcessSwitch ==
    /\ At("kernel") /\ Top.sig = User
    /\ \E place \in {"own", "tail"} : Call("off_test", place)
    /\ UNCHANGED <<Atom, mask, curr_process>>

(* Behind swapcontext process_switch turns atomicity off once more.        *)
SwitchedBack ==
    /\ At("tail") /\ Top.sig = User
    /\ Call("off_test", "tail")
    /\ UNCHANGED <<Atom, mask, curr_process>>

(* k_request_msg_env finds the pool empty again and calls process_switch,  *)
(* which turns atomicity on.                                               *)
SwitchAgain ==
    /\ At("tail") /\ Top.sig = User
    /\ Call("on_test", "kernel")
    /\ UNCHANGED <<Atom, mask, curr_process>>

-----------------------------------------------------------------------------
(* A signal that is not blocked is delivered: its own signal is blocked    *)
(* while the handler runs, as sigset arranges.                             *)
Deliver(s) ==
    /\ s \notin mask
    /\ Len(stack) <= MaxNest
    /\ stack' = Append(stack, [ sig |-> s, pc |-> "entry", then |-> "entry",
                                saved |-> mask, interrupted |-> User ])
    /\ mask' = mask \cup {s}
    /\ UNCHANGED <<Atom, curr_process>>

HandlerBegin ==
    /\ At("entry")
    /\ Call("on_test", "save")
    /\ UNCHANGED <<Atom, mask, curr_process>>

SaveCurrent ==
    /\ At("save")
    /\ stack' = [stack EXCEPT ![Len(stack)].interrupted = curr_process,
                              ![Len(stack)].pc = "set"]
    /\ UNCHANGED <<Atom, mask, curr_process>>

SetCurrent ==
    /\ At("set")
    /\ curr_process' = Top.sig
    /\ Goto("body")
    /\ UNCHANGED <<Atom, mask>>

(* The handler calls receive_message, send_message or request_msg_env.     *)
HandlerCall ==
    /\ At("body")
    /\ Call("on_test", "kernel")
    /\ UNCHANGED <<Atom, mask, curr_process>>

HandlerDone ==
    /\ At("body")
    /\ Goto("restore")
    /\ UNCHANGED <<Atom, mask, curr_process>>

(* Mutants of RestoreCurrent: the interrupted process is taken to be the   *)
(* user process; the handler returns without atomic(OFF).                  *)
RestoreCurrent_User ==
    /\ At("restore")
    /\ curr_process' = User
    /\ Call("off_test", "exit")
    /\ UNCHANGED <<Atom, mask>>

RestoreCurrent_StillOn ==
    /\ At("restore")
    /\ curr_process' = Top.interrupted
    /\ Goto("exit")
    /\ UNCHANGED <<Atom, mask>>

RestoreCurrent ==
    /\ At("restore")
    /\ curr_process' = Top.interrupted
    /\ Call("off_test", "exit")
    /\ UNCHANGED <<Atom, mask>>

HandlerReturn ==
    /\ At("exit")
    /\ mask' = Top.saved
    /\ stack' = SubSeq(stack, 1, Len(stack) - 1)
    /\ UNCHANGED <<Atom, curr_process>>

-----------------------------------------------------------------------------
atomic == OnTest \/ OnBlock \/ OnSet \/ OffTest \/ OffUnblock \/ OffSet

Program ==
    \/ UserCall \/ KernelReturn \/ ReceiveNothing
    \/ ProcessSwitch \/ SwitchedBack \/ SwitchAgain
    \/ HandlerBegin \/ SaveCurrent \/ SetCurrent
    \/ HandlerCall \/ HandlerDone \/ RestoreCurrent \/ HandlerReturn

Next == atomic \/ Program \/ \E s \in Signal : Deliver(s)

Spec == Init /\ [][Next]_vars

-----------------------------------------------------------------------------
TypeOK ==
    /\ Atom \in {0, 1}
    /\ mask \subseteq Signal
    /\ curr_process \in Signal \cup {User}
    /\ stack \in Seq(Context) /\ stack # <<>>

(* Nothing interrupts the kernel section of a user process up to           *)
(* process_switch: Atom was 0 when the section began, so it blocked the    *)
(* signals, although handlers set and clear the same flag.                 *)
UserSectionAtomic == stack[1].pc = "kernel" => Len(stack) = 1

(* However handlers nest, interrupt one another and return, a context that *)
(* is in the kernel finds itself in curr_process: k_send_message stamps    *)
(* the right sender_id, k_receive_message reads the right queue.           *)
RunsAsItself == At("kernel") \/ At("tail") => curr_process = Top.sig

(* A user process in its own code can always be interrupted: no handler    *)
(* and no primitive leaves the flag set or a signal blocked behind it.     *)
NothingStaysBlocked == Len(stack) = 1 /\ At("own") => Atom = 0 /\ mask = {}
=============================================================================
