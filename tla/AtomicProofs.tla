----------------------------- MODULE AtomicProofs -----------------------------
(***************************************************************************)
(* Proofs about Atomic, for any set of signals and any depth of the signal *)
(* stack: the kernel section of a user process is not interrupted, and a   *)
(* user process outside the kernel can always be.                          *)
(*                                                                         *)
(* Neither is inductive.  The argument is about the flag and the mask when *)
(* the last handler has returned: a handler can be delivered to the user   *)
(* process only at a step where the mask is empty, and when it returns the *)
(* mask is empty again and Atom is 0, whatever it and the handlers that    *)
(* interrupted it have done to the flag.                                   *)
(***************************************************************************)
EXTENDS Atomic, SequenceTheorems, TLAPS

Base == stack[1]

On_  == {"on_test", "on_block", "on_set"}
Off_ == {"off_test", "off_unblock", "off_set"}

(* The steps of a user process at which a signal finds the mask empty.     *)
Open == {"own", "tail", "on_test", "on_block", "off_test", "off_set"}

(* The flag and the mask of a user process at pc without handlers.         *)
Flags(pc, a, m) ==
    /\ pc \in {"own", "tail", "on_test", "on_block"} => a = 0 /\ m = {}
    /\ pc = "on_set" => a = 0 /\ m = Signal
    /\ pc \in {"kernel", "off_unblock"} => a = 1 /\ m = Signal
    /\ pc = "off_test" => (a = 1 /\ m = Signal) \/ (a = 0 /\ m = {})
    /\ pc = "off_set" => m = {}

Alone == Flags(Base.pc, Atom, mask)

(* What the handlers on the stack, if any, will leave behind.              *)
Interrupting ==
    /\ Base.pc \in Open
    /\ stack[2].saved = {}
    /\ Top.pc = "exit" => Atom = 0

Contexts ==
    /\ Base.sig = User
    /\ Base.pc \in {"own", "tail", "kernel"} \cup Atomics
    /\ Base.pc \in On_ => Base.then = "kernel"
    /\ Base.pc \in Off_ => Base.then \in {"own", "tail"}
    /\ \A k \in 2 .. Len(stack) :
          /\ stack[k].sig \in Signal
          /\ stack[k].pc \in On_ => stack[k].then \in {"kernel", "save"}

AtomicInv ==
    /\ TypeOK
    /\ Contexts
    /\ Len(stack) = 1 => Alone
    /\ Len(stack) > 1 => Interrupting
-----------------------------------------------------------------------------
LEMMA InitAtomicInv == Init => AtomicInv
<1> SUFFICES ASSUME Init
             PROVE  AtomicInv
    OBVIOUS
<1> DEFINE c == [ sig |-> User, pc |-> "own", then |-> "own", saved |-> {},
                  interrupted |-> User ]
<1>1. c \in Context
    BY DEF Context, Places
<1>2. stack = <<c>> /\ Len(stack) = 1 /\ stack[1] = c /\ stack \in Seq(Context)
    BY <1>1 DEF Init
<1>3. TypeOK
    BY <1>2 DEF Init, TypeOK
<1>4. Contexts
    BY <1>2 DEF Contexts, Base, On_, Off_
<1>5. Alone
    BY <1>2 DEF Init, Alone, Flags, Base
<1> QED
    BY <1>2, <1>3, <1>4, <1>5 DEF AtomicInv

(* A step that replaces the context that executes leaves the others alone. *)
LEMMA ReplaceTop ==
    ASSUME stack \in Seq(Context), stack # <<>>, NEW c \in Context,
           stack' = [stack EXCEPT ![Len(stack)] = c]
    PROVE  /\ stack' \in Seq(Context) /\ stack' # <<>>
           /\ Len(stack') = Len(stack) /\ Len(stack) \in Nat \ {0}
           /\ stack'[Len(stack)] = c
           /\ \A k \in 1 .. Len(stack) : k # Len(stack) => stack'[k] = stack[k]
<1>1. Len(stack) \in Nat \ {0} /\ DOMAIN stack = 1 .. Len(stack)
    BY EmptySeq, LenProperties
<1>2. Len(stack) \in 1 .. Len(stack)
    BY <1>1
<1>3. /\ stack' \in Seq(Context)
      /\ Len(stack') = Len(stack)
      /\ \A k \in 1 .. Len(stack) :
            stack'[k] = IF k = Len(stack) THEN c ELSE stack[k]
    BY <1>2, ExceptSeq
<1>4. stack' # <<>>
    BY <1>1, <1>3, EmptySeq
<1> QED
    BY <1>1, <1>2, <1>3, <1>4

(* The context that executes, after a step that moves it to pc and then.   *)
LEMMA CallTop ==
    ASSUME TypeOK, NEW pc \in Atomics \cup Places, NEW then \in Places,
           \/ Call(pc, then)
           \/ Goto(pc) /\ then = Top.then
    PROVE  /\ stack' \in Seq(Context) /\ stack' # <<>>
           /\ Len(stack') = Len(stack) /\ Len(stack) \in Nat \ {0}
           /\ Top' = [Top EXCEPT !.pc = pc, !.then = then]
           /\ \A k \in 1 .. Len(stack) : k # Len(stack) => stack'[k] = stack[k]
<1> DEFINE n == Len(stack)
           c == [Top EXCEPT !.pc = pc, !.then = then]
<1>1. stack \in Seq(Context) /\ stack # <<>>
    BY DEF TypeOK
<1>2. Len(stack) \in Nat \ {0} /\ Top \in Context
    BY <1>1, EmptySeq, LenProperties, ElementOfSeq DEF Top
<1>3. c \in Context
    BY <1>2 DEF Context
<1>4. stack' = [stack EXCEPT ![Len(stack)] = c]
    BY <1>2 DEF Call, Goto, Top, Context
<1> HIDE DEF c
<1>5. /\ stack' \in Seq(Context) /\ stack' # <<>>
      /\ Len(stack') = Len(stack)
      /\ stack'[Len(stack)] = c
      /\ \A k \in 1 .. Len(stack) : k # Len(stack) => stack'[k] = stack[k]
    BY <1>1, <1>3, <1>4, ReplaceTop
<1>6. Top' = c
    BY <1>5 DEF Top
<1> QED
    BY <1>2, <1>5, <1>6 DEF c

-----------------------------------------------------------------------------
LEMMA OneOrMore == \A n \in Nat \ {0} : n = 1 \/ n > 1
OBVIOUS

(* The type of the state, and of the context that executes.                *)
LEMMA TopType ==
    ASSUME AtomicInv
    PROVE  /\ Atom \in {0, 1} /\ mask \subseteq Signal
           /\ curr_process \in Signal \cup {User}
           /\ Len(stack) \in Nat \ {0} /\ Top \in Context
           /\ Len(stack) = 1 => Base = Top
           /\ Top.pc \in {"entry", "save", "set", "body", "restore", "exit"} => Len(stack) > 1
           /\ Len(stack) > 1 => /\ Top.sig \in Signal
                                /\ Top.pc \in On_ => Top.then \in {"kernel", "save"}
<1>1. stack \in Seq(Context) /\ Len(stack) \in Nat \ {0}
    BY EmptySeq DEF AtomicInv, TypeOK
<1>2. Top \in Context
    BY <1>1, ElementOfSeq DEF Top
<1>3. Len(stack) = 1 => Top.pc \in {"own", "tail", "kernel"} \cup Atomics
    BY DEF AtomicInv, Contexts, Base, Top
<1>4. Top.pc \in {"entry", "save", "set", "body", "restore", "exit"} => Len(stack) > 1
    <2> SUFFICES ASSUME Top.pc \in {"entry", "save", "set", "body", "restore", "exit"}
                 PROVE  Len(stack) > 1
        OBVIOUS
    <2>1. Len(stack) # 1
        BY <1>3 DEF Atomics
    <2> QED
        BY <1>1, <2>1, OneOrMore
<1> QED
    BY <1>1, <1>2, <1>4 DEF AtomicInv, TypeOK, Contexts, Base, Top

-----------------------------------------------------------------------------
(* Every step but the delivery of a signal, the return of a handler and    *)
(* SaveCurrent moves the context that executes to a place pc.  It preserves*)
(* the invariant if the place and what it does to the flag and to the mask *)
(* go together.                                                            *)
GoodMove(pc, then) ==
    /\ pc \in Atomics \cup Places /\ then \in Places
    /\ Call(pc, then) \/ (Goto(pc) /\ then = Top.then)
    /\ Atom' \in {0, 1} /\ mask' \subseteq Signal
    /\ curr_process' \in Signal \cup {User}
    /\ Len(stack) = 1 => /\ pc \in {"own", "tail", "kernel"} \cup Atomics
                         /\ pc \in On_ => then = "kernel"
                         /\ pc \in Off_ => then \in {"own", "tail"}
                         /\ Flags(pc, Atom', mask')
    /\ Len(stack) > 1 => /\ pc \in On_ => then \in {"kernel", "save"}
                         /\ pc = "exit" => Atom' = 0

LEMMA Move ==
    ASSUME AtomicInv, NEW pc, NEW then, GoodMove(pc, then)
    PROVE  AtomicInv'
<1> DEFINE n == Len(stack)
<1>1. TypeOK /\ Contexts
    BY DEF AtomicInv
<1>2. /\ stack' \in Seq(Context) /\ stack' # <<>>
      /\ Len(stack') = n /\ n \in Nat \ {0}
      /\ Top' = [Top EXCEPT !.pc = pc, !.then = then]
      /\ \A k \in 1 .. n : k # n => stack'[k] = stack[k]
    BY <1>1, CallTop DEF GoodMove
<1>3. Top \in Context /\ Top = stack[n] /\ Top' = stack'[n]
    BY <1>1, <1>2, ElementOfSeq DEF TypeOK, Top
<1>4. /\ Top'.pc = pc /\ Top'.then = then
      /\ Top'.sig = Top.sig /\ Top'.saved = Top.saved
    BY <1>2, <1>3 DEF Context
<1>5. n = 1 => Base' = Top' /\ Base = Top
    BY <1>3 DEF Base
<1>6. n > 1 => Base' = Base /\ stack'[2].saved = stack[2].saved
    <2> SUFFICES ASSUME n > 1
                 PROVE  Base' = Base /\ stack'[2].saved = stack[2].saved
        OBVIOUS
    <2>1. stack'[1] = stack[1]
        BY <1>2
    <2>2. CASE n = 2
        BY <1>3, <1>4, <2>1, <2>2 DEF Base
    <2>3. CASE n # 2
        <3>1. stack'[2] = stack[2]
            BY <1>2, <2>3
        <3> QED
            BY <2>1, <3>1 DEF Base
    <2> QED
        BY <2>2, <2>3
<1>7. Contexts'
    <2>1. /\ Base'.sig = User
          /\ Base'.pc \in {"own", "tail", "kernel"} \cup Atomics
          /\ Base'.pc \in On_ => Base'.then = "kernel"
          /\ Base'.pc \in Off_ => Base'.then \in {"own", "tail"}
        <3>1. CASE n = 1
            BY <1>1, <1>4, <1>5, <3>1 DEF Contexts, GoodMove
        <3>2. CASE n > 1
            BY <1>1, <1>6, <3>2 DEF Contexts
        <3> QED
            BY <1>2, <3>1, <3>2
    <2>2. ASSUME NEW k \in 2 .. n
          PROVE  /\ stack'[k].sig \in Signal
                 /\ stack'[k].pc \in On_ => stack'[k].then \in {"kernel", "save"}
        <3>1. CASE k = n
            <4>1. n > 1
                BY <1>2, <3>1
            <4>2. Top.sig \in Signal
                BY <1>1, <1>3, <3>1 DEF Contexts
            <4>3. stack'[k].sig = Top.sig /\ stack'[k].pc = pc /\ stack'[k].then = then
                BY <1>3, <1>4, <3>1
            <4> QED
                BY <4>1, <4>2, <4>3 DEF GoodMove
        <3>2. CASE k # n
            BY <1>1, <1>2, <3>2 DEF Contexts
        <3> QED
            BY <3>1, <3>2
    <2> QED
        BY <1>2, <2>1, <2>2 DEF Contexts
<1>8. TypeOK'
    BY <1>2 DEF TypeOK, GoodMove
<1>9. Len(stack') = 1 => Alone'
    BY <1>2, <1>4, <1>5 DEF GoodMove, Alone
<1>10. Len(stack') > 1 => Interrupting'
    BY <1>1, <1>2, <1>4, <1>6 DEF GoodMove, AtomicInv, Interrupting
<1> QED
    BY <1>7, <1>8, <1>9, <1>10 DEF AtomicInv

-----------------------------------------------------------------------------
LEMMA NextAtomicInv == AtomicInv /\ [Next]_vars => AtomicInv'
<1> SUFFICES ASSUME AtomicInv, [Next]_vars
             PROVE  AtomicInv'
    OBVIOUS
<1> USE DEF On_, Off_, Open, Atomics, Places
<1>0. /\ Atom \in {0, 1} /\ mask \subseteq Signal
      /\ curr_process \in Signal \cup {User}
      /\ Len(stack) \in Nat \ {0} /\ Top \in Context
      /\ Len(stack) = 1 => Base = Top
      /\ Top.pc \in {"entry", "save", "set", "body", "restore", "exit"} => Len(stack) > 1
      /\ Len(stack) > 1 => /\ Top.sig \in Signal
                           /\ Top.pc \in On_ => Top.then \in {"kernel", "save"}
    BY TopType
<1>a. /\ Contexts
      /\ Len(stack) = 1 => Alone
      /\ Len(stack) > 1 => Interrupting
    BY DEF AtomicInv
<1>1. CASE OnTest
    <2>1. GoodMove(IF Atom = 0 THEN "on_block" ELSE Top.then, Top.then)
        BY <1>0, <1>a, <1>1, UserAssumption
        DEF OnTest, At, GoodMove, Contexts, Context, Alone, Flags, Interrupting
    <2> QED
        BY <2>1, Move
<1>2. CASE OnBlock
    <2>1. GoodMove("on_set", Top.then)
        BY <1>0, <1>a, <1>2, UserAssumption
        DEF OnBlock, At, GoodMove, Contexts, Context, Alone, Flags, Interrupting
    <2> QED
        BY <2>1, Move
<1>3. CASE OnSet
    <2>1. GoodMove(Top.then, Top.then)
        BY <1>0, <1>a, <1>3, UserAssumption
        DEF OnSet, At, GoodMove, Contexts, Context, Alone, Flags, Interrupting
    <2> QED
        BY <2>1, Move
<1>4. CASE OffTest
    <2>1. GoodMove(IF Atom = 1 THEN "off_unblock" ELSE Top.then, Top.then)
        BY <1>0, <1>a, <1>4, UserAssumption
        DEF OffTest, At, GoodMove, Contexts, Context, Alone, Flags, Interrupting
    <2> QED
        BY <2>1, Move
<1>5. CASE OffUnblock
    <2>1. GoodMove("off_set", Top.then)
        BY <1>0, <1>a, <1>5, UserAssumption
        DEF OffUnblock, At, GoodMove, Contexts, Context, Alone, Flags, Interrupting
    <2> QED
        BY <2>1, Move
<1>6. CASE OffSet
    <2>1. GoodMove(Top.then, Top.then)
        BY <1>0, <1>a, <1>6, UserAssumption
        DEF OffSet, At, GoodMove, Contexts, Context, Alone, Flags, Interrupting
    <2> QED
        BY <2>1, Move
<1>7. CASE UserCall
    <2>1. GoodMove("on_test", "kernel")
        BY <1>0, <1>a, <1>7, UserAssumption
        DEF UserCall, At, GoodMove, Contexts, Context, Alone, Flags, Interrupting
    <2> QED
        BY <2>1, Move
<1>8. CASE KernelReturn
    <2> DEFINE then == IF Top.sig = User THEN "own" ELSE "body"
    <2>1. /\ Call("off_test", then) /\ then \in Places
          /\ Top.pc \in {"kernel", "tail"} /\ UNCHANGED <<Atom, mask, curr_process>>
        BY <1>8 DEF KernelReturn, At
    <2>2. Len(stack) = 1 => then \in {"own", "tail"}
        BY <1>0, <1>a DEF Contexts
    <2>3. Len(stack) = 1 => Flags("off_test", Atom, mask)
        BY <1>0, <1>a, <2>1 DEF Alone, Flags
    <2> HIDE DEF then
    <2>4. GoodMove("off_test", then)
        BY <1>0, <2>1, <2>2, <2>3 DEF GoodMove, Flags
    <2> QED
        BY <2>4, Move
<1>9. CASE HandlerBegin
    <2>1. GoodMove("on_test", "save")
        BY <1>0, <1>a, <1>9, UserAssumption
        DEF HandlerBegin, At, GoodMove, Contexts, Context, Alone, Flags, Interrupting
    <2> QED
        BY <2>1, Move
<1>10. CASE SetCurrent
    <2>1. GoodMove("body", Top.then)
        BY <1>0, <1>a, <1>10, UserAssumption
        DEF SetCurrent, At, GoodMove, Contexts, Context, Alone, Flags, Interrupting
    <2> QED
        BY <2>1, Move
<1>11. CASE HandlerCall
    <2>1. GoodMove("on_test", "kernel")
        BY <1>0, <1>a, <1>11, UserAssumption
        DEF HandlerCall, At, GoodMove, Contexts, Context, Alone, Flags, Interrupting
    <2> QED
        BY <2>1, Move
<1>12. CASE HandlerDone
    <2>1. GoodMove("restore", Top.then)
        BY <1>0, <1>a, <1>12, UserAssumption
        DEF HandlerDone, At, GoodMove, Contexts, Context, Alone, Flags, Interrupting
    <2> QED
        BY <2>1, Move
<1>13. CASE RestoreCurrent
    <2>1. GoodMove("off_test", "exit")
        BY <1>0, <1>a, <1>13, UserAssumption
        DEF RestoreCurrent, At, GoodMove, Contexts, Context, Alone, Flags, Interrupting
    <2> QED
        BY <2>1, Move
<1>14. CASE ProcessSwitch
    <2>1. PICK place \in {"own", "tail"} : Call("off_test", place)
        BY <1>14 DEF ProcessSwitch
    <2>2. /\ Top.pc = "kernel" /\ Top.sig = User
          /\ UNCHANGED <<Atom, mask, curr_process>>
        BY <1>14 DEF ProcessSwitch, At
    <2>3. Len(stack) = 1 /\ Flags("off_test", Atom, mask)
        BY <1>0, <1>a, <2>2, UserAssumption DEF Alone, Flags
    <2>4. GoodMove("off_test", place)
        BY <1>0, <2>1, <2>2, <2>3 DEF GoodMove, Flags
    <2> QED
        BY <2>4, Move
<1>15. CASE SaveCurrent
    <2> DEFINE c == [Top EXCEPT !.interrupted = curr_process, !.pc = "set"]
    <2>1. c \in Context /\ c.pc = "set" /\ c.sig = Top.sig /\ c.saved = Top.saved
        BY <1>0 DEF Context
    <2>2. stack \in Seq(Context) /\ stack # <<>> /\ stack' = [stack EXCEPT ![Len(stack)] = c]
        BY <1>0, <1>15 DEF SaveCurrent, AtomicInv, TypeOK, Top, Context
    <2> HIDE DEF c
    <2>3. /\ stack' \in Seq(Context) /\ stack' # <<>>
          /\ Len(stack') = Len(stack)
          /\ stack'[Len(stack)] = c
          /\ \A k \in 1 .. Len(stack) : k # Len(stack) => stack'[k] = stack[k]
        BY <2>1, <2>2, ReplaceTop
    <2>4. /\ Top.pc = "save" /\ Len(stack) > 1
          /\ UNCHANGED <<Atom, mask, curr_process>>
        BY <1>0, <1>a, <1>15 DEF SaveCurrent, At, Contexts
    <2>5. Base' = Base /\ stack'[2].saved = stack[2].saved
        <3>1. stack'[1] = stack[1]
            BY <2>3, <2>4
        <3>2. CASE Len(stack) = 2
            BY <2>1, <2>3, <3>1, <3>2 DEF Base, Top
        <3>3. CASE Len(stack) # 2
            BY <1>0, <2>3, <2>4, <3>1, <3>3 DEF Base
        <3> QED
            BY <3>2, <3>3
    <2>6. Contexts'
        <3>1. ASSUME NEW k \in 2 .. Len(stack)
              PROVE  /\ stack'[k].sig \in Signal
                     /\ stack'[k].pc \in On_ => stack'[k].then \in {"kernel", "save"}
            BY <1>0, <1>a, <2>1, <2>3, <2>4 DEF Contexts
        <3> QED
            BY <1>a, <2>3, <2>5, <3>1 DEF Contexts
    <2>7. TypeOK' /\ Interrupting'
        BY <1>0, <1>a, <2>1, <2>3, <2>4, <2>5 DEF TypeOK, Interrupting, Top
    <2> QED
        BY <1>0, <2>3, <2>4, <2>6, <2>7 DEF AtomicInv
<1>16. CASE HandlerReturn
    <2> DEFINE n == Len(stack)
    <2>1. /\ Top.pc = "exit" /\ n > 1 /\ stack \in Seq(Context)
          /\ stack' = SubSeq(stack, 1, n - 1) /\ mask' = Top.saved
          /\ UNCHANGED <<Atom, curr_process>>
        BY <1>0, <1>a, <1>16 DEF HandlerReturn, At, Contexts, AtomicInv, TypeOK
    <2>2. /\ stack' \in Seq(Context) /\ Len(stack') = n - 1
          /\ \A k \in 1 .. n - 1 : stack'[k] = stack[k]
        <3>1. \A k \in 1 .. n - 1 : stack[k] \in Context
            BY <1>0, <2>1, ElementOfSeq
        <3> QED
            BY <1>0, <2>1, <3>1, SubSeqProperties
    <2>3. stack' # <<>> /\ Base' = Base
        <3>1. Len(stack') # 0 /\ stack'[1] = stack[1]
            BY <1>0, <2>1, <2>2
        <3> QED
            BY <2>2, <3>1, EmptySeq DEF Base
    <2>4. Atom = 0 /\ Base.pc \in Open /\ stack[2].saved = {}
        BY <1>a, <2>1 DEF Interrupting
    <2>5. TypeOK'
        BY <1>0, <2>1, <2>2, <2>3 DEF TypeOK, Context
    <2>6. Contexts'
        BY <1>0, <1>a, <2>1, <2>2, <2>3 DEF Contexts
    <2>7. Len(stack') = 1 => Alone'
        BY <1>0, <2>1, <2>2, <2>3, <2>4 DEF Alone, Flags, Top
    <2>8. Len(stack') > 1 => Interrupting'
        BY <1>0, <2>1, <2>2, <2>3, <2>4 DEF Interrupting
    <2> QED
        BY <2>5, <2>6, <2>7, <2>8 DEF AtomicInv
<1>17. ASSUME NEW s \in Signal, Deliver(s)
       PROVE  AtomicInv'
    <2> DEFINE n == Len(stack)
               c == [ sig |-> s, pc |-> "entry", then |-> "entry", saved |-> mask,
                      interrupted |-> User ]
    <2>1. /\ s \notin mask /\ stack' = Append(stack, c) /\ mask' = mask \cup {s}
          /\ UNCHANGED <<Atom, curr_process>> /\ stack \in Seq(Context)
        BY <1>17 DEF Deliver, AtomicInv, TypeOK
    <2>2. c \in Context /\ c.sig = s /\ c.pc = "entry" /\ c.saved = mask
        BY <1>0 DEF Context
    <2> HIDE DEF c
    <2>3. /\ stack' \in Seq(Context) /\ stack' # <<>> /\ Len(stack') = n + 1
          /\ \A k \in 1 .. n : stack'[k] = stack[k]
          /\ stack'[n + 1] = c
        BY <2>1, <2>2, AppendProperties
    <2>4. Base' = Base
        BY <1>0, <2>3 DEF Base
    <2>5. TypeOK'
        BY <1>0, <2>1, <2>3 DEF TypeOK
    <2>6. Contexts'
        BY <1>0, <1>a, <2>2, <2>3, <2>4 DEF Contexts
    <2>7. Interrupting'
        <3>1. Top' = c
            BY <2>3 DEF Top
        <3>2. CASE n = 1
            <4>1. Flags(Base.pc, Atom, mask) /\ Base.pc \in {"own", "tail", "kernel"} \cup Atomics
                BY <1>a, <3>2 DEF Alone, Contexts
            <4>2. mask # Signal
                BY <2>1
            <4>3. mask = {} /\ Base.pc \in Open
                BY <1>0, <4>1, <4>2 DEF Flags
            <4>4. stack'[2] = c
                BY <2>3, <3>2
            <4> QED
                BY <2>2, <2>4, <3>1, <4>3, <4>4 DEF Interrupting
        <3>3. CASE n > 1
            BY <1>0, <1>a, <2>2, <2>3, <2>4, <3>1, <3>3 DEF Interrupting
        <3> QED
            BY <1>0, <3>2, <3>3, OneOrMore
    <2> QED
        BY <1>0, <2>3, <2>5, <2>6, <2>7 DEF AtomicInv
<1>18. CASE ReceiveNothing
    <2>1. GoodMove("off_test", "tail")
        BY <1>0, <1>a, <1>18, UserAssumption
        DEF ReceiveNothing, At, GoodMove, Contexts, Context, Alone, Flags, Interrupting
    <2> QED
        BY <2>1, Move
<1>19. CASE SwitchedBack
    <2>1. GoodMove("off_test", "tail")
        BY <1>0, <1>a, <1>19, UserAssumption
        DEF SwitchedBack, At, GoodMove, Contexts, Context, Alone, Flags, Interrupting
    <2> QED
        BY <2>1, Move
<1>20. CASE SwitchAgain
    <2>1. GoodMove("on_test", "kernel")
        BY <1>0, <1>a, <1>20, UserAssumption
        DEF SwitchAgain, At, GoodMove, Contexts, Context, Alone, Flags, Interrupting
    <2> QED
        BY <2>1, Move
<1>21. CASE UNCHANGED vars
    BY <1>21 DEF vars, AtomicInv, TypeOK, Contexts, Alone, Interrupting, Base, Top
<1> QED
    BY <1>1, <1>2, <1>3, <1>4, <1>5, <1>6, <1>7, <1>8, <1>9, <1>10, <1>11, <1>12,
       <1>13, <1>14, <1>15, <1>16, <1>17, <1>18, <1>19, <1>20, <1>21
   DEF Next, atomic, Program

THEOREM AtomicInvariant == Spec => []AtomicInv
BY InitAtomicInv, NextAtomicInv, PTL DEF Spec

(* The state of the flag, the mask and the signal stack has its type.      *)
THEOREM TypeCorrect == Spec => []TypeOK
<1>1. AtomicInv => TypeOK
    BY DEF AtomicInv
<1> QED
    BY <1>1, AtomicInvariant, PTL

(* The kernel section of a user process, up to process_switch, is executed *)
(* without a handler on the stack, for every set of signals.               *)
THEOREM SectionAtomic == Spec => []UserSectionAtomic
<1>1. AtomicInv => UserSectionAtomic
    <2> SUFFICES ASSUME AtomicInv, stack[1].pc = "kernel"
                 PROVE  Len(stack) = 1
        BY DEF UserSectionAtomic
    <2>1. Base.pc \notin Open
        BY DEF Base, Open
    <2>2. ~ (Len(stack) > 1)
        BY <2>1 DEF AtomicInv, Interrupting
    <2>3. Len(stack) \in Nat \ {0}
        BY TopType
    <2> QED
        BY <2>2, <2>3, OneOrMore
<1> QED
    BY <1>1, AtomicInvariant, PTL

(* A user process in its own code, with no handler on the stack, has the   *)
(* flag clear and no signal blocked.                                       *)
THEOREM Interruptible == Spec => []NothingStaysBlocked
<1>1. AtomicInv => NothingStaysBlocked
    BY TopType DEF AtomicInv, Alone, Flags, NothingStaysBlocked, At
<1> QED
    BY <1>1, AtomicInvariant, PTL

-----------------------------------------------------------------------------
(***************************************************************************)
(* curr_process under nested handlers, for any set of signals and any      *)
(* depth of the signal stack: whoever is in a kernel primitive finds       *)
(* itself there.                                                           *)
(*                                                                         *)
(* A handler owns curr_process from SetCurrent to RestoreCurrent, the user *)
(* process always.  The argument is that curr_process names the last       *)
(* context on the stack that owns it, and that each handler which has      *)
(* saved it saved the name of the last owner below itself.                 *)
(***************************************************************************)

OwnerPlace(pc, then) ==
    \/ pc \in {"body", "restore", "kernel", "tail"}
    \/ pc \in On_ /\ then = "kernel"
    \/ pc \in Off_ /\ then # "exit"

SavedPlace(pc, then) ==
    /\ pc \notin {"entry", "save"}
    /\ ~ (pc \in On_ /\ then = "save")

Owns(c)  == c.sig = User \/ OwnerPlace(c.pc, c.then)
Saved(c) == SavedPlace(c.pc, c.then)

(* v names the last context of s[1] .. s[k] that owns curr_process.        *)
LastOwner(s, k, v) ==
    \E j \in 1 .. k : /\ Owns(s[j]) /\ s[j].sig = v
                      /\ \A i \in j + 1 .. k : ~ Owns(s[i])

Handler(s, k) ==
    /\ s[k].pc # "own"
    /\ s[k].pc \in Off_ => s[k].then \in {"body", "tail", "exit"}
    /\ Saved(s[k]) => LastOwner(s, k - 1, s[k].interrupted)

Current ==
    /\ LastOwner(stack, Len(stack), curr_process)
    /\ \A k \in 2 .. Len(stack) : Handler(stack, k)

CurrentInv == AtomicInv /\ Current
-----------------------------------------------------------------------------
(* The last owner depends on the contexts up to k alone.                   *)
LEMMA SameOwners ==
    ASSUME NEW s, NEW t, NEW v, NEW n \in Nat,
           \A k \in 1 .. n : (Owns(s[k]) <=> Owns(t[k])) /\ s[k].sig = t[k].sig,
           LastOwner(s, n, v)
    PROVE  LastOwner(t, n, v)
<1>1. PICK j \in 1 .. n : /\ Owns(s[j]) /\ s[j].sig = v
                          /\ \A i \in j + 1 .. n : ~ Owns(s[i])
    BY DEF LastOwner
<1>2. Owns(t[j]) /\ t[j].sig = v
    BY <1>1
<1>3. \A i \in j + 1 .. n : ~ Owns(t[i])
    <2> TAKE i \in j + 1 .. n
    <2>1. i \in 1 .. n
        OBVIOUS
    <2> QED
        BY <1>1, <2>1
<1> QED
    BY <1>2, <1>3 DEF LastOwner

(* A context that owns curr_process is the last owner up to itself.        *)
LEMMA OwnerOnTop ==
    ASSUME NEW s, NEW v, NEW n \in Nat \ {0}, Owns(s[n])
    PROVE  LastOwner(s, n, v) <=> s[n].sig = v
<1>1. ASSUME LastOwner(s, n, v)
      PROVE  s[n].sig = v
    <2>1. PICK j \in 1 .. n : /\ Owns(s[j]) /\ s[j].sig = v
                              /\ \A i \in j + 1 .. n : ~ Owns(s[i])
        BY <1>1 DEF LastOwner
    <2>2. j = n
        <3>1. SUFFICES ASSUME j # n
                       PROVE  FALSE
            OBVIOUS
        <3>2. n \in j + 1 .. n
            BY <3>1
        <3> QED
            BY <2>1, <3>2
    <2> QED
        BY <2>1, <2>2
<1>2. ASSUME s[n].sig = v
      PROVE  LastOwner(s, n, v)
    <2>1. n \in 1 .. n /\ \A i \in n + 1 .. n : ~ Owns(s[i])
        OBVIOUS
    <2> QED
        BY <1>2, <2>1 DEF LastOwner
<1> QED
    BY <1>1, <1>2

(* A context that does not own it leaves the last owner below it.          *)
LEMMA OwnerBelow ==
    ASSUME NEW s, NEW v, NEW n \in Nat \ {0}, ~ Owns(s[n])
    PROVE  LastOwner(s, n, v) <=> LastOwner(s, n - 1, v)
<1>1. ASSUME LastOwner(s, n, v)
      PROVE  LastOwner(s, n - 1, v)
    <2>1. PICK j \in 1 .. n : /\ Owns(s[j]) /\ s[j].sig = v
                              /\ \A i \in j + 1 .. n : ~ Owns(s[i])
        BY <1>1 DEF LastOwner
    <2>2. j # n
        BY <2>1
    <2>3. j \in 1 .. n - 1 /\ \A i \in j + 1 .. n - 1 : i \in j + 1 .. n
        BY <2>2
    <2> QED
        BY <2>1, <2>3 DEF LastOwner
<1>2. ASSUME LastOwner(s, n - 1, v)
      PROVE  LastOwner(s, n, v)
    <2>1. PICK j \in 1 .. n - 1 : /\ Owns(s[j]) /\ s[j].sig = v
                                  /\ \A i \in j + 1 .. n - 1 : ~ Owns(s[i])
        BY <1>2 DEF LastOwner
    <2>2. j \in 1 .. n /\ \A i \in j + 1 .. n : i = n \/ i \in j + 1 .. n - 1
        OBVIOUS
    <2> QED
        BY <2>1, <2>2 DEF LastOwner
<1> QED
    BY <1>1, <1>2

-----------------------------------------------------------------------------
(* A step that replaces the context that executes preserves Current if the *)
(* new context is as it must be and curr_process names the last owner.     *)
LEMMA Replaced ==
    ASSUME Current, NEW n \in Nat \ {0},
           Len(stack) = n, Len(stack') = n,
           \A k \in 1 .. n : k # n => stack'[k] = stack[k],
           n > 1 => Handler(stack, n)',
           LastOwner(stack, n, curr_process)'
    PROVE  Current'
<1>1. ASSUME NEW k \in 2 .. n
      PROVE  Handler(stack', k)
    <2>1. CASE k = n
        BY <2>1
    <2>2. CASE k # n
        <3>1. /\ stack'[k] = stack[k] /\ Handler(stack, k)
              /\ \A i \in 1 .. k - 1 : stack'[i] = stack[i]
            BY <2>2 DEF Current
        <3>2. k - 1 \in Nat
            OBVIOUS
        <3>3. \A v : LastOwner(stack, k - 1, v) => LastOwner(stack', k - 1, v)
            BY <3>1, <3>2, SameOwners
        <3> QED
            BY <3>1, <3>3 DEF Handler
    <2> QED
        BY <2>1, <2>2
<1> QED
    BY <1>1 DEF Current

(* A step that moves the context that executes to pc, keeps curr_process   *)
(* and neither takes nor gives up the ownership.                           *)
KeepsOwner(pc, then) ==
    /\ pc \in Atomics \cup Places /\ then \in Places
    /\ Call(pc, then) \/ (Goto(pc) /\ then = Top.then)
    /\ UNCHANGED curr_process
    /\ Len(stack) > 1 =>
          /\ OwnerPlace(pc, then) <=> OwnerPlace(Top.pc, Top.then)
          /\ SavedPlace(pc, then) => SavedPlace(Top.pc, Top.then)
          /\ pc # "own"
          /\ pc \in Off_ => then \in {"body", "tail", "exit"}

(* What is known of the context that executes.                             *)
LEMMA TopOwner ==
    ASSUME CurrentInv
    PROVE  /\ Len(stack) \in Nat \ {0} /\ Top \in Context /\ TypeOK
           /\ Len(stack) = 1 => Owns(Top) /\ Top.sig = User
           /\ Len(stack) > 1 => /\ Top.sig \in Signal /\ Top.sig # User
                                /\ Owns(Top) <=> OwnerPlace(Top.pc, Top.then)
                                /\ Handler(stack, Len(stack))
                                /\ Top.pc \in On_ => Top.then \in {"kernel", "save"}
           /\ Top.pc \in {"entry", "save", "set", "body", "restore", "exit"} => Len(stack) > 1
           /\ Top.pc = "own" \/ Top.sig = User => Len(stack) = 1
<1>1. AtomicInv /\ Current
    BY DEF CurrentInv
<1>2. /\ Len(stack) \in Nat \ {0} /\ Top \in Context /\ TypeOK
      /\ Len(stack) = 1 => Top.sig = User
      /\ Len(stack) > 1 => /\ Top.sig \in Signal
                           /\ Top.pc \in On_ => Top.then \in {"kernel", "save"}
      /\ Top.pc \in {"entry", "save", "set", "body", "restore", "exit"} => Len(stack) > 1
    BY <1>1, TopType DEF AtomicInv, Contexts, Base
<1>3. Len(stack) = 1 => Owns(Top)
    BY <1>2 DEF Owns
<1>4. Len(stack) > 1 => /\ Top.sig # User
                        /\ Owns(Top) <=> OwnerPlace(Top.pc, Top.then)
    BY <1>2, UserAssumption DEF Owns
<1>5. Len(stack) > 1 => Handler(stack, Len(stack))
    BY <1>1, <1>2 DEF Current
<1>6. Len(stack) > 1 => Top.pc # "own"
    BY <1>5 DEF Handler, Top
<1>7. Top.pc = "own" \/ Top.sig = User => Len(stack) = 1
    BY <1>2, <1>4, <1>6, OneOrMore
<1> QED
    BY <1>2, <1>3, <1>4, <1>5, <1>7

LEMMA MoveKeepsOwner ==
    ASSUME CurrentInv, NEW pc, NEW then, KeepsOwner(pc, then)
    PROVE  Current'
<1> DEFINE n == Len(stack)
<1>1. /\ n \in Nat \ {0} /\ Top \in Context /\ TypeOK
      /\ n = 1 => Owns(Top) /\ Top.sig = User
      /\ n > 1 => /\ Top.sig # User
                  /\ Owns(Top) <=> OwnerPlace(Top.pc, Top.then)
                  /\ Handler(stack, n)
    BY TopOwner
<1>2. /\ Len(stack') = n
      /\ Top' = [Top EXCEPT !.pc = pc, !.then = then]
      /\ \A k \in 1 .. n : k # n => stack'[k] = stack[k]
    BY <1>1, CallTop DEF KeepsOwner
<1>3. /\ Top'.pc = pc /\ Top'.then = then /\ Top'.sig = Top.sig
      /\ Top'.interrupted = Top.interrupted
      /\ Top' = stack'[n] /\ Top = stack[n]
    BY <1>1, <1>2 DEF Context, Top
<1>4. Owns(Top') <=> Owns(Top)
    <2>1. CASE n = 1
        BY <1>1, <1>3, <2>1 DEF Owns
    <2>2. CASE n > 1
        BY <1>1, <1>3, <2>2 DEF Owns, KeepsOwner
    <2> QED
        BY <1>1, <2>1, <2>2, OneOrMore
<1>5. \A k \in 1 .. n : (Owns(stack[k]) <=> Owns(stack'[k])) /\ stack[k].sig = stack'[k].sig
    BY <1>2, <1>3, <1>4
<1>6. LastOwner(stack, n, curr_process)
    BY DEF CurrentInv, Current
<1>7. LastOwner(stack', n, curr_process')
    <2>1. LastOwner(stack', n, curr_process)
        BY <1>1, <1>5, <1>6, SameOwners
    <2> QED
        BY <2>1 DEF KeepsOwner
<1>8. ASSUME n > 1
      PROVE  Handler(stack', n)
    <2>1. pc # "own" /\ (pc \in Off_ => then \in {"body", "tail", "exit"})
        BY <1>8 DEF KeepsOwner
    <2>2. ASSUME Saved(Top')
          PROVE  LastOwner(stack', n - 1, Top.interrupted)
        <3>1. Saved(Top)
            BY <1>3, <1>8, <2>2 DEF Saved, KeepsOwner
        <3>2. LastOwner(stack, n - 1, Top.interrupted)
            BY <1>1, <1>3, <1>8, <3>1 DEF Handler
        <3>3. n - 1 \in Nat /\ \A k \in 1 .. n - 1 : k \in 1 .. n
            BY <1>1
        <3> QED
            BY <1>5, <3>2, <3>3, SameOwners
    <2> QED
        BY <1>3, <2>1, <2>2 DEF Handler
<1> QED
    BY <1>1, <1>2, <1>7, <1>8, Replaced DEF CurrentInv

-----------------------------------------------------------------------------
(* The steps that keep the owner.                                          *)
LEMMA OwnerKept ==
    ASSUME CurrentInv,
           \/ atomic \/ UserCall \/ KernelReturn \/ ReceiveNothing \/ ProcessSwitch
           \/ SwitchedBack \/ SwitchAgain \/ HandlerBegin \/ HandlerCall \/ HandlerDone
    PROVE  Current'
<1> USE DEF On_, Off_, Atomics, Places
<1>0. /\ Len(stack) \in Nat \ {0} /\ Top \in Context
      /\ Len(stack) > 1 => /\ Top.sig # User
                           /\ Top.pc \in On_ => Top.then \in {"kernel", "save"}
                           /\ Top.pc \in Off_ => Top.then \in {"body", "tail", "exit"}
      /\ Top.pc = "own" \/ Top.sig = User => Len(stack) = 1
    BY TopOwner DEF Handler, Top
<1>1. CASE OnTest
    <2>1. KeepsOwner(IF Atom = 0 THEN "on_block" ELSE Top.then, Top.then)
        BY <1>0, <1>1 DEF OnTest, At, KeepsOwner, OwnerPlace, SavedPlace, Context
    <2> QED
        BY <2>1, MoveKeepsOwner
<1>2. CASE OnBlock
    <2>1. KeepsOwner("on_set", Top.then)
        BY <1>0, <1>2 DEF OnBlock, At, KeepsOwner, OwnerPlace, SavedPlace, Context
    <2> QED
        BY <2>1, MoveKeepsOwner
<1>3. CASE OnSet
    <2>1. KeepsOwner(Top.then, Top.then)
        BY <1>0, <1>3 DEF OnSet, At, KeepsOwner, OwnerPlace, SavedPlace, Context
    <2> QED
        BY <2>1, MoveKeepsOwner
<1>4. CASE OffTest
    <2>1. KeepsOwner(IF Atom = 1 THEN "off_unblock" ELSE Top.then, Top.then)
        BY <1>0, <1>4 DEF OffTest, At, KeepsOwner, OwnerPlace, SavedPlace, Context
    <2> QED
        BY <2>1, MoveKeepsOwner
<1>5. CASE OffUnblock
    <2>1. KeepsOwner("off_set", Top.then)
        BY <1>0, <1>5 DEF OffUnblock, At, KeepsOwner, OwnerPlace, SavedPlace, Context
    <2> QED
        BY <2>1, MoveKeepsOwner
<1>6. CASE OffSet
    <2>1. KeepsOwner(Top.then, Top.then)
        BY <1>0, <1>6 DEF OffSet, At, KeepsOwner, OwnerPlace, SavedPlace, Context
    <2> QED
        BY <2>1, MoveKeepsOwner
<1>7. CASE UserCall
    <2>1. Len(stack) = 1
        BY <1>0, <1>7 DEF UserCall, At
    <2>2. KeepsOwner("on_test", "kernel")
        BY <1>0, <1>7, <2>1 DEF UserCall, KeepsOwner
    <2> QED
        BY <2>2, MoveKeepsOwner
<1>8. CASE KernelReturn
    <2>1. KeepsOwner("off_test", IF Top.sig = User THEN "own" ELSE "body")
        BY <1>0, <1>8 DEF KernelReturn, At, KeepsOwner, OwnerPlace, SavedPlace, Context
    <2> QED
        BY <2>1, MoveKeepsOwner
<1>9. CASE ReceiveNothing
    <2>1. KeepsOwner("off_test", "tail")
        BY <1>0, <1>9 DEF ReceiveNothing, At, KeepsOwner, OwnerPlace, SavedPlace, Context
    <2> QED
        BY <2>1, MoveKeepsOwner
<1>10. CASE SwitchedBack
    <2>1. KeepsOwner("off_test", "tail")
        BY <1>0, <1>10 DEF SwitchedBack, At, KeepsOwner, OwnerPlace, SavedPlace, Context
    <2> QED
        BY <2>1, MoveKeepsOwner
<1>11. CASE SwitchAgain
    <2>1. KeepsOwner("on_test", "kernel")
        BY <1>0, <1>11 DEF SwitchAgain, At, KeepsOwner, OwnerPlace, SavedPlace, Context
    <2> QED
        BY <2>1, MoveKeepsOwner
<1>12. CASE HandlerBegin
    <2>1. KeepsOwner("on_test", "save")
        BY <1>0, <1>12 DEF HandlerBegin, At, KeepsOwner, OwnerPlace, SavedPlace, Context
    <2> QED
        BY <2>1, MoveKeepsOwner
<1>13. CASE HandlerCall
    <2>1. KeepsOwner("on_test", "kernel")
        BY <1>0, <1>13 DEF HandlerCall, At, KeepsOwner, OwnerPlace, SavedPlace, Context
    <2> QED
        BY <2>1, MoveKeepsOwner
<1>14. CASE HandlerDone
    <2>1. KeepsOwner("restore", Top.then)
        BY <1>0, <1>14 DEF HandlerDone, At, KeepsOwner, OwnerPlace, SavedPlace, Context
    <2> QED
        BY <2>1, MoveKeepsOwner
<1>15. CASE ProcessSwitch
    <2>1. PICK place \in {"own", "tail"} : Call("off_test", place)
        BY <1>15 DEF ProcessSwitch
    <2>2. KeepsOwner("off_test", place)
        BY <1>0, <1>15, <2>1 DEF ProcessSwitch, KeepsOwner
    <2> QED
        BY <2>2, MoveKeepsOwner
<1> QED
    BY <1>1, <1>2, <1>3, <1>4, <1>5, <1>6, <1>7, <1>8,
       <1>9, <1>10, <1>11, <1>12, <1>13, <1>14, <1>15 DEF atomic

(* The handler that executes goes to pc; the owners below it, and so what  *)
(* it has saved, are as before.                                            *)
LEMMA HandlerMoves ==
    ASSUME CurrentInv, NEW pc \in Atomics \cup Places, NEW then \in Places,
           Call(pc, then) \/ (Goto(pc) /\ then = Top.then),
           Len(stack) > 1, Saved(Top)
    PROVE  /\ Len(stack') = Len(stack)
           /\ Top'.pc = pc /\ Top'.then = then /\ Top'.sig = Top.sig
           /\ Top' = stack'[Len(stack)] /\ Top'.interrupted = Top.interrupted
           /\ \A k \in 1 .. Len(stack) : k # Len(stack) => stack'[k] = stack[k]
           /\ LastOwner(stack', Len(stack) - 1, Top.interrupted)
<1> DEFINE n == Len(stack)
<1>1. n \in Nat \ {0} /\ Top \in Context /\ TypeOK /\ Handler(stack, n)
    BY TopOwner
<1>2. /\ Len(stack') = n
      /\ Top' = [Top EXCEPT !.pc = pc, !.then = then]
      /\ \A k \in 1 .. n : k # n => stack'[k] = stack[k]
    BY <1>1, CallTop
<1>3. LastOwner(stack, n - 1, Top.interrupted)
    BY <1>1 DEF Handler, Top
<1>4. n - 1 \in Nat /\ \A k \in 1 .. n - 1 : stack'[k] = stack[k]
    BY <1>1, <1>2
<1>5. LastOwner(stack', n - 1, Top.interrupted)
    BY <1>3, <1>4, SameOwners
<1> QED
    BY <1>1, <1>2, <1>5 DEF Context, Top

(* A handler saves the name of the last owner below it ...                 *)
LEMMA CurrentSaved == CurrentInv /\ SaveCurrent => Current'
<1> SUFFICES ASSUME CurrentInv, SaveCurrent
             PROVE  Current'
    OBVIOUS
<1> DEFINE n == Len(stack)
           c == [Top EXCEPT !.interrupted = curr_process, !.pc = "set"]
<1>1. /\ n \in Nat \ {0} /\ n > 1 /\ Top \in Context /\ TypeOK
      /\ Top.sig # User /\ Top.pc = "save" /\ Top = stack[n]
      /\ Owns(Top) <=> OwnerPlace(Top.pc, Top.then)
      /\ curr_process' = curr_process
    BY TopOwner DEF SaveCurrent, At, Top
<1>2. /\ c \in Context /\ c.pc = "set" /\ c.sig = Top.sig
      /\ c.interrupted = curr_process
    BY <1>1 DEF TypeOK, Context, Places
<1>3. stack \in Seq(Context) /\ stack # <<>> /\ stack' = [stack EXCEPT ![Len(stack)] = c]
    BY <1>1 DEF SaveCurrent, TypeOK, Top, Context
<1> HIDE DEF c
<1>4. /\ Len(stack') = n /\ stack'[n] = c
      /\ \A k \in 1 .. n : k # n => stack'[k] = stack[k]
    BY <1>2, <1>3, ReplaceTop
<1>5. ~ Owns(stack[n]) /\ ~ Owns(stack'[n])
    BY <1>1, <1>2, <1>4 DEF Owns, OwnerPlace, On_, Off_
<1>6. LastOwner(stack, n - 1, curr_process)
    BY <1>1, <1>5, OwnerBelow DEF CurrentInv, Current
<1>7. LastOwner(stack', n - 1, curr_process)
    <2>1. n - 1 \in Nat /\ \A k \in 1 .. n - 1 : stack'[k] = stack[k]
        BY <1>1, <1>4
    <2> QED
        BY <1>6, <2>1, SameOwners
<1>8. LastOwner(stack', n, curr_process)
    BY <1>1, <1>5, <1>7, OwnerBelow
<1>9. Handler(stack', n)
    BY <1>2, <1>4, <1>7 DEF Handler, Off_
<1> QED
    BY <1>1, <1>4, <1>8, <1>9, Replaced DEF CurrentInv

(* ... puts its own there ...                                              *)
LEMMA CurrentSet == CurrentInv /\ SetCurrent => Current'
<1> SUFFICES ASSUME CurrentInv, SetCurrent
             PROVE  Current'
    OBVIOUS
<1> DEFINE n == Len(stack)
<1>1. /\ n \in Nat \ {0} /\ n > 1 /\ Top \in Context
      /\ Top.pc = "set" /\ Goto("body") /\ curr_process' = Top.sig
    BY TopOwner DEF SetCurrent, At
<1>2. Saved(Top) /\ "body" \in Atomics \cup Places /\ Top.then \in Places
    BY <1>1 DEF Saved, SavedPlace, On_, Places, Context
<1>3. /\ Len(stack') = n /\ stack'[n].pc = "body" /\ stack'[n].sig = Top.sig
      /\ stack'[n].interrupted = Top.interrupted
      /\ \A k \in 1 .. n : k # n => stack'[k] = stack[k]
      /\ LastOwner(stack', n - 1, Top.interrupted)
    BY <1>1, <1>2, HandlerMoves
<1>4. LastOwner(stack', n, curr_process')
    <2>1. Owns(stack'[n])
        BY <1>3 DEF Owns, OwnerPlace
    <2> QED
        BY <1>1, <1>3, <2>1, OwnerOnTop
<1>5. Handler(stack', n)
    BY <1>3 DEF Handler, Off_
<1> QED
    BY <1>1, <1>3, <1>4, <1>5, Replaced DEF CurrentInv

(* ... and puts back what it has saved.                                    *)
LEMMA CurrentRestored == CurrentInv /\ RestoreCurrent => Current'
<1> SUFFICES ASSUME CurrentInv, RestoreCurrent
             PROVE  Current'
    OBVIOUS
<1> DEFINE n == Len(stack)
<1>1. /\ n \in Nat \ {0} /\ n > 1 /\ Top.sig # User
      /\ Top.pc = "restore" /\ Call("off_test", "exit")
      /\ curr_process' = Top.interrupted
    BY TopOwner DEF RestoreCurrent, At
<1>2. Saved(Top) /\ "off_test" \in Atomics \cup Places /\ "exit" \in Places
    BY <1>1 DEF Saved, SavedPlace, On_, Atomics, Places
<1>3. /\ Len(stack') = n /\ stack'[n].pc = "off_test" /\ stack'[n].then = "exit"
      /\ stack'[n].sig = Top.sig /\ stack'[n].interrupted = Top.interrupted
      /\ \A k \in 1 .. n : k # n => stack'[k] = stack[k]
      /\ LastOwner(stack', n - 1, Top.interrupted)
    BY <1>1, <1>2, HandlerMoves
<1>4. LastOwner(stack', n, curr_process')
    <2>1. ~ Owns(stack'[n])
        BY <1>1, <1>3 DEF Owns, OwnerPlace, On_
    <2> QED
        BY <1>1, <1>3, <2>1, OwnerBelow
<1>5. Handler(stack', n)
    BY <1>3 DEF Handler
<1> QED
    BY <1>1, <1>3, <1>4, <1>5, Replaced DEF CurrentInv

-----------------------------------------------------------------------------
(* A handler that begins or ends owns nothing.                             *)
LEMMA CurrentAtReturn == CurrentInv /\ HandlerReturn => Current'
<1> SUFFICES ASSUME CurrentInv, HandlerReturn
             PROVE  Current'
    OBVIOUS
<1> DEFINE n == Len(stack)
<1>1. /\ n \in Nat \ {0} /\ n > 1 /\ TypeOK /\ Top.sig # User
      /\ Top.pc = "exit" /\ Top = stack[n]
      /\ stack' = SubSeq(stack, 1, n - 1) /\ curr_process' = curr_process
    BY TopOwner DEF HandlerReturn, At, Top
<1>2. Len(stack') = n - 1 /\ \A k \in 1 .. n - 1 : stack'[k] = stack[k]
    <2>1. \A k \in 1 .. n - 1 : stack[k] \in Context
        BY <1>1, ElementOfSeq DEF TypeOK
    <2> QED
        BY <1>1, <2>1, SubSeqProperties
<1>3. LastOwner(stack, n - 1, curr_process)
    <2>1. ~ Owns(stack[n])
        BY <1>1 DEF Owns, OwnerPlace, On_, Off_
    <2> QED
        BY <1>1, <2>1, OwnerBelow DEF CurrentInv, Current
<1>4. LastOwner(stack', n - 1, curr_process)
    <2>1. n - 1 \in Nat
        BY <1>1
    <2> QED
        BY <1>2, <1>3, <2>1, SameOwners
<1>5. ASSUME NEW k \in 2 .. n - 1
      PROVE  Handler(stack', k)
    <2>1. stack'[k] = stack[k] /\ Handler(stack, k)
        BY <1>1, <1>2 DEF CurrentInv, Current
    <2>2. k - 1 \in Nat /\ \A i \in 1 .. k - 1 : stack'[i] = stack[i]
        BY <1>1, <1>2
    <2>3. \A v : LastOwner(stack, k - 1, v) => LastOwner(stack', k - 1, v)
        BY <2>2, SameOwners
    <2> QED
        BY <2>1, <2>3 DEF Handler
<1> QED
    BY <1>1, <1>2, <1>4, <1>5 DEF Current

LEMMA CurrentAtDelivery ==
    ASSUME CurrentInv, NEW s \in Signal, Deliver(s)
    PROVE  Current'
<1> DEFINE n == Len(stack)
           c == [ sig |-> s, pc |-> "entry", then |-> "entry", saved |-> mask,
                  interrupted |-> User ]
<1>1. /\ n \in Nat \ {0} /\ TypeOK /\ stack' = Append(stack, c)
      /\ curr_process' = curr_process
    BY TopOwner DEF Deliver
<1>2. c \in Context /\ c.sig = s /\ c.pc = "entry"
    BY <1>1 DEF TypeOK, Context, Places
<1> HIDE DEF c
<1>3. /\ Len(stack') = n + 1 /\ stack'[n + 1] = c
      /\ \A k \in 1 .. n : stack'[k] = stack[k]
    BY <1>1, <1>2, AppendProperties DEF TypeOK
<1>4. ~ Owns(stack'[n + 1]) /\ ~ Saved(stack'[n + 1])
    BY <1>2, <1>3, UserAssumption DEF Owns, OwnerPlace, Saved, SavedPlace, On_, Off_
<1>5. LastOwner(stack', n, curr_process)
    BY <1>1, <1>3, SameOwners DEF CurrentInv, Current
<1>6. LastOwner(stack', n + 1, curr_process)
    <2>1. n + 1 \in Nat \ {0} /\ (n + 1) - 1 = n
        BY <1>1
    <2>2. LastOwner(stack', (n + 1) - 1, curr_process)
        BY <1>5, <2>1
    <2> QED
        BY <1>4, <2>1, <2>2, OwnerBelow
<1>7. ASSUME NEW k \in 2 .. n + 1
      PROVE  Handler(stack', k)
    <2>1. CASE k = n + 1
        BY <1>2, <1>3, <1>4, <2>1 DEF Handler, Off_
    <2>2. CASE k # n + 1
        <3>1. stack'[k] = stack[k] /\ Handler(stack, k)
            BY <1>1, <1>3, <2>2 DEF CurrentInv, Current
        <3>2. k - 1 \in Nat /\ \A i \in 1 .. k - 1 : stack'[i] = stack[i]
            BY <1>1, <1>3
        <3>3. \A v : LastOwner(stack, k - 1, v) => LastOwner(stack', k - 1, v)
            BY <3>2, SameOwners
        <3> QED
            BY <3>1, <3>3 DEF Handler
    <2> QED
        BY <2>1, <2>2
<1> QED
    BY <1>1, <1>3, <1>6, <1>7 DEF Current

-----------------------------------------------------------------------------
LEMMA InitCurrentInv == Init => CurrentInv
<1> SUFFICES ASSUME Init
             PROVE  CurrentInv
    OBVIOUS
<1>1. AtomicInv
    BY InitAtomicInv
<1>2. Len(stack) = 1 /\ stack[1].sig = User /\ curr_process = User
    BY DEF Init
<1>3. LastOwner(stack, 1, curr_process)
    BY <1>2, OwnerOnTop DEF Owns
<1> QED
    BY <1>1, <1>2, <1>3 DEF CurrentInv, Current

LEMMA NextCurrentInv == CurrentInv /\ [Next]_vars => CurrentInv'
<1> SUFFICES ASSUME CurrentInv, [Next]_vars
             PROVE  Current'
    BY NextAtomicInv DEF CurrentInv
<1>1. CASE atomic \/ UserCall \/ KernelReturn \/ ReceiveNothing \/ ProcessSwitch
           \/ SwitchedBack \/ SwitchAgain \/ HandlerBegin \/ HandlerCall \/ HandlerDone
    BY <1>1, OwnerKept
<1>2. CASE SaveCurrent
    BY <1>2, CurrentSaved
<1>3. CASE SetCurrent
    BY <1>3, CurrentSet
<1>4. CASE RestoreCurrent
    BY <1>4, CurrentRestored
<1>5. CASE HandlerReturn
    BY <1>5, CurrentAtReturn
<1>6. ASSUME NEW s \in Signal, Deliver(s)
      PROVE  Current'
    BY <1>6, CurrentAtDelivery
<1>7. CASE UNCHANGED vars
    BY <1>7 DEF vars, CurrentInv, Current
<1> QED
    BY <1>1, <1>2, <1>3, <1>4, <1>5, <1>6, <1>7 DEF Next, Program

(* curr_process names the last context that owns it, and each handler has  *)
(* saved the last owner below it, for every set of signals and depth.      *)
THEOREM CurrentInvariant == Spec => []CurrentInv
BY InitCurrentInv, NextCurrentInv, PTL DEF Spec

(* A context in a kernel primitive, user process or handler, finds its own *)
(* name in curr_process however handlers have interrupted it.              *)
THEOREM CurrentIsSelf == Spec => []RunsAsItself
<1>1. CurrentInv => RunsAsItself
    <2> SUFFICES ASSUME CurrentInv, At("kernel") \/ At("tail")
                 PROVE  curr_process = Top.sig
        BY DEF RunsAsItself
    <2>1. Owns(Top) /\ Top = stack[Len(stack)] /\ Len(stack) \in Nat \ {0}
        BY TopOwner DEF At, Owns, OwnerPlace, Top
    <2>2. LastOwner(stack, Len(stack), curr_process)
        BY DEF CurrentInv, Current
    <2> QED
        BY <2>1, <2>2, OwnerOnTop
<1> QED
    BY <1>1, CurrentInvariant, PTL
=============================================================================
