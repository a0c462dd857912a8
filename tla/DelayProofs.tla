----------------------------- MODULE DelayProofs -----------------------------
(***************************************************************************)
(* Proofs about Delay, for any processes, envelopes and delays.  That      *)
(* delays end when they are due is proved where the code has it right:     *)
(* for delays that end in the order in which they were asked for, and      *)
(* handlers that return within a tick.                                     *)
(***************************************************************************)
EXTENDS Delay, LinkQueueProofs, SequenceTheorems

Pc    == {"enqueue", "start", "visit", "remove", "wake", "return"}
Frame == [pc : Pc, env : Env \cup {NULL}, sleeptraverse : Env \cup {NULL},
          removeid : Proc \cup {Timer, NULL}]

(* Where a handler has an envelope, and where it visits one.               *)
Shape(f) ==
    /\ f.pc \in {"enqueue", "remove"} => f.env \in Env
    /\ f.pc = "visit" => f.sleeptraverse \in Env

FrameInv == frames \in Seq(Frame) /\ \A k \in 1 .. Len(frames) : Shape(frames[k])

Codes == {"NO_TYPE", "WAKEUP", "COUNT_REPORT"}

MemInv ==
    /\ sender_id \in [Env -> Proc \cup {Timer, NULL}]
    /\ msg_type \in [Env -> Codes]
    /\ msg_text \in [Env -> Nat]
    /\ held \in [Proc -> SUBSET Env]
    /\ fault \in BOOLEAN

StoreInv == envs \in Store(Env, Queue) /\ Acyclic(envs.p)

TypeInv == StoreInv /\ MemInv /\ FrameInv

-----------------------------------------------------------------------------
LEMMA Domains ==
    /\ IsFiniteSet(Env) /\ NULL \notin Env
    /\ Proc \subseteq Queue /\ Timer \in Queue /\ Sleep \in Queue
    /\ Timer # Sleep /\ Timer \notin Proc /\ Sleep \notin Proc
    /\ Delays \subseteq Nat /\ Cardinality(Env) \in Nat
<1>1. Cardinality(Env) \in Nat
    BY DelayAssumption, FS_CardinalityType
<1> QED
    BY <1>1, DelayAssumption DEF Queue, Timer, Sleep

(* The top handler goes on, another one starts, the top one returns.       *)
LEMMA TopIs ==
    ASSUME FrameInv, frames # <<>>
    PROVE  Depth \in 1 .. Len(frames) /\ Top \in Frame /\ Shape(Top)
<1>1. Len(frames) \in Nat /\ Len(frames) # 0
    BY DEF FrameInv
<1> QED
    BY <1>1 DEF FrameInv, Depth, Top

LEMMA Replaced ==
    ASSUME FrameInv, frames # <<>>, NEW f \in Frame, Shape(f),
           frames' = [frames EXCEPT ![Depth] = f]
    PROVE  FrameInv'
<1>1. Depth \in 1 .. Len(frames) /\ frames \in Seq(Frame) /\ Len(frames) \in Nat
    BY TopIs DEF FrameInv
<1>2. /\ frames' \in Seq(Frame) /\ Len(frames') = Len(frames)
      /\ \A k \in 1 .. Len(frames) : frames'[k] = IF k = Depth THEN f ELSE frames[k]
    BY <1>1
<1> QED
    BY <1>2 DEF FrameInv

LEMMA Pushed ==
    ASSUME FrameInv, NEW f \in Frame, Shape(f), frames' = Append(frames, f)
    PROVE  FrameInv'
<1>1. frames \in Seq(Frame) /\ Len(frames) \in Nat
    BY DEF FrameInv
<1>2. /\ frames' \in Seq(Frame) /\ Len(frames') = Len(frames) + 1
      /\ \A k \in 1 .. Len(frames) + 1 :
            frames'[k] = IF k = Len(frames) + 1 THEN f ELSE frames[k]
    BY <1>1
<1> QED
    BY <1>1, <1>2 DEF FrameInv

LEMMA Popped ==
    ASSUME FrameInv, frames # <<>>, frames' = SubSeq(frames, 1, Depth - 1)
    PROVE  FrameInv' /\ Len(frames') = Len(frames) - 1
<1>1. frames \in Seq(Frame) /\ Len(frames) \in Nat \ {0}
    BY TopIs DEF FrameInv
<1> DEFINE m == Len(frames) - 1
<1>2. m \in Nat /\ m + 1 = Len(frames) /\ frames' = SubSeq(frames, 1, m)
    BY <1>1 DEF Depth
<1> HIDE DEF m
<1>3. frames' \in Seq(Frame) /\ Len(frames') = m /\ \A k \in 1 .. m : frames'[k] = frames[k]
    <2>1. /\ \A k \in 1 .. m : frames[k] \in Frame
          /\ (IF 1 <= m THEN m - 1 + 1 ELSE 0) = m /\ m - 1 + 1 = m
          /\ \A k \in 1 .. m : 1 + k - 1 = k
        BY <1>1, <1>2
    <2>2. /\ SubSeq(frames, 1, m) \in Seq(Frame)
          /\ Len(SubSeq(frames, 1, m)) = IF 1 <= m THEN m - 1 + 1 ELSE 0
          /\ \A k \in 1 .. m - 1 + 1 : SubSeq(frames, 1, m)[k] = frames[1 + k - 1]
        BY <1>1, <1>2, <2>1, SubSeqProperties
    <2> QED
        BY <1>2, <2>1, <2>2
<1>4. \A k \in 1 .. m : k \in 1 .. Len(frames)
    BY <1>2
<1> QED
    BY <1>3, <1>4 DEF FrameInv, m

LEMMA VisitingFrame ==
    ASSUME NEW e \in Env \cup {NULL}
    PROVE  Visiting(e) \in Frame /\ Shape(Visiting(e))
BY DEF Visiting, Frame, Pc, Shape

LEMMA HeadLink ==
    ASSUME StoreInv, NEW q \in Queue
    PROVE  /\ envs.head[q] \in Env \cup {NULL}
           /\ \A e \in Env : envs.p[e] \in Env \cup {NULL}
           /\ On(envs, q) \subseteq Env
BY OnFacts, Domains DEF StoreInv, Store

LEMMA StoreENQ ==
    ASSUME StoreInv, NEW q, NEW e \in Env, envs' = env_ENQ(envs, q, e)
    PROVE  StoreInv'
BY ENQType, ENQAcyclic, Domains DEF StoreInv

LEMMA StoreDEQ ==
    ASSUME StoreInv, NEW q \in Queue, envs' = env_DEQ(envs, q)
    PROVE  StoreInv'
BY DEQType, DEQAcyclic, Domains DEF StoreInv

-----------------------------------------------------------------------------
LEMMA InitTypeInv == Init => TypeInv
<1> SUFFICES ASSUME Init PROVE TypeInv
    OBVIOUS
<1>1. StoreInv
    BY EmptyStoreType, EmptyStoreAcyclic, Domains DEF Init, StoreInv
<1>2. MemInv
    BY DelayAssumption DEF Init, MemInv, Codes
<1>3. FrameInv
    BY DEF Init, FrameInv
<1> QED
    BY <1>1, <1>2, <1>3 DEF TypeInv

LEMMA RequestTypeInv ==
    ASSUME TypeInv, NEW p \in Proc, NEW e \in Env, NEW d \in Delays,
           NEW code \in {"WAKEUP", "COUNT_REPORT"}, request_delay(p, e, d, code)
    PROVE  TypeInv'
<1>1. StoreInv'
    BY StoreENQ DEF TypeInv, request_delay
<1>2. MemInv'
    BY Domains DEF TypeInv, MemInv, Codes, request_delay
<1>3. FrameInv'
    BY DEF TypeInv, FrameInv, request_delay
<1> QED
    BY <1>1, <1>2, <1>3 DEF TypeInv

LEMMA ReceiveTypeInv ==
    ASSUME TypeInv, NEW p \in Proc, receive_message(p)
    PROVE  TypeInv'
<1>1. StoreInv'
    BY StoreDEQ, Domains DEF TypeInv, receive_message
<1>2. envs.head[p] \in Env
    BY HeadLink, Domains DEF TypeInv, receive_message
<1>3. MemInv'
    BY <1>2 DEF TypeInv, MemInv, receive_message
<1>4. FrameInv'
    BY DEF TypeInv, FrameInv, receive_message
<1> QED
    BY <1>1, <1>3, <1>4 DEF TypeInv

LEMMA TickTypeInv ==
    ASSUME TypeInv, Tick
    PROVE  TypeInv'
<1>1. StoreInv'
    BY StoreDEQ, Domains DEF TypeInv, Tick
<1>2. MemInv'
    BY DEF TypeInv, MemInv, Tick
<1>3. FrameInv'
    <2> DEFINE e == envs.head[Timer]
               request == e # NULL /\ msg_type[e] = "WAKEUP"
               f == [ pc |-> IF request THEN "enqueue" ELSE "start",
                      env |-> IF request THEN e ELSE NULL, sleeptraverse |-> NULL,
                      removeid |-> NULL ]
    <2>1. frames' = Append(frames, f)
        BY DEF Tick
    <2>2. e \in Env \cup {NULL}
        BY HeadLink, Domains DEF TypeInv
    <2>3. f \in Frame /\ Shape(f)
        BY <2>2 DEF Frame, Pc, Shape
    <2> HIDE DEF f
    <2> QED
        BY <2>1, <2>3, Pushed DEF TypeInv
<1> QED
    BY <1>1, <1>2, <1>3 DEF TypeInv

LEMMA HandlerTypeInv ==
    ASSUME TypeInv, timer_iproc
    PROVE  TypeInv'
<1>1. StoreInv /\ MemInv /\ FrameInv
    BY DEF TypeInv
<1>2. frames # <<>>
    BY DEF timer_iproc, EnqueueRequest, StartTraversal, Visit, Remove, Wake, Return, At
<1>3. Top \in Frame /\ Shape(Top) /\ Depth \in 1 .. Len(frames) /\ Top = frames[Depth]
    BY <1>1, <1>2, TopIs DEF Top
<1>4. CASE EnqueueRequest
    <2>1. Top.pc = "enqueue" /\ Top.env \in Env
        BY <1>3, <1>4 DEF EnqueueRequest, At, Shape
    <2> DEFINE f == [Top EXCEPT !.pc = "start", !.env = NULL]
    <2>2. frames' = [frames EXCEPT ![Depth] = f]
        BY <1>1, <1>3, <1>4 DEF EnqueueRequest, FrameInv
    <2>3. f \in Frame /\ Shape(f)
        BY <1>3 DEF Frame, Pc, Shape
    <2> HIDE DEF f
    <2>4. FrameInv'
        BY <1>1, <1>2, <2>2, <2>3, Replaced
    <2>5. StoreInv' /\ MemInv'
        BY <1>1, <1>4, <2>1, StoreENQ DEF EnqueueRequest, MemInv
    <2> QED
        BY <2>4, <2>5 DEF TypeInv
<1>5. CASE StartTraversal
    <2>1. FrameInv'
        BY <1>1, <1>2, <1>5, HeadLink, Domains, VisitingFrame, Replaced DEF StartTraversal
    <2> QED
        BY <1>1, <1>5, <2>1 DEF StartTraversal, TypeInv, StoreInv, MemInv
<1>6. CASE Visit
    <2> DEFINE e == Top.sleeptraverse
               n == envs.p[e]
               f == Removing(e, n)
    <2>1. /\ e \in Env /\ n \in Env \cup {NULL} /\ msg_text[e] \in Nat
          /\ sender_id[e] \in Proc \cup {Timer, NULL}
        BY <1>1, <1>3, <1>6, HeadLink, Domains DEF Visit, At, Shape, MemInv
    <2>2. f \in Frame /\ Shape(f) /\ Visiting(n) \in Frame /\ Shape(Visiting(n))
        BY <2>1, VisitingFrame DEF Removing, Frame, Pc, Shape
    <2>3. \/ frames' = [frames EXCEPT ![Depth] = Visiting(n)]
          \/ frames' = [frames EXCEPT ![Depth] = f]
        BY <1>6 DEF Visit
    <2>4. msg_text' \in [Env -> Nat]
        <3>1. msg_text[e] - 1 > 0 => msg_text[e] - 1 \in Nat
            BY <2>1
        <3>2. \/ msg_text' = msg_text
              \/ msg_text[e] - 1 > 0 /\ msg_text' = [msg_text EXCEPT ![e] = msg_text[e] - 1]
            BY <1>6 DEF Visit
        <3> QED
            BY <1>1, <3>1, <3>2 DEF MemInv
    <2> HIDE DEF f, n
    <2>5. FrameInv'
        BY <1>1, <1>2, <2>2, <2>3, Replaced
    <2> QED
        BY <1>1, <1>6, <2>4, <2>5 DEF Visit, TypeInv, StoreInv, MemInv
<1>7. CASE Remove
    <2> DEFINE match == { e \in Env : sender_id[e] = Top.removeid }
               x == IF On(envs, Sleep) \cap match = {} THEN NULL
                    ELSE FirstOn(envs, Sleep, match)
               f == [Top EXCEPT !.pc = "wake", !.env = x]
    <2>1. envs' = env_REMOVE(envs, Sleep, match)
        BY <1>7 DEF Remove
    <2>2. StoreInv'
        BY <1>1, <2>1, envREMOVE, Domains DEF StoreInv
    <2>3. x \in Env \cup {NULL}
        BY <1>1, FirstOnExists, Domains DEF StoreInv
    <2>4. frames' = [frames EXCEPT ![Depth] = f]
        BY <1>1, <1>3, <1>7 DEF Remove, FrameInv
    <2> HIDE DEF x
    <2>5. f \in Frame /\ Shape(f)
        BY <1>3, <2>3 DEF Frame, Pc, Shape
    <2> HIDE DEF f
    <2>6. FrameInv'
        BY <1>1, <1>2, <2>4, <2>5, Replaced
    <2> QED
        BY <1>1, <1>7, <2>2, <2>6 DEF Remove, TypeInv, MemInv
<1>8. CASE Wake
    <2>1. CASE Top.env = NULL
        BY <1>1, <1>8, <2>1 DEF Wake, TypeInv, StoreInv, MemInv, FrameInv
    <2>2. CASE Top.env # NULL
        <3>1. Top.env \in Env /\ Top.sleeptraverse \in Env \cup {NULL}
            BY <1>3, <2>2 DEF Frame
        <3>2. FrameInv'
            BY <1>1, <1>2, <1>8, <2>2, <3>1, VisitingFrame, Replaced DEF Wake
        <3>3. StoreInv'
            BY <1>1, <1>8, <2>2, <3>1, StoreENQ DEF Wake
        <3>4. MemInv'
            BY <1>1, <1>8, <2>2, <3>1 DEF Wake, MemInv
        <3> QED
            BY <3>2, <3>3, <3>4 DEF TypeInv
    <2> QED
        BY <2>1, <2>2
<1>9. CASE Return
    <2>1. FrameInv'
        BY <1>1, <1>2, <1>9, Popped DEF Return
    <2> QED
        BY <1>1, <1>9, <2>1 DEF Return, TypeInv, StoreInv, MemInv
<1> QED
    BY <1>4, <1>5, <1>6, <1>7, <1>8, <1>9 DEF timer_iproc

LEMMA NextTypeInv == TypeInv /\ [Next]_vars => TypeInv'
<1> SUFFICES ASSUME TypeInv, [Next]_vars
             PROVE  TypeInv'
    OBVIOUS
<1>1. CASE UNCHANGED vars
    BY <1>1 DEF vars, TypeInv, StoreInv, MemInv, FrameInv
<1> QED
    BY <1>1, RequestTypeInv, ReceiveTypeInv, TickTypeInv, HandlerTypeInv DEF Next, Process

(* A frame that has an envelope in hand, or visits one, names one, and the *)
(* queues stay free of cycles, whatever handlers do to them.               *)
THEOREM TypeInvariant == Spec => []TypeInv
BY InitTypeInv, NextTypeInv, PTL DEF Spec

(* The memory of the timer stays in its type for any nesting of handlers,  *)
(* even where a nested tick takes away the envelope a traversal is at.     *)
THEOREM TypeCorrect == Spec => []TypeOK
<1>1. TypeInv => TypeOK
    <2> SUFFICES ASSUME TypeInv PROVE TypeOK
        OBVIOUS
    <2>1. \A k \in DOMAIN frames : frames[k] \in Frame
        BY DEF TypeInv, FrameInv
    <2> QED
        BY <2>1 DEF TypeInv, StoreInv, MemInv, TypeOK, Frame, Pc, Codes
<1> QED
    BY <1>1, TypeInvariant, PTL

-----------------------------------------------------------------------------
(* What the code has right: no delay is to end before one asked for        *)
(* earlier, and a handler returns before the next tick.                    *)
InTurn == InOrder /\ MaxNest = 1

(* The handler there is, and the envelope it has in hand.                  *)
Hand(e) ==
    frames # <<>> /\ Top.pc \in {"enqueue", "wake"} /\ Top.env = e

PlacesInv ==
    /\ WellFormed(envs, Env, Queue)
    /\ \A e \in Env : Hand(e) => OnNone(envs, Queue, e)
    /\ \A p \in Proc : \A e \in held[p] : /\ OnNone(envs, Queue, e) /\ ~ Hand(e)
                                      /\ \A r \in Proc : e \in held[r] => r = p

(* The timer's queue, sleep_Q and the hand of the handler are where the    *)
(* delays are.                                                             *)
Requested(e) == e \in On(envs, Timer) /\ msg_type[e] = "WAKEUP"
Pending(e) == Requested(e) \/ e \in On(envs, Sleep) \/ Hand(e)

AlarmInv ==
    /\ alarm \in [status : [Env -> {"off", "set", "rung"}],
                  asked : [Env -> Nat], age : [Env -> Nat]]
    /\ \A e \in Env : alarm.status[e] = "set" <=> Pending(e)
    /\ \A e \in Env : Pending(e) => sender_id[e] \in Proc /\ alarm.asked[e] > 0
    /\ \A p \in Proc : /\ \A e \in On(envs, p) : alarm.status[e] = "rung"
                       /\ \A e \in held[p] : alarm.status[e] = "off"

(* The ticks an envelope has left, the ticks it has been counted down, and *)
(* its age in ticks: n envelopes in all, one of which is taken per tick.   *)
Left(e, text) == Ticks(text[e])
Counted(e, text, al) == al.asked[e] - Left(e, text)

Passed(e, text, al, n) ==
    /\ Counted(e, text, al) \in 1 .. al.age[e]
    /\ al.age[e] < n + Counted(e, text, al)

Due(e, text, al, n) ==
    /\ Counted(e, text, al) \in 0 .. al.age[e] - 1
    /\ al.age[e] <= n + Counted(e, text, al)

(* sleep_Q is c, of which the traversal has passed the first v.            *)
SleepOk(c, v, text, al, n) ==
    /\ \A i \in 1 .. Len(c) : /\ i <= v => Passed(c[i], text, al, n)
                              /\ v < i  => Due(c[i], text, al, n)
    /\ \A i, j \in 1 .. Len(c) : /\ i < j => Left(c[i], text) <= Left(c[j], text)
                                 /\ i <= v /\ v < j => Left(c[i], text) < Left(c[j], text)

(* The requests that wait in c, the timer's queue.                         *)
TimerOk(c, text, type, al, n) ==
    \A i \in 1 .. Len(c) :
        type[c[i]] = "WAKEUP" =>
            /\ Counted(c[i], text, al) = 0 /\ al.age[c[i]] + i <= n
            /\ \A j \in 1 .. Len(c) :
                  i < j /\ type[c[j]] = "WAKEUP" => Left(c[i], text) <= Left(c[j], text)

(* All of b end after all of a.                                            *)
After(a, b, text) == \A d \in a, e \in b : Left(d, text) <= Left(e, text)

Sleepers == On(envs, Sleep)
Requests == { e \in Env : Requested(e) }

First(c) == IF c = <<>> THEN NULL ELSE c[1]

(* Where the handler f is when sleep_Q is c.                               *)
Stage(f, c, v, text, al, n) ==
    /\ f.pc \in {"enqueue", "start"} => v = 0
    /\ f.pc = "enqueue" => Due(f.env, text, al, n) /\ Counted(f.env, text, al) = 0
    /\ f.pc = "visit"  => v < Len(c) /\ f.sleeptraverse = c[v + 1]
    /\ f.pc = "remove" => /\ v = 0 /\ c # <<>> /\ f.env = c[1] /\ Left(c[1], text) = 1
                          /\ f.sleeptraverse = First(Tail(c))
    /\ f.pc = "wake"   => /\ v = 0 /\ f.env \in Env /\ al.asked[f.env] <= al.age[f.env]
                          /\ f.sleeptraverse = First(c)
    /\ f.pc = "return" => v = Len(c)

OrderInv ==
    /\ TimerOk(Chain(envs, Timer), msg_text, msg_type, alarm, Cardinality(Env))
    /\ After(Sleepers, Requests, msg_text)
    /\ frames # <<>> /\ Top.pc = "enqueue" =>
          After(Sleepers, {Top.env}, msg_text) /\ After({Top.env}, Requests, msg_text)
    /\ \E v \in 0 .. Len(Chain(envs, Sleep)) :
          /\ SleepOk(Chain(envs, Sleep), v, msg_text, alarm, Cardinality(Env))
          /\ frames = <<>> => v = Len(Chain(envs, Sleep))
          /\ frames # <<>> => Stage(Top, Chain(envs, Sleep), v, msg_text, alarm, Cardinality(Env))

(* removeid still names the sender of the envelope that is due.            *)
Named ==
    frames # <<>> /\ Top.pc = "remove" => Top.removeid = sender_id[Top.env]

TurnInv ==
    Len(frames) <= 1 /\ ~ fault /\ Named /\ PlacesInv /\ AlarmInv /\ OrderInv

-----------------------------------------------------------------------------
(* How the queues in their order change.                                   *)
Typed(text, al) ==
    text \in [Env -> Nat] /\ al.asked \in [Env -> Nat] /\ al.age \in [Env -> Nat]

Same(e, text, al, text1, al1) ==
    text1[e] = text[e] /\ al1.asked[e] = al.asked[e] /\ al1.age[e] = al.age[e]

LEMMA LeftNat ==
    ASSUME NEW text \in [Env -> Nat], NEW e \in Env
    PROVE  /\ Left(e, text) \in Nat \ {0}
           /\ text[e] - 1 > 0 => Left(e, text) = text[e]
           /\ ~ (text[e] - 1 > 0) => Left(e, text) = 1
BY DEF Left, Ticks

LEMMA SleepSame ==
    ASSUME NEW c \in Seq(Env), NEW v, NEW text, NEW al, NEW n, NEW text1, NEW al1,
           SleepOk(c, v, text, al, n),
           \A i \in 1 .. Len(c) : Same(c[i], text, al, text1, al1)
    PROVE  SleepOk(c, v, text1, al1, n)
<1>1. \A i \in 1 .. Len(c) : /\ Left(c[i], text1) = Left(c[i], text)
                             /\ Passed(c[i], text1, al1, n) <=> Passed(c[i], text, al, n)
                             /\ Due(c[i], text1, al1, n) <=> Due(c[i], text, al, n)
    BY DEF Same, Left, Passed, Due, Counted
<1> QED
    BY <1>1 DEF SleepOk

LEMMA SleepAppend ==
    ASSUME NEW c \in Seq(Env), NEW text, NEW al, Typed(text, al), NEW n \in Nat,
           SleepOk(c, 0, text, al, n), NEW e \in Env, Due(e, text, al, n),
           \A i \in 1 .. Len(c) : Left(c[i], text) <= Left(e, text)
    PROVE  SleepOk(Append(c, e), 0, text, al, n)
<1> DEFINE d == Append(c, e)
           m == Len(c) + 1
<1>1. /\ Len(c) \in Nat /\ m \in Nat /\ Len(d) = m
      /\ \A i \in 1 .. m : d[i] = IF i < m THEN c[i] ELSE e
      /\ \A i \in 1 .. m : (i < m => i \in 1 .. Len(c)) /\ ~ (i <= 0) /\ 0 < i
    OBVIOUS
<1> HIDE DEF d, m
<1>2. ASSUME NEW i \in 1 .. m
      PROVE  Due(d[i], text, al, n)
    BY <1>1, <1>2 DEF SleepOk
<1>3. ASSUME NEW i \in 1 .. m, NEW j \in 1 .. m, i < j
      PROVE  Left(d[i], text) <= Left(d[j], text)
    <2>1. i < m /\ d[i] = c[i] /\ i \in 1 .. Len(c)
        BY <1>1, <1>3
    <2>2. CASE j = m
        BY <1>1, <2>1, <2>2
    <2>3. CASE j # m
        <3>1. d[j] = c[j] /\ j \in 1 .. Len(c)
            BY <1>1, <2>3
        <3> QED
            BY <1>3, <2>1, <3>1 DEF SleepOk
    <2> QED
        BY <2>2, <2>3
<1>4. SleepOk(d, 0, text, al, n)
    BY <1>1, <1>2, <1>3 DEF SleepOk
<1> QED
    BY <1>4 DEF d

LEMMA SleepTail ==
    ASSUME NEW c \in Seq(Env), c # <<>>, NEW text, NEW al, NEW n,
           SleepOk(c, 0, text, al, n)
    PROVE  SleepOk(Tail(c), 0, text, al, n)
<1> DEFINE d == Tail(c)
           m == Len(d)
<1>1. /\ m \in Nat
      /\ \A i \in 1 .. m : d[i] = c[i + 1] /\ i + 1 \in 1 .. Len(c) /\ 0 < i + 1 /\ ~ (i <= 0)
    OBVIOUS
<1> HIDE DEF d, m
<1>2. \A i \in 1 .. m : Due(d[i], text, al, n)
    BY <1>1 DEF SleepOk
<1>3. ASSUME NEW i \in 1 .. m, NEW j \in 1 .. m, i < j
      PROVE  Left(d[i], text) <= Left(d[j], text)
    <2>1. i + 1 < j + 1 /\ i + 1 \in 1 .. Len(c) /\ j + 1 \in 1 .. Len(c)
        BY <1>1, <1>3
    <2>2. Left(c[i + 1], text) <= Left(c[j + 1], text)
        BY <2>1 DEF SleepOk
    <2> QED
        BY <1>1, <2>2
<1>4. SleepOk(d, 0, text, al, n)
    BY <1>1, <1>2, <1>3 DEF SleepOk, m
<1> QED
    BY <1>4 DEF d

(* The traversal counts the envelope it is at.                             *)
LEMMA SleepVisit ==
    ASSUME NEW c \in Seq(Env), NEW v \in Nat, v < Len(c), NEW text, NEW al,
           Typed(text, al), NEW n \in Nat, SleepOk(c, v, text, al, n),
           \A i, j \in 1 .. Len(c) : c[i] = c[j] => i = j,
           text[c[v + 1]] - 1 > 0
    PROVE  SleepOk(c, v + 1, [text EXCEPT ![c[v + 1]] = text[c[v + 1]] - 1], al, n)
<1> DEFINE w == v + 1
           e == c[w]
           text1 == [text EXCEPT ![e] = text[e] - 1]
<1>1. w \in 1 .. Len(c) /\ w \in Nat /\ w > 0 /\ e \in Env /\ Len(c) \in Nat
      /\ \A i \in 1 .. Len(c) : (i <= v <=> i < w) /\ (v < i <=> w <= i)
    OBVIOUS
<1>2. text[e] - 1 > 0 /\ text[e] \in Nat /\ text \in [Env -> Nat]
    BY <1>1 DEF Typed
<1>3. text1 \in [Env -> Nat] /\ \A d \in Env : text1[d] = IF d = e THEN text[e] - 1 ELSE text[d]
    BY <1>1, <1>2
<1> HIDE DEF text1
<1>4. ASSUME NEW i \in 1 .. Len(c)
      PROVE  /\ c[i] \in Env /\ (c[i] = e <=> i = w)
             /\ Left(c[i], text) \in Nat \ {0} /\ Left(c[i], text1) \in Nat \ {0}
             /\ Left(c[i], text1) = IF i = w THEN Left(c[i], text) - 1 ELSE Left(c[i], text)
    <2>1. c[i] \in Env /\ (c[i] = e <=> i = w)
        BY <1>1
    <2>2. Left(c[i], text) \in Nat \ {0} /\ Left(c[i], text1) \in Nat \ {0}
        BY <1>2, <1>3, <2>1, LeftNat
    <2>3. Left(c[i], text1) = IF i = w THEN Left(c[i], text) - 1 ELSE Left(c[i], text)
        BY <1>2, <1>3, <2>1 DEF Left, Ticks
    <2> QED
        BY <2>1, <2>2, <2>3
<1> HIDE DEF w, e
<1>5. ASSUME NEW i \in 1 .. Len(c)
      PROVE  (i <= w => Passed(c[i], text1, al, n)) /\ (w < i => Due(c[i], text1, al, n))
    <2>1. al.asked[c[i]] \in Nat /\ al.age[c[i]] \in Nat
        <3>1. c[i] \in Env
            BY <1>4
        <3> QED
            BY <3>1 DEF Typed
    <2>2. (i < w => Passed(c[i], text, al, n)) /\ (w <= i => Due(c[i], text, al, n))
        BY <1>1 DEF SleepOk
    <2>3. CASE i = w
        <3>1. Counted(c[i], text1, al) = Counted(c[i], text, al) + 1
            BY <1>4, <2>1, <2>3 DEF Counted
        <3>2. Counted(c[i], text, al) \in Int
            BY <1>4, <2>1 DEF Counted
        <3>3. Due(c[i], text, al, n)
            BY <1>1, <2>2, <2>3
        <3> QED
            BY <1>1, <2>1, <2>3, <3>1, <3>2, <3>3 DEF Due, Passed
    <2>4. CASE i # w
        <3>1. Counted(c[i], text1, al) = Counted(c[i], text, al)
              /\ (i <= w => i < w) /\ (w < i => w <= i)
            BY <1>1, <1>4, <2>4 DEF Counted
        <3> QED
            BY <2>2, <3>1 DEF Due, Passed
    <2> QED
        BY <2>3, <2>4
<1>6. ASSUME NEW i \in 1 .. Len(c), NEW j \in 1 .. Len(c)
      PROVE  /\ i < j => Left(c[i], text1) <= Left(c[j], text1)
             /\ i <= w /\ w < j => Left(c[i], text1) < Left(c[j], text1)
    <2>1. /\ i < j => Left(c[i], text) <= Left(c[j], text)
          /\ i < w /\ w <= j => Left(c[i], text) < Left(c[j], text)
        BY <1>1 DEF SleepOk
    <2> QED
        BY <1>1, <1>4, <2>1
<1>7. SleepOk(c, w, text1, al, n)
    BY <1>5, <1>6 DEF SleepOk
<1> QED
    BY <1>7 DEF w, e, text1

(* A tick: what was counted by the last one is to be counted by this one.  *)
LEMMA SleepTick ==
    ASSUME NEW c \in Seq(Env), NEW text, NEW al, NEW al1, Typed(text, al),
           NEW n \in Nat, SleepOk(c, Len(c), text, al, n),
           \A i \in 1 .. Len(c) : /\ al1.asked[c[i]] = al.asked[c[i]]
                                  /\ al1.age[c[i]] = al.age[c[i]] + 1
    PROVE  SleepOk(c, 0, text, al1, n)
<1>1. Len(c) \in Nat /\ \A i \in 1 .. Len(c) : c[i] \in Env /\ i <= Len(c) /\ ~ (i <= 0)
    OBVIOUS
<1>2. ASSUME NEW i \in 1 .. Len(c)
      PROVE  Due(c[i], text, al1, n)
    <2>1. Counted(c[i], text, al1) = Counted(c[i], text, al)
        BY DEF Counted
    <2>2. Left(c[i], text) \in Nat /\ al.asked[c[i]] \in Nat /\ al.age[c[i]] \in Nat
        BY <1>1, LeftNat DEF Typed
    <2>3. Counted(c[i], text, al) \in Int
        BY <2>2 DEF Counted
    <2>4. Passed(c[i], text, al, n)
        BY <1>1 DEF SleepOk
    <2>5. al1.age[c[i]] = al.age[c[i]] + 1
        OBVIOUS
    <2> QED
        BY <2>1, <2>2, <2>3, <2>4, <2>5 DEF Passed, Due
<1>3. ASSUME NEW i \in 1 .. Len(c), NEW j \in 1 .. Len(c), i < j
      PROVE  Left(c[i], text) <= Left(c[j], text)
    BY <1>3 DEF SleepOk
<1> QED
    BY <1>1, <1>2, <1>3 DEF SleepOk

LEMMA TimerSame ==
    ASSUME NEW c \in Seq(Env), NEW text, NEW type, NEW al, NEW n,
           NEW text1, NEW type1, NEW al1, TimerOk(c, text, type, al, n),
           \A i \in 1 .. Len(c) : Same(c[i], text, al, text1, al1) /\ type1[c[i]] = type[c[i]]
    PROVE  TimerOk(c, text1, type1, al1, n)
<1>1. \A i \in 1 .. Len(c) : /\ Left(c[i], text1) = Left(c[i], text)
                             /\ Counted(c[i], text1, al1) = Counted(c[i], text, al)
                             /\ al1.age[c[i]] = al.age[c[i]] /\ type1[c[i]] = type[c[i]]
    BY DEF Same, Left, Counted
<1> QED
    BY <1>1 DEF TimerOk

LEMMA TimerAppend ==
    ASSUME NEW c \in Seq(Env), NEW text, NEW type, NEW al, NEW n, NEW e \in Env,
           TimerOk(c, text, type, al, n),
           type[e] = "WAKEUP" =>
              /\ Counted(e, text, al) = 0 /\ al.age[e] + (Len(c) + 1) <= n
              /\ \A i \in 1 .. Len(c) :
                    type[c[i]] = "WAKEUP" => Left(c[i], text) <= Left(e, text)
    PROVE  TimerOk(Append(c, e), text, type, al, n)
<1> DEFINE d == Append(c, e)
           m == Len(c) + 1
<1>1. /\ Len(c) \in Nat /\ m \in Nat /\ Len(d) = m
      /\ \A i \in 1 .. m : (i < m => d[i] = c[i] /\ i \in 1 .. Len(c)) /\ (i = m => d[i] = e)
      /\ \A i \in 1 .. m : i < m \/ i = m
    OBVIOUS
<1> HIDE DEF d
<1>2. ASSUME NEW i \in 1 .. m, type[d[i]] = "WAKEUP"
      PROVE  Counted(d[i], text, al) = 0 /\ al.age[d[i]] + i <= n
    BY <1>1, <1>2 DEF TimerOk
<1> HIDE DEF m
<1>3. ASSUME NEW i \in 1 .. m, NEW j \in 1 .. m, i < j,
             type[d[i]] = "WAKEUP", type[d[j]] = "WAKEUP"
      PROVE  Left(d[i], text) <= Left(d[j], text)
    <2>1. i < m
        BY <1>1, <1>3
    <2>2. CASE j = m
        BY <1>1, <1>3, <2>1, <2>2
    <2>3. CASE j < m
        BY <1>1, <1>3, <2>1, <2>3 DEF TimerOk
    <2> QED
        BY <1>1, <2>2, <2>3
<1>4. TimerOk(d, text, type, al, n)
    BY <1>1, <1>2, <1>3 DEF TimerOk
<1> QED
    BY <1>4 DEF d

(* The requests in c grow older, and the first of them is at hand.         *)
Older(c, type, al, al1) ==
    \A i \in 1 .. Len(c) : type[c[i]] = "WAKEUP" =>
        al1.asked[c[i]] = al.asked[c[i]] /\ al1.age[c[i]] = al.age[c[i]] + 1

AtHand(c, text, type, al, n) ==
    type[c[1]] = "WAKEUP" =>
        /\ Due(c[1], text, al, n) /\ Counted(c[1], text, al) = 0
        /\ \A i \in 1 .. Len(Tail(c)) : type[Tail(c)[i]] = "WAKEUP"
                                        => Left(c[1], text) <= Left(Tail(c)[i], text)

(* A tick takes the first request, and the others come one place nearer.   *)
LEMMA TimerTick ==
    ASSUME NEW c \in Seq(Env), NEW text, NEW type, NEW al, NEW al1,
           Typed(text, al), NEW n \in Nat,
           TimerOk(c, text, type, al, n), c # <<>>, Older(c, type, al, al1)
    PROVE  TimerOk(Tail(c), text, type, al1, n) /\ AtHand(c, text, type, al1, n)
<1> DEFINE d == Tail(c)
           m == Len(d)
<1>1. /\ m \in Nat /\ 1 \in 1 .. Len(c)
      /\ \A i \in 1 .. m : d[i] = c[i + 1] /\ i + 1 \in 1 .. Len(c) /\ 1 < i + 1
      /\ \A i \in 1 .. Len(c) : c[i] \in Env
    OBVIOUS
<1> HIDE DEF d, m
<1>2. ASSUME NEW i \in 1 .. Len(c), type[c[i]] = "WAKEUP"
      PROVE  /\ Counted(c[i], text, al1) = 0
             /\ al.age[c[i]] \in Nat /\ al1.age[c[i]] = al.age[c[i]] + 1
             /\ al.age[c[i]] + i <= n
    <2>1. al.age[c[i]] \in Nat
        BY <1>1 DEF Typed
    <2>2. Counted(c[i], text, al1) = Counted(c[i], text, al)
        BY <1>2 DEF Counted, Older
    <2>3. Counted(c[i], text, al) = 0 /\ al.age[c[i]] + i <= n
        BY <1>2 DEF TimerOk
    <2>4. al1.age[c[i]] = al.age[c[i]] + 1
        BY <1>2 DEF Older
    <2> QED
        BY <2>1, <2>2, <2>3, <2>4
<1>3. ASSUME NEW i \in 1 .. Len(c), NEW j \in 1 .. Len(c), i < j,
             type[c[i]] = "WAKEUP", type[c[j]] = "WAKEUP"
      PROVE  Left(c[i], text) <= Left(c[j], text)
    BY <1>3 DEF TimerOk
<1>4. ASSUME NEW i \in 1 .. m, type[d[i]] = "WAKEUP"
      PROVE  Counted(d[i], text, al1) = 0 /\ al1.age[d[i]] + i <= n
    <2>1. d[i] = c[i + 1] /\ i + 1 \in 1 .. Len(c) /\ type[c[i + 1]] = "WAKEUP"
        BY <1>1, <1>4
    <2>2. /\ Counted(c[i + 1], text, al1) = 0
          /\ al.age[c[i + 1]] \in Nat /\ al1.age[c[i + 1]] = al.age[c[i + 1]] + 1
          /\ al.age[c[i + 1]] + (i + 1) <= n
        BY <1>2, <2>1
    <2> QED
        BY <1>1, <2>1, <2>2
<1>5. ASSUME NEW i \in 1 .. m, NEW j \in 1 .. m, i < j,
             type[d[i]] = "WAKEUP", type[d[j]] = "WAKEUP"
      PROVE  Left(d[i], text) <= Left(d[j], text)
    <2>1. i + 1 < j + 1 /\ i + 1 \in 1 .. Len(c) /\ j + 1 \in 1 .. Len(c)
          /\ d[i] = c[i + 1] /\ d[j] = c[j + 1]
        BY <1>1, <1>5
    <2>2. Left(c[i + 1], text) <= Left(c[j + 1], text)
        BY <1>3, <1>5, <2>1
    <2> QED
        BY <2>1, <2>2
<1>6. TimerOk(d, text, type, al1, n)
    <2>1. Len(d) = m
        BY DEF m
    <2> QED
        BY <1>4, <1>5, <2>1 DEF TimerOk
<1>7. ASSUME type[c[1]] = "WAKEUP"
      PROVE  Due(c[1], text, al1, n) /\ Counted(c[1], text, al1) = 0
    <2>1. /\ Counted(c[1], text, al1) = 0
          /\ al.age[c[1]] \in Nat /\ al1.age[c[1]] = al.age[c[1]] + 1
          /\ al.age[c[1]] + 1 <= n
        BY <1>1, <1>2, <1>7
    <2> QED
        BY <2>1 DEF Due
<1>8. ASSUME type[c[1]] = "WAKEUP", NEW i \in 1 .. m, type[d[i]] = "WAKEUP"
      PROVE  Left(c[1], text) <= Left(d[i], text)
    BY <1>1, <1>3, <1>8
<1> QED
    BY <1>6, <1>7, <1>8 DEF AtHand, d, m

-----------------------------------------------------------------------------
(* The one handler.                                                        *)
LEMMA NoLess ==
    ASSUME NEW n \in Nat, n # 0, n <= 1
    PROVE  n = 1
OBVIOUS

LEMMA OneFrame ==
    ASSUME FrameInv, frames # <<>>, Len(frames) <= 1
    PROVE  frames \in Seq(Frame) /\ Len(frames) = 1 /\ Depth = 1 /\ Top = frames[1]
<1>1. Len(frames) \in Nat /\ Len(frames) # 0
    BY TopIs DEF FrameInv
<1>2. Len(frames) = 1
    BY ONLY <1>1, NoLess, Len(frames) <= 1
<1> QED
    BY <1>2 DEF FrameInv, Depth, Top

LEMMA OneReplaced ==
    ASSUME FrameInv, frames # <<>>, Len(frames) <= 1, NEW f,
           frames' = [frames EXCEPT ![Depth] = f]
    PROVE  frames' # <<>> /\ Len(frames') <= 1 /\ Top' = f
<1>1. frames \in Seq(Frame) /\ Len(frames) = 1
    BY OneFrame
<1>2. Len(frames') = 1 /\ frames'[1] = f
    BY <1>1 DEF Depth
<1> QED
    BY <1>2 DEF Top, Depth

LEMMA OnePushed ==
    ASSUME frames = <<>>, NEW f, frames' = Append(frames, f)
    PROVE  frames' # <<>> /\ Len(frames') <= 1 /\ Top' = f
<1>1. Len(frames') = 1 /\ frames'[1] = f
    OBVIOUS
<1> QED
    BY <1>1 DEF Top, Depth

LEMMA OnePopped ==
    ASSUME FrameInv, frames # <<>>, Len(frames) <= 1,
           frames' = SubSeq(frames, 1, Depth - 1)
    PROVE  frames' = <<>>
<1>1. FrameInv' /\ Len(frames') = Len(frames) - 1 /\ Len(frames) = 1
    BY OneFrame, Popped
<1> QED
    BY <1>1 DEF FrameInv

LEMMA PlaceOrdered ==
    ASSUME WellFormed(envs, Env, Queue)
    PROVE  /\ Ordered(envs, Env, Queue, {}) /\ \A q \in Queue : HasTail(envs, q)
           /\ \A e \in Env : e \in Env \ {}
BY WellFormedOrdered, Domains

(* What moving an envelope to or from a queue does to the queues.          *)
LEMMA PlaceENQ ==
    ASSUME WellFormed(envs, Env, Queue), NEW q \in Queue, NEW e \in Env,
           OnNone(envs, Queue, e), envs' = env_ENQ(envs, q, e)
    PROVE  /\ WellFormed(envs', Env, Queue)
           /\ On(envs', q) = On(envs, q) \cup {e}
           /\ \A k \in Queue : k # q => On(envs', k) = On(envs, k)
           /\ Chain(envs', q) = Append(Chain(envs, q), e)
           /\ \A k \in Queue : k # q => Chain(envs', k) = Chain(envs, k)
<1>1. env_ENQ(envs, q, e) = PCB_ENQ(envs, q, e)
    BY DEF env_ENQ
<1>2. /\ WellFormed(envs', Env, Queue)
      /\ Adds(envs, q, e, envs', Queue) /\ AddsLast(envs, q, e, envs', Queue)
    BY <1>1, ENQWellFormed, ENQChain, PlaceOrdered, Domains
<1> QED
    BY <1>2 DEF Adds, AddsLast

LEMMA PlaceDEQ ==
    ASSUME WellFormed(envs, Env, Queue), NEW q \in Queue, envs.head[q] # NULL,
           envs' = env_DEQ(envs, q)
    PROVE  /\ WellFormed(envs', Env, Queue)
           /\ envs.head[q] \in On(envs, q) /\ envs.head[q] \in Env
           /\ On(envs', q) = On(envs, q) \ {envs.head[q]}
           /\ \A k \in Queue : k # q => On(envs', k) = On(envs, k)
           /\ Chain(envs, q) # <<>> /\ Chain(envs, q)[1] = envs.head[q]
           /\ Chain(envs', q) = Tail(Chain(envs, q))
           /\ \A k \in Queue : k # q => Chain(envs', k) = Chain(envs, k)
           /\ OnNone(envs', Queue, envs.head[q])
<1>1. Dequeued(envs, q, envs')
    BY DEF Dequeued
<1>2. /\ WellFormed(envs', Env, Queue)
      /\ Takes(envs, q, envs', Queue) /\ TakesFirst(envs, q, envs', Queue)
    BY <1>1, DEQWellFormed, DEQChain, PlaceOrdered, Domains
<1>3. Chain(envs, q) # <<>>
    BY ChainFacts, PlaceOrdered, Domains
<1>4. envs.head[q] \in Env
    BY OnFacts, Domains DEF WellFormed
<1>5. \A k \in Queue : k # q => On(envs, q) \cap On(envs, k) = {}
    BY DEF WellFormed
<1> QED
    BY <1>2, <1>3, <1>4, <1>5 DEF Takes, TakesFirst, OnNone

LEMMA PlaceFacts ==
    ASSUME WellFormed(envs, Env, Queue), NEW q \in Queue
    PROVE  /\ Linked(envs, q, Chain(envs, q))
           /\ On(envs, q) \subseteq Env /\ Chain(envs, q) \in Seq(Env)
           /\ Chain(envs, q) \in Seq(On(envs, q))
           /\ \A i \in 1 .. Len(Chain(envs, q)) : Chain(envs, q)[i] \in On(envs, q)
           /\ \A e \in On(envs, q) : \E i \in 1 .. Len(Chain(envs, q)) : Chain(envs, q)[i] = e
           /\ \A k \in Queue : k # q => On(envs, q) \cap On(envs, k) = {}
<1>1. Linked(envs, q, Chain(envs, q))
    BY ChainLinked, Domains
<1>2. On(envs, q) \subseteq Env
    BY OnFacts, Domains DEF WellFormed
<1>3. \A k \in Queue : k # q => On(envs, q) \cap On(envs, k) = {}
    BY DEF WellFormed
<1> QED
    BY <1>1, <1>2, <1>3 DEF Linked

-----------------------------------------------------------------------------
(* Each action keeps the envelopes in their places.                        *)
LEMMA TurnFacts ==
    ASSUME TypeInv, TurnInv
    PROVE  /\ StoreInv /\ MemInv /\ FrameInv /\ Len(frames) <= 1 /\ ~ fault /\ Named
           /\ PlacesInv /\ AlarmInv /\ OrderInv
           /\ WellFormed(envs, Env, Queue) /\ Typed(msg_text, alarm)
           /\ alarm.status \in [Env -> {"off", "set", "rung"}]
           /\ IsFiniteSet(Env) /\ Cardinality(Env) \in Nat
BY Domains DEF TypeInv, TurnInv, PlacesInv, AlarmInv, MemInv, Typed

LEMMA InitPlaces ==
    ASSUME Init
    PROVE  PlacesInv /\ AlarmInv
<1>1. WellFormed(envs, Env, Queue) /\ \A q \in Queue : On(envs, q) = {}
    BY EmptyWellFormed, Domains DEF Init
<1>2. frames = <<>> /\ \A e \in Env : ~ Hand(e) /\ OnNone(envs, Queue, e)
    BY <1>1 DEF Init, Hand, OnNone
<1>3. PlacesInv
    BY <1>1, <1>2, DelayAssumption DEF Init, PlacesInv
<1>4. \A e \in Env : ~ Pending(e)
    BY <1>1, <1>2, Domains DEF Pending, Requested
<1>5. AlarmInv
    BY <1>1, <1>4, Domains DEF AlarmInv, Init
<1> QED
    BY <1>3, <1>5

LEMMA RequestPlaces ==
    ASSUME TypeInv, TurnInv, NEW p \in Proc, NEW e \in Env, NEW d \in Delays,
           NEW code \in {"WAKEUP", "COUNT_REPORT"}, request_delay(p, e, d, code)
    PROVE  PlacesInv' /\ AlarmInv'
<1>1. /\ frames = <<>> /\ frames' = <<>> /\ e \in held[p]
      /\ \A x \in Env : ~ Hand(x) /\ ~ Hand(x)'
    BY DEF request_delay, Hand
<1>2. OnNone(envs, Queue, e) /\ alarm.status[e] = "off" /\ ~ Pending(e)
    BY <1>1, TurnFacts DEF PlacesInv, AlarmInv
<1>3. /\ WellFormed(envs', Env, Queue) /\ On(envs', Timer) = On(envs, Timer) \cup {e}
      /\ \A k \in Queue : k # Timer => On(envs', k) = On(envs, k)
    BY <1>2, PlaceENQ, TurnFacts, Domains DEF request_delay
<1>4. held' = [held EXCEPT ![p] = @ \ {e}]
    BY DEF request_delay
<1>5. \A x \in Env : x # e => (OnNone(envs', Queue, x) <=> OnNone(envs, Queue, x))
    BY <1>3, Domains DEF OnNone
<1>6. PlacesInv'
    <2>1. ASSUME NEW r \in Proc, NEW x \in held'[r]
          PROVE  /\ OnNone(envs', Queue, x) /\ ~ Hand(x)'
                 /\ \A k \in Proc : x \in held'[k] => k = r
        <3>1. x \in Env /\ x \in held[r] /\ x # e
            BY <1>1, <1>4, TurnFacts DEF MemInv, PlacesInv
        <3>2. \A k \in Proc : x \in held'[k] => x \in held[k]
            BY <1>4, TurnFacts DEF MemInv
        <3> QED
            BY <1>1, <1>5, <3>1, <3>2, TurnFacts DEF PlacesInv
    <2> QED
        BY <1>1, <1>3, <2>1 DEF PlacesInv
<1>7. /\ sender_id' = [sender_id EXCEPT ![e] = p] /\ msg_type' = [msg_type EXCEPT ![e] = code]
      /\ sender_id'[e] = p /\ msg_type'[e] = code
      /\ \A x \in Env : x # e => sender_id'[x] = sender_id[x] /\ msg_type'[x] = msg_type[x]
    BY TurnFacts DEF request_delay, MemInv
<1>8. /\ e \in On(envs', Timer) /\ e \notin On(envs', Sleep)
      /\ \A x \in Env : x # e => (Pending(x)' <=> Pending(x))
      /\ Pending(e)' <=> code = "WAKEUP"
    BY <1>1, <1>2, <1>3, <1>7, Domains DEF Pending, Requested, OnNone
<1>9. AlarmInv'
    <2>1. Ticks(d) \in Nat /\ Ticks(d) > 0
        BY Domains DEF Ticks
    <2>2. CASE code = "WAKEUP"
        <3>1. alarm' = [alarm EXCEPT !.status[e] = "set", !.asked[e] = Ticks(d), !.age[e] = 0]
            BY <2>2 DEF request_delay
        <3>2. /\ alarm' \in [status : [Env -> {"off", "set", "rung"}],
                             asked : [Env -> Nat], age : [Env -> Nat]]
              /\ alarm'.status[e] = "set" /\ alarm'.asked[e] = Ticks(d)
              /\ \A x \in Env : x # e => /\ alarm'.status[x] = alarm.status[x]
                                         /\ alarm'.asked[x] = alarm.asked[x]
            BY <2>1, <3>1, TurnFacts DEF AlarmInv
        <3>3. \A r \in Proc : \A x \in held'[r] : x \in Env /\ x \in held[r] /\ x # e
            BY <1>1, <1>4, TurnFacts DEF MemInv, PlacesInv
        <3>4. \A r \in Proc : \A x \in On(envs', r) : x \in Env /\ x \in On(envs, r) /\ x # e
            BY <1>2, <1>3, HeadLink, TurnFacts, Domains DEF OnNone
        <3> QED
            <4>1. \A x \in Env : alarm'.status[x] = "set" <=> Pending(x)'
                BY <1>8, <2>2, <3>2, TurnFacts DEF AlarmInv
            <4>2. \A x \in Env : Pending(x)' => sender_id'[x] \in Proc /\ alarm'.asked[x] > 0
                BY <1>7, <1>8, <2>1, <3>2, TurnFacts DEF AlarmInv
            <4>3. \A r \in Proc : /\ \A x \in On(envs', r) : alarm'.status[x] = "rung"
                                 /\ \A x \in held'[r] : alarm'.status[x] = "off"
                BY <3>2, <3>3, <3>4, TurnFacts DEF AlarmInv
            <4> QED
                BY <3>2, <4>1, <4>2, <4>3 DEF AlarmInv
    <2>3. CASE code # "WAKEUP"
        <3>1. alarm' = alarm
            BY <2>3 DEF request_delay
        <3>3. \A r \in Proc : \A x \in held'[r] : x \in held[r]
            BY <1>1, <1>4, TurnFacts DEF MemInv, PlacesInv
        <3>4. \A r \in Proc : \A x \in On(envs', r) : x \in On(envs, r)
            BY <1>2, <1>3, Domains
        <3> QED
            BY <1>2, <1>7, <1>8, <2>3, <3>1, <3>3, <3>4, TurnFacts DEF AlarmInv
    <2> QED
        BY <2>2, <2>3
<1> QED
    BY <1>6, <1>9

LEMMA ReceivePlaces ==
    ASSUME TypeInv, TurnInv, NEW p \in Proc, receive_message(p)
    PROVE  PlacesInv' /\ AlarmInv'
<1> DEFINE e == envs.head[p]
<1>1. /\ frames = <<>> /\ frames' = <<>> /\ e # NULL
      /\ \A x \in Env : ~ Hand(x) /\ ~ Hand(x)'
    BY DEF receive_message, Hand
<1>2. /\ WellFormed(envs', Env, Queue) /\ e \in On(envs, p) /\ e \in Env
      /\ On(envs', p) = On(envs, p) \ {e} /\ OnNone(envs', Queue, e)
      /\ \A k \in Queue : k # p => On(envs', k) = On(envs, k)
    BY <1>1, PlaceDEQ, TurnFacts, Domains DEF receive_message
<1>3. /\ held' = [held EXCEPT ![p] = @ \cup {e}]
      /\ alarm' = [alarm EXCEPT !.status[e] = "off", !.asked[e] = 0, !.age[e] = 0]
      /\ UNCHANGED <<sender_id, msg_type>>
    BY DEF receive_message
<1> HIDE DEF e
<1>4. alarm.status[e] = "rung" /\ ~ Pending(e)
    BY <1>2, TurnFacts DEF AlarmInv
<1>5. /\ \A x \in Env : OnNone(envs, Queue, x) => OnNone(envs', Queue, x)
      /\ \A r \in Proc : e \notin held[r]
    BY <1>2, TurnFacts, Domains DEF OnNone, PlacesInv
<1>6. PlacesInv'
    <2>1. ASSUME NEW r \in Proc, NEW x \in held'[r]
          PROVE  /\ OnNone(envs', Queue, x) /\ ~ Hand(x)'
                 /\ \A k \in Proc : x \in held'[k] => k = r
        <3>1. \A k \in Proc : x \in held'[k] <=> x \in held[k] \/ (k = p /\ x = e)
            BY <1>3, TurnFacts DEF MemInv
        <3>2. CASE x = e
            BY <1>1, <1>2, <1>5, <3>1, <3>2
        <3>3. CASE x # e
            <4>1. x \in held[r] /\ x \in Env
                BY <3>1, <3>3, TurnFacts DEF MemInv
            <4> QED
                BY <1>1, <1>5, <3>1, <3>3, <4>1, TurnFacts DEF PlacesInv
        <3> QED
            BY <3>2, <3>3
    <2> QED
        BY <1>1, <1>2, <2>1 DEF PlacesInv
<1>7. \A x \in Env : Pending(x)' <=> Pending(x)
    BY <1>1, <1>2, <1>3, Domains DEF Pending, Requested
<1>8. AlarmInv'
    <2>1. /\ alarm' \in [status : [Env -> {"off", "set", "rung"}],
                         asked : [Env -> Nat], age : [Env -> Nat]]
          /\ alarm'.status[e] = "off"
          /\ \A x \in Env : x # e => /\ alarm'.status[x] = alarm.status[x]
                                     /\ alarm'.asked[x] = alarm.asked[x]
        BY <1>2, <1>3, TurnFacts DEF AlarmInv
    <2>2. \A r \in Proc : \A x \in held'[r] : x = e \/ (x \in Env /\ x \in held[r])
        BY <1>3, TurnFacts DEF MemInv
    <2>3. \A r \in Proc : \A x \in On(envs', r) : x \in Env /\ x \in On(envs, r) /\ x # e
        BY <1>2, HeadLink, TurnFacts, Domains DEF OnNone
    <2> QED
        BY <1>2, <1>3, <1>4, <1>7, <2>1, <2>2, <2>3, TurnFacts DEF AlarmInv
<1> QED
    BY <1>6, <1>8

(* What a tick does to the history: who waits becomes a tick older, for    *)
(* no age has reached its bound.                                           *)
LEMMA TickAges ==
    ASSUME TypeInv, TurnInv, Tick
    PROVE  /\ frames = <<>> \/ MaxNest # 1
           /\ alarm'.status = alarm.status /\ alarm'.asked = alarm.asked
           /\ alarm' \in [status : [Env -> {"off", "set", "rung"}],
                          asked : [Env -> Nat], age : [Env -> Nat]]
           /\ \A x \in Env : /\ x \notin Waiting => alarm'.age[x] = alarm.age[x]
                             /\ x \in Waiting /\ alarm.age[x] < alarm.asked[x] + Cardinality(Env)
                                   => alarm'.age[x] = alarm.age[x] + 1
<1>1. frames = <<>> \/ MaxNest # 1
    <2>1. Depth < MaxNest /\ (frames # <<>> => Depth = 1)
        BY OneFrame, TurnFacts DEF Tick
    <2> QED
        BY <2>1
<1> DEFINE older(x) == x \in Waiting /\ alarm.age[x] < alarm.asked[x] + Cardinality(Env)
           grown == [ x \in Env |-> IF older(x) THEN alarm.age[x] + 1 ELSE alarm.age[x] ]
<1>2. alarm' = [alarm EXCEPT !.age = grown]
    BY DEF Tick
<1>3. grown \in [Env -> Nat]
    BY TurnFacts DEF Typed
<1>4. /\ \A x \in Env : older(x) => grown[x] = alarm.age[x] + 1
      /\ \A x \in Env : ~ older(x) => grown[x] = alarm.age[x]
    OBVIOUS
<1> HIDE DEF grown
<1>5. /\ alarm'.age = grown /\ alarm'.status = alarm.status /\ alarm'.asked = alarm.asked
      /\ alarm' \in [status : [Env -> {"off", "set", "rung"}],
                     asked : [Env -> Nat], age : [Env -> Nat]]
    BY <1>2, <1>3, TurnFacts DEF AlarmInv
<1> QED
    BY <1>1, <1>4, <1>5

LEMMA TickPlaces ==
    ASSUME InTurn, TypeInv, TurnInv, Tick
    PROVE  PlacesInv' /\ AlarmInv'
<1> DEFINE e == envs.head[Timer]
           request == e # NULL /\ msg_type[e] = "WAKEUP"
           f == [ pc |-> IF request THEN "enqueue" ELSE "start",
                  env |-> IF request THEN e ELSE NULL, sleeptraverse |-> NULL,
                      removeid |-> NULL ]
<1>1. /\ frames = <<>> /\ frames' # <<>> /\ Top' = f
      /\ held' = held /\ sender_id' = sender_id /\ msg_type' = msg_type
      /\ envs' = env_DEQ(envs, Timer)
    BY TickAges, OnePushed DEF Tick, InTurn
<1>2. /\ WellFormed(envs', Env, Queue) /\ e \in Env \cup {NULL}
      /\ On(envs', Timer) = On(envs, Timer) \ {e}
      /\ \A k \in Queue : k # Timer => On(envs', k) = On(envs, k)
      /\ e # NULL => e \in On(envs, Timer) /\ OnNone(envs', Queue, e)
    <2>1. CASE e = NULL
        <3>1. envs' = envs
            BY <1>1, <2>1 DEF env_DEQ
        <3>2. NULL \notin On(envs, Timer)
            BY HeadLink, TurnFacts, Domains
        <3> QED
            BY <2>1, <3>1, <3>2, TurnFacts
    <2>2. CASE e # NULL
        BY <1>1, <2>2, PlaceDEQ, TurnFacts, Domains
    <2> QED
        BY <2>1, <2>2
<1>3. \A x \in Env : /\ ~ Hand(x)
                     /\ Hand(x)' <=> e # NULL /\ msg_type[e] = "WAKEUP" /\ x = e
    <2>1. NULL \notin Env
        BY Domains
    <2> QED
        BY <1>1, <2>1 DEF Hand
<1> HIDE DEF f, e
<1>4. \A x \in Env : OnNone(envs, Queue, x) => x # e /\ OnNone(envs', Queue, x)
    BY <1>2, Domains DEF OnNone
<1>5. PlacesInv'
    BY <1>1, <1>2, <1>3, <1>4, TurnFacts DEF PlacesInv, MemInv
<1>6. \A x \in Env : Pending(x)' <=> Pending(x)
    <2>1. e # NULL => e \notin On(envs, Sleep)
        BY <1>2, TurnFacts, Domains DEF WellFormed
    <2> QED
        BY <1>1, <1>2, <1>3, <2>1, Domains DEF Pending, Requested
<1>7. /\ alarm'.status = alarm.status /\ alarm'.asked = alarm.asked
      /\ alarm' \in [status : [Env -> {"off", "set", "rung"}],
                     asked : [Env -> Nat], age : [Env -> Nat]]
    BY TickAges
<1>8. AlarmInv'
    BY <1>1, <1>2, <1>6, <1>7, TurnFacts, Domains DEF AlarmInv
<1> QED
    BY <1>5, <1>8

LEMMA EnqueuePlaces ==
    ASSUME TypeInv, TurnInv, EnqueueRequest
    PROVE  PlacesInv' /\ AlarmInv'
<1> DEFINE e == Top.env
           f == [Top EXCEPT !.pc = "start", !.env = NULL]
<1>1. frames # <<>> /\ Top.pc = "enqueue" /\ Top \in Frame /\ Shape(Top) /\ e \in Env
    BY TopIs, TurnFacts DEF EnqueueRequest, At, Shape
<1>2. /\ envs' = env_ENQ(envs, Sleep, e) /\ frames' = [frames EXCEPT ![Depth] = f]
      /\ UNCHANGED <<sender_id, msg_type, held, alarm>>
    BY <1>1, OneFrame, TurnFacts DEF EnqueueRequest
<1>3. f \in Frame /\ f.pc = "start"
    BY <1>1 DEF Frame, Pc
<1> HIDE DEF f
<1>4. frames' # <<>> /\ Top' = f
    BY <1>1, <1>2, OneReplaced, TurnFacts
<1>5. \A x \in Env : (Hand(x) <=> x = e) /\ ~ Hand(x)'
    BY <1>1, <1>3, <1>4 DEF Hand
<1> HIDE DEF e
<1>6. OnNone(envs, Queue, e) /\ \A p \in Proc : e \notin held[p]
    BY <1>1, <1>5, TurnFacts DEF PlacesInv
<1>7. /\ WellFormed(envs', Env, Queue) /\ On(envs', Sleep) = On(envs, Sleep) \cup {e}
      /\ \A k \in Queue : k # Sleep => On(envs', k) = On(envs, k)
    BY <1>1, <1>2, <1>6, PlaceENQ, TurnFacts, Domains
<1>8. \A x \in Env : x # e /\ OnNone(envs, Queue, x) => OnNone(envs', Queue, x)
    BY <1>7 DEF OnNone
<1>9. PlacesInv'
    <2>1. ASSUME NEW p \in Proc, NEW x \in held'[p]
          PROVE  /\ OnNone(envs', Queue, x) /\ ~ Hand(x)'
                 /\ \A r \in Proc : x \in held'[r] => r = p
        BY <1>2, <1>5, <1>6, <1>8, TurnFacts DEF PlacesInv, MemInv
    <2> QED
        BY <1>5, <1>7, <2>1 DEF PlacesInv
<1>10. \A x \in Env : Pending(x)' <=> Pending(x)
    BY <1>2, <1>5, <1>7, Domains DEF Pending, Requested
<1>11. AlarmInv'
    BY <1>2, <1>7, <1>10, TurnFacts, Domains DEF AlarmInv
<1> QED
    BY <1>9, <1>11

(* The handler moves on and moves no envelope.                             *)
LEMMA QuietPlaces ==
    ASSUME TypeInv, TurnInv, UNCHANGED <<envs, sender_id, msg_type, held, alarm>>,
           \A x \in Env : Hand(x)' <=> Hand(x)
    PROVE  PlacesInv' /\ AlarmInv'
<1>1. PlacesInv'
    BY TurnFacts DEF PlacesInv, MemInv
<1>2. \A x \in Env : Pending(x)' <=> Pending(x)
    BY DEF Pending, Requested
<1>3. AlarmInv'
    BY <1>2, TurnFacts DEF AlarmInv
<1> QED
    BY <1>1, <1>3

LEMMA NotInHand ==
    ASSUME frames = <<>> \/ Top.pc \notin {"enqueue", "wake"}
    PROVE  \A x \in Env : ~ Hand(x)
BY DEF Hand

(* Where the traversal is, and the first envelope of sleep_Q.              *)
LEMMA HandlerStage ==
    ASSUME TypeInv, TurnInv, frames # <<>>
    PROVE  \E v \in 0 .. Len(Chain(envs, Sleep)) :
              /\ SleepOk(Chain(envs, Sleep), v, msg_text, alarm, Cardinality(Env))
              /\ Stage(Top, Chain(envs, Sleep), v, msg_text, alarm, Cardinality(Env))
              /\ Linked(envs, Sleep, Chain(envs, Sleep))
BY TurnFacts, PlaceFacts, Domains DEF OrderInv

(* The envelope that is due is the first on sleep_Q, so env_REMOVE finds   *)
(* no other envelope of the same sender before it.                         *)
LEMMA RemovesTheFirst ==
    ASSUME TypeInv, TurnInv, Remove
    PROVE  /\ frames # <<>> /\ Top \in Frame /\ Top.pc = "remove"
           /\ envs.head[Sleep] # NULL /\ envs.head[Sleep] = Top.env
           /\ envs' = env_DEQ(envs, Sleep)
           /\ frames' = [frames EXCEPT ![Depth] = [Top EXCEPT !.pc = "wake"]]
<1> DEFINE c == Chain(envs, Sleep)
           match == { x \in Env : sender_id[x] = Top.removeid }
<1>1. frames # <<>> /\ Top.pc = "remove" /\ Top \in Frame /\ Top.env \in Env
    BY TopIs, TurnFacts DEF Remove, At, Shape
<1>2. c # <<>> /\ Top.env = c[1] /\ Linked(envs, Sleep, c)
    BY <1>1, HandlerStage DEF Stage
<1> HIDE DEF c
<1>3. envs.head[Sleep] # NULL /\ envs.head[Sleep] = Top.env
    BY <1>2 DEF Linked
<1>4. Top.env \in match
    BY <1>1, TurnFacts DEF Named
<1>5. /\ envs' = env_REMOVE(envs, Sleep, match)
      /\ frames' = [frames EXCEPT ![Depth].pc = "wake",
                       ![Depth].env = IF On(envs, Sleep) \cap match = {} THEN NULL
                                      ELSE FirstOn(envs, Sleep, match)]
    BY DEF Remove
<1> HIDE DEF match
<1>6. /\ On(envs, Sleep) \cap match # {} /\ FirstOn(envs, Sleep, match) = Top.env
      /\ envs' = env_DEQ(envs, Sleep)
    <2>1. envs.head[Sleep] \in match
        BY <1>3, <1>4
    <2>2. /\ On(envs, Sleep) \cap match # {}
          /\ FirstOn(envs, Sleep, match) = envs.head[Sleep]
          /\ env_REMOVE(envs, Sleep, match) = env_DEQ(envs, Sleep)
        <3>1. WellFormed(envs, Env, Queue) /\ envs.head[Sleep] # NULL
            BY <1>3, TurnFacts
        <3> QED
            BY <2>1, <3>1, REMOVEHead, Domains
    <2> QED
        BY <1>3, <1>5, <2>2
<1>7. frames' = [frames EXCEPT ![Depth].pc = "wake", ![Depth].env = Top.env]
    BY <1>5, <1>6
<1>8. frames' = [frames EXCEPT ![Depth] = [Top EXCEPT !.pc = "wake", !.env = Top.env]]
    BY <1>1, <1>7, OneFrame, TurnFacts
<1>9. [Top EXCEPT !.pc = "wake", !.env = Top.env] = [Top EXCEPT !.pc = "wake"]
    BY <1>1 DEF Frame
<1> QED
    BY <1>1, <1>3, <1>6, <1>8, <1>9

LEMMA RemovePlaces ==
    ASSUME TypeInv, TurnInv, Remove
    PROVE  PlacesInv' /\ AlarmInv'
<1> DEFINE e == Top.env
           f == [Top EXCEPT !.pc = "wake"]
<1>1. /\ frames # <<>> /\ Top \in Frame /\ Top.pc = "remove"
      /\ envs.head[Sleep] # NULL /\ envs.head[Sleep] = e
      /\ envs' = env_DEQ(envs, Sleep) /\ frames' = [frames EXCEPT ![Depth] = f]
    BY RemovesTheFirst
<1>2. UNCHANGED <<sender_id, msg_type, held, alarm>>
    BY DEF Remove
<1>3. f.pc = "wake" /\ f.env = e
    BY <1>1 DEF Frame
<1> HIDE DEF f
<1>4. frames' # <<>> /\ Top' = f
    BY <1>1, OneReplaced, TurnFacts
<1>5. \A x \in Env : ~ Hand(x) /\ (Hand(x)' <=> x = e)
    BY <1>1, <1>3, <1>4 DEF Hand
<1> HIDE DEF e
<1>6. /\ WellFormed(envs', Env, Queue) /\ e \in On(envs, Sleep) /\ e \in Env
      /\ On(envs', Sleep) = On(envs, Sleep) \ {e} /\ OnNone(envs', Queue, e)
      /\ \A k \in Queue : k # Sleep => On(envs', k) = On(envs, k)
    BY <1>1, PlaceDEQ, TurnFacts, Domains
<1>7. \A x \in Env : OnNone(envs, Queue, x) => x # e /\ OnNone(envs', Queue, x)
    BY <1>6, Domains DEF OnNone
<1>8. PlacesInv'
    BY <1>2, <1>5, <1>6, <1>7, TurnFacts DEF PlacesInv, MemInv
<1>9. e \notin On(envs, Timer)
    BY <1>6, TurnFacts, Domains DEF WellFormed
<1>10. \A x \in Env : Pending(x)' <=> Pending(x)
    BY <1>2, <1>5, <1>6, Domains DEF Pending, Requested
<1>11. AlarmInv'
    <2>1. \A p \in Proc : On(envs', p) = On(envs, p)
        BY <1>6, Domains
    <2> QED
        BY <1>2, <1>10, <2>1, TurnFacts DEF AlarmInv
<1> QED
    BY <1>8, <1>11

(* There is an envelope to send, and a process to send it to.              *)
LEMMA WakesASender ==
    ASSUME TypeInv, TurnInv, Wake
    PROVE  /\ frames # <<>> /\ Top \in Frame /\ Top.pc = "wake" /\ Top.env \in Env
           /\ sender_id[Top.env] \in Proc /\ alarm.status[Top.env] = "set"
           /\ Top.sleeptraverse \in Env \cup {NULL}
           /\ envs' = env_ENQ(envs, sender_id[Top.env], Top.env)
           /\ sender_id' = [sender_id EXCEPT ![Top.env] = Timer]
           /\ frames' = [frames EXCEPT ![Depth] = Visiting(Top.sleeptraverse)]
           /\ alarm' = [alarm EXCEPT !.status[Top.env] = "rung"]
           /\ UNCHANGED <<msg_type, msg_text, held, fault>>
<1>1. frames # <<>> /\ Top.pc = "wake" /\ Top \in Frame
    BY TopIs, TurnFacts DEF Wake, At
<1>2. Top.env \in Env /\ Top.sleeptraverse \in Env \cup {NULL}
    BY <1>1, HandlerStage DEF Stage, Frame
<1>3. Hand(Top.env)
    BY <1>1 DEF Hand
<1>4. Pending(Top.env)
    BY <1>3 DEF Pending
<1>5. sender_id[Top.env] \in Proc /\ alarm.status[Top.env] = "set"
    BY <1>2, <1>4, TurnFacts DEF AlarmInv
<1>6. Top.env # NULL
    BY <1>2, Domains
<1> QED
    BY <1>1, <1>2, <1>5, <1>6 DEF Wake

LEMMA WakePlaces ==
    ASSUME TypeInv, TurnInv, Wake
    PROVE  PlacesInv' /\ AlarmInv'
<1> DEFINE f == Visiting(Top.sleeptraverse)
<1>1. PICK e \in Env, s \in Proc :
        /\ frames # <<>> /\ Top.pc = "wake" /\ Top.env = e /\ s \in Queue
        /\ alarm.status[e] = "set" /\ envs' = env_ENQ(envs, s, e)
        /\ sender_id' = [sender_id EXCEPT ![e] = Timer]
        /\ frames' = [frames EXCEPT ![Depth] = f]
        /\ alarm' = [alarm EXCEPT !.status[e] = "rung"]
        /\ UNCHANGED <<msg_type, held>>
    BY WakesASender, Domains
<1>2. f.pc \notin {"enqueue", "wake"}
    BY DEF Visiting
<1> HIDE DEF f
<1>3. frames' # <<>> /\ Top' = f
    BY <1>1, OneReplaced, TurnFacts
<1>4. \A x \in Env : (Hand(x) <=> x = e) /\ ~ Hand(x)'
    BY <1>1, <1>2, <1>3 DEF Hand
<1>5. OnNone(envs, Queue, e) /\ \A p \in Proc : e \notin held[p]
    BY <1>1, <1>4, TurnFacts DEF PlacesInv
<1>6. /\ WellFormed(envs', Env, Queue) /\ On(envs', s) = On(envs, s) \cup {e}
      /\ \A k \in Queue : k # s => On(envs', k) = On(envs, k)
    BY <1>1, <1>5, PlaceENQ, TurnFacts
<1>7. \A x \in Env : x # e /\ OnNone(envs, Queue, x) => OnNone(envs', Queue, x)
    BY <1>6 DEF OnNone
<1>8. PlacesInv'
    <2>1. ASSUME NEW p \in Proc, NEW x \in held'[p]
          PROVE  /\ OnNone(envs', Queue, x) /\ ~ Hand(x)'
                 /\ \A r \in Proc : x \in held'[r] => r = p
        BY <1>1, <1>4, <1>5, <1>7, TurnFacts DEF PlacesInv, MemInv
    <2> QED
        BY <1>4, <1>6, <2>1 DEF PlacesInv
<1>9. /\ On(envs', Timer) = On(envs, Timer) /\ On(envs', Sleep) = On(envs, Sleep)
      /\ \A p \in Proc : p # s => On(envs', p) = On(envs, p)
    BY <1>1, <1>6, Domains
<1>10. /\ ~ Pending(e)' /\ \A x \in Env : x # e => (Pending(x)' <=> Pending(x))
    <2>1. e \notin On(envs, Timer) /\ e \notin On(envs, Sleep)
        BY <1>5, Domains DEF OnNone
    <2> QED
        BY <1>1, <1>4, <1>9, <2>1 DEF Pending, Requested
<1>11. /\ alarm' \in [status : [Env -> {"off", "set", "rung"}],
                      asked : [Env -> Nat], age : [Env -> Nat]]
       /\ alarm'.status[e] = "rung" /\ alarm'.asked = alarm.asked
       /\ \A x \in Env : x # e => /\ alarm'.status[x] = alarm.status[x]
                                  /\ sender_id'[x] = sender_id[x]
    BY <1>1, TurnFacts DEF AlarmInv, MemInv
<1>12. ASSUME NEW x \in Env
       PROVE  /\ alarm'.status[x] = "set" <=> Pending(x)'
              /\ Pending(x)' => sender_id'[x] \in Proc /\ alarm'.asked[x] > 0
    <2>1. CASE x = e
        BY <1>10, <1>11, <2>1
    <2>2. CASE x # e
        BY <1>10, <1>11, <2>2, TurnFacts DEF AlarmInv
    <2> QED
        BY <2>1, <2>2
<1>13. ASSUME NEW p \in Proc
       PROVE  /\ \A x \in On(envs', p) : alarm'.status[x] = "rung"
              /\ \A x \in held'[p] : alarm'.status[x] = "off"
    <2>1. On(envs, p) \subseteq Env /\ held'[p] \subseteq Env
        BY <1>1, HeadLink, TurnFacts, Domains DEF MemInv
    <2>2. \A x \in On(envs', p) : x \in On(envs, p) \/ x = e
        BY <1>6, <1>9
    <2> QED
        BY <1>1, <1>5, <1>11, <2>1, <2>2, TurnFacts DEF AlarmInv
<1>14. AlarmInv'
    BY <1>11, <1>12, <1>13 DEF AlarmInv
<1> QED
    BY <1>8, <1>14

-----------------------------------------------------------------------------
(* Each action keeps the delays in their order.                            *)
LEMMA InitOrder ==
    ASSUME Init
    PROVE  OrderInv
<1>1. WellFormed(envs, Env, Queue) /\ \A q \in Queue : On(envs, q) = {}
    BY EmptyWellFormed, Domains DEF Init
<1>2. Chain(envs, Timer) = <<>> /\ Chain(envs, Sleep) = <<>>
    <2>1. envs.head[Timer] = NULL /\ envs.head[Sleep] = NULL
        BY Domains DEF Init, EmptyStore
    <2> QED
        BY <1>1, <2>1, ChainFacts, WellFormedOrdered, Domains
<1>3. TimerOk(<<>>, msg_text, msg_type, alarm, Cardinality(Env))
    BY DEF TimerOk
<1>4. SleepOk(<<>>, 0, msg_text, alarm, Cardinality(Env))
    BY DEF SleepOk
<1>5. After(Sleepers, Requests, msg_text)
    BY <1>1, Domains DEF After, Sleepers
<1>6. frames = <<>> /\ Len(<<>>) = 0 /\ 0 \in 0 .. 0
    BY DEF Init
<1> QED
    BY <1>2, <1>3, <1>4, <1>5, <1>6 DEF OrderInv

(* The queue c of q, and what is on it.                                    *)
LEMMA QueueOf ==
    ASSUME TypeInv, TurnInv, NEW q \in Queue
    PROVE  /\ Linked(envs, q, Chain(envs, q)) /\ Chain(envs, q) \in Seq(Env)
           /\ Len(Chain(envs, q)) \in Nat /\ On(envs, q) \subseteq Env
           /\ \A i \in 1 .. Len(Chain(envs, q)) :
                 Chain(envs, q)[i] \in Env /\ Chain(envs, q)[i] \in On(envs, q)
           /\ \A e \in On(envs, q) : \E i \in 1 .. Len(Chain(envs, q)) : Chain(envs, q)[i] = e
           /\ \A i, j \in 1 .. Len(Chain(envs, q)) :
                 Chain(envs, q)[i] = Chain(envs, q)[j] => i = j
<1>1. /\ Linked(envs, q, Chain(envs, q)) /\ On(envs, q) \subseteq Env
      /\ Chain(envs, q) \in Seq(Env) /\ Chain(envs, q) \in Seq(On(envs, q))
      /\ \A e \in On(envs, q) : \E i \in 1 .. Len(Chain(envs, q)) : Chain(envs, q)[i] = e
    BY PlaceFacts, TurnFacts
<1>2. /\ Len(Chain(envs, q)) \in Nat
      /\ \A i \in 1 .. Len(Chain(envs, q)) :
            Chain(envs, q)[i] \in Env /\ Chain(envs, q)[i] \in On(envs, q)
    BY <1>1
<1>3. \A i, j \in 1 .. Len(Chain(envs, q)) :
         Chain(envs, q)[i] = Chain(envs, q)[j] => i = j
    BY <1>1 DEF Linked
<1> QED
    BY <1>1, <1>2, <1>3

(* An envelope that is not in the timer's queue leaves room for itself.    *)
LEMMA RoomInQueue ==
    ASSUME TypeInv, TurnInv, NEW e \in Env, e \notin On(envs, Timer)
    PROVE  Len(Chain(envs, Timer)) + 1 <= Cardinality(Env)
<1>1. On(envs, Timer) \cup {e} \subseteq Env /\ IsFiniteSet(Env)
    BY QueueOf, Domains
<1>2. IsFiniteSet(On(envs, Timer))
    BY <1>1, FS_Subset
<1>3. Cardinality(On(envs, Timer) \cup {e}) = Cardinality(On(envs, Timer)) + 1
    BY <1>2, FS_AddElement
<1>4. Cardinality(On(envs, Timer) \cup {e}) <= Cardinality(Env)
    BY <1>1, FS_Subset
<1>5. Len(Chain(envs, Timer)) = Cardinality(On(envs, Timer))
    BY QueueOf, Domains DEF Linked
<1> QED
    BY <1>3, <1>4, <1>5

LEMMA RequestOrder ==
    ASSUME InTurn, TypeInv, TurnInv, NEW p \in Proc, NEW e \in Env, NEW d \in Delays,
           NEW code \in {"WAKEUP", "COUNT_REPORT"}, request_delay(p, e, d, code)
    PROVE  OrderInv'
<1> DEFINE n == Cardinality(Env)
           ct == Chain(envs, Timer)
           cs == Chain(envs, Sleep)
<1>1. frames = <<>> /\ frames' = <<>> /\ e \in held[p] /\ envs' = env_ENQ(envs, Timer, e)
    BY DEF request_delay
<1>2. OnNone(envs, Queue, e)
    BY <1>1, TurnFacts DEF PlacesInv
<1>3. /\ On(envs', Timer) = On(envs, Timer) \cup {e} /\ On(envs', Sleep) = On(envs, Sleep)
      /\ Chain(envs', Timer) = Append(ct, e) /\ Chain(envs', Sleep) = cs
    BY <1>1, <1>2, PlaceENQ, TurnFacts, Domains
<1>4. e \notin On(envs, Timer) /\ e \notin On(envs, Sleep)
    BY <1>2, Domains DEF OnNone
<1>5. /\ \A x \in Env : x # e => /\ Same(x, msg_text, alarm, msg_text', alarm')
                                 /\ msg_type'[x] = msg_type[x]
      /\ msg_text'[e] = d /\ msg_type'[e] = code
      /\ code = "WAKEUP" => alarm'.asked[e] = Ticks(d) /\ alarm'.age[e] = 0
    BY TurnFacts DEF request_delay, AlarmInv, MemInv, Same
<1>6. Left(e, msg_text') = Ticks(d) /\ Ticks(d) \in Nat
      /\ \A x \in Env : x # e => Left(x, msg_text') = Left(x, msg_text)
    BY <1>5, Domains DEF Left, Ticks, Same
<1>7. \A x \in Env : Pending(x) => Left(x, msg_text) <= Ticks(d)
    BY <1>1, TurnFacts DEF AlarmInv, Waiting, Left, request_delay, InTurn
<1>8. \A x \in Env : (x \in Requests \/ x \in Sleepers) => Pending(x) /\ x # e
    BY <1>4 DEF Requests, Sleepers, Requested, Pending
<1>9. /\ TimerOk(ct, msg_text, msg_type, alarm, n)
      /\ SleepOk(cs, Len(cs), msg_text, alarm, n)
      /\ After(Sleepers, Requests, msg_text)
    BY <1>1, TurnFacts DEF OrderInv
<1>10. /\ ct \in Seq(Env) /\ cs \in Seq(Env) /\ n \in Nat /\ Len(cs) \in Nat
       /\ \A i \in 1 .. Len(ct) : ct[i] \in Env /\ ct[i] \in On(envs, Timer) /\ ct[i] # e
       /\ \A i \in 1 .. Len(cs) : cs[i] \in Env /\ cs[i] # e
       /\ Len(ct) + 1 <= n
    <2>1. Len(ct) + 1 <= n
        BY <1>4, RoomInQueue
    <2>2. ct \in Seq(Env) /\ \A i \in 1 .. Len(ct) : ct[i] \in Env /\ ct[i] \in On(envs, Timer)
        BY QueueOf, Domains
    <2>3. /\ cs \in Seq(Env) /\ Len(cs) \in Nat
          /\ \A i \in 1 .. Len(cs) : cs[i] \in Env /\ cs[i] \in On(envs, Sleep)
        BY QueueOf, Domains
    <2>4. e \notin On(envs, Timer) /\ e \notin On(envs, Sleep)
        BY <1>4
    <2> HIDE DEF ct, cs
    <2> QED
        BY <2>1, <2>2, <2>3, <2>4, Domains
<1> HIDE DEF ct, cs, n
<1>11. SleepOk(cs, Len(cs), msg_text', alarm', n)
    <2>1. \A i \in 1 .. Len(cs) : Same(cs[i], msg_text, alarm, msg_text', alarm')
        BY <1>5, <1>10
    <2> QED
        BY <1>9, <1>10, <2>1, SleepSame
<1>12. TimerOk(ct, msg_text', msg_type', alarm', n)
    <2>1. \A i \in 1 .. Len(ct) : /\ Same(ct[i], msg_text, alarm, msg_text', alarm')
                                  /\ msg_type'[ct[i]] = msg_type[ct[i]]
        BY <1>5, <1>10
    <2> QED
        BY <1>9, <1>10, <2>1, TimerSame
<1>13. ASSUME msg_type'[e] = "WAKEUP"
       PROVE  /\ Counted(e, msg_text', alarm') = 0 /\ alarm'.age[e] + (Len(ct) + 1) <= n
              /\ \A i \in 1 .. Len(ct) :
                    msg_type'[ct[i]] = "WAKEUP" => Left(ct[i], msg_text') <= Left(e, msg_text')
    <2>1. alarm'.asked[e] = Ticks(d) /\ alarm'.age[e] = 0
        BY <1>5, <1>13
    <2>2. Counted(e, msg_text', alarm') = 0
        BY <1>6, <2>1 DEF Counted
    <2>3. ASSUME NEW i \in 1 .. Len(ct), msg_type'[ct[i]] = "WAKEUP"
          PROVE  Left(ct[i], msg_text') <= Left(e, msg_text')
        <3>1. Pending(ct[i])
            BY <1>5, <1>10, <2>3 DEF Pending, Requested
        <3> QED
            BY <1>6, <1>7, <1>10, <3>1
    <2>4. 0 + (Len(ct) + 1) <= n
        BY <1>10
    <2> QED
        BY <2>1, <2>2, <2>3, <2>4
<1>14. TimerOk(Append(ct, e), msg_text', msg_type', alarm', n)
    BY <1>10, <1>12, <1>13, TimerAppend
<1>15. After(Sleepers', Requests', msg_text')
    <2>1. ASSUME NEW x \in Sleepers', NEW y \in Requests'
          PROVE  Left(x, msg_text') <= Left(y, msg_text')
        <3>1. x \in Sleepers /\ x \in Env /\ y \in Env /\ (y = e \/ y \in Requests)
            BY <1>3, <1>5, QueueOf, Domains DEF Sleepers, Requests, Requested
        <3>2. x # e /\ Left(x, msg_text') = Left(x, msg_text) /\ Pending(x)
            BY <1>6, <1>8, <3>1
        <3>3. CASE y = e
            BY <1>6, <1>7, <3>1, <3>2, <3>3
        <3>4. CASE y # e
            BY <1>6, <1>9, <3>1, <3>2, <3>4 DEF After
        <3> QED
            BY <3>3, <3>4
    <2> QED
        BY <2>1 DEF After
<1>16. Len(cs) \in 0 .. Len(cs)
    BY <1>10
<1> QED
    BY <1>1, <1>3, <1>11, <1>14, <1>15, <1>16 DEF OrderInv, n

(* The queues are as they were, and so is what they hold.                  *)
LEMMA QueuesUnchanged ==
    ASSUME TypeInv, TurnInv, NEW v,
           SleepOk(Chain(envs, Sleep), v, msg_text, alarm, Cardinality(Env)),
           Chain(envs', Timer) = Chain(envs, Timer), Chain(envs', Sleep) = Chain(envs, Sleep),
           On(envs', Timer) = On(envs, Timer), On(envs', Sleep) = On(envs, Sleep),
           msg_text' = msg_text, msg_type' = msg_type,
           \A x \in Env : Pending(x) \/ x \in On(envs, Timer)
                          => Same(x, msg_text, alarm, msg_text', alarm')
    PROVE  /\ TimerOk(Chain(envs', Timer), msg_text', msg_type', alarm', Cardinality(Env))
           /\ SleepOk(Chain(envs', Sleep), v, msg_text', alarm', Cardinality(Env))
           /\ After(Sleepers', Requests', msg_text')
<1> DEFINE n == Cardinality(Env)
           ct == Chain(envs, Timer)
           cs == Chain(envs, Sleep)
<1>1. /\ TimerOk(ct, msg_text, msg_type, alarm, n) /\ SleepOk(cs, v, msg_text, alarm, n)
      /\ After(Sleepers, Requests, msg_text)
    BY TurnFacts DEF OrderInv
<1>2. /\ ct \in Seq(Env) /\ cs \in Seq(Env)
      /\ \A i \in 1 .. Len(ct) : ct[i] \in Env /\ ct[i] \in On(envs, Timer)
      /\ \A i \in 1 .. Len(cs) : cs[i] \in Env /\ Pending(cs[i])
    BY QueueOf, Domains DEF Pending
<1> HIDE DEF ct, cs, n
<1>3. \A i \in 1 .. Len(cs) : Same(cs[i], msg_text, alarm, msg_text', alarm')
    BY <1>2
<1>4. SleepOk(cs, v, msg_text', alarm', n)
    BY <1>1, <1>2, <1>3, SleepSame
<1>5. \A i \in 1 .. Len(ct) : /\ Same(ct[i], msg_text, alarm, msg_text', alarm')
                              /\ msg_type'[ct[i]] = msg_type[ct[i]]
    BY <1>2
<1>6. TimerOk(ct, msg_text', msg_type', alarm', n)
    BY <1>1, <1>2, <1>5, TimerSame
<1>7. After(Sleepers', Requests', msg_text')
    BY <1>1 DEF Sleepers, Requests, Requested
<1> QED
    BY <1>4, <1>6, <1>7 DEF ct, cs, n

LEMMA ReceiveOrder ==
    ASSUME TypeInv, TurnInv, NEW p \in Proc, receive_message(p)
    PROVE  OrderInv'
<1> DEFINE cs == Chain(envs, Sleep)
<1>1. PICK e \in Env :
        /\ frames = <<>> /\ frames' = <<>> /\ envs.head[p] = e /\ e \in On(envs, p)
        /\ On(envs', Timer) = On(envs, Timer) /\ On(envs', Sleep) = On(envs, Sleep)
        /\ Chain(envs', Timer) = Chain(envs, Timer) /\ Chain(envs', Sleep) = cs
        /\ alarm' = [alarm EXCEPT !.status[e] = "off", !.asked[e] = 0, !.age[e] = 0]
        /\ UNCHANGED <<msg_text, msg_type>>
    BY PlaceDEQ, TurnFacts, Domains DEF receive_message
<1>2. ~ Pending(e) /\ e \notin On(envs, Timer)
    <2>1. alarm.status[e] = "rung"
        BY <1>1, TurnFacts DEF AlarmInv
    <2>2. ~ Pending(e)
        BY <2>1, TurnFacts DEF AlarmInv
    <2> QED
        BY <1>1, <2>2, TurnFacts, Domains DEF WellFormed
<1>3. \A x \in Env : Pending(x) \/ x \in On(envs, Timer)
                     => Same(x, msg_text, alarm, msg_text', alarm')
    BY <1>1, <1>2, TurnFacts DEF Same, AlarmInv
<1>4. SleepOk(cs, Len(cs), msg_text, alarm, Cardinality(Env))
    BY <1>1, TurnFacts DEF OrderInv
<1>5. /\ TimerOk(Chain(envs', Timer), msg_text', msg_type', alarm', Cardinality(Env))
      /\ SleepOk(Chain(envs', Sleep), Len(cs), msg_text', alarm', Cardinality(Env))
      /\ After(Sleepers', Requests', msg_text')
    BY <1>1, <1>3, <1>4, QueuesUnchanged
<1>6. Len(cs) \in 0 .. Len(cs) /\ Len(Chain(envs', Sleep)) = Len(cs)
    BY <1>1, QueueOf, Domains
<1> QED
    BY <1>1, <1>5, <1>6 DEF OrderInv

(* Before a tick every delay has been counted as often as it could be, so  *)
(* its age is below the bound and grows with the tick.                     *)
LEMMA TickOlder ==
    ASSUME InTurn, TypeInv, TurnInv, Tick
    PROVE  \A x \in Env : Pending(x) =>
              /\ alarm'.asked[x] = alarm.asked[x] /\ alarm'.age[x] = alarm.age[x] + 1
              /\ alarm.age[x] < alarm.asked[x] + (Cardinality(Env) - 1)
<1> DEFINE n == Cardinality(Env)
           ct == Chain(envs, Timer)
           cs == Chain(envs, Sleep)
<1>1. frames = <<>> /\ \A x \in Env : ~ Hand(x)
    BY TickAges, NotInHand DEF InTurn
<1>2. TimerOk(ct, msg_text, msg_type, alarm, n) /\ SleepOk(cs, Len(cs), msg_text, alarm, n)
    BY <1>1, TurnFacts DEF OrderInv
<1>3. n \in Nat /\ Len(cs) \in Nat /\ Len(ct) \in Nat
    BY QueueOf, Domains
<1>4. ASSUME NEW x \in Env, Pending(x)
      PROVE  alarm.age[x] < alarm.asked[x] + (n - 1)
    <2>1. /\ alarm.age[x] \in Nat /\ alarm.asked[x] \in Nat /\ alarm.asked[x] > 0
          /\ Left(x, msg_text) \in Nat /\ Left(x, msg_text) > 0
        <3>1. alarm.age[x] \in Nat /\ alarm.asked[x] \in Nat /\ msg_text \in [Env -> Nat]
            BY TurnFacts DEF Typed
        <3>2. alarm.asked[x] > 0
            BY <1>4, TurnFacts DEF AlarmInv
        <3>3. Left(x, msg_text) \in Nat \ {0}
            BY <3>1, LeftNat
        <3> QED
            BY <3>1, <3>2, <3>3
    <2>2. CASE Requested(x)
        <3>1. PICK i \in 1 .. Len(ct) : ct[i] = x
            BY <2>2, QueueOf, Domains DEF Requested
        <3> HIDE DEF ct, cs, n
        <3>2. alarm.age[x] + i <= n
            BY <1>2, <2>2, <3>1 DEF TimerOk, Requested
        <3> QED
            BY <1>3, <2>1, <3>2
    <2>3. CASE x \in On(envs, Sleep)
        <3>1. PICK i \in 1 .. Len(cs) : cs[i] = x
            BY <2>3, QueueOf, Domains
        <3> HIDE DEF ct, cs, n
        <3>2. Passed(x, msg_text, alarm, n)
            BY <1>2, <1>3, <3>1 DEF SleepOk
        <3>3. alarm.age[x] < n + (alarm.asked[x] - Left(x, msg_text))
            BY <3>2 DEF Passed, Counted
        <3> QED
            BY <1>3, <2>1, <3>3
    <2> QED
        BY <1>1, <1>4, <2>2, <2>3 DEF Pending
<1>5. ASSUME NEW x \in Env, Pending(x)
      PROVE  alarm'.asked[x] = alarm.asked[x] /\ alarm'.age[x] = alarm.age[x] + 1
    <2>1. x \in Waiting
        BY <1>5, TurnFacts DEF AlarmInv, Waiting
    <2>2. alarm.age[x] \in Nat /\ alarm.asked[x] \in Nat
        BY TurnFacts DEF Typed
    <2>3. alarm.age[x] < alarm.asked[x] + n
        <3>1. alarm.age[x] < alarm.asked[x] + (n - 1)
            BY <1>4, <1>5
        <3> HIDE DEF n
        <3> QED
            BY <1>3, <2>2, <3>1
    <2> QED
        BY <2>1, <2>3, TickAges
<1> QED
    BY <1>4, <1>5

LEMMA TickOrder ==
    ASSUME InTurn, TypeInv, TurnInv, Tick
    PROVE  OrderInv'
<1> DEFINE n == Cardinality(Env)
           ct == Chain(envs, Timer)
           cs == Chain(envs, Sleep)
           h == envs.head[Timer]
           request == h # NULL /\ msg_type[h] = "WAKEUP"
           f == [ pc |-> IF request THEN "enqueue" ELSE "start",
                  env |-> IF request THEN h ELSE NULL, sleeptraverse |-> NULL,
                      removeid |-> NULL ]
<1>1. /\ frames = <<>> /\ frames' # <<>> /\ Top' = f /\ envs' = env_DEQ(envs, Timer)
      /\ msg_text' = msg_text /\ msg_type' = msg_type
    BY TickAges, OnePushed DEF Tick, InTurn
<1>2. /\ TimerOk(ct, msg_text, msg_type, alarm, n) /\ SleepOk(cs, Len(cs), msg_text, alarm, n)
      /\ After(Sleepers, Requests, msg_text)
    BY <1>1, TurnFacts DEF OrderInv
<1>3. /\ ct \in Seq(Env) /\ cs \in Seq(Env) /\ Len(cs) \in Nat /\ n \in Nat
      /\ \A i \in 1 .. Len(ct) : ct[i] \in Env /\ ct[i] \in On(envs, Timer)
      /\ \A i \in 1 .. Len(cs) : cs[i] \in Env /\ Pending(cs[i])
      /\ Typed(msg_text, alarm)
    BY QueueOf, TurnFacts, Domains DEF Pending
<1>4. \A x \in Env : Pending(x) => /\ alarm'.asked[x] = alarm.asked[x]
                                   /\ alarm'.age[x] = alarm.age[x] + 1
    BY TickOlder
<1>5. On(envs', Sleep) = On(envs, Sleep) /\ Chain(envs', Sleep) = cs
      /\ On(envs', Timer) \subseteq On(envs, Timer)
    <2>1. CASE h = NULL
        BY <1>1, <2>1 DEF env_DEQ
    <2>2. CASE h # NULL
        BY <1>1, <2>2, PlaceDEQ, TurnFacts, Domains
    <2> QED
        BY <2>1, <2>2
<1>6. SleepOk(cs, 0, msg_text, alarm', n)
    <2> HIDE DEF n, cs, ct, f, h
    <2>1. \A i \in 1 .. Len(cs) : /\ alarm'.asked[cs[i]] = alarm.asked[cs[i]]
                                  /\ alarm'.age[cs[i]] = alarm.age[cs[i]] + 1
        BY <1>3, <1>4
    <2> QED
        BY <1>2, <1>3, <2>1, SleepTick
<1>7. Older(ct, msg_type, alarm, alarm')
    <2>1. \A i \in 1 .. Len(ct) : msg_type[ct[i]] = "WAKEUP" => Pending(ct[i])
        BY <1>3 DEF Pending, Requested
    <2> HIDE DEF n, cs, ct, f, h
    <2> QED
        BY <1>3, <1>4, <2>1 DEF Older
<1>8. After(Sleepers', Requests', msg_text')
    BY <1>1, <1>2, <1>5 DEF After, Sleepers, Requests, Requested
<1>9. CASE h = NULL
    <2>1. envs' = envs /\ ct = <<>>
        BY <1>1, <1>9, QueueOf, Domains DEF env_DEQ, Linked
    <2>2. TimerOk(Chain(envs', Timer), msg_text', msg_type', alarm', n)
        BY <2>1 DEF TimerOk
    <2>3. f.pc = "start"
        BY <1>9
    <2> HIDE DEF n, cs, ct, f, h
    <2>4. Stage(f, cs, 0, msg_text', alarm', n)
        BY <2>3 DEF Stage
    <2>5. 0 \in 0 .. Len(cs)
        BY <1>3
    <2> QED
        BY <1>1, <1>5, <1>6, <1>8, <2>2, <2>3, <2>4, <2>5 DEF OrderInv, n
<1>10. CASE h # NULL
    <2>1. /\ ct # <<>> /\ ct[1] = h /\ Chain(envs', Timer) = Tail(ct)
          /\ h \in On(envs, Timer) /\ h \in Env
          /\ On(envs', Timer) = On(envs, Timer) \ {h}
        BY <1>1, <1>10, PlaceDEQ, TurnFacts, Domains
    <2>2. \A x \in On(envs, Timer) : \E i \in 1 .. Len(ct) : ct[i] = x
        BY QueueOf, Domains
    <2> HIDE DEF n, cs, ct, h
    <2>3. ASSUME NEW x \in On(envs', Timer)
          PROVE  \E i \in 1 .. Len(Tail(ct)) : Tail(ct)[i] = x
        <3>1. PICK i \in 1 .. Len(ct) : ct[i] = x /\ i # 1
            BY <2>1, <2>2
        <3>2. i - 1 \in 1 .. Len(Tail(ct)) /\ Tail(ct)[i - 1] = x
            BY <1>3, <2>1, <3>1
        <3> QED
            BY <3>2
    <2>4. /\ TimerOk(Tail(ct), msg_text, msg_type, alarm', n)
          /\ AtHand(ct, msg_text, msg_type, alarm', n)
        <3>1. /\ ct \in Seq(Env) /\ ct # <<>> /\ n \in Nat /\ Typed(msg_text, alarm)
              /\ TimerOk(ct, msg_text, msg_type, alarm, n)
            BY <1>2, <1>3, <2>1
        <3> QED
            BY ONLY <1>7, <3>1, TimerTick
    <2>5. TimerOk(Chain(envs', Timer), msg_text', msg_type', alarm', n)
        BY <1>1, <2>1, <2>4
    <2>6. 0 \in 0 .. Len(cs)
        BY <1>3
    <2>7. CASE request
        <3>1. f.pc = "enqueue" /\ f.env = h
            BY <2>7
        <3>2. h \in Requests
            BY <2>1, <2>7 DEF Requests, Requested
        <3>3. Stage(f, cs, 0, msg_text', alarm', n)
            BY <1>1, <2>1, <2>4, <2>7, <3>1 DEF Stage, AtHand
        <3>4. After(Sleepers', {h}, msg_text')
            BY <1>1, <1>2, <1>5, <3>2 DEF After, Sleepers
        <3>5. After({h}, Requests', msg_text')
            <4>1. \A x \in Requests' : x \in On(envs', Timer) /\ msg_type[x] = "WAKEUP"
                BY <1>1 DEF Requests, Requested
            <4>2. \A x \in Requests' : Left(h, msg_text) <= Left(x, msg_text)
                BY <2>1, <2>3, <2>4, <2>7, <4>1 DEF AtHand
            <4> QED
                BY <1>1, <4>2 DEF After
        <3> HIDE DEF f
        <3> QED
            BY <1>1, <1>5, <1>6, <1>8, <2>5, <2>6, <3>1, <3>3, <3>4, <3>5 DEF OrderInv, n
    <2>8. CASE ~ request
        <3>1. f.pc = "start"
            BY <2>8
        <3> HIDE DEF f
        <3>2. Stage(f, cs, 0, msg_text', alarm', n)
            BY <3>1 DEF Stage
        <3> QED
            BY <1>1, <1>5, <1>6, <1>8, <2>5, <2>6, <3>1, <3>2 DEF OrderInv, n
    <2> QED
        BY <2>7, <2>8
<1> QED
    BY <1>9, <1>10

(* The request ends after all that sleep, so it belongs at the end.        *)
LEMMA EnqueueOrder ==
    ASSUME TypeInv, TurnInv, EnqueueRequest
    PROVE  OrderInv'
<1> DEFINE n == Cardinality(Env)
           ct == Chain(envs, Timer)
           cs == Chain(envs, Sleep)
           f == [Top EXCEPT !.pc = "start", !.env = NULL]
<1>1. PICK e \in Env :
        /\ frames # <<>> /\ Top.pc = "enqueue" /\ Top \in Frame /\ Top.env = e
        /\ envs' = env_ENQ(envs, Sleep, e) /\ frames' = [frames EXCEPT ![Depth] = f]
        /\ UNCHANGED <<msg_text, msg_type, alarm>>
    <2>1. frames # <<>> /\ Top.pc = "enqueue" /\ Top \in Frame /\ Top.env \in Env
        BY TopIs, TurnFacts DEF EnqueueRequest, At, Shape
    <2>2. frames' = [frames EXCEPT ![Depth] = f]
        BY <2>1, OneFrame, TurnFacts DEF EnqueueRequest
    <2> QED
        BY <2>1, <2>2 DEF EnqueueRequest
<1>2. f.pc = "start"
    BY <1>1 DEF Frame, Pc
<1> HIDE DEF f
<1>3. frames' # <<>> /\ Top' = f
    BY <1>1, OneReplaced, TurnFacts
<1>4. OnNone(envs, Queue, e)
    BY <1>1, TurnFacts DEF PlacesInv, Hand
<1>5. /\ Chain(envs', Sleep) = Append(cs, e) /\ Chain(envs', Timer) = ct
      /\ On(envs', Sleep) = On(envs, Sleep) \cup {e} /\ On(envs', Timer) = On(envs, Timer)
    BY <1>1, <1>4, PlaceENQ, TurnFacts, Domains
<1>6. PICK v \in 0 .. Len(cs) :
        SleepOk(cs, v, msg_text, alarm, n) /\ Stage(Top, cs, v, msg_text, alarm, n)
    BY <1>1, HandlerStage
<1>7. v = 0 /\ Due(e, msg_text, alarm, n)
    BY <1>1, <1>6 DEF Stage
<1>8. /\ TimerOk(ct, msg_text, msg_type, alarm, n) /\ After(Sleepers, Requests, msg_text)
      /\ After(Sleepers, {e}, msg_text) /\ After({e}, Requests, msg_text)
    BY <1>1, TurnFacts DEF OrderInv
<1>9. /\ cs \in Seq(Env) /\ Len(cs) \in Nat /\ n \in Nat /\ Typed(msg_text, alarm)
      /\ \A i \in 1 .. Len(cs) : cs[i] \in Sleepers
    BY QueueOf, TurnFacts, Domains DEF Sleepers
<1> HIDE DEF cs, ct, n
<1>10. \A i \in 1 .. Len(cs) : Left(cs[i], msg_text) <= Left(e, msg_text)
    BY <1>8, <1>9 DEF After
<1>11. SleepOk(Append(cs, e), 0, msg_text, alarm, n)
    BY <1>6, <1>7, <1>9, <1>10, SleepAppend
<1>12. After(Sleepers', Requests', msg_text')
    BY <1>1, <1>5, <1>8 DEF After, Sleepers, Requests, Requested
<1>13. Stage(f, Append(cs, e), 0, msg_text, alarm, n)
    BY <1>2 DEF Stage
<1>14. 0 \in 0 .. Len(Append(cs, e))
    BY <1>9
<1> QED
    BY <1>1, <1>2, <1>3, <1>5, <1>8, <1>11, <1>12, <1>13, <1>14 DEF OrderInv, n

LEMMA StartOrder ==
    ASSUME TypeInv, TurnInv, StartTraversal
    PROVE  OrderInv'
<1> DEFINE n == Cardinality(Env)
           cs == Chain(envs, Sleep)
           h == envs.head[Sleep]
           f == Visiting(h)
<1>1. /\ frames # <<>> /\ Top.pc = "start" /\ frames' = [frames EXCEPT ![Depth] = f]
      /\ UNCHANGED <<envs, msg_text, msg_type, alarm>>
    BY DEF StartTraversal, At
<1>2. frames' # <<>> /\ Top' = f
    BY <1>1, OneReplaced, TurnFacts
<1>3. PICK v \in 0 .. Len(cs) :
        /\ SleepOk(cs, v, msg_text, alarm, n) /\ Stage(Top, cs, v, msg_text, alarm, n)
        /\ Linked(envs, Sleep, cs)
    BY <1>1, HandlerStage
<1>4. v = 0
    BY <1>1, <1>3 DEF Stage
<1> HIDE DEF cs, n
<1>5. Stage(f, cs, 0, msg_text, alarm, n) /\ f.pc # "enqueue"
    <2>1. CASE h = NULL
        <3>1. cs = <<>> /\ f.pc = "return"
            BY <1>3, <2>1 DEF Linked, Visiting
        <3> QED
            BY <3>1 DEF Stage
    <2>2. CASE h # NULL
        <3>1. Len(cs) \in Nat \ {0} /\ cs[1] = h
            BY <1>3, <2>2 DEF Linked
        <3>2. 0 < Len(cs) /\ cs[0 + 1] = h /\ f.pc = "visit" /\ f.sleeptraverse = h
            BY <2>2, <3>1 DEF Visiting
        <3> HIDE DEF f
        <3> QED
            BY <3>2 DEF Stage
    <2> QED
        BY <2>1, <2>2
<1> HIDE DEF f
<1>6. TimerOk(Chain(envs, Timer), msg_text, msg_type, alarm, n)
      /\ After(Sleepers, Requests, msg_text)
    BY TurnFacts DEF OrderInv, n
<1>7. After(Sleepers', Requests', msg_text')
    BY <1>1, <1>6 DEF Sleepers, Requests, Requested
<1> QED
    BY <1>1, <1>2, <1>3, <1>4, <1>5, <1>6, <1>7 DEF OrderInv, n, cs

LEMMA ReturnOrder ==
    ASSUME TypeInv, TurnInv, Return
    PROVE  OrderInv' /\ frames' = <<>>
<1> DEFINE n == Cardinality(Env)
           cs == Chain(envs, Sleep)
<1>1. /\ frames # <<>> /\ Top.pc = "return" /\ frames' = SubSeq(frames, 1, Depth - 1)
      /\ UNCHANGED <<envs, msg_text, msg_type, alarm>>
    BY DEF Return, At
<1>2. frames' = <<>>
    BY <1>1, OnePopped, TurnFacts
<1>3. PICK v \in 0 .. Len(cs) :
        SleepOk(cs, v, msg_text, alarm, n) /\ Stage(Top, cs, v, msg_text, alarm, n)
    BY <1>1, HandlerStage
<1>4. v = Len(cs)
    BY <1>1, <1>3 DEF Stage
<1>5. TimerOk(Chain(envs, Timer), msg_text, msg_type, alarm, n)
      /\ After(Sleepers, Requests, msg_text)
    BY TurnFacts DEF OrderInv
<1>6. After(Sleepers', Requests', msg_text')
    BY <1>1, <1>5 DEF Sleepers, Requests, Requested
<1> QED
    BY <1>1, <1>2, <1>3, <1>4, <1>5, <1>6 DEF OrderInv

(* An envelope that is not due is counted and passed.                      *)
LEMMA CountOrder ==
    ASSUME TypeInv, TurnInv, frames # <<>>, Top.pc = "visit",
           NEW e \in Env, Top.sleeptraverse = e, msg_text[e] - 1 > 0,
           msg_text' = [msg_text EXCEPT ![e] = msg_text[e] - 1],
           frames' = [frames EXCEPT ![Depth] = Visiting(envs.p[e])],
           UNCHANGED <<envs, msg_type, alarm>>
    PROVE  OrderInv'
<1> DEFINE n == Cardinality(Env)
           ct == Chain(envs, Timer)
           cs == Chain(envs, Sleep)
           f == Visiting(envs.p[e])
<1>1. frames' # <<>> /\ Top' = f
    BY OneReplaced, TurnFacts
<1>2. PICK v \in 0 .. Len(cs) :
        /\ SleepOk(cs, v, msg_text, alarm, n) /\ Stage(Top, cs, v, msg_text, alarm, n)
        /\ Linked(envs, Sleep, cs)
    BY HandlerStage
<1>3. /\ cs \in Seq(Env) /\ ct \in Seq(Env) /\ Len(cs) \in Nat /\ n \in Nat
      /\ Typed(msg_text, alarm)
      /\ \A i, j \in 1 .. Len(cs) : cs[i] = cs[j] => i = j
      /\ \A i \in 1 .. Len(cs) : cs[i] \in On(envs, Sleep)
      /\ \A i \in 1 .. Len(ct) : ct[i] \in Env /\ ct[i] \in On(envs, Timer)
      /\ On(envs, Sleep) \subseteq Env /\ On(envs, Sleep) \cap On(envs, Timer) = {}
    BY QueueOf, PlaceFacts, TurnFacts, Domains
<1>4. /\ TimerOk(ct, msg_text, msg_type, alarm, n)
      /\ After(Sleepers, Requests, msg_text)
    BY TurnFacts DEF OrderInv
<1>5. v < Len(cs) /\ cs[v + 1] = e
    BY <1>2 DEF Stage
<1> HIDE DEF cs, ct, n
<1>6. v \in Nat /\ v + 1 \in Nat /\ v + 1 \in 1 .. Len(cs) /\ v + 1 \in 0 .. Len(cs)
    BY <1>3, <1>5
<1>7. SleepOk(cs, v + 1, msg_text', alarm, n)
    BY <1>2, <1>3, <1>5, <1>6, SleepVisit
<1>8. Stage(f, cs, v + 1, msg_text', alarm, n) /\ f.pc # "enqueue"
    <2> DEFINE w == v + 1
    <2>0. w \in 1 .. Len(cs) /\ w \in Nat /\ cs[w] = e
        BY <1>5, <1>6
    <2> HIDE DEF w
    <2>1. CASE w = Len(cs)
        <3>1. envs.p[e] = NULL
            BY <1>2, <2>0, <2>1 DEF Linked
        <3>2. f.pc = "return"
            BY <3>1 DEF Visiting
        <3> HIDE DEF f
        <3> QED
            BY <2>1, <3>2 DEF Stage, w
    <2>2. CASE w # Len(cs)
        <3>1. w < Len(cs) /\ w + 1 \in 1 .. Len(cs)
            BY <1>3, <2>0, <2>2
        <3>2. envs.p[e] = cs[w + 1]
            BY <1>2, <2>0, <3>1 DEF Linked
        <3>3. envs.p[e] # NULL
            BY <1>3, <3>1, <3>2, Domains
        <3>4. f.pc = "visit" /\ f.sleeptraverse = cs[w + 1]
            BY <3>2, <3>3 DEF Visiting
        <3> HIDE DEF f
        <3> QED
            BY <3>1, <3>4 DEF Stage, w
    <2> QED
        BY <2>1, <2>2
<1> HIDE DEF f
<1>9. e \in On(envs, Sleep) /\ e \notin On(envs, Timer)
    BY <1>3, <1>5, <1>6
<1>10. /\ \A x \in Env : x # e => Left(x, msg_text') = Left(x, msg_text)
       /\ Left(e, msg_text') <= Left(e, msg_text)
    <2>1. /\ msg_text \in [Env -> Nat] /\ msg_text' \in [Env -> Nat]
          /\ msg_text'[e] = msg_text[e] - 1 /\ msg_text[e] \in Nat
          /\ \A x \in Env : x # e => msg_text'[x] = msg_text[x]
        BY <1>3 DEF Typed
    <2>2. Left(e, msg_text) = msg_text[e] /\ Left(e, msg_text') = msg_text[e] - 1
        BY <2>1 DEF Left, Ticks
    <2> QED
        BY <2>1, <2>2 DEF Left
<1>11. TimerOk(ct, msg_text', msg_type', alarm', n)
    <2>1. \A i \in 1 .. Len(ct) : /\ Same(ct[i], msg_text, alarm, msg_text', alarm')
                                  /\ msg_type'[ct[i]] = msg_type[ct[i]]
        BY <1>3, <1>9 DEF Same, Typed
    <2>2. ct \in Seq(Env) /\ TimerOk(ct, msg_text, msg_type, alarm, n)
        BY <1>3, <1>4
    <2> QED
        BY ONLY <2>1, <2>2, TimerSame
<1>12. After(Sleepers', Requests', msg_text')
    <2>1. ASSUME NEW x \in Sleepers, NEW y \in Requests
          PROVE  Left(x, msg_text') <= Left(y, msg_text')
        <3>1. x \in Env /\ y \in Env /\ y # e
            BY <1>3, <1>9 DEF Sleepers, Requests, Requested
        <3>2. msg_text \in [Env -> Nat] /\ msg_text' \in [Env -> Nat]
            BY <1>3 DEF Typed
        <3>3. /\ Left(x, msg_text) \in Nat /\ Left(y, msg_text) \in Nat
              /\ Left(x, msg_text') \in Nat
            BY <3>1, <3>2, LeftNat
        <3>4. Left(x, msg_text) <= Left(y, msg_text)
            BY <1>4 DEF After
        <3>5. Left(y, msg_text') = Left(y, msg_text)
            BY <1>10, <3>1
        <3>6. Left(x, msg_text') <= Left(x, msg_text)
            <4>1. CASE x = e
                BY <1>10, <4>1
            <4>2. CASE x # e
                <5>1. Left(x, msg_text') = Left(x, msg_text)
                    BY <1>10, <3>1, <4>2
                <5> QED
                    BY <3>3, <5>1
            <4> QED
                BY <4>1, <4>2
        <3> QED
            BY <3>3, <3>4, <3>5, <3>6
    <2> QED
        BY <2>1 DEF After, Sleepers, Requests, Requested
<1> QED
    BY <1>1, <1>6, <1>7, <1>8, <1>11, <1>12 DEF OrderInv, n, cs, ct

LEMMA TailFirst ==
    ASSUME NEW S, NEW c \in Seq(S), c # <<>>
    PROVE  /\ Len(c) = 1 => Tail(c) = <<>>
           /\ Len(c) # 1 => Tail(c) # <<>> /\ Tail(c)[1] = c[2] /\ 1 < Len(c)
<1>1. /\ Len(c) \in Nat \ {0} /\ Tail(c) \in Seq(S) /\ Len(Tail(c)) = Len(c) - 1
      /\ \A i \in 1 .. Len(Tail(c)) : Tail(c)[i] = c[i + 1]
    BY EmptySeq, HeadTailProperties
<1> DEFINE t == Tail(c)
           m == Len(c)
<1>2. t = <<>> <=> Len(t) = 0
    BY <1>1, EmptySeq
<1> HIDE DEF t, m
<1>3. ASSUME m = 1 PROVE t = <<>>
    BY <1>1, <1>2, <1>3 DEF t, m
<1>4. ASSUME m # 1
      PROVE  t # <<>> /\ t[1] = c[2] /\ 1 < m
    <2>1. m \in Nat \ {0} /\ Len(t) = m - 1 /\ \A i \in 1 .. Len(t) : t[i] = c[i + 1]
        BY <1>1 DEF t, m
    <2>2. 1 < m /\ Len(t) # 0 /\ 1 \in 1 .. Len(t)
        BY <1>4, <2>1
    <2>3. t[1] = c[1 + 1]
        BY <2>1, <2>2
    <2> QED
        BY <1>2, <2>2, <2>3
<1> QED
    BY <1>3, <1>4 DEF t, m

(* The first envelope that is due is the first on sleep_Q: before it there *)
(* would be one with less time left.                                       *)
LEMMA DueOrder ==
    ASSUME TypeInv, TurnInv, frames # <<>>, Top.pc = "visit",
           NEW e \in Env, Top.sleeptraverse = e, ~ (msg_text[e] - 1 > 0),
           frames' = [frames EXCEPT ![Depth] =
                        Removing(e, envs.p[e])],
           UNCHANGED <<envs, msg_text, msg_type, alarm>>
    PROVE  OrderInv'
<1> DEFINE n == Cardinality(Env)
           ct == Chain(envs, Timer)
           cs == Chain(envs, Sleep)
           f == Removing(e, envs.p[e])
<1>1. frames' # <<>> /\ Top' = f
    BY OneReplaced, TurnFacts
<1>2. PICK v \in 0 .. Len(cs) :
        /\ SleepOk(cs, v, msg_text, alarm, n) /\ Stage(Top, cs, v, msg_text, alarm, n)
        /\ Linked(envs, Sleep, cs)
    BY HandlerStage
<1>3. /\ cs \in Seq(Env) /\ Len(cs) \in Nat /\ msg_text \in [Env -> Nat]
      /\ \A i \in 1 .. Len(cs) : cs[i] \in Env
    BY QueueOf, TurnFacts, Domains DEF Typed
<1>4. /\ TimerOk(ct, msg_text, msg_type, alarm, n)
      /\ After(Sleepers, Requests, msg_text)
    BY TurnFacts DEF OrderInv
<1>5. v < Len(cs) /\ cs[v + 1] = e
    BY <1>2 DEF Stage
<1> HIDE DEF cs, ct, n
<1>6. Left(e, msg_text) = 1
    BY <1>3, LeftNat
<1>7. v = 0
    <2> SUFFICES ASSUME v # 0 PROVE FALSE
        OBVIOUS
    <2>1. v \in 1 .. Len(cs) /\ v + 1 \in 1 .. Len(cs) /\ v <= v /\ v < v + 1
        BY <1>3, <1>5
    <2>2. Left(cs[v], msg_text) < Left(cs[v + 1], msg_text)
        BY <1>2, <2>1 DEF SleepOk
    <2>3. Left(cs[v], msg_text) \in Nat \ {0}
        BY <1>3, <2>1, LeftNat
    <2> QED
        BY <1>5, <1>6, <2>2, <2>3
<1>8. cs # <<>> /\ cs[1] = e /\ 1 \in 1 .. Len(cs)
    BY <1>3, <1>5, <1>7
<1>9. envs.p[e] = First(Tail(cs))
    <2>1. CASE Len(cs) = 1
        <3>1. Tail(cs) = <<>>
            BY <1>3, <1>8, <2>1, TailFirst
        <3> QED
            BY <1>2, <1>8, <2>1, <3>1 DEF Linked, First
    <2>2. CASE Len(cs) # 1
        <3>1. Tail(cs) # <<>> /\ Tail(cs)[1] = cs[2] /\ 1 < Len(cs)
            BY <1>3, <1>8, <2>2, TailFirst
        <3>2. envs.p[cs[1]] = cs[1 + 1]
            BY <1>2, <1>8, <3>1 DEF Linked
        <3> QED
            BY <1>8, <3>1, <3>2 DEF First
    <2> QED
        BY <2>1, <2>2
<1>10. Stage(f, cs, 0, msg_text, alarm, n) /\ f.pc # "enqueue"
    BY <1>6, <1>8, <1>9 DEF Stage, Removing
<1> HIDE DEF f
<1>11. After(Sleepers', Requests', msg_text')
    BY <1>4 DEF Sleepers, Requests, Requested
<1> QED
    BY <1>1, <1>2, <1>4, <1>7, <1>10, <1>11 DEF OrderInv, n, cs, ct

LEMMA VisitOrder ==
    ASSUME TypeInv, TurnInv, Visit
    PROVE  OrderInv'
<1>1. /\ frames # <<>> /\ Top.pc = "visit"
      /\ UNCHANGED <<envs, msg_type, alarm>>
    BY DEF Visit, At
<1>2. PICK e \in Env : Top.sleeptraverse = e
    BY <1>1, TopIs, TurnFacts DEF Shape
<1>3. CASE msg_text[e] - 1 > 0
    BY <1>1, <1>2, <1>3, CountOrder DEF Visit
<1>4. CASE ~ (msg_text[e] - 1 > 0)
    <2>1. /\ UNCHANGED msg_text
          /\ frames' = [frames EXCEPT ![Depth] =
                          Removing(e, envs.p[e])]
        BY <1>2, <1>4 DEF Visit
    <2> QED
        BY <1>1, <1>2, <1>4, <2>1, DueOrder
<1> QED
    BY <1>3, <1>4

LEMMA RemoveOrder ==
    ASSUME TypeInv, TurnInv, Remove
    PROVE  OrderInv'
<1> DEFINE n == Cardinality(Env)
           ct == Chain(envs, Timer)
           cs == Chain(envs, Sleep)
           f == [Top EXCEPT !.pc = "wake"]
<1>1. PICK e \in Env :
        /\ frames # <<>> /\ Top \in Frame /\ Top.pc = "remove" /\ Top.env = e
        /\ envs.head[Sleep] # NULL /\ envs.head[Sleep] = e
        /\ envs' = env_DEQ(envs, Sleep) /\ frames' = [frames EXCEPT ![Depth] = f]
        /\ UNCHANGED <<msg_text, msg_type, alarm>>
    <2>1. Top.env \in Env
        BY TopIs, RemovesTheFirst, TurnFacts DEF Shape
    <2> QED
        BY <2>1, RemovesTheFirst DEF Remove
<1>2. f.pc = "wake" /\ f.env = e /\ f.sleeptraverse = Top.sleeptraverse
    BY <1>1 DEF Frame
<1> HIDE DEF f
<1>3. frames' # <<>> /\ Top' = f
    BY <1>1, OneReplaced, TurnFacts
<1>4. /\ Chain(envs', Sleep) = Tail(cs) /\ Chain(envs', Timer) = ct
      /\ On(envs', Sleep) \subseteq On(envs, Sleep) /\ On(envs', Timer) = On(envs, Timer)
    BY <1>1, PlaceDEQ, TurnFacts, Domains
<1>5. PICK v \in 0 .. Len(cs) :
        SleepOk(cs, v, msg_text, alarm, n) /\ Stage(Top, cs, v, msg_text, alarm, n)
    BY <1>1, HandlerStage
<1>6. /\ v = 0 /\ cs # <<>> /\ cs[1] = e /\ Left(e, msg_text) = 1
      /\ Top.sleeptraverse = First(Tail(cs))
    BY <1>1, <1>5 DEF Stage
<1>7. /\ TimerOk(ct, msg_text, msg_type, alarm, n) /\ After(Sleepers, Requests, msg_text)
    BY TurnFacts DEF OrderInv
<1>8. cs \in Seq(Env) /\ Len(cs) \in Nat /\ alarm.asked[e] \in Nat /\ alarm.age[e] \in Nat
    BY QueueOf, TurnFacts, Domains DEF Typed
<1> HIDE DEF cs, ct, n
<1>9. SleepOk(Tail(cs), 0, msg_text, alarm, n)
    BY <1>5, <1>6, <1>8, SleepTail
<1>10. alarm.asked[e] <= alarm.age[e]
    <2>1. 1 \in 1 .. Len(cs) /\ 0 < 1
        BY <1>6, <1>8
    <2>2. Due(e, msg_text, alarm, n)
        BY <1>5, <1>6, <2>1 DEF SleepOk
    <2>3. alarm.asked[e] - 1 <= alarm.age[e] - 1
        BY <1>6, <1>8, <2>2 DEF Due, Counted
    <2> QED
        BY <1>8, <2>3
<1>11. Stage(f, Tail(cs), 0, msg_text, alarm, n)
    BY <1>2, <1>6, <1>10 DEF Stage
<1>12. After(Sleepers', Requests', msg_text')
    BY <1>1, <1>4, <1>7 DEF After, Sleepers, Requests, Requested
<1>13. Len(Tail(cs)) \in Nat /\ 0 \in 0 .. Len(Tail(cs))
    <2>1. Tail(cs) \in Seq(Env)
        BY <1>6, <1>8
    <2>2. Len(Tail(cs)) \in Nat
        BY <2>1
    <2> QED
        BY <2>2
<1> QED
    BY <1>1, <1>2, <1>3, <1>4, <1>7, <1>9, <1>11, <1>12, <1>13 DEF OrderInv, n

LEMMA WakeOrder ==
    ASSUME TypeInv, TurnInv, Wake
    PROVE  OrderInv'
<1> DEFINE n == Cardinality(Env)
           cs == Chain(envs, Sleep)
           f == Visiting(Top.sleeptraverse)
<1>1. PICK e \in Env, s \in Proc :
        /\ frames # <<>> /\ Top.pc = "wake" /\ Top.env = e /\ s \in Queue
        /\ s # Timer /\ s # Sleep /\ envs' = env_ENQ(envs, s, e)
        /\ frames' = [frames EXCEPT ![Depth] = f]
        /\ alarm' = [alarm EXCEPT !.status[e] = "rung"]
        /\ UNCHANGED <<msg_type, msg_text>>
    BY WakesASender, Domains
<1>2. frames' # <<>> /\ Top' = f
    BY <1>1, OneReplaced, TurnFacts
<1>3. OnNone(envs, Queue, e)
    BY <1>1, TurnFacts DEF PlacesInv, Hand
<1>4. /\ Chain(envs', Timer) = Chain(envs, Timer) /\ Chain(envs', Sleep) = cs
      /\ On(envs', Timer) = On(envs, Timer) /\ On(envs', Sleep) = On(envs, Sleep)
    BY <1>1, <1>3, PlaceENQ, TurnFacts, Domains
<1>5. \A x \in Env : Same(x, msg_text, alarm, msg_text', alarm')
    BY <1>1, TurnFacts DEF Same, AlarmInv
<1>6. PICK v \in 0 .. Len(cs) :
        /\ SleepOk(cs, v, msg_text, alarm, n) /\ Stage(Top, cs, v, msg_text, alarm, n)
        /\ Linked(envs, Sleep, cs)
    BY <1>1, HandlerStage
<1>7. v = 0 /\ Top.sleeptraverse = First(cs)
    BY <1>1, <1>6 DEF Stage
<1>8. /\ TimerOk(Chain(envs', Timer), msg_text', msg_type', alarm', n)
      /\ SleepOk(Chain(envs', Sleep), 0, msg_text', alarm', n)
      /\ After(Sleepers', Requests', msg_text')
    BY <1>1, <1>4, <1>5, <1>6, <1>7, QueuesUnchanged
<1>9. cs \in Seq(Env) /\ Len(cs) \in Nat /\ \A i \in 1 .. Len(cs) : cs[i] \in Env
    BY QueueOf, Domains
<1>10. First(cs) = NULL <=> cs = <<>>
    <2>1. NULL \notin Env
        BY Domains
    <2> HIDE DEF cs
    <2> QED
        BY <1>9, <2>1 DEF First
<1> HIDE DEF cs, n
<1>11. Stage(f, cs, 0, msg_text', alarm', n) /\ f.pc # "enqueue"
    <2>1. CASE cs = <<>>
        <3>1. f.pc = "return"
            BY <1>7, <1>10, <2>1 DEF Visiting
        <3> HIDE DEF f
        <3> QED
            BY <2>1, <3>1 DEF Stage
    <2>2. CASE cs # <<>>
        <3>1. f.pc = "visit" /\ f.sleeptraverse = cs[0 + 1] /\ 0 < Len(cs)
            BY <1>7, <1>9, <1>10, <2>2 DEF Visiting, First
        <3> HIDE DEF f
        <3> QED
            BY <3>1 DEF Stage
    <2> QED
        BY <2>1, <2>2
<1> HIDE DEF f
<1>12. 0 \in 0 .. Len(cs)
    BY <1>9
<1> QED
    BY <1>1, <1>2, <1>4, <1>8, <1>11, <1>12 DEF OrderInv, n, cs

-----------------------------------------------------------------------------
LEMMA InitTurnInv == Init => TurnInv
<1> SUFFICES ASSUME Init PROVE TurnInv
    OBVIOUS
<1>1. Len(frames) <= 1 /\ ~ fault /\ Named
    BY DEF Init, Named
<1> QED
    BY <1>1, InitPlaces, InitOrder DEF TurnInv

(* The envelope that is due gets its sender's name, and nobody sends it    *)
(* before it is removed.                                                   *)
LEMMA HandlerNamed ==
    ASSUME TypeInv, TurnInv, timer_iproc
    PROVE  Named'
<1>1. FrameInv /\ Len(frames) <= 1 /\ Named
    BY TurnFacts
<1>2. /\ frames # <<>> /\ Top \in Frame
      /\ frames \in Seq(Frame) /\ Len(frames) = 1 /\ Depth = 1 /\ Top = frames[1]
    BY <1>1, TopIs, OneFrame
    DEF timer_iproc, EnqueueRequest, StartTraversal, Visit, Remove, Wake, Return, At
<1>4. CASE EnqueueRequest
    <2> DEFINE f == [Top EXCEPT !.pc = "start", !.env = NULL]
    <2>1. frames' = [frames EXCEPT ![Depth] = f] /\ f.pc = "start"
        BY <1>2, <1>4 DEF EnqueueRequest, Frame
    <2> HIDE DEF f
    <2>2. Top' = f
        BY <1>1, <1>2, <2>1, OneReplaced
    <2> QED
        BY <2>1, <2>2 DEF Named
<1>5. CASE StartTraversal
    <2>1. Top' = Visiting(envs.head[Sleep])
        BY <1>1, <1>2, <1>5, OneReplaced DEF StartTraversal
    <2> QED
        BY <2>1 DEF Named, Visiting
<1>6. CASE Visit
    <2> DEFINE e == Top.sleeptraverse
    <2>1. sender_id' = sender_id
        BY <1>6 DEF Visit
    <2>2. \/ frames' = [frames EXCEPT ![Depth] = Visiting(envs.p[e])]
          \/ frames' = [frames EXCEPT ![Depth] = Removing(e, envs.p[e])]
        BY <1>6 DEF Visit
    <2>3. Top' = Visiting(envs.p[e]) \/ Top' = Removing(e, envs.p[e])
        BY <1>1, <1>2, <2>2, OneReplaced
    <2> HIDE DEF e
    <2> QED
        BY <2>1, <2>3 DEF Named, Visiting, Removing
<1>7. CASE Remove
    <2> DEFINE f == [Top EXCEPT !.pc = "wake"]
    <2>1. frames' = [frames EXCEPT ![Depth] = f] /\ f.pc = "wake"
        BY <1>2, <1>7, RemovesTheFirst DEF Frame
    <2> HIDE DEF f
    <2>2. Top' = f
        BY <1>1, <1>2, <2>1, OneReplaced
    <2> QED
        BY <2>1, <2>2 DEF Named
<1>8. CASE Wake
    <2>1. Top' = Visiting(Top.sleeptraverse)
        BY <1>1, <1>2, <1>8, WakesASender, OneReplaced
    <2> QED
        BY <2>1 DEF Named, Visiting
<1>9. CASE Return
    BY <1>1, <1>2, <1>9, OnePopped DEF Return, Named
<1> QED
    BY <1>4, <1>5, <1>6, <1>7, <1>8, <1>9 DEF timer_iproc

LEMMA HandlerTurnInv ==
    ASSUME TypeInv, TurnInv, timer_iproc
    PROVE  TurnInv'
<1>1. FrameInv /\ Len(frames) <= 1 /\ ~ fault /\ Named'
    BY TurnFacts, HandlerNamed
<1>2. CASE EnqueueRequest
    <2>1. frames # <<>> /\ frames' = [frames EXCEPT ![Depth] = [Top EXCEPT !.pc = "start", !.env = NULL]]
        BY <1>1, <1>2, OneFrame DEF EnqueueRequest, At
    <2>2. Len(frames') <= 1 /\ ~ fault'
        BY <1>1, <1>2, <2>1, OneReplaced DEF EnqueueRequest
    <2> QED
        BY <1>1, <1>2, <2>2, EnqueuePlaces, EnqueueOrder DEF TurnInv
<1>3. CASE StartTraversal
    <2>1. /\ frames # <<>> /\ Top.pc \notin {"enqueue", "wake"}
          /\ frames' = [frames EXCEPT ![Depth] = Visiting(envs.head[Sleep])]
        BY <1>3 DEF StartTraversal, At
    <2>2. frames' # <<>> /\ Len(frames') <= 1 /\ Top' = Visiting(envs.head[Sleep]) /\ ~ fault'
        BY <1>1, <1>3, <2>1, OneReplaced DEF StartTraversal
    <2>3. \A x \in Env : ~ Hand(x) /\ ~ Hand(x)'
        BY <2>1, <2>2 DEF Hand, Visiting
    <2>4. PlacesInv' /\ AlarmInv'
        BY <1>3, <2>3, QuietPlaces DEF StartTraversal
    <2> QED
        BY <1>1, <1>3, <2>2, <2>4, StartOrder DEF TurnInv
<1>4. CASE Visit
    <2>1. /\ frames # <<>> /\ Top.pc \notin {"enqueue", "wake"}
          /\ \E f : /\ f.pc \notin {"enqueue", "wake"}
                    /\ frames' = [frames EXCEPT ![Depth] = f]
        <3> DEFINE e == Top.sleeptraverse
        <3>1. \/ frames' = [frames EXCEPT ![Depth] = Visiting(envs.p[e])]
              \/ frames' = [frames EXCEPT ![Depth] = Removing(e, envs.p[e])]
            BY <1>4 DEF Visit
        <3>2. /\ Visiting(envs.p[e]).pc \notin {"enqueue", "wake"}
              /\ Removing(e, envs.p[e]).pc \notin {"enqueue", "wake"}
            BY DEF Visiting, Removing
        <3>3. frames # <<>> /\ Top.pc \notin {"enqueue", "wake"}
            BY <1>4 DEF Visit, At
        <3> HIDE DEF e
        <3> QED
            BY <3>1, <3>2, <3>3
    <2>2. frames' # <<>> /\ Len(frames') <= 1 /\ Top'.pc \notin {"enqueue", "wake"} /\ ~ fault'
        BY <1>1, <1>4, <2>1, OneReplaced DEF Visit
    <2>3. \A x \in Env : ~ Hand(x) /\ ~ Hand(x)'
        BY <2>1, <2>2 DEF Hand
    <2>4. PlacesInv' /\ AlarmInv'
        BY <1>4, <2>3, QuietPlaces DEF Visit
    <2> QED
        BY <1>1, <1>4, <2>2, <2>4, VisitOrder DEF TurnInv
<1>5. CASE Remove
    <2>1. Len(frames') <= 1 /\ ~ fault'
        BY <1>1, <1>5, RemovesTheFirst, OneReplaced DEF Remove
    <2> QED
        BY <1>1, <1>5, <2>1, RemovePlaces, RemoveOrder DEF TurnInv
<1>6. CASE Wake
    <2>1. Len(frames') <= 1 /\ ~ fault'
        BY <1>1, <1>6, WakesASender, OneReplaced
    <2> QED
        BY <1>1, <1>6, <2>1, WakePlaces, WakeOrder DEF TurnInv
<1>7. CASE Return
    <2>1. frames' = <<>> /\ Top.pc \notin {"enqueue", "wake"}
        BY <1>7, ReturnOrder DEF Return, At
    <2>2. \A x \in Env : ~ Hand(x) /\ ~ Hand(x)'
        BY <2>1 DEF Hand
    <2>3. PlacesInv' /\ AlarmInv'
        BY <1>7, <2>2, QuietPlaces DEF Return
    <2>4. Len(frames') <= 1 /\ ~ fault'
        <3>1. fault' = fault
            BY <1>7 DEF Return
        <3> QED
            BY <1>1, <2>1, <3>1
    <2> QED
        BY <1>1, <1>7, <2>3, <2>4, ReturnOrder DEF TurnInv
<1> QED
    BY <1>2, <1>3, <1>4, <1>5, <1>6, <1>7 DEF timer_iproc

LEMMA NextTurnInv ==
    ASSUME InTurn, TypeInv, TurnInv, [Next]_vars
    PROVE  TurnInv'
<1>1. Len(frames) <= 1 /\ ~ fault
    BY TurnFacts
<1>2. ASSUME NEW p \in Proc, Process(p)
      PROVE  TurnInv'
    <2>1. frames' = frames /\ fault' = fault /\ frames = <<>> /\ Named'
        BY <1>2 DEF Process, receive_message, request_delay, Named
    <2> QED
        BY <1>1, <1>2, <2>1, RequestPlaces, RequestOrder, ReceivePlaces, ReceiveOrder
        DEF Process, TurnInv
<1>3. CASE Tick
    <2>1. frames = <<>>
        BY <1>3, TickAges DEF InTurn
    <2>2. Len(frames') <= 1 /\ ~ fault' /\ Named'
        BY <1>1, <1>3, <2>1, OnePushed DEF Tick, Named
    <2> QED
        BY <1>3, <2>2, TickPlaces, TickOrder DEF TurnInv
<1>4. CASE UNCHANGED vars
    <2>3. Named'
        BY <1>4, TurnFacts DEF vars, Named, Top, Depth
    <2>1. PlacesInv' /\ AlarmInv'
        BY <1>4, QuietPlaces DEF vars, Hand, Top, Depth
    <2>2. OrderInv'
        BY <1>4, TurnFacts DEF vars, OrderInv, Sleepers, Requests, Requested, Top, Depth
    <2> QED
        BY <1>1, <1>4, <2>1, <2>2, <2>3 DEF vars, TurnInv
<1> QED
    BY <1>2, <1>3, <1>4, HandlerTurnInv DEF Next

(* Where delays end in the order they were asked for and a handler returns *)
(* within a tick, sleep_Q and the timer's queue are in that order.         *)
THEOREM TurnInvariant == ASSUME InTurn PROVE Spec => [](TypeInv /\ TurnInv)
<1>1. TypeInv /\ TurnInv /\ [Next]_vars => (TypeInv /\ TurnInv)'
    BY NextTypeInv, NextTurnInv
<1> QED
    BY <1>1, InitTypeInv, InitTurnInv, PTL DEF Spec

-----------------------------------------------------------------------------
(* A delay is in one place until it rings, the queue of the timer, sleep_Q *)
(* or the hand of the handler, when delays end in the order in which they  *)
(* were asked for and a handler returns within a tick.                     *)
THEOREM DelaysAreKept == ASSUME InTurn PROVE Spec => []DelaysKept
<1>1. TypeInv /\ TurnInv => DelaysKept
    <2> SUFFICES ASSUME TypeInv, TurnInv, NEW e \in Waiting
                 PROVE  Cardinality({ q \in Queue : e \in On(envs, q) })
                        + Cardinality({ k \in DOMAIN frames :
                                          frames[k].pc \in {"enqueue", "wake"}
                                          /\ frames[k].env = e }) = 1
        BY DEF DelaysKept
    <2> DEFINE A == { q \in Queue : e \in On(envs, q) }
               B == { k \in DOMAIN frames : frames[k].pc \in {"enqueue", "wake"}
                                            /\ frames[k].env = e }
    <2>1. e \in Env /\ Pending(e)
        BY TurnFacts DEF Waiting, AlarmInv
    <2>2. \A k \in DOMAIN frames : k = 1 /\ frames # <<>> /\ frames[k] = Top
        <3>1. \A k \in DOMAIN frames : frames # <<>>
            OBVIOUS
        <3>2. frames # <<>> => DOMAIN frames = {1} /\ Top = frames[1]
            <4>1. frames # <<>> => frames \in Seq(Frame) /\ Len(frames) = 1 /\ Top = frames[1]
                BY OneFrame, TurnFacts
            <4> QED
                BY <4>1
        <3> QED
            BY <3>1, <3>2
    <2>3. CASE Hand(e)
        <3>1. A = {}
            BY <2>1, <2>3, TurnFacts DEF PlacesInv, OnNone
        <3>2. frames # <<>> /\ Top.pc \in {"enqueue", "wake"} /\ Top.env = e
            BY <2>3 DEF Hand
        <3>3. 1 \in DOMAIN frames
            BY <3>2, OneFrame, TurnFacts
        <3>4. B = {1}
            BY <2>2, <3>2, <3>3
        <3>5. Cardinality(A) = 0 /\ Cardinality(B) = 1
            BY <3>1, <3>4, FS_EmptySet, FS_Singleton
        <3> QED
            BY <3>5
    <2>4. CASE ~ Hand(e)
        <3>1. B = {}
            BY <2>2, <2>4 DEF Hand
        <3>2. PICK r \in Queue : e \in On(envs, r)
            BY <2>1, <2>4, Domains DEF Pending, Requested
        <3>3. A = {r}
            BY <3>2, TurnFacts DEF WellFormed
        <3>4. Cardinality(A) = 1 /\ Cardinality(B) = 0
            BY <3>1, <3>3, FS_EmptySet, FS_Singleton
        <3> QED
            BY <3>4
    <2> QED
        BY <2>3, <2>4
<1> QED
    BY <1>1, TurnInvariant, PTL

(* Delays ring when they are due, under the same conditions: the timer     *)
(* implements Alarms, in which no alarm rings before its time, and none    *)
(* later than by a tick for each other envelope.                           *)
THEOREM DelaysAreOnTime == ASSUME InTurn PROVE Spec => AlarmsSpec
<1>1. Init => Promise!Init
    BY DEF Init, Promise!Init
<1>2. ASSUME TypeInv, TurnInv, [Next]_vars
      PROVE  [Promise!Next]_Promise!avars
    <2>1. ASSUME NEW p \in Proc, NEW e \in Env, NEW d \in Delays,
                 NEW code \in {"WAKEUP", "COUNT_REPORT"}, request_delay(p, e, d, code)
          PROVE  [Promise!Next]_Promise!avars
        <3>1. alarm.status[e] = "off"
            BY <1>2, <2>1, TurnFacts DEF request_delay, AlarmInv
        <3>2. Ticks(d) \in { Ticks(x) : x \in Delays }
            OBVIOUS
        <3>3. CASE code = "WAKEUP"
            <4>1. alarm' = [alarm EXCEPT !.status[e] = "set", !.asked[e] = Ticks(d), !.age[e] = 0]
                BY <2>1, <3>3 DEF request_delay
            <4>2. Promise!Set(e, Ticks(d))
                BY <1>2, <3>1, <4>1, TurnFacts DEF Promise!Set, AlarmInv
            <4> QED
                BY <3>2, <4>2 DEF Promise!Next
        <3>4. CASE code # "WAKEUP"
            BY <2>1, <3>4 DEF request_delay, Promise!avars
        <3> QED
            BY <3>3, <3>4
    <2>2. ASSUME NEW p \in Proc, receive_message(p)
          PROVE  [Promise!Next]_Promise!avars
        <3>1. PICK e \in Env : /\ e \in On(envs, p)
                               /\ alarm' = [alarm EXCEPT !.status[e] = "off",
                                                         !.asked[e] = 0, !.age[e] = 0]
            BY <1>2, <2>2, PlaceDEQ, TurnFacts, Domains DEF receive_message
        <3>2. alarm.status[e] = "rung"
            BY <1>2, <3>1, TurnFacts DEF AlarmInv
        <3>3. Promise!TurnOff(e)
            BY <1>2, <3>1, <3>2, TurnFacts DEF Promise!TurnOff, AlarmInv
        <3> QED
            BY <3>3 DEF Promise!Next
    <2>3. CASE Tick
        <3>1. \A x \in Env : alarm.status[x] = "set" <=> Pending(x)
            BY <1>2, TurnFacts DEF AlarmInv
        <3>2. \A x \in Env : x \in Waiting <=> alarm.status[x] = "set"
            BY DEF Waiting
        <3>3. \A x \in Env : alarm.status[x] = "set" =>
                 /\ alarm.age[x] < alarm.asked[x] + (Cardinality(Env) - 1)
                 /\ alarm'.age[x] = alarm.age[x] + 1
            BY <1>2, <2>3, <3>1, TickOlder
        <3>4. \A x \in Env : alarm.status[x] # "set" => alarm'.age[x] = alarm.age[x]
            BY <1>2, <2>3, <3>2, TickAges
        <3>5. alarm'.age \in [Env -> Nat] /\ alarm'.status = alarm.status
              /\ alarm'.asked = alarm.asked
            BY <1>2, <2>3, TickAges
        <3>6. alarm'.age = [ a \in Env |-> IF alarm.status[a] = "set" THEN alarm.age[a] + 1
                                           ELSE alarm.age[a] ]
            BY <3>3, <3>4, <3>5
        <3>7. Promise!Tick
            BY <3>3, <3>5, <3>6 DEF Promise!Tick
        <3> QED
            BY <3>7 DEF Promise!Next
    <2>4. CASE Wake
        <3>1. PICK e \in Env : /\ frames # <<>> /\ Top.pc = "wake" /\ Top.env = e
                               /\ alarm.status[e] = "set"
                               /\ alarm' = [alarm EXCEPT !.status[e] = "rung"]
            BY <1>2, <2>4, WakesASender
        <3>2. alarm.asked[e] <= alarm.age[e]
            BY <1>2, <3>1, HandlerStage DEF Stage
        <3>3. alarm.asked[e] \in Nat /\ alarm.age[e] \in Nat
            BY <1>2, TurnFacts DEF Typed
        <3>4. Promise!Ring(e)
            BY <1>2, <3>1, <3>2, <3>3, TurnFacts DEF Promise!Ring, AlarmInv
        <3> QED
            BY <3>4 DEF Promise!Next
    <2>5. CASE EnqueueRequest \/ StartTraversal \/ Visit \/ Remove \/ Return \/ UNCHANGED vars
        BY <2>5 DEF EnqueueRequest, StartTraversal, Visit, Remove, Return, vars, Promise!avars
    <2> QED
        BY <1>2, <2>1, <2>2, <2>3, <2>4, <2>5 DEF Next, Process, timer_iproc
<1> QED
    BY <1>1, <1>2, TurnInvariant, PTL DEF Spec, AlarmsSpec, Promise!Spec
==============================================================================
